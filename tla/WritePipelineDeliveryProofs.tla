-------------------- MODULE WritePipelineDeliveryProofs --------------------
(***************************************************************************)
(* The write path delivers reliably: every step of WritePipeline is a step *)
(* of ReliableWrites or changes nothing an application can see, for every  *)
(* number of users and writes and every MAX_PENDING_WRITES.  On the way:   *)
(* no assertion kills the AsyncQueue, no promise is orphaned, no row of    *)
(* the document index dangles, no batch is sent under another user's       *)
(* token.                                                                  *)
(*                                                                         *)
(* A change of user may fall between a decision of the backend and the     *)
(* retry of the IndexedDB transaction that records it, and then all of     *)
(* this is lost.  So the theorems assume Calm: there is one user, or       *)
(* IndexedDB does not fail.                                                *)
(***************************************************************************)
EXTENDS WritePipelineProofs

Calm == NumUsers = 1 \/ MaxIdbFailures = 0

(* SyncEngine and LocalStore agree on the user; a user that the provider   *)
(* has announced has an event on the AsyncQueue that has not been handled. *)
AuthQueued(queue) == \E t \in Elems(queue) : t.kind = "auth"

FollowsUser ==
  /\ engine.user = local.user
  /\ Running =>
       /\ creds.user # engine.user => creds.changed /\ AuthQueued(tasks)
       /\ "CredentialChange" \notin rs.causes
       /\ MaxIdbFailures = 0 =>
            retryOps = <<>> /\ "IndexedDbFailed" \notin rs.causes

(* The tasks and retries that are there, in whatever order.                *)
Queued == Elems(tasks) \union Elems(retryOps)

(* The AsyncQueue is alive; once it is shut down the network stays off.    *)
NeverFails == mode # "failed" /\ (~Running => ~CanUseNetwork(rs))

(* What the backend decided of the batches written by the authors a.       *)
Decisions(a, applied, no) ==
  {b \in DOMAIN a : <<b, a[b]>> \in applied \/ b \in no}

Decided == Decisions(author, committed, refused)

(* Every undecided batch that u wrote before one in q is in q before it.   *)
InOrder(q, u, a, d) ==
  \A i \in DOMAIN q :
    q[i] # Handshake =>
      /\ q[i] \in DOMAIN a /\ a[q[i]] = u
      /\ \A e \in 1 .. q[i] - 1 :
           a[e] = u => e \in d \/ \E j \in 1 .. i - 1 : q[j] = e

(* So it is in the requests of every attempt, under its own token; a       *)
(* stream that shook hands is asked for nothing but writes.                *)
RequestsInOrder(s, a, d) ==
  \A n \in DOMAIN s.rpcs :
    /\ InOrder(s.rpcs[n].reqs, s.rpcs[n].user, a, d)
    /\ s.rpcs[n].phase = "ready" =>
         \A i \in DOMAIN s.rpcs[n].reqs : s.rpcs[n].reqs[i] # Handshake

Applied(b) == b \in DOMAIN author /\ <<b, author[b]>> \in committed

(* A task reports what the backend decided; one that records a decision is *)
(* about the first batch of its author's queue.                            *)
Truthful(t) ==
  /\ t.kind = "result" => Applied(t.batch)
  /\ t.kind = "permanent" /\ t.batch # 0 => t.batch \in refused
  /\ t.kind \in {"acknowledge", "reject"} =>
       /\ t.batch \in DOMAIN author
       /\ local.queue[author[t.batch]] # <<>>
       /\ t.batch = Head(local.queue[author[t.batch]])
       /\ IF t.kind = "acknowledge" THEN Applied(t.batch)
                                    ELSE t.batch \in refused

(* A token event is handled before any live callback of the stream.        *)
AuthFirst(s, queue) ==
  \E i \in DOMAIN queue :
    /\ queue[i].kind = "auth"
    /\ \A j \in 1 .. i - 1 : ~LiveIn(s, queue, j)

(* A live attempt has the token of the current user, or it is not open and *)
(* will be closed before it is.                                            *)
TokensMatch(s, u, changed, queue) ==
  \A n \in DOMAIN s.rpcs :
    Current(s, n) /\ s.rpcs[n].user \notin {0, u} =>
      changed /\ ~IsOpen(s) /\ AuthFirst(s, queue)

TokensHeld == Running => TokensMatch(rs, local.user, creds.changed, tasks)

(* Whoever waits, waits for the last of what was pending.                  *)
WaitsForLast(w) ==
  \A c \in w.covers :
    /\ w.batch \in DOMAIN author /\ c \in DOMAIN author
    /\ author[c] = author[w.batch] /\ c <= w.batch

(* No batch leaves a queue undecided, and nobody is told otherwise.        *)
Kept ==
  \A b \in DOMAIN author :
    b \in Elems(local.queue[author[b]]) \/ b \in Decided

Books ==
  /\ Len(promise) = Len(author)
  /\ MutationRowsBacked /\ PromisesBacked /\ Kept
  /\ \A c \in committed : c[1] \in DOMAIN author /\ c[2] = author[c[1]]
  /\ \A t \in Queued : Truthful(t)
  /\ \A w \in engine.waiters : WaitsForLast(w)

DeliveryInv ==
  /\ FollowsUser
  /\ NeverFails
  /\ Books
  /\ RequestsInOrder(rs, author, Decided)
  /\ TokensHeld

----------------------------------------------------------------------------
(* Elements of queues                                                      *)

LEMMA ElemsSteps ==
  ASSUME NEW S, NEW q \in Seq(S)
  PROVE  /\ Elems(<<>>) = {}
         /\ \A t \in S : Append(q, t) \in Seq(S)
                         /\ Elems(Append(q, t)) = Elems(q) \union {t}
         /\ q # <<>> => /\ Head(q) \in S /\ Head(q) \in Elems(q)
                        /\ Tail(q) \in Seq(S)
                        /\ Elems(q) = {Head(q)} \union Elems(Tail(q))
<1>1. Elems(<<>>) = {}
  BY DEF Elems
<1>2. ASSUME NEW t \in S
      PROVE  Append(q, t) \in Seq(S) /\ Elems(Append(q, t)) = Elems(q) \union {t}
  <2> DEFINE w == Append(q, t)
  <2>1. /\ w \in Seq(S) /\ DOMAIN w = 1 .. Len(q) + 1
        /\ \A i \in 1 .. Len(q) : w[i] = q[i]
        /\ w[Len(q) + 1] = t /\ DOMAIN q = 1 .. Len(q) /\ Len(q) \in Nat
    BY AppendProperties, LenProperties
  <2> HIDE DEF w
  <2>2. \A i \in 1 .. Len(q) + 1 : i \in 1 .. Len(q) \/ i = Len(q) + 1
    BY <2>1
  <2> QED BY <2>1, <2>2 DEF Elems, w
<1>3. ASSUME q # <<>>
      PROVE  /\ Head(q) \in S /\ Head(q) \in Elems(q) /\ Tail(q) \in Seq(S)
             /\ Elems(q) = {Head(q)} \union Elems(Tail(q))
  <2> DEFINE w == Tail(q)
  <2>1. /\ w \in Seq(S) /\ DOMAIN w = 1 .. Len(q) - 1 /\ Head(q) \in S
        /\ \A i \in 1 .. Len(q) - 1 : w[i] = q[i + 1]
        /\ Head(q) = q[1] /\ DOMAIN q = 1 .. Len(q) /\ Len(q) \in Nat
        /\ Len(q) # 0
    BY <1>3, HeadTailProperties, LenProperties, EmptySeq
  <2> HIDE DEF w
  <2>2. \A i \in 1 .. Len(q) : i = 1 \/ (i - 1 \in 1 .. Len(q) - 1
                                         /\ i = (i - 1) + 1)
    BY <2>1
  <2>3. Elems(w) = {q[i + 1] : i \in 1 .. Len(q) - 1}
    BY <2>1 DEF Elems
  <2>4. ASSUME NEW x \in Elems(q) PROVE x = q[1] \/ x \in Elems(w)
    <3>1. PICK i \in 1 .. Len(q) : x = q[i]
      BY <2>1, <2>4 DEF Elems
    <3> QED BY <2>2, <2>3, <3>1
  <2>5. ASSUME NEW x \in Elems(w) PROVE x \in Elems(q)
    <3>1. PICK i \in 1 .. Len(q) - 1 : x = q[i + 1]
      BY <2>3, <2>5
    <3>2. i + 1 \in 1 .. Len(q)
      BY <2>1
    <3> QED BY <2>1, <3>1, <3>2 DEF Elems
  <2>6. q[1] \in Elems(q)
    BY <2>1 DEF Elems
  <2> QED BY <2>1, <2>4, <2>5, <2>6 DEF w
<1> QED BY <1>1, <1>2, <1>3

(* Every answer that is due to a batch has a rank of its own, and every    *)
(* rank an answer.                                                         *)
LEMMA RanksTaken ==
  ASSUME NEW m \in Nat, NEW A, A \subseteq 1 .. m, NEW k \in 1 .. Cardinality(A)
  PROVE  \E i \in A : Rank(A, i) = k
<1> DEFINE f == [i \in A |-> Rank(A, i)]
           T == 1 .. Cardinality(A)
<1>1. IsFiniteSet(A) /\ Cardinality(A) \in Nat
  <2>1. IsFiniteSet(1 .. m) /\ A \in SUBSET (1 .. m)
    BY FS_Interval
  <2> QED BY <2>1, FS_Subset, FS_CardinalityType
<1>2. f \in [A -> T]
  BY RankType
<1>3. ASSUME NEW i \in A, NEW j \in A, i < j PROVE Rank(A, i) # Rank(A, j)
  <2> DEFINE low == {h \in A : h <= i}
             up == {h \in A : h <= j}
  <2>1. low \union {j} \subseteq up /\ j \notin low
    <3>1. i \in Nat /\ j \in Nat /\ \A h \in A : h \in Nat
      OBVIOUS
    <3>2. \A h \in A : h <= i => h <= j
      BY <1>3, <3>1
    <3>3. ~(j <= i) /\ j <= j
      BY <1>3, <3>1
    <3> QED BY <3>2, <3>3
  <2>2. IsFiniteSet(low) /\ IsFiniteSet(up)
    BY <1>1, FS_Subset
  <2> HIDE DEF low, up
  <2>3. /\ IsFiniteSet(low \union {j})
        /\ Cardinality(low \union {j}) = Cardinality(low) + 1
    BY <2>1, <2>2, FS_AddElement
  <2>4. Cardinality(low \union {j}) <= Cardinality(up)
    BY <2>1, <2>2, FS_Subset
  <2>5. Cardinality(low) \in Nat /\ Cardinality(up) \in Nat
    BY <2>2, FS_CardinalityType
  <2> QED BY <2>3, <2>4, <2>5 DEF Rank, low, up
<1>4. \A i, j \in A : f[i] = f[j] => i = j
  <2>1. \A i, j \in A : i < j \/ j < i \/ i = j
    OBVIOUS
  <2>2. \A i \in A : f[i] = Rank(A, i)
    OBVIOUS
  <2> HIDE DEF f
  <2> QED BY <1>3, <2>1, <2>2
<1> HIDE DEF f
<1>5. f \in Injection(A, T)
  BY <1>2, <1>4, Zenon DEF Injection, IsInjective
<1>6. IsFiniteSet(T) /\ Cardinality(T) = Cardinality(A)
  BY <1>1, FS_Interval
<1>7. f \in Surjection(A, T)
  <2> HIDE DEF T
  <2> QED BY <1>5, <1>6, FS_Injection
<1>8. \E i \in A : f[i] = k
  BY <1>7 DEF Surjection
<1> QED BY <1>8 DEF f

----------------------------------------------------------------------------
(* What the operators of the stream do to the attempts                     *)

(* From s to t nothing was sent: an attempt is as it was, or is no longer  *)
(* current, or is a new one without a token.                               *)
SendsNothing(s, t) ==
  /\ DOMAIN s.rpcs \subseteq DOMAIN t.rpcs
  /\ IsOpen(t) => IsOpen(s)
  /\ \A n \in DOMAIN s.rpcs :
       /\ t.rpcs[n].reqs = s.rpcs[n].reqs
       /\ t.rpcs[n].user = s.rpcs[n].user
       /\ t.rpcs[n].phase = "ready" => s.rpcs[n].phase = "ready"
       /\ Current(t, n) => Current(s, n) /\ t.closeCount = s.closeCount
  /\ \A n \in DOMAIN t.rpcs :
       n \notin DOMAIN s.rpcs =>
         /\ t.rpcs[n].reqs = <<>> /\ t.rpcs[n].user = 0
         /\ t.rpcs[n].phase # "ready"

(* Changes of the store that leave its attempts, or ask an open stream for *)
(* nothing, are silent.                                                    *)
LEMMA SilentSteps ==
  ASSUME NEW s, NEW t
  PROVE  /\ /\ t.rpcs = s.rpcs /\ t.closeCount = s.closeCount
            /\ IsOpen(t) => IsOpen(s)
            => SendsNothing(s, t)
         /\ \A w : SendsNothing(s, t) /\ SendsNothing(t, w)
                     => SendsNothing(s, w)
<1>1. ASSUME t.rpcs = s.rpcs, t.closeCount = s.closeCount,
             IsOpen(t) => IsOpen(s)
      PROVE  SendsNothing(s, t)
  BY <1>1 DEF SendsNothing, Current
<1>2. ASSUME NEW w, SendsNothing(s, t), SendsNothing(t, w)
      PROVE  SendsNothing(s, w)
  <2>1. /\ DOMAIN s.rpcs \subseteq DOMAIN w.rpcs
        /\ IsOpen(w) => IsOpen(s)
    BY <1>2 DEF SendsNothing
  <2>2. ASSUME NEW n \in DOMAIN s.rpcs
        PROVE  /\ w.rpcs[n].reqs = s.rpcs[n].reqs
               /\ w.rpcs[n].user = s.rpcs[n].user
               /\ w.rpcs[n].phase = "ready" => s.rpcs[n].phase = "ready"
               /\ Current(w, n) =>
                    Current(s, n) /\ w.closeCount = s.closeCount
    <3>1. n \in DOMAIN t.rpcs
      BY <1>2 DEF SendsNothing
    <3> QED BY <1>2, <3>1 DEF SendsNothing
  <2>3. ASSUME NEW n \in DOMAIN w.rpcs, n \notin DOMAIN s.rpcs
        PROVE  /\ w.rpcs[n].reqs = <<>> /\ w.rpcs[n].user = 0
               /\ w.rpcs[n].phase # "ready"
    <3>1. CASE n \in DOMAIN t.rpcs
      <4>1. /\ t.rpcs[n].reqs = <<>> /\ t.rpcs[n].user = 0
            /\ t.rpcs[n].phase # "ready"
        BY <1>2, <2>3, <3>1 DEF SendsNothing
      <4> QED BY <1>2, <3>1, <4>1 DEF SendsNothing
    <3>2. CASE n \notin DOMAIN t.rpcs
      BY <1>2, <3>2 DEF SendsNothing
    <3> QED BY <3>1, <3>2
  <2> QED BY <2>1, <2>2, <2>3 DEF SendsNothing
<1> QED BY <1>1, <1>2

(* Starting the stream adds an attempt that has not asked for anything.    *)
LEMMA StartStreamSilent ==
  ASSUME NEW s, StoreOK(s)
  PROVE  SendsNothing(s, StartStream(s))
<1> DEFINE fresh == [s EXCEPT !.handshake = FALSE]
           t == StartStream(s)
           r == [cc |-> s.closeCount, phase |-> "auth", user |-> 0,
                 reqs |-> <<>>]
<1>1. /\ fresh.rpcs = s.rpcs /\ fresh.closeCount = s.closeCount
      /\ fresh.state = s.state /\ fresh \in RemoteStoreType
  BY DEF StoreOK, RemoteStoreType
<1>2. CASE s.state = "Error"
  <2>1. /\ t.rpcs = s.rpcs /\ t.closeCount = s.closeCount
        /\ t.state = "Backoff"
    BY <1>2 DEF StoreOK, RemoteStoreType, StartStream, PerformBackoff
  <2> HIDE DEF t
  <2> QED BY <2>1, SilentSteps DEF IsOpen, t
<1>3. CASE s.state # "Error"
  <2>1. /\ t.rpcs = Append(s.rpcs, r) /\ t.closeCount = s.closeCount
        /\ t.state = "Starting"
    BY <1>1, <1>3 DEF StoreOK, RemoteStoreType, StartStream, Auth
  <2>2. /\ s.rpcs \in Seq(RpcType) /\ r \in RpcType
    BY DEF StoreOK, RemoteStoreType, RpcType, RpcPhases
  <2>3. /\ DOMAIN t.rpcs = 1 .. Len(s.rpcs) + 1
        /\ DOMAIN s.rpcs = 1 .. Len(s.rpcs) /\ Len(s.rpcs) \in Nat
        /\ \A n \in 1 .. Len(s.rpcs) : t.rpcs[n] = s.rpcs[n]
        /\ t.rpcs[Len(s.rpcs) + 1] = r
    <3> HIDE DEF t, r
    <3> QED BY <2>1, <2>2, AppendProperties, LenProperties
  <2>4. \A n \in DOMAIN t.rpcs :
          n \in DOMAIN s.rpcs \/ n = Len(s.rpcs) + 1
    BY <2>3
  <2>5. DOMAIN s.rpcs \subseteq DOMAIN t.rpcs
    BY <2>3
  <2>6. ~IsOpen(t)
    BY <2>1 DEF IsOpen
  <2> HIDE DEF t
  <2> QED BY <2>1, <2>3, <2>4, <2>5, <2>6 DEF SendsNothing, Current, t
<1> QED BY <1>2, <1>3

(* Closing the stream ends its attempt and asks for nothing.               *)
LEMMA CloseStreamSilent ==
  ASSUME NEW s, StoreOK(s), Past(s), NEW final \in {"Initial", "Error"}
  PROVE  SendsNothing(s, CloseStream(s, final))
<1> DEFINE shut == IF s.stream = 0
                     THEN s.rpcs
                     ELSE [s.rpcs EXCEPT ![s.stream].phase = "closed"]
           t == CloseStream(s, final)
<1>1. /\ s.rpcs \in Seq(RpcType) /\ s.closeCount \in Nat
      /\ s.stream \in DOMAIN s.rpcs \union {0}
  BY DEF StoreOK, RemoteStoreType
<1>2. /\ t.rpcs = shut /\ t.closeCount = s.closeCount + 1
      /\ t.state = final
  BY DEF CloseStream, StoreOK, RemoteStoreType
<1>3. DOMAIN shut = DOMAIN s.rpcs
  BY <1>1
<1>4. ASSUME NEW n \in DOMAIN s.rpcs
      PROVE  /\ shut[n].reqs = s.rpcs[n].reqs
             /\ shut[n].user = s.rpcs[n].user
             /\ shut[n].cc = s.rpcs[n].cc
             /\ shut[n].phase = s.rpcs[n].phase \/ shut[n].phase = "closed"
             /\ s.rpcs[n].cc \in Nat
  <2>1. s.rpcs[n] \in RpcType
    BY <1>1, ElementOfSeq, LenProperties
  <2>2. shut[n] = s.rpcs[n] \/ shut[n] = [s.rpcs[n] EXCEPT !.phase = "closed"]
    BY <1>1
  <2> HIDE DEF shut
  <2> QED BY <2>1, <2>2 DEF RpcType
<1> HIDE DEF t, shut
<1>5. ASSUME NEW n \in DOMAIN s.rpcs PROVE ~Current(t, n)
  <2>1. s.rpcs[n].phase # "closed" => s.rpcs[n].cc <= s.closeCount
    BY DEF Past
  <2>2. t.rpcs[n].phase # "closed" => s.rpcs[n].phase # "closed"
    BY <1>2, <1>4
  <2>3. t.rpcs[n].cc = s.rpcs[n].cc
    BY <1>2, <1>4
  <2> QED BY <1>1, <1>2, <1>4, <2>1, <2>2, <2>3 DEF Current
<1>6. ~IsOpen(t)
  BY <1>2 DEF IsOpen
<1>7. \A n \in DOMAIN s.rpcs :
        t.rpcs[n].phase = "ready" => s.rpcs[n].phase = "ready"
  BY <1>2, <1>4
<1> QED BY <1>2, <1>3, <1>4, <1>5, <1>6, <1>7 DEF SendsNothing, t

(* Nor does the store ask for anything when the stream is started because  *)
(* it is needed,                                                           *)
LEMMA StartIfNeededSilent ==
  ASSUME NEW s, StoreOK(s)
  PROVE  SendsNothing(s, StartIfNeeded(s))
BY StartStreamSilent, SilentSteps DEF StartIfNeeded

(* when its idle timer is,                                                 *)
LEMMA MarkIdleSilent ==
  ASSUME NEW s, StoreOK(s)
  PROVE  SendsNothing(s, MarkIdle(s))
<1>1. /\ MarkIdle(s).rpcs = s.rpcs /\ MarkIdle(s).closeCount = s.closeCount
      /\ MarkIdle(s).state = s.state
  BY DEF MarkIdle, StoreOK, RemoteStoreType
<1> QED BY <1>1, SilentSteps DEF IsOpen

(* when the network is taken down,                                         *)
LEMMA DisableNetworkInternalSilent ==
  ASSUME NEW s, StoreOK(s), Past(s)
  PROVE  SendsNothing(s, DisableNetworkInternal(s))
<1> DEFINE closed == CloseStream(s, "Initial")
           stopped == IF IsStarted(s) THEN StartIfNeeded(closed) ELSE s
           t == DisableNetworkInternal(s)
<1>1. StoreOK(closed) /\ SendsNothing(s, closed)
  BY CloseStreamOK, CloseStreamSilent DEF StreamStates
<1> HIDE DEF closed
<1>2. StoreOK(StartIfNeeded(closed)) /\ SendsNothing(s, StartIfNeeded(closed))
  BY <1>1, StartIfNeededOK, StartIfNeededSilent, SilentSteps
<1>3. StoreOK(stopped) /\ SendsNothing(s, stopped)
  BY <1>2, SilentSteps
<1>4. t = [stopped EXCEPT !.pipeline = <<>>]
  BY DEF DisableNetworkInternal, closed
<1> HIDE DEF stopped
<1>5. /\ t.rpcs = stopped.rpcs /\ t.closeCount = stopped.closeCount
      /\ t.state = stopped.state
  BY <1>3, <1>4 DEF StoreOK, RemoteStoreType
<1> HIDE DEF t
<1>6. SendsNothing(stopped, t)
  BY <1>5, SilentSteps DEF IsOpen
<1> QED BY <1>3, <1>6, SilentSteps DEF t

(* The causes, the pipeline and InhibitBackoff do not touch an attempt.    *)
LEMMA ChangedSilent ==
  ASSUME NEW s, StoreOK(s)
  PROVE  /\ \A c : SendsNothing(s, [s EXCEPT !.causes = c])
         /\ \A p : SendsNothing(s, [s EXCEPT !.pipeline = p])
         /\ SendsNothing(s, InhibitBackoff(s))
<1>1. ASSUME NEW c PROVE SendsNothing(s, [s EXCEPT !.causes = c])
  <2> DEFINE t == [s EXCEPT !.causes = c]
  <2>1. t.rpcs = s.rpcs /\ t.closeCount = s.closeCount /\ t.state = s.state
    BY DEF StoreOK, RemoteStoreType
  <2> HIDE DEF t
  <2> QED BY <2>1, SilentSteps DEF IsOpen, t
<1>2. ASSUME NEW p PROVE SendsNothing(s, [s EXCEPT !.pipeline = p])
  <2> DEFINE t == [s EXCEPT !.pipeline = p]
  <2>1. t.rpcs = s.rpcs /\ t.closeCount = s.closeCount /\ t.state = s.state
    BY DEF StoreOK, RemoteStoreType
  <2> HIDE DEF t
  <2> QED BY <2>1, SilentSteps DEF IsOpen, t
<1>3. SendsNothing(s, InhibitBackoff(s))
  <2> DEFINE t == InhibitBackoff(s)
  <2>1. t.rpcs = s.rpcs /\ t.closeCount = s.closeCount /\ t.state = "Initial"
    BY DEF InhibitBackoff, StoreOK, RemoteStoreType
  <2> HIDE DEF t
  <2> QED BY <2>1, SilentSteps DEF IsOpen, t
<1> QED BY <1>1, <1>2, <1>3

(* or taken down until a recovery.                                         *)
LEMMA DisableNetworkUntilRecoverySilent ==
  ASSUME NEW s, StoreOK(s), Sound(s)
  PROVE  LET t == DisableNetworkUntilRecovery(s)
         IN  /\ SendsNothing(s, t)
             /\ t.causes = s.causes \union {"IndexedDbFailed"}
<1> DEFINE off == [s EXCEPT !.causes = @ \union {"IndexedDbFailed"}]
<1>1. s.causes \union {"IndexedDbFailed"} \in SUBSET OfflineCauses
  BY ChangedOK DEF OfflineCauses
<1>2. /\ StoreOK(off) /\ Sound(off) /\ SendsNothing(s, off)
      /\ off.causes = s.causes \union {"IndexedDbFailed"}
  BY <1>1, ChangedOK, CausesKeep, ChangedSilent
<1>3. DisableNetworkUntilRecovery(s) = DisableNetworkInternal(off)
  BY DEF DisableNetworkUntilRecovery
<1> HIDE DEF off
<1>4. Past(off) /\ ~CanUseNetwork(off)
  BY <1>2, SoundIsPast DEF CanUseNetwork
<1>5. /\ SendsNothing(off, DisableNetworkInternal(off))
      /\ DisableNetworkInternal(off).causes = off.causes
  BY <1>2, <1>4, DisableNetworkInternalSilent, DisableNetworkInternalKeeps
<1> QED BY <1>2, <1>3, <1>5, SilentSteps

----------------------------------------------------------------------------
(* The user                                                                *)

(* What fillWritePipeline leaves noted and enqueued.                       *)
LEMMA FillEffects ==
  ASSUME NEW s, StoreOK(s), Sound(s), Quiet(s), NEW q \in Seq(BatchIds),
         NEW rest \in Seq(TaskType), NEW spent \in SpentType,
         Fill(s, q, rest, spent)
  PROVE  \/ rs'.causes = s.causes /\ tasks' = rest
         \/ /\ rs'.causes = s.causes \union {"IndexedDbFailed"}
            /\ tasks' = Append(rest, Op("probe", 0)) /\ MaxIdbFailures # 0
<1>1. CASE rs' = FillWritePipeline(s, q) /\ tasks' = rest
  BY <1>1, FillWritePipelineKeeps
<1>2. CASE /\ \E k \in 0 .. Least(MaxPending - Len(s.pipeline) - 1,
                                  Len(NextBatches(s, q))) :
                rs' = DisableNetworkUntilRecovery(
                  AddToWritePipeline(s, SubSeq(NextBatches(s, q), 1, k)))
           /\ tasks' = Append(rest, Op("probe", 0))
           /\ spent.idb < MaxIdbFailures
  <2>1. PICK k \in 0 .. Least(MaxPending - Len(s.pipeline) - 1,
                              Len(NextBatches(s, q))) :
          rs' = DisableNetworkUntilRecovery(
                  AddToWritePipeline(s, SubSeq(NextBatches(s, q), 1, k)))
    BY <1>2
  <2> DEFINE bs == SubSeq(NextBatches(s, q), 1, k)
             w == AddToWritePipeline(s, bs)
  <2>2. /\ NextBatches(s, q) \in Seq(BatchIds)
        /\ Len(NextBatches(s, q)) \in Nat /\ Len(s.pipeline) \in Nat
    BY NextBatchesType, LenProperties DEF StoreOK, RemoteStoreType
  <2>3. k \in Int /\ k <= Len(NextBatches(s, q))
    BY <2>1, <2>2, PendingAssumption DEF Least
  <2>4. bs \in Seq(BatchIds)
    BY <2>2, <2>3, SubSeqType
  <2> HIDE DEF bs
  <2>5. StoreOK(w) /\ Sound(w) /\ w.causes = s.causes
    BY <2>4, AddToWritePipelineOK, AddToWritePipelineKeeps DEF Alike
  <2>6. rs' = DisableNetworkUntilRecovery(w)
    BY <2>1 DEF bs
  <2> HIDE DEF w
  <2>7. rs'.causes = s.causes \union {"IndexedDbFailed"}
    BY <2>5, <2>6, DisableNetworkUntilRecoverySilent
  <2>8. MaxIdbFailures # 0
    <3>1. spent.idb \in Nat
      BY DEF SpentType
    <3> QED BY <1>2, <3>1
  <2> QED BY <1>2, <2>7, <2>8
<1> QED BY <1>1, <1>2 DEF Fill

(* fillWritePipeline runs, for the queue q, on a store s that is base but  *)
(* for what it no longer sends; rest is left of the AsyncQueue.            *)
FillsFrom(base, s, q, rest) ==
  /\ Sane(s) /\ Quiet(s) /\ SendsNothing(base, s)
  /\ q \in Seq(BatchIds) /\ Ascends(q) /\ Fillable(s, q)
  /\ rest \in Seq(TaskType) /\ CallbacksSound(s, rest) /\ Linked(s, rest)
  /\ \E spent \in SpentType : Fill(s, q, rest, spent)

(* With the causes c the network is used as far as it may be.              *)
Resumes(base, c, rest) ==
  \/ \E s : FillsFrom(base, s, OwnQueue', rest) /\ s.causes = c
  \/ SendsNothing(base, rs') /\ rs'.causes = c /\ tasks' = rest

(* The same from a store that has given up every attempt.                  *)
ResumesAfresh(c, rest) ==
  \E off : /\ SendsNothing(rs, off) /\ Resumes(off, c, rest)
           /\ \A n \in DOMAIN off.rpcs : ~Current(off, n)

(* Giving up every attempt first is a way to resume.                       *)
LEMMA AfreshResumes ==
  ASSUME NEW c, NEW rest, ResumesAfresh(c, rest)
  PROVE  Resumes(rs, c, rest)
<1>1. PICK off : SendsNothing(rs, off) /\ Resumes(off, c, rest)
  BY DEF ResumesAfresh
<1>2. \A s : SendsNothing(off, s) => SendsNothing(rs, s)
  BY <1>1, SilentSteps
<1>3. ASSUME NEW s, NEW q, FillsFrom(off, s, q, rest)
      PROVE  FillsFrom(rs, s, q, rest)
  BY <1>2, <1>3 DEF FillsFrom
<1> QED BY <1>1, <1>2, <1>3 DEF Resumes

(* Whatever resumes keeps the causes it was given or adds a failed         *)
(* transaction, and enqueues at most a probe.                              *)
LEMMA ResumesEffects ==
  ASSUME NEW base, NEW c, NEW rest, Resumes(base, c, rest)
  PROVE  \/ rs'.causes = c /\ tasks' = rest
         \/ /\ rs'.causes = c \union {"IndexedDbFailed"}
            /\ tasks' = Append(rest, Op("probe", 0)) /\ MaxIdbFailures # 0
BY FillEffects DEF Resumes, FillsFrom, Sane

(* enableNetworkInternal from a stopped stream.                            *)
LEMMA EnableNetworkInternalResumes ==
  ASSUME NEW base, NEW s, Sane(s), SendsNothing(base, s), ~IsStarted(s),
         s.pipeline = <<>>, NEW q \in Seq(BatchIds), Ascends(q),
         q = OwnQueue', NEW rest \in Seq(TaskType), CallbacksSound(s, rest),
         NEW spent \in SpentType, EnableNetworkInternal(s, q, rest, spent)
  PROVE  Resumes(base, s.causes, rest)
<1>1. CASE CanUseNetwork(s)
  <2> DEFINE t == InhibitBackoff(s)
  <2>1. /\ Sane(t) /\ Evolves(s, t) /\ ~IsStarted(t) /\ t.pipeline = <<>>
        /\ t.causes = s.causes
    BY ChangedStays, InhibitBackoffKeeps DEF Sane
  <2>2. SendsNothing(base, t)
    BY ChangedSilent, SilentSteps DEF Sane
  <2>3. Fill(t, q, rest, spent)
    BY <1>1 DEF EnableNetworkInternal
  <2> HIDE DEF t
  <2>4. CallbacksSound(t, rest)
    BY <2>1, CallbacksEvolve DEF Sane
  <2>5. Linked(t, rest)
    BY <2>1, <2>4, StoppedLinked DEF Sane, IsStarted, IsOpen, UnderWay
  <2>6. Quiet(t) /\ Fillable(t, q)
    BY <2>1, EmptyFillable DEF Quiet
  <2>7. FillsFrom(base, t, q, rest)
    BY <2>1, <2>2, <2>3, <2>4, <2>5, <2>6 DEF FillsFrom
  <2> QED BY <2>1, <2>7 DEF Resumes
<1>2. CASE ~CanUseNetwork(s)
  BY <1>2 DEF EnableNetworkInternal, Resumes
<1> QED BY <1>1, <1>2

(* The invariants that hold before a step, and after it.                   *)
Settled == TypeOK /\ OneStreamOneRecovery /\ PipelineInv

(* The parts of the invariants that were proved before.                    *)
LEMMA SettledParts ==
  ASSUME Settled
  PROVE  /\ TypeOK /\ OneStreamOneRecovery /\ PipelineInv
         /\ Sane(rs) /\ Quiet(rs) /\ QueuesInOrder /\ Ascends(OwnQueue)
         /\ OwnQueue \in Seq(BatchIds) /\ used \in SpentType
         /\ CallbacksSound(rs, tasks) /\ OneRecovery(rs, retryOps, tasks)
         /\ tasks \in Seq(TaskType) /\ retryOps \in Seq(TaskType)
         /\ rs.causes \subseteq OfflineCauses
         /\ Running => /\ Linked(rs, tasks) /\ Mirrors(rs, OwnQueue)
                       /\ Fillable(rs, OwnQueue)
BY InvParts, PipelineParts DEF Settled, TypeOK

(* The queue that a step leaves.                                           *)
LEMMA NextQueue ==
  ASSUME Settled'
  PROVE  OwnQueue' \in Seq(BatchIds) /\ Ascends(OwnQueue')
<1>1. local' \in LocalType /\ QueuesInOrder'
  BY DEF Settled, TypeOK, PipelineInv
<1>2. local'.user \in Users /\ local'.queue[local'.user] \in Seq(BatchIds)
  BY <1>1 DEF LocalType
<1>3. Ascends(local'.queue[local'.user])
  BY <1>1, <1>2 DEF QueuesInOrder
<1> QED BY <1>2, <1>3 DEF OwnQueue

(* Going offline sends nothing.                                            *)
LEMMA OfflineSilent ==
  ASSUME Settled, NEW c \in SUBSET OfflineCauses, c # {},
         NEW queue \in Seq(TaskType), CallbacksSound(rs, queue)
  PROVE  LET off == DisableNetworkInternal([rs EXCEPT !.causes = c])
         IN  /\ SendsNothing(rs, off) /\ off.causes = c
             /\ Sane(off) /\ ~IsStarted(off) /\ off.pipeline = <<>>
             /\ CallbacksSound(off, queue)
<1> DEFINE w == [rs EXCEPT !.causes = c]
           off == DisableNetworkInternal(w)
<1>1. Sane(rs) /\ TypeOK /\ OneStreamOneRecovery /\ StoreInv(rs)
  BY SettledParts DEF Sane
<1>2. Sane(w) /\ SendsNothing(rs, w)
  BY <1>1, ChangedStays, ChangedSilent DEF Sane
<1>3. /\ off.causes = c /\ Sane(off) /\ ~IsStarted(off)
      /\ off.pipeline = <<>> /\ CallbacksSound(off, queue)
  BY <1>1, OfflineStays
<1> HIDE DEF w
<1>4. SendsNothing(w, off)
  BY <1>2, SoundIsPast, DisableNetworkInternalSilent DEF Sane
<1> HIDE DEF off
<1>5. SendsNothing(rs, off)
  BY <1>2, <1>4, SilentSteps
<1> QED BY <1>3, <1>5 DEF off, w

(* setDoc().                                                               *)
LEMMA WriteResumes ==
  ASSUME Settled, Settled', "viewRefill" \notin Faults, Write
  PROVE  Resumes(rs, rs.causes, tasks)
<1> DEFINE q == OwnQueue
           w == OwnQueue'
           p == rs.pipeline
<1>1. /\ Sane(rs) /\ Quiet(rs) /\ Running /\ q \in Seq(BatchIds)
      /\ tasks \in Seq(TaskType) /\ CallbacksSound(rs, tasks)
      /\ Linked(rs, tasks) /\ Fillable(rs, q) /\ used \in SpentType
  BY SettledParts DEF Write
<1>2. w \in Seq(BatchIds) /\ Ascends(w)
  BY NextQueue
<1>3. w = Append(q, Len(author) + 1)
  <2>1. local \in LocalType /\ local.user \in Users
    BY SettledParts, QueuesOK DEF TypeOK
  <2> QED BY <2>1 DEF Write, OwnQueue, LocalType
<1>4. Fill(rs, w, tasks, used)
  BY <1>3 DEF Write
<1>5. SendsNothing(rs, rs)
  BY SilentSteps
<1>6. Fillable(rs, w)
  <2> HIDE DEF q, w
  <2>1. Len(author) + 1 \in BatchIds
    BY LenProperties, SettledParts DEF TypeOK, BatchIds
  <2>2. /\ Len(w) = Len(q) + 1 /\ Len(q) \in Nat
        /\ \A i \in 1 .. Len(q) : w[i] = q[i]
    BY <1>1, <1>3, <2>1, AppendProperties, LenProperties
  <2>3. p \in Seq(BatchIds) /\ Len(p) \in Nat
    BY <1>1, ChangedOK, LenProperties DEF Sane
  <2>4. ASSUME Prefix(p, q) PROVE Prefix(p, w)
    <3>1. Len(p) <= Len(q)
      BY <2>4 DEF Prefix
    <3> HIDE DEF p
    <3>2. Len(p) <= Len(w)
      BY <2>2, <2>3, <3>1
    <3>3. ASSUME NEW i \in 1 .. Len(p) PROVE p[i] = w[i]
      <4>1. i \in 1 .. Len(q)
        BY <2>2, <2>3, <3>1
      <4> QED BY <2>2, <2>4, <4>1 DEF Prefix
    <3> QED BY <3>2, <3>3 DEF Prefix
  <2> QED BY <1>1, <2>4 DEF Fillable
<1>7. FillsFrom(rs, rs, w, tasks)
  <2> HIDE DEF q, w
  <2> QED BY <1>1, <1>2, <1>4, <1>5, <1>6 DEF FillsFrom
<1> QED BY <1>7 DEF Resumes

(* enableNetwork(), connectivity.                                          *)
LEMMA NetworkCallsResume ==
  ASSUME Settled, "reenable" \notin Faults, EnableNetwork \/ ConnectivityChange
  PROVE  \E c \in SUBSET rs.causes : Resumes(rs, c, tasks)
<1>1. /\ Sane(rs) /\ Ascends(OwnQueue) /\ TypeOK /\ OneStreamOneRecovery
      /\ CallbacksSound(rs, tasks) /\ tasks \in Seq(TaskType)
      /\ OwnQueue \in Seq(BatchIds) /\ rs.causes \subseteq OfflineCauses
      /\ used \in SpentType /\ Spend(used, "toggles") \in SpentType
  BY SettledParts, SpendOK
<1>2. OwnQueue = OwnQueue'
  BY DEF EnableNetwork, ConnectivityChange, OwnQueue
<1>3. CASE EnableNetwork
  <2> DEFINE c == rs.causes \ {"UserDisabled"}
             on == [rs EXCEPT !.causes = c]
  <2>1. "UserDisabled" \in rs.causes
    BY <1>3 DEF EnableNetwork
  <2>2. ~IsStarted(rs) /\ rs.pipeline = <<>>
    BY <1>1, <2>1, InvParts DEF Follows, CanUseNetwork
  <2>3. /\ Sane(on) /\ ~IsStarted(on) /\ on.pipeline = <<>>
        /\ on.causes = c /\ CallbacksSound(on, tasks)
    <3>1. c \in SUBSET OfflineCauses
      BY <1>1
    <3> HIDE DEF c
    <3> QED BY <1>1, <2>2, <3>1, ComingBack, ChangedStays DEF Sane
  <2>4. SendsNothing(rs, on)
    BY <1>1, ChangedSilent DEF Sane
  <2>5. EnableNetworkInternal(on, OwnQueue, tasks, used)
    BY <1>3, <2>1 DEF EnableNetwork
  <2> HIDE DEF on
  <2>6. Resumes(rs, on.causes, tasks)
    BY <1>1, <1>2, <2>3, <2>4, <2>5, EnableNetworkInternalResumes
  <2> QED BY <2>3, <2>6
<1>4. CASE ConnectivityChange
  <2> DEFINE off == DisableNetworkInternal(
                      [rs EXCEPT !.causes = {"ConnectivityChange"}])
             on == [off EXCEPT !.causes = {}]
  <2>1. /\ Sane(off) /\ ~IsStarted(off) /\ SendsNothing(rs, off)
        /\ off.pipeline = <<>> /\ CallbacksSound(off, tasks)
    BY <1>1, OfflineSilent DEF OfflineCauses
  <2>2. EnableNetworkInternal(on, OwnQueue, tasks, Spend(used, "toggles"))
    BY <1>4 DEF ConnectivityChange
  <2> HIDE DEF off
  <2>3. /\ Sane(on) /\ ~IsStarted(on) /\ SendsNothing(off, on)
        /\ on.pipeline = <<>> /\ CallbacksSound(on, tasks)
        /\ on.causes = {}
    <3>1. Sane(on) /\ SendsNothing(off, on)
      BY <2>1, ChangedStays, ChangedSilent DEF Sane
    <3> QED BY <1>1, <2>1, <3>1, ComingBack DEF Sane
  <2> HIDE DEF on
  <2>4. SendsNothing(rs, on)
    BY <2>1, <2>3, SilentSteps
  <2>5. Resumes(rs, on.causes, tasks)
    BY <1>1, <1>2, <2>2, <2>3, <2>4, EnableNetworkInternalResumes
  <2> QED BY <2>3, <2>5
<1> QED BY <1>3, <1>4

(* A later session starts from the same attempts, all of them closed.      *)
LEMMA RestartResumes ==
  ASSUME Settled, Settled', Restart
  PROVE  ResumesAfresh({}, <<>>)
<1> DEFINE closed == [n \in DOMAIN rs.rpcs |->
                        [rs.rpcs[n] EXCEPT !.phase = "closed"]]
           fresh == NewRemoteStore(closed)
<1>1. rs.rpcs \in Seq(RpcType) /\ TypeOK
  BY SettledParts DEF TypeOK, RemoteStoreType
<1>2. ASSUME NEW n \in DOMAIN rs.rpcs
      PROVE  /\ closed[n] \in RpcType /\ closed[n].phase = "closed"
             /\ closed[n].reqs = rs.rpcs[n].reqs
             /\ closed[n].user = rs.rpcs[n].user
  <2>1. rs.rpcs[n] \in RpcType
    BY <1>1, ElementOfSeq, LenProperties
  <2> QED BY <2>1 DEF RpcType, RpcPhases
<1>3. closed \in Seq(RpcType)
  <2>1. DOMAIN rs.rpcs = 1 .. Len(rs.rpcs) /\ Len(rs.rpcs) \in Nat
    BY <1>1, LenProperties
  <2>2. closed \in [1 .. Len(rs.rpcs) -> RpcType]
    BY <1>2, <2>1
  <2> HIDE DEF closed
  <2> QED BY <2>1, <2>2, SeqDef
<1>4. DOMAIN closed = DOMAIN rs.rpcs
  OBVIOUS
<1> HIDE DEF closed
<1>5. /\ fresh.rpcs = closed /\ fresh.state = "Initial" /\ ~fresh.idle
      /\ fresh.stream = 0 /\ fresh.pipeline = <<>> /\ ~fresh.backoff
      /\ fresh.causes = {}
  BY DEF NewRemoteStore
<1>6. StoreOK(fresh)
  <2>1. <<>> \in Seq(BatchIds)
    BY EmptySeq
  <2> QED BY <1>3, <2>1 DEF NewRemoteStore, StoreOK, RemoteStoreType,
                            StreamStates
<1>7. CallbacksSound(fresh, <<>>) /\ <<>> \in Seq(TaskType)
  BY EmptySeq DEF CallbacksSound
<1>8. Fill(fresh, local.queue[creds.user], <<>>, Spend(used, "restarts"))
  BY DEF Restart, closed
<1>9. Spend(used, "restarts") \in SpentType
  BY SettledParts, SpendOK
<1> HIDE DEF fresh
<1>10. Phases(fresh)
  BY <1>2, <1>4, <1>5 DEF Phases, Current
<1>11. Sane(fresh) /\ Quiet(fresh) /\ ~UnderWay(fresh)
  BY <1>2, <1>4, <1>5, <1>6, <1>10
     DEF Sane, Sound, StoreInv, Drained, Quiet, IsStarted, IsOpen, UnderWay
<1>12. Linked(fresh, <<>>)
  BY <1>7, <1>11, StoppedLinked DEF Sane
<1>13. /\ SendsNothing(rs, fresh) /\ SendsNothing(fresh, fresh)
       /\ \A n \in DOMAIN fresh.rpcs : ~Current(fresh, n)
  BY <1>2, <1>4, <1>5, SilentSteps DEF SendsNothing, Current, IsOpen
<1>14. OwnQueue' = local.queue[creds.user]
  BY <1>1 DEF Restart, OwnQueue, TypeOK, LocalType
<1>15. OwnQueue' \in Seq(BatchIds) /\ Ascends(OwnQueue')
  BY NextQueue
<1> DEFINE w == OwnQueue'
<1>16. Fill(fresh, w, <<>>, Spend(used, "restarts"))
  BY <1>8, <1>14
<1>17. w \in Seq(BatchIds) /\ Ascends(w)
  BY <1>15
<1> HIDE DEF w
<1>18. FillsFrom(fresh, fresh, w, <<>>)
  BY <1>5, <1>7, <1>9, <1>11, <1>12, <1>13, <1>16, <1>17, EmptyFillable
     DEF FillsFrom
<1> QED BY <1>5, <1>13, <1>18 DEF ResumesAfresh, Resumes, w

(* The decision of the first batch of the pipeline is recorded, and more   *)
(* is sent; or IndexedDB fails and the decision is left to a retry.        *)
Decides(kind, b) ==
  /\ Running /\ tasks # <<>> /\ rs.causes = {}
  /\ rs.pipeline # <<>> /\ b = Head(rs.pipeline)
  /\ Head(tasks).kind = IF kind = "acknowledge" THEN "result" ELSE "permanent"
  /\ Head(tasks).batch = b
  /\ UNCHANGED <<creds, retryOps, author, committed, refused>>
  /\ \/ /\ Conclude(kind, b) /\ Resumes(rs, {}, Tail(tasks)) /\ mode' = mode
     \/ /\ ~Decidable(kind, b) /\ mode' = "failed"
        /\ UNCHANGED <<rs, local, engine, promise>>
        /\ tasks' = Tail(tasks)
     \/ /\ SendsNothing(rs, rs') /\ rs'.causes = {"IndexedDbFailed"}
        /\ tasks' = Append(Tail(tasks), Op(kind, b)) /\ MaxIdbFailures # 0
        /\ UNCHANGED <<local, engine, promise, mode>>

(* DecideAndRefill decides the first batch of the pipeline, from whatever  *)
(* store the stream was left in.                                           *)
LEMMA DecideAndRefillDecides ==
  ASSUME Settled, Settled', Running, "viewRefill" \notin Faults,
         tasks # <<>>, NEW kind \in {"acknowledge", "reject"},
         rs.pipeline # <<>>, rs.causes = {},
         NEW b, b = Head(rs.pipeline), Head(tasks).batch = b,
         Head(tasks).kind =
           IF kind = "acknowledge" THEN "result" ELSE "permanent",
         NEW s, Sane(s), s.causes = {}, SendsNothing(rs, s),
         s.pipeline = Tail(rs.pipeline), CallbacksSound(s, Tail(tasks)),
         Linked(s, Tail(tasks)), DecideAndRefill(kind, b, s)
  PROVE  Decides(kind, b)
<1> DEFINE rest == Tail(tasks)
           w == OwnQueue'
<1>1. /\ TypeOK /\ QueuesInOrder /\ Ascends(OwnQueue) /\ used \in SpentType
      /\ Mirrors(rs, OwnQueue) /\ OwnQueue \in Seq(BatchIds)
      /\ rest \in Seq(TaskType)
  BY SettledParts, HeadTailProperties
<1>2. /\ OwnQueue # <<>> /\ Without(OwnQueue, b) = Tail(OwnQueue)
      /\ Prefix(s.pipeline, Tail(OwnQueue)) /\ Len(s.pipeline) <= MaxPending
  <2>1. rs.pipeline = SubSeq(OwnQueue, 1, Least(MaxPending, Len(OwnQueue)))
    BY <1>1 DEF Mirrors, CanUseNetwork
  <2> DEFINE p == rs.pipeline
             q == OwnQueue
  <2>2. p # <<>> /\ q \in Seq(BatchIds) /\ Ascends(q)
        /\ p = SubSeq(q, 1, Least(MaxPending, Len(q)))
    BY <1>1, <2>1
  <2>3. b = Head(p) /\ s.pipeline = Tail(p)
    OBVIOUS
  <2> HIDE DEF p, q
  <2>4. /\ q # <<>> /\ Without(q, Head(p)) = Tail(q)
        /\ Prefix(Tail(p), Tail(q)) /\ Len(Tail(p)) <= MaxPending
    BY <2>2, FrontOfQueue
  <2> QED BY <2>3, <2>4 DEF p, q
<1> HIDE DEF rest, w
<1>3. CASE /\ Conclude(kind, b)
           /\ Fill(s, RemoveBatch(b).queue[local.user], rest, used)
           /\ UNCHANGED <<creds, retryOps, mode, author, committed, refused>>
  <2>1. local' = RemoveBatch(b)
    BY <1>3 DEF Conclude
  <2>2. w = Tail(OwnQueue) /\ RemoveBatch(b).queue[local.user] = w
    BY <1>1, <1>2, <1>3, <2>1, RemoveKeepsOrder DEF w
  <2>3. Quiet(s) /\ Fillable(s, w)
    BY <1>2, <2>2 DEF Quiet, Fillable, CanUseNetwork
  <2>4. w \in Seq(BatchIds) /\ Ascends(w)
    BY NextQueue DEF w
  <2>5. FillsFrom(rs, s, w, rest)
    BY <1>1, <1>3, <2>2, <2>3, <2>4 DEF FillsFrom, rest
  <2> QED BY <1>3, <2>5 DEF Resumes, Decides, w, rest
<1>4. CASE ~Decidable(kind, b) /\ QueueFails
  BY <1>4 DEF Decides, QueueFails
<1>5. CASE /\ UNCHANGED <<local, engine, promise>>
           /\ rs' = DisableNetworkUntilRecovery(s)
           /\ tasks' = Append(rest, Op(kind, b))
           /\ used.idb < MaxIdbFailures
           /\ UNCHANGED <<creds, retryOps, mode, author, committed, refused>>
  <2> DEFINE t == DisableNetworkUntilRecovery(s)
  <2>1. SendsNothing(s, t) /\ t.causes = s.causes \union {"IndexedDbFailed"}
    BY DisableNetworkUntilRecoverySilent DEF Sane
  <2>2. SendsNothing(rs, t)
    BY <2>1, SilentSteps
  <2>3. rs' = t
    BY <1>5
  <2> HIDE DEF t
  <2>4. MaxIdbFailures # 0
    <3>1. used.idb \in Nat
      BY <1>1 DEF SpentType
    <3> QED BY <1>5, <3>1
  <2> QED BY <1>5, <2>1, <2>2, <2>3, <2>4 DEF Decides, rest
<1> QED BY <1>3, <1>4, <1>5 DEF DecideAndRefill, rest

(* A response.                                                             *)
LEMMA OnMutationResultDecides ==
  ASSUME Settled, Settled', "viewRefill" \notin Faults, OnMutationResult
  PROVE  Decides("acknowledge", Head(rs.pipeline))
<1> DEFINE s == [rs EXCEPT !.pipeline = Tail(@)]
           rest == Tail(tasks)
<1>1. /\ Running /\ tasks # <<>> /\ Head(tasks).kind = "result"
      /\ IsLive(Head(tasks)) /\ TypeOK /\ OneStreamOneRecovery /\ PipelineInv
  BY SettledParts DEF OnMutationResult, NextTask
<1>2. /\ Sane(rs) /\ Linked(rs, tasks) /\ tasks \in Seq(TaskType)
      /\ rest \in Seq(TaskType) /\ CallbacksSound(rs, rest)
      /\ 1 \in DOMAIN tasks /\ tasks[1] = Head(tasks)
      /\ LiveIn(rs, tasks, 1) /\ 1 \in Answers(rs, tasks)
  BY <1>1, HeadCallback DEF StreamKinds
<1>3. rs.causes = {}
  BY <1>1, LiveCallback DEF StreamKinds
<1>4. rs.handshake
  BY <1>1, <1>2 DEF Linked, Calls
<1>5. /\ rs.pipeline # <<>> /\ tasks[1].batch = rs.pipeline[1]
      /\ Linked(s, rest)
  BY <1>1, <1>2, AnswerPopped DEF Sane
<1>6. DecideAndRefill("acknowledge", Head(rs.pipeline), s)
  BY <1>4, <1>5 DEF OnMutationResult
<1>7. Sane(s) /\ s.causes = {} /\ s.pipeline = Tail(rs.pipeline)
      /\ Evolves(rs, s)
  BY <1>2, <1>3, <1>4, <1>5, ShiftStays DEF Alike
<1>8. SendsNothing(rs, s)
  BY <1>2, ChangedSilent DEF Sane
<1>9. Head(rs.pipeline) = rs.pipeline[1]
  BY <1>2, <1>5, ChangedOK, HeadTailProperties DEF Sane
<1> HIDE DEF s
<1>10. CallbacksSound(s, rest)
  BY <1>2, <1>7, CallbacksEvolve DEF Sane
<1> QED BY <1>1, <1>2, <1>3, <1>5, <1>6, <1>7, <1>8, <1>9, <1>10,
           DecideAndRefillDecides

(* Ending the stream asks for nothing.                                     *)
LEMMA EndedSilent ==
  ASSUME Settled
  PROVE  SendsNothing(rs, HandleStreamClose(rs))
<1> DEFINE s == [rs EXCEPT !.stream = 0]
<1>1. Sane(rs)
  BY SettledParts
<1>2. /\ s.rpcs = rs.rpcs /\ s.closeCount = rs.closeCount
      /\ s.state = rs.state /\ StoreOK(s)
  BY <1>1 DEF Sane, StoreOK, RemoteStoreType
<1> HIDE DEF s
<1>3. SendsNothing(rs, s)
  BY <1>2, SilentSteps DEF IsOpen
<1>4. Past(s)
  BY <1>1, <1>2, SoundIsPast DEF Past, Sane
<1>5. SendsNothing(s, CloseStream(s, "Error"))
  BY <1>2, <1>4, CloseStreamSilent
<1> QED BY <1>3, <1>5, SilentSteps DEF HandleStreamClose, s

(* A permanent error after the handshake names the first batch of the      *)
(* pipeline.                                                               *)
LEMMA NamedFirst ==
  ASSUME Settled, Running, tasks # <<>>, Head(tasks).kind = "permanent",
         IsLive(Head(tasks)), rs.handshake
  PROVE  /\ rs.pipeline # <<>> /\ Head(tasks).batch = Head(rs.pipeline)
         /\ Head(rs.pipeline) = rs.pipeline[1]
<1>1. TypeOK /\ OneStreamOneRecovery /\ PipelineInv /\ Sane(rs)
  BY SettledParts
<1>2. /\ Linked(rs, tasks) /\ tasks[1] = Head(tasks)
      /\ LiveIn(rs, tasks, 1) /\ 1 \in DOMAIN tasks
      /\ tasks \in Seq(TaskType) /\ rs.pipeline \in Seq(BatchIds)
  BY <1>1, HeadCallback, ChangedOK DEF StreamKinds, Sane
<1> DEFINE A == Answers(rs, tasks)
<1>3. A = {}
  <2>1. \A j \in DOMAIN tasks : LiveIn(rs, tasks, j) => j <= 1
    BY <1>2 DEF Linked, Calls, Closing
  <2>2. \A j \in A : j \in DOMAIN tasks /\ LiveIn(rs, tasks, j)
                     /\ tasks[j].kind = "result"
    BY DEF Answers, LiveIn, StreamKinds
  <2>3. DOMAIN tasks = 1 .. Len(tasks) /\ Len(tasks) \in Nat
    BY <1>2, LenProperties
  <2> HIDE DEF A
  <2>4. \A j \in A : j = 1
    BY <2>1, <2>2, <2>3
  <2> QED BY <1>2, <2>2, <2>4
<1>4. Cardinality(A) = 0
  BY <1>3, FS_EmptySet
<1>5. /\ Cardinality(A) < Len(rs.pipeline)
      /\ tasks[1].batch = rs.pipeline[Cardinality(A) + 1]
  BY <1>2 DEF Linked, ErrorNamesNext
<1>6. rs.pipeline # <<>>
  BY <1>4, <1>5
<1>7. Head(rs.pipeline) = rs.pipeline[1]
  BY <1>2, <1>6, HeadTailProperties
<1> HIDE DEF A
<1> QED BY <1>2, <1>4, <1>5, <1>6, <1>7

(* An error ends the stream; after the handshake a permanent one rejects   *)
(* the first batch, and it is the one the backend refused.                 *)
LEMMA OnStreamCloseDecides ==
  ASSUME Settled, Settled', "viewRefill" \notin Faults,
         NEW kind \in Closing, OnStreamClose(kind)
  PROVE  \/ Decides("reject", Head(rs.pipeline))
         \/ /\ SendsNothing(rs, rs') /\ rs'.causes = rs.causes
            /\ Running /\ tasks # <<>> /\ Head(tasks).kind = kind
            /\ tasks' = Tail(tasks)
            /\ UNCHANGED <<local, engine, creds, retryOps, mode, author,
                           promise, committed, refused>>
<1> DEFINE closed == HandleStreamClose(rs)
           rest == Tail(tasks)
<1>1. /\ Running /\ tasks # <<>> /\ Head(tasks).kind = kind
      /\ IsLive(Head(tasks)) /\ TypeOK /\ OneStreamOneRecovery /\ PipelineInv
  BY SettledParts DEF OnStreamClose, NextTask
<1>2. rest \in Seq(TaskType)
  BY <1>1, SettledParts, HeadTailProperties
<1>3. /\ Sane(closed) /\ ~IsStarted(closed) /\ Evolves(rs, closed)
      /\ closed.causes = {} /\ closed.pipeline = rs.pipeline
      /\ CallbacksSound(closed, rest) /\ Linked(closed, rest)
  BY <1>1, EndedStays
<1>4. rs.causes = {}
  BY <1>1, LiveCallback DEF Closing, StreamKinds
<1>5. SendsNothing(rs, closed)
  BY EndedSilent
<1>6. CASE kind = "permanent" /\ rs.handshake
  <2> DEFINE shifted == [closed EXCEPT !.pipeline = Tail(@)]
             s == InhibitBackoff(shifted)
  <2>1. /\ rs.pipeline # <<>> /\ Head(tasks).batch = Head(rs.pipeline)
    BY <1>1, <1>6, NamedFirst
  <2>2. DecideAndRefill("reject", Head(rs.pipeline), s)
    BY <1>6, <2>1 DEF OnStreamClose
  <2> HIDE DEF closed
  <2>3. /\ Sane(shifted) /\ Evolves(closed, shifted) /\ Alike(closed, shifted)
        /\ shifted.pipeline = Tail(rs.pipeline) /\ ~IsStarted(shifted)
    BY <1>3, <2>1, ShiftStays
  <2>4. shifted.causes = {}
    BY <1>3, <2>3 DEF Alike
  <2>5. SendsNothing(closed, shifted)
    BY <1>3, ChangedSilent DEF Sane
  <2> HIDE DEF shifted
  <2>6. Sane(s)
    BY <2>3, ChangedStays
  <2>7. /\ Evolves(shifted, s) /\ ~IsStarted(s)
        /\ s.causes = {} /\ s.pipeline = Tail(rs.pipeline)
    BY <2>3, <2>4, InhibitBackoffKeeps DEF Sane
  <2>8. SendsNothing(shifted, s)
    BY <2>3, ChangedSilent DEF Sane
  <2> HIDE DEF s
  <2>9. SendsNothing(rs, s)
    BY <1>5, <2>5, <2>8, SilentSteps
  <2>10. CallbacksSound(s, rest)
    <3>1. CallbacksSound(shifted, rest)
      BY <1>2, <1>3, <2>3, CallbacksEvolve DEF Sane
    <3> QED BY <1>2, <2>3, <2>6, <2>7, <3>1, CallbacksEvolve DEF Sane
  <2>11. Linked(s, rest)
    <3>1. ~UnderWay(s)
      BY <2>7 DEF UnderWay, IsStarted, IsOpen
    <3> QED BY <2>6, <2>10, <3>1, StoppedLinked DEF Sane
  <2> QED BY <1>1, <1>4, <1>6, <2>1, <2>2, <2>6, <2>7, <2>9, <2>10, <2>11,
             DecideAndRefillDecides
<1>7. CASE ~(kind = "permanent" /\ rs.handshake)
  <2> DEFINE t == StartIfNeeded(closed)
  <2>1. /\ rs' = t /\ tasks' = rest
        /\ UNCHANGED <<local, engine, creds, retryOps, mode, author,
                       promise, committed, refused>>
    BY <1>7 DEF OnStreamClose
  <2> HIDE DEF closed, rest
  <2>2. SendsNothing(closed, t) /\ t.causes = closed.causes
    BY <1>3, StartIfNeededSilent, StartIfNeededKeeps DEF Sane
  <2> HIDE DEF t
  <2>3. SendsNothing(rs, rs') /\ rs'.causes = rs.causes
    BY <1>3, <1>4, <1>5, <2>1, <2>2, SilentSteps
  <2> QED BY <1>1, <2>1, <2>3 DEF rest
<1> QED BY <1>6, <1>7

(* retryNextOp runs with the operations ops while rest is left of the      *)
(* AsyncQueue: the task appends its operation, the timer does not.         *)
Retrying(ops, rest) ==
  /\ Running
  /\ ops \in Seq(TaskType) /\ ops # <<>> /\ rest \in Seq(TaskType)
  /\ CallbacksSound(rs, rest) /\ OneRecovery(rs, ops, rest)
  /\ \/ /\ ops = Append(retryOps, Head(tasks)) /\ rest = Tail(tasks)
        /\ tasks # <<>> /\ Head(tasks).kind \in OpKinds
     \/ ops = retryOps /\ rest = tasks
  /\ RetryNextOp(ops, rest)

(* Both ways to run a retry are one.                                       *)
LEMMA RetriesRetry ==
  ASSUME Settled, RunRetryTask \/ RetryTimer
  PROVE  \E ops, rest : Retrying(ops, rest)
<1>1. /\ Running /\ tasks \in Seq(TaskType) /\ retryOps \in Seq(TaskType)
      /\ CallbacksSound(rs, tasks) /\ OneRecovery(rs, retryOps, tasks)
  BY SettledParts DEF RunRetryTask, RetryTimer
<1>2. CASE RunRetryTask
  <2> DEFINE ops == Append(retryOps, Head(tasks))
             rest == Tail(tasks)
  <2>1. /\ tasks # <<>> /\ Head(tasks).kind \in OpKinds
        /\ RetryNextOp(ops, rest)
    BY <1>2 DEF RunRetryTask
  <2>2. Head(tasks) \in TaskType /\ rest \in Seq(TaskType)
    BY <1>1, <2>1, HeadTailProperties
  <2>3. ops \in Seq(TaskType) /\ ops # <<>>
    BY <1>1, <2>2, AppendProperties
  <2>4. CallbacksSound(rs, rest) /\ OneRecovery(rs, ops, rest)
    BY <1>1, <2>1, CallbacksTail, RecoveryMoves
  <2>5. Retrying(ops, rest)
    BY <1>1, <2>1, <2>2, <2>3, <2>4 DEF Retrying
  <2> QED BY <2>5
<1>3. CASE RetryTimer
  <2>1. retryOps # <<>> /\ RetryNextOp(retryOps, tasks)
    BY <1>3 DEF RetryTimer
  <2>2. Retrying(retryOps, tasks)
    BY <1>1, <2>1 DEF Retrying
  <2> QED BY <2>2
<1> QED BY <1>2, <1>3

(* The decision that IndexedDB could not record is recorded now, or only   *)
(* the network comes back, or IndexedDB fails again.                       *)
Recovers(ops, rest) ==
  LET kind == Head(ops).kind
      b == Head(ops).batch
  IN  /\ kind \in {"acknowledge", "reject", "probe"}
      /\ "IndexedDbFailed" \in rs.causes
      /\ UNCHANGED <<creds, author, committed, refused>>
      /\ \/ /\ Resumes(rs, rs.causes \ {"IndexedDbFailed"}, rest)
            /\ retryOps' = Tail(ops) /\ mode' = mode
            /\ IF kind = "probe" THEN UNCHANGED <<local, engine, promise>>
                                 ELSE Conclude(kind, b)
         \/ /\ kind # "probe" /\ ~Decidable(kind, b) /\ mode' = "failed"
            /\ UNCHANGED <<rs, local, engine, promise>>
            /\ retryOps' = ops /\ tasks' = rest
         \/ /\ UNCHANGED <<rs, local, engine, promise, mode>>
            /\ retryOps' = ops /\ tasks' = rest

(* What a retried recovery does to the store.                              *)
LEMMA RecoveryRecovers ==
  ASSUME Settled, Settled', "viewRefill" \notin Faults,
         NEW ops, NEW rest, Retrying(ops, rest), RetryRecovery(ops, rest)
  PROVE  Recovers(ops, rest)
<1> DEFINE back == [rs EXCEPT !.causes = @ \ {"IndexedDbFailed"}]
           b == Head(ops).batch
           kind == Head(ops).kind
           w == OwnQueue'
<1>1. /\ Sane(rs) /\ TypeOK /\ QueuesInOrder /\ OneStreamOneRecovery
      /\ used \in SpentType /\ rs.causes \subseteq OfflineCauses
  BY SettledParts
<1>2. "IndexedDbFailed" \in rs.causes
  <2>1. RecoversIn(ops, 1)
    BY QueueSteps DEF Retrying, RetryRecovery, RecoversIn
  <2> QED BY <2>1, RecoveryEnds DEF Retrying
<1>3. ~IsStarted(rs) /\ rs.pipeline = <<>>
  BY <1>1, <1>2, InvParts DEF Follows, CanUseNetwork
<1>4. /\ ~IsStarted(back) /\ back.pipeline = <<>>
      /\ CallbacksSound(back, rest) /\ Sane(back)
      /\ back.causes = rs.causes \ {"IndexedDbFailed"}
  <2>1. rs.causes \ {"IndexedDbFailed"} \in SUBSET OfflineCauses
    BY <1>1
  <2>2. Sane(back)
    BY <1>1, <2>1, ChangedStays
  <2> QED BY <1>1, <1>3, <2>1, <2>2, ComingBack DEF Sane, Retrying
<1>5. SendsNothing(rs, back)
  BY <1>1, ChangedSilent DEF Sane
<1>6. w \in Seq(BatchIds) /\ Ascends(w)
  BY NextQueue
<1>7. UNCHANGED <<creds, author, committed, refused>>
      /\ kind \in {"acknowledge", "reject", "probe"}
  BY DEF RetryRecovery
<1> HIDE DEF back, w
<1>8. ASSUME EnableNetworkInternal(back, w, rest, used)
      PROVE  Resumes(rs, rs.causes \ {"IndexedDbFailed"}, rest)
  <2>1. rest \in Seq(TaskType)
    BY DEF Retrying
  <2>2. Resumes(rs, back.causes, rest)
    BY <1>1, <1>3, <1>4, <1>5, <1>6, <1>8, <2>1, EnableNetworkInternalResumes
       DEF w
  <2> QED BY <1>4, <2>2
<1>9. CASE /\ Conclude(kind, b) /\ kind # "probe"
           /\ EnableNetworkInternal(back, RemoveBatch(b).queue[local.user],
                                    rest, used)
           /\ retryOps' = Tail(ops) /\ UNCHANGED mode
  <2>1. local' = RemoveBatch(b)
    BY <1>9 DEF Conclude
  <2>2. RemoveBatch(b).queue[local.user] = w
    BY <1>1, <1>7, <2>1, RemoveKeepsOrder DEF w
  <2>3. EnableNetworkInternal(back, w, rest, used)
    BY <1>9, <2>2
  <2>4. Resumes(rs, rs.causes \ {"IndexedDbFailed"}, rest)
    BY <1>8, <2>3
  <2> QED BY <1>2, <1>7, <1>9, <2>4 DEF Recovers
<1>10. CASE /\ kind = "probe" /\ EnableNetworkInternal(back, OwnQueue, rest, used)
            /\ retryOps' = Tail(ops)
            /\ UNCHANGED <<local, engine, promise, mode>>
  <2>1. OwnQueue = w
    BY <1>10 DEF OwnQueue, w
  <2>2. EnableNetworkInternal(back, w, rest, used)
    BY <1>10, <2>1
  <2>3. Resumes(rs, rs.causes \ {"IndexedDbFailed"}, rest)
    BY <1>8, <2>2
  <2> QED BY <1>2, <1>7, <1>10, <2>3 DEF Recovers
<1>11. CASE \/ /\ kind # "probe" /\ ~Decidable(kind, b) /\ mode' = "failed"
               /\ UNCHANGED <<rs, local, engine, promise>>
               /\ retryOps' = ops /\ tasks' = rest
            \/ /\ UNCHANGED <<rs, local, engine, promise, mode>>
               /\ retryOps' = ops /\ tasks' = rest
  BY <1>2, <1>7, <1>11 DEF Recovers
<1> QED BY <1>9, <1>10, <1>11 DEF RetryRecovery, IdbFailsAgain, back

(* The stream is down while the queue of the user u is taken.              *)
Switches(u, ops, rest) ==
  /\ local' = [local EXCEPT !.user = u]
  /\ engine'.user = u /\ engine'.callbacks = engine.callbacks
  /\ engine'.waiters \subseteq engine.waiters
  /\ retryOps' = Tail(ops)
  /\ ResumesAfresh(rs.causes \ {"CredentialChange"}, rest)
  /\ UNCHANGED <<mode, author, promise, committed, refused>>

(* What a change of credentials does, where Calm leaves it no transaction  *)
(* that fails.                                                             *)
LEMMA CredentialChangeSwitches ==
  ASSUME Settled, Settled', Calm, FollowsUser, NEW u \in Users,
         NEW ops, NEW rest, Retrying(ops, rest),
         HandleCredentialChange(u, ops, rest),
         UNCHANGED <<mode, author, promise, committed, refused>>
  PROVE  Switches(u, ops, rest)
<1> DEFINE c == rs.causes \union {"CredentialChange"}
           off == DisableNetworkInternal([rs EXCEPT !.causes = c])
           on == [off EXCEPT !.causes = @ \ {"CredentialChange"}]
           w == OwnQueue'
<1>1. /\ TypeOK /\ used \in SpentType /\ rs.causes \subseteq OfflineCauses
      /\ rest \in Seq(TaskType) /\ CallbacksSound(rs, rest)
      /\ local \in LocalType /\ engine \in EngineType
      /\ engine.user = local.user
  BY SettledParts DEF Retrying, TypeOK, FollowsUser
<1>2. c \in SUBSET OfflineCauses /\ c # {}
  BY <1>1 DEF OfflineCauses
<1> HIDE DEF c
<1>3. /\ Sane(off) /\ ~IsStarted(off) /\ off.pipeline = <<>>
      /\ off.causes = c /\ CallbacksSound(off, rest)
      /\ SendsNothing(rs, off)
  BY <1>1, <1>2, OfflineSilent
<1> HIDE DEF off
<1>4. \A n \in DOMAIN off.rpcs : ~Current(off, n)
  BY <1>3 DEF Sane, Sound, UnderWay, IsStarted, IsOpen, Current
<1>5. on.causes = rs.causes \ {"CredentialChange"}
  BY <1>3 DEF Sane, StoreOK, RemoteStoreType, c
<1>6. /\ Sane(on) /\ ~IsStarted(on) /\ on.pipeline = <<>>
      /\ CallbacksSound(on, rest)
  <2>1. off.causes \ {"CredentialChange"} \in SUBSET OfflineCauses
    BY <1>2, <1>3
  <2>2. Sane(on)
    BY <1>3, <2>1, ChangedStays
  <2> QED BY <1>1, <1>3, <2>1, <2>2, ComingBack DEF Sane
<1>7. SendsNothing(off, on)
  BY <1>3, ChangedSilent DEF Sane
<1> HIDE DEF on
<1>8. ~(u # engine.user /\ IdbFailsAgain(ops, rest))
  <2>1. ASSUME NumUsers = 1 PROVE u = engine.user
    <3>1. u \in 1 .. 1 /\ engine.user \in 1 .. 1
      BY <1>1, <2>1 DEF EngineType, Users
    <3> QED BY <3>1
  <2>2. ASSUME MaxIdbFailures = 0 PROVE ~(used.idb < MaxIdbFailures)
    <3>1. used.idb \in Nat
      BY <1>1 DEF SpentType
    <3> QED BY <2>2, <3>1
  <2> QED BY <2>1, <2>2 DEF Calm, IdbFailsAgain
<1>9. /\ local' = [local EXCEPT !.user = u]
      /\ engine'.user = u /\ engine'.callbacks = engine.callbacks
      /\ engine'.waiters \subseteq engine.waiters
      /\ EnableNetworkInternal(on, local.queue[u], rest, used)
      /\ retryOps' = Tail(ops)
  <2>1. ASSUME u = engine.user, UNCHANGED <<local, engine>>
        PROVE  /\ local' = [local EXCEPT !.user = u] /\ engine'.user = u
               /\ engine'.callbacks = engine.callbacks
               /\ engine'.waiters \subseteq engine.waiters
               /\ OwnQueue = local.queue[u]
    BY <1>1, <2>1 DEF LocalType, OwnQueue
  <2>2. ASSUME engine' = [engine EXCEPT !.user = u, !.waiters = {}]
        PROVE  /\ engine'.user = u /\ engine'.callbacks = engine.callbacks
               /\ engine'.waiters \subseteq engine.waiters
    BY <1>1, <2>2 DEF EngineType
  <2> QED BY <1>8, <2>1, <2>2 DEF HandleCredentialChange, on, off, c
<1>10. w = local.queue[u]
  BY <1>1, <1>9 DEF OwnQueue, LocalType, w
<1>11. w \in Seq(BatchIds) /\ Ascends(w)
  BY NextQueue DEF w
<1>12. EnableNetworkInternal(on, w, rest, used)
  BY <1>9, <1>10
<1> HIDE DEF w
<1>13. Resumes(off, on.causes, rest)
  BY <1>1, <1>6, <1>7, <1>11, <1>12, EnableNetworkInternalResumes DEF w
<1>14. ResumesAfresh(rs.causes \ {"CredentialChange"}, rest)
  BY <1>3, <1>4, <1>5, <1>13 DEF ResumesAfresh
<1> QED BY <1>9, <1>14 DEF Switches

(* The step changes no user and handles no token event.                    *)
KeepsUser ==
  /\ engine'.user = engine.user /\ local'.user = local.user
  /\ creds' = creds
  /\ Running' => Running
  /\ Running' /\ AuthQueued(tasks) => AuthQueued(tasks')
  /\ "CredentialChange" \in rs'.causes => "CredentialChange" \in rs.causes
  /\ MaxIdbFailures = 0 =>
       /\ retryOps = <<>> => retryOps' = <<>>
       /\ "IndexedDbFailed" \in rs'.causes => "IndexedDbFailed" \in rs.causes

(* A step that keeps the user keeps the agreement about it.                *)
LEMMA KeepsUserStep ==
  ASSUME FollowsUser, KeepsUser
  PROVE  FollowsUser'
BY DEF FollowsUser, KeepsUser, Running

(* Token events stay queued while other tasks come and go.                 *)
LEMMA AuthStays ==
  ASSUME NEW queue \in Seq(TaskType), AuthQueued(queue)
  PROVE  /\ \A t \in TaskType : AuthQueued(Append(queue, t))
         /\ queue # <<>> /\ Head(queue).kind # "auth" =>
              /\ AuthQueued(Tail(queue))
              /\ \A t \in TaskType : AuthQueued(Append(Tail(queue), t))
<1>1. ASSUME NEW w \in Seq(TaskType), AuthQueued(w), NEW t \in TaskType
      PROVE  AuthQueued(Append(w, t))
  <2>1. Elems(Append(w, t)) = Elems(w) \union {t}
    BY ElemsSteps
  <2> QED BY <1>1, <2>1 DEF AuthQueued
<1>2. ASSUME queue # <<>>, Head(queue).kind # "auth"
      PROVE  Tail(queue) \in Seq(TaskType) /\ AuthQueued(Tail(queue))
  <2>1. /\ Tail(queue) \in Seq(TaskType)
        /\ Elems(queue) = {Head(queue)} \union Elems(Tail(queue))
    BY <1>2, ElemsSteps
  <2> QED BY <1>2, <2>1 DEF AuthQueued
<1> QED BY <1>1, <1>2

(* Retryable operations are tasks.                                         *)
LEMMA OpsTyped ==
  /\ \A kind \in {"acknowledge", "reject"} : \A b \in BatchIds :
       Op(kind, b) \in TaskType
  /\ Op("probe", 0) \in TaskType /\ Op("auth", 0) \in TaskType
  /\ Op("appCheck", 0) \in TaskType
BY OpOK DEF OpKinds, BatchIds

(* Whatever refills the pipeline follows the user.                         *)
LEMMA ResumesKeepsUser ==
  ASSUME NEW base, NEW c, c \subseteq rs.causes,
         NEW rest \in Seq(TaskType), Resumes(base, c, rest),
         AuthQueued(tasks) => AuthQueued(rest), Running,
         engine'.user = engine.user, local'.user = local.user, creds' = creds,
         MaxIdbFailures = 0 /\ retryOps = <<>> => retryOps' = <<>>
  PROVE  KeepsUser
<1>1. \/ rs'.causes = c /\ tasks' = rest
      \/ /\ rs'.causes = c \union {"IndexedDbFailed"}
         /\ tasks' = Append(rest, Op("probe", 0)) /\ MaxIdbFailures # 0
  BY ResumesEffects
<1>2. AuthQueued(rest) => AuthQueued(Append(rest, Op("probe", 0)))
  BY AuthStays, OpsTyped
<1>3. AuthQueued(tasks) => AuthQueued(tasks')
  BY <1>1, <1>2
<1>4. "CredentialChange" \in rs'.causes => "CredentialChange" \in rs.causes
  BY <1>1
<1>5. MaxIdbFailures = 0 =>
        ("IndexedDbFailed" \in rs'.causes => "IndexedDbFailed" \in rs.causes)
  BY <1>1
<1> QED BY <1>3, <1>4, <1>5 DEF KeepsUser

(* The calls of the application and of the platform.                       *)
LEMMA CallsFollowUser ==
  ASSUME Settled, Settled', "reenable" \notin Faults,
         "viewRefill" \notin Faults, FollowsUser, Application
  PROVE  FollowsUser'
<1>1. /\ tasks \in Seq(TaskType) /\ rs.causes \subseteq OfflineCauses
      /\ local \in LocalType /\ engine \in EngineType /\ Sane(rs)
      /\ CallbacksSound(rs, tasks)
  BY SettledParts DEF TypeOK
<1>2. CASE Write
  <2>1. Resumes(rs, rs.causes, tasks)
    BY <1>2, WriteResumes
  <2>2. /\ engine'.user = engine.user /\ local'.user = local.user
        /\ creds' = creds /\ Running /\ retryOps' = retryOps
    BY <1>1, <1>2 DEF Write, LocalType, EngineType
  <2>3. KeepsUser
    BY <1>1, <2>1, <2>2, ResumesKeepsUser
  <2> QED BY <2>3, KeepsUserStep
<1>3. CASE WaitForPendingWrites
  <2>1. engine'.user = engine.user
    BY <1>1, <1>3 DEF WaitForPendingWrites, EngineType
  <2>2. KeepsUser
    BY <1>3, <2>1 DEF WaitForPendingWrites, KeepsUser, Running
  <2> QED BY <2>2, KeepsUserStep
<1>4. CASE EnableNetwork \/ ConnectivityChange
  <2>1. PICK c \in SUBSET rs.causes : Resumes(rs, c, tasks)
    BY <1>4, NetworkCallsResume
  <2>2. /\ engine' = engine /\ local' = local /\ creds' = creds
        /\ Running /\ retryOps' = retryOps
    BY <1>4 DEF EnableNetwork, ConnectivityChange
  <2>3. KeepsUser
    BY <1>1, <2>1, <2>2, ResumesKeepsUser
  <2> QED BY <2>3, KeepsUserStep
<1>5. CASE DisableNetwork
  <2> DEFINE c == rs.causes \union {"UserDisabled"}
  <2>1. c \in SUBSET OfflineCauses /\ c # {}
    BY <1>1 DEF OfflineCauses
  <2>2. rs' = DisableNetworkInternal([rs EXCEPT !.causes = c])
    BY <1>5 DEF DisableNetwork
  <2> HIDE DEF c
  <2>3. rs'.causes = c
    BY <1>1, <2>1, <2>2, OfflineSilent
  <2>4. KeepsUser
    BY <1>5, <2>3 DEF DisableNetwork, KeepsUser, Running, c
  <2> QED BY <2>4, KeepsUserStep
<1>6. CASE \E u \in Users : AuthTokenChanged(u)
  <2>1. PICK u \in Users : AuthTokenChanged(u)
    BY <1>6
  <2>2. /\ tasks' = Append(tasks, Op("auth", 0)) /\ creds'.changed = TRUE
        /\ UNCHANGED <<rs, local, engine, retryOps, mode>>
    BY <2>1 DEF AuthTokenChanged
  <2>3. AuthQueued(tasks')
    <3>1. Op("auth", 0) \in Elems(tasks') /\ Op("auth", 0).kind = "auth"
      BY <1>1, <2>2, ElemsSteps, OpsTyped DEF Op
    <3> QED BY <3>1 DEF AuthQueued
  <2> QED BY <2>2, <2>3 DEF FollowsUser, Running
<1>7. CASE AppCheckTokenChanged
  <2>1. AuthQueued(tasks) => AuthQueued(tasks')
    BY <1>1, <1>7, AuthStays, OpsTyped DEF AppCheckTokenChanged
  <2>2. KeepsUser
    BY <1>7, <2>1 DEF AppCheckTokenChanged, KeepsUser, Running
  <2> QED BY <2>2, KeepsUserStep
<1>8. CASE Terminate
  BY <1>8 DEF Terminate, FollowsUser, Running
<1>9. CASE Restart
  <2>1. Resumes(rs, {}, <<>>)
    BY <1>9, RestartResumes, AfreshResumes
  <2>2. /\ "CredentialChange" \notin rs'.causes
        /\ MaxIdbFailures = 0 => "IndexedDbFailed" \notin rs'.causes
    BY <2>1, ResumesEffects
  <2>3. /\ engine'.user = creds.user /\ local'.user = creds.user
        /\ retryOps' = <<>>
    BY <1>1, <1>9 DEF Restart, LocalType
  <2>4. creds'.user = creds.user
    <3>1. creds \in [user : Users, changed : BOOLEAN]
      BY SettledParts DEF TypeOK
    <3> QED BY <1>9, <3>1 DEF Restart
  <2> QED BY <2>2, <2>3, <2>4 DEF FollowsUser
<1> QED BY <1>2, <1>3, <1>4, <1>5, <1>6, <1>7, <1>8, <1>9 DEF Application

(* The task at the head makes way, unless it is a token event.             *)
LEMMA TailKeepsAuth ==
  ASSUME Settled, tasks # <<>>, Head(tasks).kind # "auth"
  PROVE  /\ Tail(tasks) \in Seq(TaskType)
         /\ AuthQueued(tasks) => AuthQueued(Tail(tasks))
         /\ \A t \in TaskType :
              AuthQueued(tasks) => AuthQueued(Append(Tail(tasks), t))
<1>1. tasks \in Seq(TaskType)
  BY SettledParts
<1> QED BY <1>1, AuthStays, HeadTailProperties

(* The callbacks of the stream.                                            *)
LEMMA DecidesKeepsUser ==
  ASSUME Settled, NEW kind \in {"acknowledge", "reject"},
         Decides(kind, Head(rs.pipeline))
  PROVE  KeepsUser
<1> DEFINE b == Head(rs.pipeline)
<1>1. /\ local \in LocalType /\ engine \in EngineType /\ TypeOK
      /\ rs.pipeline \in Seq(BatchIds)
  BY SettledParts, ChangedOK DEF TypeOK, Sane
<1>2. /\ Running /\ tasks # <<>> /\ Head(tasks).kind # "auth"
      /\ UNCHANGED <<creds, retryOps>> /\ rs.causes = {}
      /\ b \in BatchIds
  BY <1>1, HeadTailProperties DEF Decides
<1>3. /\ Tail(tasks) \in Seq(TaskType)
      /\ AuthQueued(tasks) => AuthQueued(Tail(tasks))
      /\ AuthQueued(tasks) => AuthQueued(Append(Tail(tasks), Op(kind, b)))
  BY <1>2, TailKeepsAuth, OpsTyped
<1>4. CASE Conclude(kind, b) /\ Resumes(rs, {}, Tail(tasks))
  <2>1. engine'.user = engine.user /\ local'.user = local.user
    BY <1>1, <1>4 DEF Conclude, RemoveBatch, LocalType, EngineType
  <2> HIDE DEF b
  <2> QED BY <1>2, <1>3, <1>4, <2>1, ResumesKeepsUser
<1>5. CASE mode' = "failed" /\ UNCHANGED <<rs, local, engine, retryOps>>
  BY <1>2, <1>5 DEF KeepsUser, Running
<1>6. CASE /\ rs'.causes = {"IndexedDbFailed"} /\ MaxIdbFailures # 0
           /\ tasks' = Append(Tail(tasks), Op(kind, b))
           /\ UNCHANGED <<local, engine, mode>>
  BY <1>2, <1>3, <1>6 DEF KeepsUser, Running
<1> QED BY <1>4, <1>5, <1>6 DEF Decides

(* Stream callbacks change no user.                                        *)
LEMMA CallbacksFollowUser ==
  ASSUME Settled, Settled', "viewRefill" \notin Faults, FollowsUser,
         StreamCallback
  PROVE  FollowsUser'
<1>1. ASSUME Running, tasks # <<>>, Head(tasks).kind \in StreamKinds,
             UNCHANGED <<local, engine, creds, retryOps>>,
             rs'.causes = rs.causes, tasks' = Tail(tasks)
      PROVE  FollowsUser'
  <2>1. AuthQueued(tasks) => AuthQueued(tasks')
    BY <1>1, TailKeepsAuth DEF StreamKinds
  <2>2. KeepsUser
    BY <1>1, <2>1 DEF KeepsUser
  <2> QED BY <2>2, KeepsUserStep
<1>2. ASSUME QueueFails PROVE FollowsUser'
  BY <1>2 DEF QueueFails, FollowsUser, Running
<1>3. StoreOK(rs) /\ rs.pipeline \in Seq(Nat)
  <2>1. StoreOK(rs) /\ rs.pipeline \in Seq(BatchIds)
    BY SettledParts, ChangedOK DEF Sane
  <2> QED BY <2>1 DEF BatchIds
<1>4. CASE SkipStaleCallback
  BY <1>1, <1>4 DEF SkipStaleCallback
<1>5. CASE OnOpen
  <2> DEFINE s == [rs EXCEPT !.state = "Open"]
  <2>1. StoreOK(s) /\ s.causes = rs.causes
    BY <1>3, ChangedOK DEF StreamStates, StoreOK, RemoteStoreType
  <2> HIDE DEF s
  <2>2. <<Handshake>> \in Seq(Nat)
    BY DEF Handshake
  <2>3. Send(s, <<Handshake>>).causes = rs.causes
    BY <2>1, <2>2, SendKeeps DEF Alike
  <2> QED BY <1>1, <1>5, <2>3 DEF OnOpen, NextTask, StreamKinds, s
<1>6. CASE OnHandshake
  <2> DEFINE s == [rs EXCEPT !.handshake = TRUE]
  <2>1. StoreOK(s) /\ s.causes = rs.causes
    BY <1>3 DEF StoreOK, RemoteStoreType
  <2> HIDE DEF s
  <2>2. Send(s, rs.pipeline).causes = rs.causes
    BY <1>3, <2>1, SendKeeps DEF Alike
  <2> QED BY <1>1, <1>2, <1>6, <2>2 DEF OnHandshake, NextTask, StreamKinds, s
<1>7. CASE OnMutationResult
  <2>1. KeepsUser
    BY <1>7, OnMutationResultDecides, DecidesKeepsUser
  <2> QED BY <2>1, KeepsUserStep
<1>8. CASE \E kind \in Closing : OnStreamClose(kind)
  <2>1. PICK kind \in Closing : OnStreamClose(kind)
    BY <1>8
  <2>2. CASE Decides("reject", Head(rs.pipeline))
    <3>1. KeepsUser
      BY <2>2, DecidesKeepsUser
    <3> QED BY <3>1, KeepsUserStep
  <2>3. CASE /\ rs'.causes = rs.causes /\ Running /\ tasks # <<>>
             /\ Head(tasks).kind = kind /\ tasks' = Tail(tasks)
             /\ UNCHANGED <<local, engine, creds, retryOps>>
    BY <1>1, <2>3 DEF Closing, StreamKinds
  <2> QED BY <2>1, <2>2, <2>3, OnStreamCloseDecides
<1> QED BY <1>4, <1>5, <1>6, <1>7, <1>8 DEF StreamCallback, Closing

(* With one user there is nobody else to be signed in.                     *)
LEMMA OneUser ==
  ASSUME NumUsers = 1, TypeOK'
  PROVE  engine'.user = local'.user /\ creds'.user = engine'.user
<1>1. /\ engine'.user \in Users /\ local'.user \in Users
      /\ creds'.user \in Users
  BY DEF TypeOK, EngineType, LocalType
<1>2. \A u, v \in Users : u = v
  BY DEF Users
<1> QED BY <1>1, <1>2

(* The retries: where IndexedDB cannot fail there is only the one that a   *)
(* task has just appended.                                                 *)
LEMMA OnlyRetry ==
  ASSUME Settled, FollowsUser, MaxIdbFailures = 0,
         NEW ops, NEW rest, Retrying(ops, rest)
  PROVE  /\ tasks # <<>> /\ rest = Tail(tasks) /\ Head(ops) = Head(tasks)
         /\ Tail(ops) = <<>> /\ "IndexedDbFailed" \notin rs.causes
<1>1. retryOps = <<>> /\ "IndexedDbFailed" \notin rs.causes
  BY DEF FollowsUser, Retrying
<1>2. /\ ops = Append(<<>>, Head(tasks)) /\ rest = Tail(tasks)
      /\ tasks # <<>>
  BY <1>1 DEF Retrying
<1>3. Head(tasks) \in TaskType
  BY <1>2, SettledParts, HeadTailProperties
<1> DEFINE h == Head(tasks)
<1> HIDE DEF h
<1>4. Append(<<>>, h) = <<h>>
  OBVIOUS
<1>5. Head(<<h>>) = h /\ Tail(<<h>>) = <<>>
  OBVIOUS
<1> QED BY <1>1, <1>2, <1>4, <1>5 DEF h

(* A retry of a token event moves everybody to the user who is signed in.  *)
LEMMA RetriesFollowUser ==
  ASSUME Settled, Settled', Calm, "viewRefill" \notin Faults, FollowsUser,
         NEW ops, NEW rest, Retrying(ops, rest)
  PROVE  FollowsUser'
<1>1. /\ tasks \in Seq(TaskType) /\ local \in LocalType
      /\ creds \in [user : Users, changed : BOOLEAN]
      /\ engine.user = local.user /\ creds.user \in Users
      /\ engine \in EngineType /\ engine.user \in Users /\ Running
      /\ rest \in Seq(TaskType)
  BY SettledParts DEF TypeOK, FollowsUser, Retrying, EngineType
<1>2. CASE RetryRecovery(ops, rest)
  <2>1. Recovers(ops, rest)
    BY <1>2, RecoveryRecovers
  <2>2. "IndexedDbFailed" \in rs.causes
    BY <2>1 DEF Recovers
  <2>3. MaxIdbFailures # 0
    BY <1>1, <2>2 DEF FollowsUser
  <2>4. NumUsers = 1
    BY <2>3 DEF Calm
  <2>5. engine'.user = local'.user /\ creds'.user = engine'.user
    BY <2>4, OneUser DEF Settled
  <2>6. "CredentialChange" \notin rs'.causes
    <3>1. CASE Resumes(rs, rs.causes \ {"IndexedDbFailed"}, rest)
      BY <1>1, <3>1, ResumesEffects DEF FollowsUser
    <3>2. CASE rs' = rs
      BY <1>1, <3>2 DEF FollowsUser
    <3> QED BY <2>1, <3>1, <3>2 DEF Recovers
  <2> QED BY <2>3, <2>5, <2>6 DEF FollowsUser
<1>3. ASSUME NEW u \in Users, Switches(u, ops, rest)
      PROVE  /\ engine'.user = u /\ local'.user = u /\ Running'
             /\ "CredentialChange" \notin rs'.causes
             /\ MaxIdbFailures = 0 =>
                  /\ retryOps' = <<>> /\ "IndexedDbFailed" \notin rs'.causes
                  /\ tasks' = rest
  <2>1. Resumes(rs, rs.causes \ {"CredentialChange"}, rest)
    BY <1>3, AfreshResumes DEF Switches
  <2>2. \/ /\ rs'.causes = rs.causes \ {"CredentialChange"} /\ tasks' = rest
        \/ /\ rs'.causes = (rs.causes \ {"CredentialChange"})
                             \union {"IndexedDbFailed"}
           /\ MaxIdbFailures # 0
    BY <2>1, ResumesEffects
  <2>3. "CredentialChange" \notin rs'.causes
    BY <2>2
  <2>4. MaxIdbFailures = 0 =>
          /\ retryOps' = <<>> /\ "IndexedDbFailed" \notin rs'.causes
          /\ tasks' = rest
    BY <1>3, <2>2, OnlyRetry DEF Switches
  <2>5. engine'.user = u /\ local'.user = u /\ Running'
    BY <1>1, <1>3 DEF Switches, LocalType, Running
  <2> QED BY <2>3, <2>4, <2>5
<1>4. CASE RetryCredentials(ops, rest)
  <2>1. CASE /\ Head(ops).kind = "auth" /\ creds.changed
             /\ creds' = [creds EXCEPT !.changed = FALSE]
             /\ HandleCredentialChange(creds.user, ops, rest)
    <3>1. Switches(creds.user, ops, rest)
      BY <1>1, <1>4, <2>1, CredentialChangeSwitches DEF RetryCredentials
    <3>2. creds'.user = creds.user
      BY <1>1, <2>1
    <3> QED BY <1>1, <1>3, <3>1, <3>2 DEF FollowsUser
  <2>2. CASE /\ Head(ops).kind = "auth" /\ ~creds.changed
             /\ retryOps' = Tail(ops) /\ tasks' = rest
             /\ UNCHANGED <<rs, local, engine, creds, used>>
    <3>1. MaxIdbFailures = 0 => retryOps' = <<>>
      BY <2>2, OnlyRetry
    <3> QED BY <1>1, <2>2, <3>1 DEF FollowsUser
  <2>3. CASE /\ Head(ops).kind = "appCheck" /\ creds' = creds
             /\ HandleCredentialChange(engine.user, ops, rest)
    <3>1. Switches(engine.user, ops, rest)
      BY <1>1, <1>4, <2>3, CredentialChangeSwitches DEF RetryCredentials
    <3>2. CASE NumUsers = 1
      <4>1. creds'.user = engine'.user
        BY <3>2, OneUser DEF Settled
      <4> QED BY <1>1, <1>3, <3>1, <4>1 DEF FollowsUser
    <3>3. CASE MaxIdbFailures = 0
      <4>1. AuthQueued(tasks) => AuthQueued(rest)
        <5>1. /\ tasks # <<>> /\ Head(tasks).kind # "auth"
              /\ rest = Tail(tasks)
          BY <2>3, <3>3, OnlyRetry
        <5> QED BY <5>1, TailKeepsAuth
      <4>2. tasks' = rest
        BY <1>1, <1>3, <3>1, <3>3
      <4> QED BY <1>1, <1>3, <2>3, <3>1, <4>1, <4>2 DEF FollowsUser
    <3> QED BY <3>2, <3>3 DEF Calm
  <2> QED BY <1>4, <2>1, <2>2, <2>3 DEF RetryCredentials
<1> QED BY <1>2, <1>4 DEF Retrying, RetryNextOp

(* An attempt that has its token gets on, or answers, or ends.             *)
MovesTo(n, r) ==
  /\ r \in RpcType
  /\ r.cc = rs.rpcs[n].cc /\ r.user = rs.rpcs[n].user
  /\ r.phase # "closed" => rs.rpcs[n].phase # "closed"

BecomesAt(n, r) ==
  \/ rs' = [rs EXCEPT !.rpcs[n] = r]
  \/ rs' = [[rs EXCEPT !.rpcs[n] = r] EXCEPT !.stream = n]

Enqueues ==
  \/ tasks' = tasks
  \/ \E task \in TaskType : tasks' = Append(tasks, task)

Moves(n) ==
  /\ \E r : MovesTo(n, r) /\ BecomesAt(n, r)
  /\ Enqueues
  /\ UNCHANGED <<local, engine, creds, retryOps, mode, author, promise>>

(* A closed attempt stays closed; any other may enter any phase.           *)
LEMMA PhaseMoves ==
  ASSUME TypeOK, NEW n \in Rpcs, NEW phase \in RpcPhases,
         phase # "closed" => rs.rpcs[n].phase # "closed"
  PROVE  \E r : /\ MovesTo(n, r)
                /\ Rpc(n, phase) = [rs EXCEPT !.rpcs[n] = r]
<1> DEFINE r == [rs.rpcs[n] EXCEPT !.phase = phase]
<1>1. /\ r \in RpcType /\ r.cc = rs.rpcs[n].cc /\ r.phase = phase
      /\ r.user = rs.rpcs[n].user
      /\ Rpc(n, phase) = [rs EXCEPT !.rpcs[n] = r]
  BY InPhase
<1> HIDE DEF r
<1>2. MovesTo(n, r)
  BY <1>1 DEF MovesTo
<1> QED BY <1>1, <1>2

Asked(n, q) == [rs.rpcs[n] EXCEPT !.reqs = q]

AskedIn(n, phase, q) == [rs.rpcs[n] EXCEPT !.phase = phase, !.reqs = q]

(* So does one whose requests are read.                                    *)
LEMMA RequestsMove ==
  ASSUME TypeOK, NEW n \in Rpcs, NEW q \in Seq(Nat)
  PROVE  /\ MovesTo(n, Asked(n, q))
         /\ \A phase \in RpcPhases :
              (phase # "closed" => rs.rpcs[n].phase # "closed") =>
                MovesTo(n, AskedIn(n, phase, q))
<1> DEFINE old == rs.rpcs[n]
           Same == [old EXCEPT !.reqs = q]
<1>1. old \in RpcType
  BY RpcOK
<1> HIDE DEF old
<1>2. /\ Same \in RpcType /\ Same.cc = old.cc /\ Same.user = old.user
      /\ Same.phase = old.phase
  BY <1>1 DEF RpcType
<1>3. ASSUME NEW phase \in RpcPhases, phase # "closed" => old.phase # "closed"
      PROVE  MovesTo(n, AskedIn(n, phase, q))
  <2> DEFINE r == [old EXCEPT !.phase = phase, !.reqs = q]
  <2>1. r \in RpcType /\ r.cc = old.cc /\ r.user = old.user /\ r.phase = phase
    BY <1>1 DEF RpcType
  <2> HIDE DEF r
  <2>2. MovesTo(n, r)
    BY <1>3, <2>1 DEF MovesTo, old
  <2> QED BY <2>2 DEF r, AskedIn, old
<1> HIDE DEF Same
<1>4. MovesTo(n, Same)
  BY <1>2 DEF MovesTo, old
<1>5. MovesTo(n, Asked(n, q))
  BY <1>4 DEF Same, old, Asked
<1> QED BY <1>3, <1>5 DEF old

(* What the backend calls back is a task of the stream.                    *)
LEMMA EmitEnqueues ==
  ASSUME TypeOK, NEW n \in Rpcs, NEW kind \in StreamKinds, NEW b \in Nat,
         tasks' = (IF Running THEN Append(tasks, StreamTask(n, kind, b))
                              ELSE tasks)
  PROVE  Enqueues
<1>1. StreamTask(n, kind, b) \in TaskType
  BY RpcOK
<1> QED BY <1>1 DEF Enqueues

(* Every step of an attempt but the fetch of its token moves it.           *)
LEMMA AttemptMoves ==
  ASSUME TypeOK, NEW n \in Rpcs,
         \/ StartRpc(n) \/ TokenFetchFails(n) \/ Backend(n)
         \/ OrphanCommits(n)
         \/ StreamBreaks(n, "transient") \/ StreamBreaks(n, "permanent")
  PROVE  Moves(n)
<1> DEFINE old == rs.rpcs[n]
<1>1. Requests(n) \in Seq(Nat)
  <2>1. old \in RpcType
    BY RpcOK
  <2> QED BY <2>1 DEF Requests, RpcType
<1>2. Requests(n) # <<>> =>
        Head(Requests(n)) \in Nat /\ Tail(Requests(n)) \in Seq(Nat)
  BY <1>1, HeadTailProperties
<1>3. PICK shut : /\ MovesTo(n, shut)
                  /\ Rpc(n, "closed") = [rs EXCEPT !.rpcs[n] = shut]
  BY PhaseMoves DEF RpcPhases
<1>4. CASE StartRpc(n)
  <2>1. PICK r : /\ MovesTo(n, r)
                 /\ Rpc(n, "connecting") = [rs EXCEPT !.rpcs[n] = r]
    BY <1>4, PhaseMoves DEF RpcPhases, StartRpc
  <2>2. /\ UNCHANGED <<local, engine, creds, retryOps, mode, author, promise>>
        /\ Enqueues
    BY <1>4 DEF StartRpc, Enqueues
  <2>3. CASE rs' = Rpc(n, "closed")
    <3>1. BecomesAt(n, shut)
      BY <1>3, <2>3 DEF BecomesAt
    <3> QED BY <1>3, <2>2, <3>1 DEF Moves
  <2>4. CASE rs' = [Rpc(n, "connecting") EXCEPT !.stream = n]
    <3>1. BecomesAt(n, r)
      BY <2>1, <2>4 DEF BecomesAt
    <3> QED BY <2>1, <2>2, <3>1 DEF Moves
  <2> QED BY <1>4, <2>3, <2>4 DEF StartRpc
<1>5. ASSUME NEW kind \in {"transient", "permanent"},
             TokenFetchFails(n) \/ StreamBreaks(n, kind)
      PROVE  Moves(n)
  <2>1. /\ rs' = Rpc(n, "closed")
        /\ UNCHANGED <<local, engine, creds, retryOps, mode, author, promise>>
    BY <1>5 DEF TokenFetchFails, StreamBreaks
  <2>2. CASE TokenFetchFails(n)
    <3>1. Enqueues
      BY <2>2, EmitEnqueues DEF TokenFetchFails, StreamKinds
    <3>2. BecomesAt(n, shut)
      BY <1>3, <2>1 DEF BecomesAt
    <3> QED BY <1>3, <2>1, <3>1, <3>2 DEF Moves
  <2>3. CASE StreamBreaks(n, kind)
    <3>1. Enqueues
      BY <2>3, EmitEnqueues DEF StreamBreaks, StreamKinds, Emit
    <3>2. BecomesAt(n, shut)
      BY <1>3, <2>1 DEF BecomesAt
    <3> QED BY <1>3, <2>1, <3>1, <3>2 DEF Moves
  <2> QED BY <1>5, <2>2, <2>3
<1>6. CASE BackendAccepts(n)
  <2>1. /\ rs' = Rpc(n, "open") /\ old.phase # "closed"
        /\ UNCHANGED <<local, engine, creds, retryOps, mode, author, promise>>
    BY <1>6 DEF BackendAccepts
  <2>2. Enqueues
    BY <1>6, EmitEnqueues DEF BackendAccepts, StreamKinds, Emit
  <2>3. PICK r : MovesTo(n, r) /\ Rpc(n, "open") = [rs EXCEPT !.rpcs[n] = r]
    BY <2>1, PhaseMoves DEF RpcPhases
  <2>4. BecomesAt(n, r)
    BY <2>1, <2>3 DEF BecomesAt
  <2> QED BY <2>1, <2>2, <2>3, <2>4 DEF Moves
<1>7. CASE BackendShakesHands(n)
  <2> DEFINE r == AskedIn(n, "ready", Tail(Requests(n)))
  <2>1. rs' = [rs EXCEPT !.rpcs[n] = r] /\ old.phase # "closed"
        /\ UNCHANGED <<local, engine, creds, retryOps, mode, author, promise>>
        /\ Requests(n) # <<>>
    BY <1>7 DEF BackendShakesHands, AskedIn
  <2>2. MovesTo(n, r)
    BY <1>2, <2>1, RequestsMove DEF RpcPhases
  <2>3. Enqueues
    BY <1>7, EmitEnqueues DEF BackendShakesHands, StreamKinds, Emit
  <2> HIDE DEF r
  <2>4. BecomesAt(n, r)
    BY <2>1 DEF BecomesAt
  <2> QED BY <2>1, <2>2, <2>3, <2>4 DEF Moves
<1>8. CASE BackendCommits(n) \/ OrphanCommits(n)
  <2> DEFINE r == Asked(n, Tail(Requests(n)))
  <2>1. rs' = [rs EXCEPT !.rpcs[n] = r] /\ Requests(n) # <<>>
        /\ UNCHANGED <<local, engine, creds, retryOps, mode, author, promise>>
    BY <1>8 DEF BackendCommits, OrphanCommits, Asked
  <2>2. MovesTo(n, r)
    BY <1>2, <2>1, RequestsMove
  <2>3. Enqueues
    <3>1. CASE BackendCommits(n)
      BY <1>2, <2>1, <3>1, EmitEnqueues DEF BackendCommits, StreamKinds, Emit
    <3>2. CASE OrphanCommits(n)
      BY <3>2 DEF OrphanCommits, Enqueues
    <3> QED BY <1>8, <3>1, <3>2
  <2> HIDE DEF r
  <2>4. BecomesAt(n, r)
    BY <2>1 DEF BecomesAt
  <2> QED BY <2>1, <2>2, <2>3, <2>4 DEF Moves
<1>9. CASE BackendRefuses(n)
  <2> DEFINE r == AskedIn(n, "closed", <<>>)
  <2>1. rs' = [rs EXCEPT !.rpcs[n] = r] /\ Requests(n) # <<>>
        /\ UNCHANGED <<local, engine, creds, retryOps, mode, author, promise>>
    BY <1>9 DEF BackendRefuses, AskedIn
  <2>2. MovesTo(n, r)
    <3>1. <<>> \in Seq(Nat)
      BY EmptySeq
    <3> QED BY <3>1, RequestsMove DEF RpcPhases
  <2>3. Enqueues
    BY <1>2, <1>9, <2>1, EmitEnqueues DEF BackendRefuses, StreamKinds, Emit
  <2> HIDE DEF r
  <2>4. BecomesAt(n, r)
    BY <2>1 DEF BecomesAt
  <2> QED BY <2>1, <2>2, <2>3, <2>4 DEF Moves
<1> QED BY <1>4, <1>5, <1>6, <1>7, <1>8, <1>9 DEF Backend

(* Timers, continuations and the backend know nothing of users' changes.   *)
LEMMA AttemptsFollowUser ==
  ASSUME Settled, FollowsUser,
         \/ IdleTimeout \/ BackoffElapsed
         \/ \E n \in Rpcs :
              \/ TokenFetched(n) \/ StartRpc(n) \/ TokenFetchFails(n)
              \/ Backend(n) \/ OrphanCommits(n)
              \/ StreamBreaks(n, "transient") \/ StreamBreaks(n, "permanent")
  PROVE  FollowsUser'
<1>1. /\ TypeOK /\ tasks \in Seq(TaskType) /\ Sane(rs)
      /\ rs \in RemoteStoreType /\ OneStreamOneRecovery
  BY SettledParts DEF TypeOK
<1>2. ASSUME rs'.causes = rs.causes,
             UNCHANGED <<local, engine, creds, retryOps, mode>>,
             \/ tasks' = tasks
             \/ \E t \in TaskType : tasks' = Append(tasks, t)
      PROVE  FollowsUser'
  <2>1. AuthQueued(tasks) => AuthQueued(tasks')
    BY <1>1, <1>2, AuthStays
  <2>2. KeepsUser
    BY <1>2, <2>1 DEF KeepsUser, Running
  <2> QED BY <2>2, KeepsUserStep
<1>3. CASE IdleTimeout
  <2> DEFINE t == CloseStream(rs, "Initial")
             w == StartIfNeeded(t)
  <2>1. Past(rs)
    BY <1>1, SoundIsPast DEF Sane
  <2>2. StoreOK(t) /\ Sound(t) /\ t.causes = rs.causes
    BY <1>1, <2>1, CloseStreamOK, CloseStreamKeeps DEF Sane, StreamStates
  <2> HIDE DEF t
  <2>3. w.causes = rs.causes
    BY <2>2, StartIfNeededKeeps
  <2> HIDE DEF w
  <2>4. [rs EXCEPT !.idle = FALSE].causes = rs.causes
    BY <1>1 DEF RemoteStoreType
  <2>5. rs'.causes = rs.causes
    BY <1>3, <2>3, <2>4 DEF IdleTimeout, w, t
  <2> QED BY <1>2, <1>3, <2>5 DEF IdleTimeout
<1>4. CASE BackoffElapsed
  <2> DEFINE s == [rs EXCEPT !.backoff = FALSE, !.state = "Initial"]
  <2>1. s \in RemoteStoreType /\ s.causes = rs.causes
        /\ s.state = "Initial"
    BY <1>1 DEF RemoteStoreType, StreamStates
  <2> HIDE DEF s
  <2>2. StartStream(s).causes = s.causes
    BY <2>1 DEF StartStream, Auth, RemoteStoreType
  <2> QED BY <1>2, <1>4, <2>1, <2>2 DEF BackoffElapsed, s
<1>5. ASSUME NEW n \in Rpcs, Moves(n)
      PROVE  FollowsUser'
  <2>1. rs'.causes = rs.causes
    BY <1>1, <1>5 DEF Moves, BecomesAt, RemoteStoreType
  <2> QED BY <1>2, <1>5, <2>1 DEF Moves, Enqueues
<1>6. ASSUME NEW n \in Rpcs, TokenFetched(n)
      PROVE  FollowsUser'
  <2> DEFINE r == [rs.rpcs[n] EXCEPT !.phase = "token", !.user = creds.user]
  <2>1. /\ UNCHANGED <<local, engine, creds, tasks, retryOps, mode>>
        /\ rs' = [rs EXCEPT !.rpcs[n] = r]
    BY <1>6 DEF TokenFetched
  <2> HIDE DEF r
  <2>2. rs'.causes = rs.causes
    BY <1>1, <2>1 DEF RemoteStoreType
  <2> QED BY <1>2, <2>1, <2>2
<1> QED BY <1>1, <1>3, <1>4, <1>5, <1>6, AttemptMoves

(* SyncEngine and LocalStore go on agreeing on the user.                   *)
LEMMA FollowsUserStep ==
  ASSUME Settled, Settled', Calm, "reenable" \notin Faults,
         "viewRefill" \notin Faults, FollowsUser, [Next]_vars
  PROVE  FollowsUser'
<1>1. CASE UNCHANGED vars
  BY <1>1 DEF vars, FollowsUser, Running
<1>2. CASE Application
  BY <1>2, CallsFollowUser
<1>3. CASE StreamCallback
  BY <1>3, CallbacksFollowUser
<1>4. CASE RunRetryTask \/ RetryTimer
  <2>1. PICK ops, rest : Retrying(ops, rest)
    BY <1>4, RetriesRetry
  <2> QED BY <2>1, RetriesFollowUser
<1>5. CASE \/ IdleTimeout \/ BackoffElapsed
           \/ \E n \in Rpcs :
                \/ TokenFetched(n) \/ StartRpc(n) \/ TokenFetchFails(n)
                \/ Backend(n) \/ OrphanCommits(n)
                \/ StreamBreaks(n, "transient") \/ StreamBreaks(n, "permanent")
  BY <1>5, AttemptsFollowUser
<1> QED BY <1>1, <1>2, <1>3, <1>4, <1>5 DEF Next, Timer

----------------------------------------------------------------------------
(* The tokens                                                              *)

(* From s to t an attempt keeps its token and its generation, or is no     *)
(* longer current, or is a new one without a token; requests may be sent.  *)
SameTokens(s, t) ==
  /\ DOMAIN s.rpcs \subseteq DOMAIN t.rpcs
  /\ IsOpen(t) => IsOpen(s)
  /\ \A n \in DOMAIN t.rpcs :
       IF n \in DOMAIN s.rpcs
         THEN /\ t.rpcs[n].user = s.rpcs[n].user
              /\ Current(t, n) => Current(s, n) /\ t.closeCount = s.closeCount
         ELSE t.rpcs[n].user = 0

(* A silent step gives no attempt another token, and such steps compose.   *)
LEMMA TokenSteps ==
  ASSUME NEW s, NEW t
  PROVE  /\ SendsNothing(s, t) => SameTokens(s, t)
         /\ \A w : SameTokens(s, t) /\ SameTokens(t, w) => SameTokens(s, w)
<1>1. SendsNothing(s, t) => SameTokens(s, t)
  BY DEF SendsNothing, SameTokens
<1>2. ASSUME NEW w, SameTokens(s, t), SameTokens(t, w)
      PROVE  SameTokens(s, w)
  <2>1. /\ DOMAIN s.rpcs \subseteq DOMAIN w.rpcs
        /\ IsOpen(w) => IsOpen(s)
    BY <1>2 DEF SameTokens
  <2>2. ASSUME NEW n \in DOMAIN w.rpcs, n \in DOMAIN s.rpcs
        PROVE  /\ w.rpcs[n].user = s.rpcs[n].user
               /\ Current(w, n) => Current(s, n) /\ w.closeCount = s.closeCount
    <3>1. n \in DOMAIN t.rpcs
      BY <1>2, <2>2 DEF SameTokens
    <3> QED BY <1>2, <2>2, <3>1 DEF SameTokens
  <2>3. ASSUME NEW n \in DOMAIN w.rpcs, n \notin DOMAIN s.rpcs
        PROVE  w.rpcs[n].user = 0
    <3>1. n \in DOMAIN t.rpcs => t.rpcs[n].user = 0
      BY <1>2, <2>3 DEF SameTokens
    <3> QED BY <1>2, <2>3, <3>1 DEF SameTokens
  <2> QED BY <2>1, <2>2, <2>3 DEF SameTokens
<1> QED BY <1>1, <1>2

(* Sending gives no attempt a token,                                       *)
LEMMA SendKeepsTokens ==
  ASSUME NEW s, NEW t, NEW msgs, Sends(s, t, msgs)
  PROVE  SameTokens(s, t)
BY DEF Sends, SameTokens, IsOpen, Current

(* nor does filling the pipeline,                                          *)
LEMMA FillKeepsTokens ==
  ASSUME NEW s, Sane(s), NEW q \in Seq(BatchIds)
  PROVE  SameTokens(s, FillWritePipeline(s, q))
<1> DEFINE bs == NextBatches(s, q)
           added == [s EXCEPT !.pipeline = @ \o bs]
           filled == AddToWritePipeline(s, bs)
           t == FillWritePipeline(s, q)
<1>1. bs \in Seq(BatchIds) /\ bs \in Seq(Nat)
  <2>1. bs \in Seq(BatchIds)
    BY NextBatchesType DEF Sane
  <2> HIDE DEF bs
  <2> QED BY <2>1 DEF BatchIds
<1> HIDE DEF bs
<1>2. StoreOK(added) /\ SameTokens(s, added) /\ added.rpcs = s.rpcs
      /\ added.stream = s.stream /\ StoreOK(filled)
  <2>1. s.pipeline \o bs \in Seq(BatchIds)
    BY <1>1, ConcatProperties DEF Sane, StoreOK, RemoteStoreType
  <2>2. StoreOK(added) /\ added.rpcs = s.rpcs /\ added.stream = s.stream
        /\ added.closeCount = s.closeCount /\ added.state = s.state
    BY <2>1 DEF Sane, StoreOK, RemoteStoreType
  <2> HIDE DEF added
  <2>3. SendsNothing(s, added)
    BY <2>2, SilentSteps DEF IsOpen
  <2> QED BY <1>1, <2>2, <2>3, TokenSteps, AddToWritePipelineOK DEF Sane
<1>3. SameTokens(s, filled)
  <2>1. CASE IsOpen(s) /\ s.handshake /\ bs # <<>>
    <3>1. added.stream # 0
      BY <1>2, <2>1 DEF Sane, StoreInv, IsOpen
    <3>2. filled = Send(added, bs)
      BY <2>1 DEF AddToWritePipeline
    <3> HIDE DEF added, filled
    <3>3. Sends(added, filled, bs)
      BY <1>1, <1>2, <2>1, <3>1, <3>2, SendRequests
    <3>4. SameTokens(added, filled)
      BY <3>3, SendKeepsTokens
    <3> QED BY <1>2, <3>4, TokenSteps
  <2>2. CASE ~(IsOpen(s) /\ s.handshake /\ bs # <<>>)
    <3>1. filled = added
      BY <2>2 DEF AddToWritePipeline, Send
    <3> QED BY <1>2, <3>1
  <2> QED BY <2>1, <2>2
<1> HIDE DEF filled
<1> DEFINE idle == IF filled.pipeline = <<>> THEN MarkIdle(filled) ELSE filled
<1>4. StoreOK(idle) /\ SameTokens(filled, idle)
  <2>1. StoreOK(MarkIdle(filled))
    BY <1>2 DEF MarkIdle, StoreOK, RemoteStoreType
  <2>2. SendsNothing(filled, MarkIdle(filled)) /\ SendsNothing(filled, filled)
    BY <1>2, MarkIdleSilent, SilentSteps
  <2> QED BY <1>2, <2>1, <2>2, TokenSteps
<1>5. t = StartIfNeeded(s) \/ t = StartIfNeeded(idle)
  BY DEF FillWritePipeline, filled, bs
<1> HIDE DEF idle, t
<1>6. SameTokens(s, idle)
  BY <1>3, <1>4, TokenSteps
<1>7. /\ SameTokens(s, StartIfNeeded(s))
      /\ SameTokens(idle, StartIfNeeded(idle))
  BY <1>4, StartIfNeededSilent, TokenSteps DEF Sane
<1>8. SameTokens(s, StartIfNeeded(idle))
  BY <1>6, <1>7, TokenSteps
<1> QED BY <1>5, <1>7, <1>8 DEF t

(* nor does whatever resumes.                                              *)
LEMMA ResumesKeepsTokens ==
  ASSUME MaxIdbFailures = 0, NEW base, NEW c, NEW rest, Resumes(base, c, rest)
  PROVE  SameTokens(base, rs') /\ tasks' = rest
<1>1. ASSUME NEW s, FillsFrom(base, s, OwnQueue', rest)
      PROVE  SameTokens(base, rs') /\ tasks' = rest
  <2> DEFINE q == OwnQueue'
  <2>1. /\ Sane(s) /\ SendsNothing(base, s) /\ q \in Seq(BatchIds)
        /\ \E spent \in SpentType : Fill(s, q, rest, spent)
    BY <1>1 DEF FillsFrom
  <2> HIDE DEF q
  <2>2. PICK spent \in SpentType : Fill(s, q, rest, spent)
    BY <2>1
  <2>3. ~(spent.idb < MaxIdbFailures)
    <3>1. spent.idb \in Nat
      BY DEF SpentType
    <3> QED BY <3>1
  <2>4. rs' = FillWritePipeline(s, q) /\ tasks' = rest
    BY <2>2, <2>3 DEF Fill
  <2>5. SameTokens(base, s) /\ SameTokens(s, FillWritePipeline(s, q))
    BY <2>1, TokenSteps, FillKeepsTokens
  <2> QED BY <2>4, <2>5, TokenSteps
<1>2. CASE SendsNothing(base, rs') /\ tasks' = rest
  BY <1>2, TokenSteps
<1> QED BY <1>1, <1>2 DEF Resumes

(* Starting over, no attempt has a token.                                  *)
LEMMA AfreshTokens ==
  ASSUME MaxIdbFailures = 0, NEW c, NEW rest, ResumesAfresh(c, rest),
         NEW u, NEW changed, NEW queue
  PROVE  TokensMatch(rs', u, changed, queue)
<1>1. PICK off : /\ Resumes(off, c, rest)
                 /\ \A n \in DOMAIN off.rpcs : ~Current(off, n)
  BY DEF ResumesAfresh
<1>2. SameTokens(off, rs')
  BY <1>1, ResumesKeepsTokens
<1> QED BY <1>1, <1>2 DEF SameTokens, TokensMatch

(* A token event stays before the callbacks it has to be before.           *)
LEMMA AuthStaysFirst ==
  ASSUME NEW s, NEW queue \in Seq(TaskType), AuthFirst(s, queue)
  PROVE  /\ \A t \in TaskType : AuthFirst(s, Append(queue, t))
         /\ \A w : w.closeCount = s.closeCount => AuthFirst(w, queue)
         /\ queue # <<>> /\ Head(queue).kind # "auth" =>
              ~LiveIn(s, queue, 1) /\ AuthFirst(s, Tail(queue))
<1>1. PICK i \in DOMAIN queue : /\ queue[i].kind = "auth"
                                /\ \A j \in 1 .. i - 1 : ~LiveIn(s, queue, j)
  BY DEF AuthFirst
<1>2. i \in 1 .. Len(queue) /\ Len(queue) \in Nat /\ DOMAIN queue = 1 .. Len(queue)
  BY LenProperties
<1>3. ASSUME NEW t \in TaskType PROVE AuthFirst(s, Append(queue, t))
  <2> DEFINE w == Append(queue, t)
  <2>1. \A j \in DOMAIN queue : j \in DOMAIN w /\ w[j] = queue[j]
    BY LiveAppend
  <2> HIDE DEF w
  <2>2. \A j \in 1 .. i - 1 : j \in DOMAIN queue
    BY <1>2
  <2>3. \A j \in 1 .. i - 1 : ~LiveIn(s, w, j)
    BY <1>1, <2>1, <2>2 DEF LiveIn
  <2> QED BY <1>1, <2>1, <2>3 DEF AuthFirst, w
<1>4. ASSUME NEW w, w.closeCount = s.closeCount PROVE AuthFirst(w, queue)
  BY <1>1, <1>4 DEF AuthFirst, LiveIn
<1>5. ASSUME queue # <<>>, Head(queue).kind # "auth"
      PROVE  ~LiveIn(s, queue, 1) /\ AuthFirst(s, Tail(queue))
  <2> DEFINE w == Tail(queue)
  <2>1. Head(queue) = queue[1] /\ Len(w) = Len(queue) - 1
        /\ DOMAIN w = 1 .. Len(w) /\ \A j \in DOMAIN w : w[j] = queue[j + 1]
    BY <1>5, LiveTail, HeadTailProperties, LenProperties
  <2>2. i # 1
    BY <1>1, <1>5, <2>1
  <2> HIDE DEF w
  <2>3. i - 1 \in DOMAIN w /\ (i - 1) + 1 = i /\ 1 \in 1 .. i - 1
    BY <1>2, <2>1, <2>2
  <2>4. ASSUME NEW j \in 1 .. (i - 1) - 1 PROVE ~LiveIn(s, w, j)
    <3>1. j \in DOMAIN w /\ j + 1 \in 1 .. i - 1
      BY <1>2, <2>1
    <3> QED BY <1>1, <2>1, <3>1 DEF LiveIn
  <2>5. w[i - 1].kind = "auth"
    BY <1>1, <2>1, <2>3
  <2>6. AuthFirst(s, w)
    BY <2>3, <2>4, <2>5 DEF AuthFirst
  <2> QED BY <1>1, <2>3, <2>6 DEF w
<1> QED BY <1>3, <1>4, <1>5

(* With one user every token is his.                                       *)
LEMMA OneUsersTokens ==
  ASSUME NumUsers = 1, TypeOK'
  PROVE  TokensHeld'
<1> DEFINE u == local'.user
<1>1. local' \in LocalType /\ rs' \in RemoteStoreType
  BY DEF TypeOK
<1>2. u = 1 /\ rs'.rpcs \in Seq(RpcType)
  <2>1. u \in Users /\ rs'.rpcs \in Seq(RpcType)
    BY <1>1 DEF LocalType, RemoteStoreType
  <2> QED BY <2>1 DEF Users
<1>3. ASSUME NEW n \in DOMAIN rs'.rpcs
      PROVE  rs'.rpcs[n].user \in {0, 1}
  <2>1. rs'.rpcs[n] \in RpcType
    BY <1>2, <1>3, ElementOfSeq, LenProperties
  <2> QED BY <2>1 DEF RpcType, Users
<1> HIDE DEF u
<1>4. TokensMatch(rs', u, creds'.changed, tasks')
  BY <1>2, <1>3 DEF TokensMatch
<1> QED BY <1>4 DEF TokensHeld, u

(* A step that only loses attempts loses no token event before them.       *)
LEMMA TokensKept ==
  ASSUME TokensHeld, Running, SameTokens(rs, rs'), local'.user = local.user,
         creds.changed = TRUE => creds'.changed = TRUE,
         creds.changed \in BOOLEAN,
         AuthFirst(rs, tasks) => AuthFirst(rs, tasks')
  PROVE  TokensHeld'
<1> DEFINE u == local.user
<1>1. ASSUME NEW n \in DOMAIN rs'.rpcs, Current(rs', n),
             rs'.rpcs[n].user \notin {0, u}
      PROVE  creds'.changed /\ ~IsOpen(rs') /\ AuthFirst(rs', tasks')
  <2>1. n \in DOMAIN rs.rpcs /\ rs.rpcs[n].user \notin {0, u}
        /\ Current(rs, n) /\ rs'.closeCount = rs.closeCount
    BY <1>1 DEF SameTokens
  <2>2. creds.changed /\ ~IsOpen(rs) /\ AuthFirst(rs, tasks)
    BY <2>1 DEF TokensHeld, TokensMatch
  <2>3. AuthFirst(rs', tasks')
    BY <2>1, <2>2 DEF AuthFirst, LiveIn
  <2>4. ~IsOpen(rs')
    BY <2>2 DEF SameTokens
  <2> QED BY <2>2, <2>3, <2>4
<1> HIDE DEF u
<1>2. TokensMatch(rs', u, creds'.changed, tasks')
  BY <1>1 DEF TokensMatch
<1> QED BY <1>2 DEF TokensHeld, u

(* The tokens stay matched by the calls of the application,                *)
LEMMA CallsKeepTokens ==
  ASSUME Settled, Settled', MaxIdbFailures = 0, "reenable" \notin Faults,
         "viewRefill" \notin Faults, TokensHeld, Application
  PROVE  TokensHeld'
<1>1. /\ tasks \in Seq(TaskType) /\ rs.causes \subseteq OfflineCauses
      /\ local \in LocalType /\ CallbacksSound(rs, tasks)
      /\ creds \in [user : Users, changed : BOOLEAN]
      /\ creds.changed \in BOOLEAN
  BY SettledParts DEF TypeOK
<1>2. CASE Write
  <2>1. Resumes(rs, rs.causes, tasks)
    BY <1>2, WriteResumes
  <2>2. SameTokens(rs, rs') /\ tasks' = tasks
    BY <2>1, ResumesKeepsTokens
  <2>3. local'.user = local.user /\ creds' = creds /\ Running
    BY <1>1, <1>2 DEF Write, LocalType
  <2> QED BY <1>1, <2>2, <2>3, TokensKept
<1>3. CASE EnableNetwork \/ ConnectivityChange
  <2>1. PICK c \in SUBSET rs.causes : Resumes(rs, c, tasks)
    BY <1>3, NetworkCallsResume
  <2>2. SameTokens(rs, rs') /\ tasks' = tasks
    BY <2>1, ResumesKeepsTokens
  <2>3. local' = local /\ creds' = creds /\ Running
    BY <1>3 DEF EnableNetwork, ConnectivityChange
  <2> QED BY <1>1, <2>2, <2>3, TokensKept
<1>4. CASE DisableNetwork
  <2> DEFINE c == rs.causes \union {"UserDisabled"}
  <2>1. c \in SUBSET OfflineCauses /\ c # {}
    BY <1>1 DEF OfflineCauses
  <2>2. rs' = DisableNetworkInternal([rs EXCEPT !.causes = c])
        /\ UNCHANGED <<local, creds, tasks>> /\ Running
    BY <1>4 DEF DisableNetwork
  <2> HIDE DEF c
  <2>3. SendsNothing(rs, rs')
    BY <1>1, <2>1, <2>2, OfflineSilent
  <2>4. SameTokens(rs, rs')
    BY <2>3, TokenSteps
  <2> QED BY <1>1, <2>2, <2>4, TokensKept
<1>5. SameTokens(rs, rs)
  BY DEF SameTokens
<1>6. CASE WaitForPendingWrites
  BY <1>1, <1>5, <1>6, TokensKept DEF WaitForPendingWrites
<1>7. CASE \E u \in Users : AuthTokenChanged(u)
  <2>1. /\ tasks' = Append(tasks, Op("auth", 0)) /\ creds'.changed = TRUE
        /\ UNCHANGED <<rs, local>> /\ Running
    BY <1>7 DEF AuthTokenChanged
  <2>2. AuthFirst(rs, tasks) => AuthFirst(rs, tasks')
    BY <1>1, <2>1, AuthStaysFirst, OpsTyped
  <2>3. SameTokens(rs, rs')
    BY <1>5, <2>1
  <2> QED BY <1>1, <2>1, <2>2, <2>3, TokensKept
<1>8. CASE AppCheckTokenChanged
  <2>1. /\ tasks' = Append(tasks, Op("appCheck", 0))
        /\ UNCHANGED <<rs, local, creds>> /\ Running
    BY <1>8 DEF AppCheckTokenChanged
  <2>2. AuthFirst(rs, tasks) => AuthFirst(rs, tasks')
    BY <1>1, <2>1, AuthStaysFirst, OpsTyped
  <2>3. SameTokens(rs, rs')
    BY <1>5, <2>1
  <2> QED BY <1>1, <2>1, <2>2, <2>3, TokensKept
<1>9. CASE Terminate
  BY <1>9 DEF Terminate, TokensHeld, Running
<1>10. CASE Restart
  <2>1. ResumesAfresh({}, <<>>)
    BY <1>10, RestartResumes
  <2> QED BY <2>1, AfreshTokens DEF TokensHeld
<1> QED BY <1>2, <1>3, <1>4, <1>6, <1>7, <1>8, <1>9, <1>10 DEF Application

(* by the callbacks of the stream,                                         *)
LEMMA CallbacksKeepTokens ==
  ASSUME Settled, Settled', MaxIdbFailures = 0, "viewRefill" \notin Faults,
         TokensHeld, StreamCallback
  PROVE  TokensHeld'
<1>1. /\ tasks \in Seq(TaskType) /\ local \in LocalType /\ Sane(rs)
      /\ creds.changed \in BOOLEAN /\ TypeOK /\ OneStreamOneRecovery
      /\ PipelineInv
  BY SettledParts DEF TypeOK
<1>2. StoreOK(rs) /\ rs.pipeline \in Seq(Nat)
  <2>1. StoreOK(rs) /\ rs.pipeline \in Seq(BatchIds)
    BY <1>1, ChangedOK DEF Sane
  <2> QED BY <2>1 DEF BatchIds
<1>3. ASSUME Running, tasks # <<>>, Head(tasks).kind # "auth",
             SameTokens(rs, rs'), local'.user = local.user, creds' = creds,
             tasks' = Tail(tasks)
      PROVE  TokensHeld'
  <2>1. AuthFirst(rs, tasks) => AuthFirst(rs, tasks')
    BY <1>1, <1>3, AuthStaysFirst
  <2> QED BY <1>1, <1>3, <2>1, TokensKept
<1>4. SameTokens(rs, rs)
  BY DEF SameTokens
<1>5. CASE SkipStaleCallback
  BY <1>3, <1>4, <1>5 DEF SkipStaleCallback, StreamKinds
<1>6. CASE OnOpen
  <2> DEFINE s == [rs EXCEPT !.state = "Open"]
  <2>1. /\ Running /\ tasks # <<>> /\ Head(tasks).kind = "open"
        /\ IsLive(Head(tasks)) /\ UNCHANGED <<local, creds>>
        /\ tasks' = Tail(tasks) /\ rs' = Send(s, <<Handshake>>)
    BY <1>6 DEF OnOpen, NextTask
  <2>2. /\ tasks[1] = Head(tasks) /\ 1 \in DOMAIN tasks
        /\ LiveIn(rs, tasks, 1) /\ Linked(rs, tasks)
    BY <1>1, <2>1, HeadCallback DEF StreamKinds
  <2>3. rs.stream # 0
    BY <2>1, <2>2 DEF Linked, Calls, Closing
  <2>4. /\ StoreOK(s) /\ s.rpcs = rs.rpcs /\ s.closeCount = rs.closeCount
        /\ s.stream = rs.stream
    BY <1>2 DEF StoreOK, RemoteStoreType, StreamStates
  <2>5. <<Handshake>> \in Seq(Nat) /\ <<Handshake>> # <<>>
    BY DEF Handshake
  <2> HIDE DEF s
  <2>6. Sends(s, rs', <<Handshake>>)
    BY <2>1, <2>3, <2>4, <2>5, SendRequests
  <2>7. ~AuthFirst(rs, tasks)
    <3>1. DOMAIN tasks = 1 .. Len(tasks) /\ Len(tasks) \in Nat
      BY <1>1, LenProperties
    <3>2. tasks[1].kind # "auth"
      BY <2>1, <2>2
    <3>3. \A i \in DOMAIN tasks : i # 1 => 1 \in 1 .. i - 1
      BY <3>1
    <3> QED BY <2>2, <3>2, <3>3 DEF AuthFirst
  <2>8. SameTokens(s, rs')
    BY <2>6, SendKeepsTokens
  <2>9. ASSUME NEW n \in DOMAIN rs'.rpcs, Current(rs', n)
        PROVE  rs'.rpcs[n].user \in {0, local.user}
    <3>1. n \in DOMAIN s.rpcs =>
            Current(s, n) /\ rs'.rpcs[n].user = s.rpcs[n].user
      BY <2>8, <2>9 DEF SameTokens
    <3>2. n \notin DOMAIN s.rpcs => rs'.rpcs[n].user = 0
      BY <2>8, <2>9 DEF SameTokens
    <3>3. n \in DOMAIN rs.rpcs /\ Current(rs, n) =>
            rs.rpcs[n].user \in {0, local.user}
      BY <2>1, <2>7 DEF TokensHeld, TokensMatch
    <3> QED BY <2>4, <3>1, <3>2, <3>3 DEF Current
  <2>10. TokensMatch(rs', local'.user, creds'.changed, tasks')
    BY <2>1, <2>9 DEF TokensMatch
  <2> QED BY <2>10 DEF TokensHeld
<1>7. CASE OnHandshake
  <2> DEFINE s == [rs EXCEPT !.handshake = TRUE]
  <2>1. CASE rs.handshake
    BY <1>7, <2>1 DEF OnHandshake, QueueFails, TokensHeld, Running
  <2>2. CASE ~rs.handshake
    <3>1. /\ Running /\ tasks # <<>> /\ Head(tasks).kind = "handshake"
          /\ IsLive(Head(tasks)) /\ UNCHANGED <<local, creds>>
          /\ tasks' = Tail(tasks) /\ rs' = Send(s, rs.pipeline)
      BY <1>7, <2>2 DEF OnHandshake, NextTask
    <3>2. /\ tasks[1] = Head(tasks) /\ 1 \in DOMAIN tasks
          /\ LiveIn(rs, tasks, 1) /\ Linked(rs, tasks)
      BY <1>1, <3>1, HeadCallback DEF StreamKinds
    <3>3. rs.stream # 0
      BY <3>1, <3>2 DEF Linked, Calls, Closing
    <3>4. /\ StoreOK(s) /\ s.rpcs = rs.rpcs /\ s.closeCount = rs.closeCount
          /\ s.stream = rs.stream /\ s.state = rs.state
      BY <1>2 DEF StoreOK, RemoteStoreType
    <3> HIDE DEF s
    <3>5. SendsNothing(rs, s)
      BY <1>1, <3>4, SilentSteps DEF IsOpen
    <3>6. SameTokens(rs, s)
      BY <3>5, TokenSteps
    <3>7. SameTokens(s, rs')
      <4>1. CASE rs.pipeline = <<>>
        <5>1. rs' = s
          BY <3>1, <4>1 DEF Send
        <5> QED BY <5>1 DEF SameTokens
      <4>2. CASE rs.pipeline # <<>>
        <5>1. Sends(s, rs', rs.pipeline)
          BY <1>2, <3>1, <3>3, <3>4, <4>2, SendRequests
        <5> QED BY <5>1, SendKeepsTokens
      <4> QED BY <4>1, <4>2
    <3>8. SameTokens(rs, rs')
      BY <3>6, <3>7, TokenSteps
    <3> QED BY <1>3, <3>1, <3>8
  <2> QED BY <2>1, <2>2
<1>8. ASSUME NEW kind \in {"acknowledge", "reject"},
             Decides(kind, Head(rs.pipeline))
      PROVE  TokensHeld'
  <2> DEFINE b == Head(rs.pipeline)
  <2>1. /\ Running /\ tasks # <<>> /\ Head(tasks).kind # "auth"
        /\ creds' = creds
    BY <1>8 DEF Decides
  <2>2. CASE mode' = "failed"
    BY <2>2 DEF TokensHeld, Running
  <2>3. CASE Conclude(kind, b) /\ Resumes(rs, {}, Tail(tasks))
    <3>1. local'.user = local.user
      BY <1>1, <2>3 DEF Conclude, RemoveBatch, LocalType
    <3>2. SameTokens(rs, rs') /\ tasks' = Tail(tasks)
      BY <2>3, ResumesKeepsTokens
    <3> QED BY <1>3, <2>1, <3>1, <3>2
  <2> QED BY <1>8, <2>2, <2>3 DEF Decides
<1>9. CASE OnMutationResult
  BY <1>8, <1>9, OnMutationResultDecides
<1>10. CASE \E kind \in Closing : OnStreamClose(kind)
  <2>1. PICK kind \in Closing : OnStreamClose(kind)
    BY <1>10
  <2>2. CASE Decides("reject", Head(rs.pipeline))
    BY <1>8, <2>2
  <2>3. CASE /\ SendsNothing(rs, rs') /\ Running /\ tasks # <<>>
             /\ Head(tasks).kind = kind /\ tasks' = Tail(tasks)
             /\ UNCHANGED <<local, creds>>
    <3>1. SameTokens(rs, rs')
      BY <2>3, TokenSteps
    <3> QED BY <1>3, <2>3, <3>1 DEF Closing
  <2> QED BY <2>1, <2>2, <2>3, OnStreamCloseDecides
<1> QED BY <1>5, <1>6, <1>7, <1>9, <1>10 DEF StreamCallback, Closing

(* by the retries,                                                         *)
LEMMA RetriesKeepTokens ==
  ASSUME Settled, Settled', MaxIdbFailures = 0, "viewRefill" \notin Faults,
         FollowsUser, TokensHeld, NEW ops, NEW rest, Retrying(ops, rest)
  PROVE  TokensHeld'
<1>1. /\ Calm /\ creds \in [user : Users, changed : BOOLEAN]
      /\ engine.user \in Users /\ creds.user \in Users
  BY SettledParts DEF Calm, TypeOK, EngineType
<1>2. ASSUME NEW u, Switches(u, ops, rest) PROVE TokensHeld'
  BY <1>2, AfreshTokens DEF Switches, TokensHeld
<1>3. CASE RetryRecovery(ops, rest)
  <2>1. "IndexedDbFailed" \in rs.causes
    BY <1>3, RecoveryRecovers DEF Recovers
  <2> QED BY <2>1, OnlyRetry
<1>4. CASE RetryCredentials(ops, rest)
  <2>1. UNCHANGED <<mode, author, promise, committed, refused>>
    BY <1>4 DEF RetryCredentials
  <2>2. CASE HandleCredentialChange(creds.user, ops, rest)
    <3>1. Switches(creds.user, ops, rest)
      BY <1>1, <2>1, <2>2, CredentialChangeSwitches
    <3> QED BY <1>2, <3>1
  <2>3. CASE HandleCredentialChange(engine.user, ops, rest)
    <3>1. Switches(engine.user, ops, rest)
      BY <1>1, <2>1, <2>3, CredentialChangeSwitches
    <3> QED BY <1>2, <3>1
  <2>4. CASE ~creds.changed /\ UNCHANGED <<rs, local, creds>>
    <3>1. /\ \A n \in DOMAIN rs.rpcs :
               ~(Current(rs, n) /\ rs.rpcs[n].user \notin {0, local.user})
      BY <2>4 DEF TokensHeld, TokensMatch, Retrying
    <3>2. TokensMatch(rs', local'.user, creds'.changed, tasks')
      BY <2>4, <3>1 DEF TokensMatch
    <3> QED BY <3>2 DEF TokensHeld
  <2> QED BY <1>4, <2>2, <2>3, <2>4 DEF RetryCredentials
<1> QED BY <1>3, <1>4 DEF Retrying, RetryNextOp

(* The stream's timers send nothing.                                       *)
LEMMA TimersSilent ==
  ASSUME Settled, IdleTimeout \/ BackoffElapsed
  PROVE  /\ SendsNothing(rs, rs') /\ Running
         /\ UNCHANGED <<local, engine, creds, tasks, retryOps, mode, author,
                        promise, committed, refused>>
<1>1. Sane(rs)
  BY SettledParts
<1>2. CASE IdleTimeout
  <2> DEFINE t == CloseStream(rs, "Initial")
             w == [rs EXCEPT !.idle = FALSE]
  <2>1. Past(rs) /\ StoreOK(rs)
    BY <1>1, SoundIsPast DEF Sane
  <2>2. StoreOK(t) /\ SendsNothing(rs, t)
    BY <1>1, <2>1, CloseStreamOK, CloseStreamSilent DEF Sane, StreamStates
  <2> HIDE DEF t
  <2>3. SendsNothing(rs, StartIfNeeded(t))
    BY <2>2, StartIfNeededSilent, SilentSteps
  <2>4. w.rpcs = rs.rpcs /\ w.closeCount = rs.closeCount /\ w.state = rs.state
    BY <2>1 DEF StoreOK, RemoteStoreType
  <2> HIDE DEF w
  <2>5. SendsNothing(rs, w)
    BY <2>4, SilentSteps DEF IsOpen
  <2> QED BY <1>2, <2>3, <2>5 DEF IdleTimeout, t, w
<1>3. CASE BackoffElapsed
  <2> DEFINE s == [rs EXCEPT !.backoff = FALSE, !.state = "Initial"]
  <2>1. /\ StoreOK(s) /\ s.rpcs = rs.rpcs /\ s.closeCount = rs.closeCount
        /\ s.state = "Initial"
    BY <1>1 DEF Sane, StoreOK, RemoteStoreType, StreamStates
  <2> HIDE DEF s
  <2>2. SendsNothing(rs, s)
    BY <2>1, SilentSteps DEF IsOpen
  <2>3. SendsNothing(rs, StartStream(s))
    BY <2>1, <2>2, StartStreamSilent, SilentSteps
  <2> QED BY <1>3, <2>3 DEF BackoffElapsed, s
<1> QED BY <1>2, <1>3 DEF IdleTimeout, BackoffElapsed

(* by the continuations of attempts,                                       *)
LEMMA AttemptsKeepTokens ==
  ASSUME Settled, FollowsUser, TokensHeld, Running,
         \/ IdleTimeout \/ BackoffElapsed
         \/ \E n \in Rpcs :
              \/ TokenFetched(n) \/ StartRpc(n) \/ TokenFetchFails(n)
              \/ Backend(n) \/ OrphanCommits(n)
              \/ StreamBreaks(n, "transient") \/ StreamBreaks(n, "permanent")
  PROVE  TokensHeld'
<1>1. /\ TypeOK /\ tasks \in Seq(TaskType) /\ Sane(rs) /\ Linked(rs, tasks)
      /\ rs \in RemoteStoreType /\ creds.changed \in BOOLEAN
      /\ rs.rpcs \in Seq(RpcType)
  BY SettledParts DEF TypeOK, RemoteStoreType
<1>2. CASE IdleTimeout \/ BackoffElapsed
  <2>1. SendsNothing(rs, rs') /\ UNCHANGED <<local, creds, tasks>>
    BY <1>2, TimersSilent
  <2>2. SameTokens(rs, rs')
    BY <2>1, TokenSteps
  <2> QED BY <1>1, <2>1, <2>2, TokensKept
<1>3. ASSUME NEW n \in Rpcs, Moves(n)
      PROVE  TokensHeld'
  <2>1. PICK r : MovesTo(n, r) /\ BecomesAt(n, r)
    BY <1>3 DEF Moves
  <2>2. /\ rs'.rpcs = [rs.rpcs EXCEPT ![n] = r] /\ rs'.state = rs.state
        /\ rs'.closeCount = rs.closeCount
    BY <1>1, <2>1 DEF BecomesAt, RemoteStoreType
  <2>3. SameTokens(rs, rs')
    BY <2>1, <2>2 DEF SameTokens, MovesTo, Current, IsOpen
  <2>4. AuthFirst(rs, tasks) => AuthFirst(rs, tasks')
    BY <1>1, <1>3, AuthStaysFirst DEF Moves, Enqueues
  <2>5. local' = local /\ creds' = creds
    BY <1>3 DEF Moves
  <2> QED BY <1>1, <2>3, <2>4, <2>5, TokensKept
<1>4. ASSUME NEW n \in Rpcs, TokenFetched(n)
      PROVE  TokensHeld'
  <2> DEFINE r == [rs.rpcs[n] EXCEPT !.phase = "token", !.user = creds.user]
             u == local.user
  <2>1. /\ UNCHANGED <<local, creds, tasks>> /\ rs.rpcs[n].phase = "auth"
        /\ rs' = [rs EXCEPT !.rpcs[n] = r]
    BY <1>4 DEF TokenFetched
  <2>2. rs.rpcs[n] \in RpcType
    BY <1>1, <1>4, RpcOK
  <2>3. r.cc = rs.rpcs[n].cc /\ r.user = creds.user
    BY <2>2 DEF RpcType
  <2> HIDE DEF r
  <2>4. /\ rs'.rpcs = [rs.rpcs EXCEPT ![n] = r] /\ rs'.state = rs.state
        /\ rs'.closeCount = rs.closeCount
    BY <1>1, <2>1 DEF RemoteStoreType
  <2>5. /\ DOMAIN rs'.rpcs = DOMAIN rs.rpcs /\ rs'.rpcs[n] = r
        /\ \A m \in DOMAIN rs.rpcs : m # n => rs'.rpcs[m] = rs.rpcs[m]
    BY <2>4 DEF Rpcs
  <2>6. ASSUME NEW m \in DOMAIN rs.rpcs, m # n, Current(rs', m),
               rs'.rpcs[m].user \notin {0, u}
        PROVE  creds.changed /\ ~IsOpen(rs') /\ AuthFirst(rs', tasks)
    <3>1. Current(rs, m) /\ rs.rpcs[m].user \notin {0, u}
      BY <2>4, <2>5, <2>6 DEF Current
    <3>2. creds.changed /\ ~IsOpen(rs) /\ AuthFirst(rs, tasks)
      BY <3>1 DEF TokensHeld, TokensMatch
    <3> QED BY <2>4, <3>2 DEF AuthFirst, LiveIn, IsOpen
  <2>7. ASSUME Current(rs', n), creds.user # u
        PROVE  creds.changed /\ ~IsOpen(rs') /\ AuthFirst(rs', tasks)
    <3>1. Current(rs, n)
      BY <2>1, <2>3, <2>4, <2>5, <2>7 DEF Current
    <3>2. rs.stream = 0
      BY <1>1, <2>1, <3>1 DEF Sane, StoreInv, Phases, Current, Rpcs
    <3>3. ~IsOpen(rs)
      BY <1>1, <3>2 DEF Sane, StoreInv, IsOpen
    <3>4. \A i \in DOMAIN tasks : ~LiveIn(rs, tasks, i)
      BY <1>1, <2>1, <3>1 DEF Linked, Calls, Rpcs
    <3>5. creds.changed /\ AuthQueued(tasks)
      BY <2>7 DEF FollowsUser
    <3>6. AuthFirst(rs, tasks)
      <4>1. DOMAIN tasks = 1 .. Len(tasks) /\ Len(tasks) \in Nat
        BY <1>1, LenProperties
      <4>2. PICK i \in DOMAIN tasks : tasks[i].kind = "auth"
        BY <3>5 DEF AuthQueued, Elems
      <4>3. \A j \in 1 .. i - 1 : j \in DOMAIN tasks
        BY <4>1
      <4> QED BY <3>4, <4>2, <4>3 DEF AuthFirst
    <3> QED BY <2>4, <3>3, <3>5, <3>6 DEF AuthFirst, LiveIn, IsOpen
  <2>8. TokensMatch(rs', u, creds.changed, tasks)
    <3> HIDE DEF u
    <3>1. ASSUME NEW m \in DOMAIN rs'.rpcs, Current(rs', m),
                 rs'.rpcs[m].user \notin {0, u}
          PROVE  creds.changed /\ ~IsOpen(rs') /\ AuthFirst(rs', tasks)
      <4>1. CASE m = n
        BY <2>3, <2>5, <2>7, <3>1, <4>1
      <4>2. CASE m # n
        BY <2>5, <2>6, <3>1, <4>2
      <4> QED BY <4>1, <4>2
    <3> QED BY <3>1 DEF TokensMatch
  <2> HIDE DEF u
  <2>9. u = local'.user /\ creds'.changed = creds.changed /\ tasks' = tasks
    BY <2>1 DEF u
  <2> QED BY <2>8, <2>9 DEF TokensHeld
<1> QED BY <1>1, <1>2, <1>3, <1>4, AttemptMoves

(* and so by every step.                                                   *)
LEMMA TokensStep ==
  ASSUME Settled, Settled', Calm, "reenable" \notin Faults,
         "viewRefill" \notin Faults, FollowsUser, TokensHeld, [Next]_vars
  PROVE  TokensHeld'
<1>1. CASE NumUsers = 1
  BY <1>1, OneUsersTokens DEF Settled
<1>2. CASE MaxIdbFailures = 0
  <2>1. CASE UNCHANGED vars
    BY <2>1 DEF vars, TokensHeld, Running
  <2>2. CASE Application
    BY <1>2, <2>2, CallsKeepTokens
  <2>3. CASE StreamCallback
    BY <1>2, <2>3, CallbacksKeepTokens
  <2>4. CASE RunRetryTask \/ RetryTimer
    <3>1. PICK ops, rest : Retrying(ops, rest)
      BY <2>4, RetriesRetry
    <3> QED BY <1>2, <3>1, RetriesKeepTokens
  <2>5. CASE \/ IdleTimeout \/ BackoffElapsed
             \/ \E n \in Rpcs :
                  \/ TokenFetched(n) \/ StartRpc(n) \/ TokenFetchFails(n)
                  \/ Backend(n) \/ OrphanCommits(n)
                  \/ StreamBreaks(n, "transient")
                  \/ StreamBreaks(n, "permanent")
    <3>1. CASE Running
      BY <2>5, <3>1, AttemptsKeepTokens
    <3>2. CASE ~Running
      <4>1. TypeOK
        BY SettledParts
      <4>2. CASE IdleTimeout \/ BackoffElapsed
        BY <3>2, <4>2, TimersSilent
      <4>3. ASSUME NEW n \in Rpcs, Moves(n) PROVE mode' = mode
        BY <4>3 DEF Moves
      <4>4. ASSUME NEW n \in Rpcs, TokenFetched(n) PROVE mode' = mode
        BY <4>4 DEF TokenFetched
      <4>5. CASE mode' = mode
        BY <3>2, <4>5 DEF TokensHeld, Running
      <4> QED BY <2>5, <4>1, <4>2, <4>3, <4>4, <4>5, AttemptMoves
    <3> QED BY <3>1, <3>2
  <2> QED BY <2>1, <2>2, <2>3, <2>4, <2>5 DEF Next, Timer
<1> QED BY <1>1, <1>2 DEF Calm

----------------------------------------------------------------------------
(* The books                                                               *)

(* Tasks that report no decision.                                          *)
Harmless(t) ==
  \/ t.kind \in {"open", "handshake", "transient", "probe", "auth", "appCheck"}
  \/ t.kind = "permanent" /\ t.batch = 0

Decision(b, kind) ==
  IF kind = "acknowledge" THEN Applied(b) ELSE b \in refused

(* The step settles nothing.                                               *)
SettlesNothing ==
  /\ UNCHANGED <<author, promise, committed, refused>>
  /\ local'.queue = local.queue /\ local'.rows = local.rows
  /\ engine'.callbacks = engine.callbacks
  /\ \A w \in engine'.waiters : w \in engine.waiters \/ WaitsForLast(w)
  /\ \A t \in Queued' : t \in Queued \/ Truthful(t)

Submits(b) ==
  /\ b = Len(author) + 1
  /\ author' = Append(author, local.user)
  /\ promise' = Append(promise, "pending")
  /\ local' = [local EXCEPT !.queue[local.user] = Append(OwnQueue, b),
                            !.rows = @ \union {<<local.user, b>>}]
  /\ engine' = [engine EXCEPT !.callbacks[engine.user] = @ \union {b}]
  /\ UNCHANGED <<committed, refused>>
  /\ \A t \in Queued' : t \in Queued \/ Harmless(t)

(* The decision of the first batch of the user's queue is recorded.        *)
Concludes(kind, b) ==
  /\ kind \in {"acknowledge", "reject"}
  /\ OwnQueue # <<>> /\ b = Head(OwnQueue) /\ Decision(b, kind)
  /\ Conclude(kind, b)
  /\ UNCHANGED <<author, committed, refused>>
  /\ \A t \in Queued' : /\ t \in Queued \/ Harmless(t)
                        /\ t.kind \notin {"acknowledge", "reject"}

(* The backend decides the next batch of attempt n.                        *)
Commits(n, b) ==
  /\ n \in Rpcs /\ Requests(n) # <<>> /\ b = Head(Requests(n))
  /\ b # Handshake
  /\ committed' = committed \union {<<b, rs.rpcs[n].user>>}
  /\ UNCHANGED <<local, engine, author, promise, refused>>
  /\ \A t \in Queued' : \/ t \in Queued \/ Harmless(t)
                        \/ t.kind = "result" /\ t.batch = b

Refuses(n, b) ==
  /\ n \in Rpcs /\ Requests(n) # <<>> /\ b = Head(Requests(n))
  /\ b # Handshake
  /\ refused' = refused \union {b}
  /\ UNCHANGED <<local, engine, author, promise, committed>>
  /\ \A t \in Queued' : \/ t \in Queued \/ Harmless(t)
                        \/ t.kind = "permanent" /\ t.batch = b

(* A new session: nobody waits any more.                                   *)
Forgets ==
  /\ local'.queue = local.queue /\ local'.rows = local.rows
  /\ engine'.waiters = {}
  /\ promise' = [b \in DOMAIN promise |->
                   IF promise[b] = "pending" THEN "lost" ELSE promise[b]]
  /\ UNCHANGED <<author, committed, refused>>
  /\ \A t \in Queued' : Harmless(t)

(* Whatever a step does to the books.                                      *)
Accounted ==
  \/ SettlesNothing
  \/ \E b : Submits(b)
  \/ \E kind, b : Concludes(kind, b)
  \/ \E n, b : Commits(n, b) \/ Refuses(n, b)
  \/ Forgets

(* Without a decision a task stays truthful while queues grow at the end.  *)
LEMMA StaysTruthful ==
  ASSUME NEW t, Harmless(t) \/ Truthful(t),
         committed \subseteq committed', refused \subseteq refused',
         \A b \in DOMAIN author : b \in DOMAIN author' /\ author'[b] = author[b],
         t.kind \notin {"acknowledge", "reject"}
           \/ \A b \in DOMAIN author :
                local.queue[author[b]] # <<>> =>
                  /\ local'.queue[author[b]] # <<>>
                  /\ Head(local'.queue[author[b]]) = Head(local.queue[author[b]])
  PROVE  Truthful(t)'
<1>1. ASSUME NEW b, Applied(b) PROVE Applied(b)'
  BY <1>1 DEF Applied
<1>2. CASE Harmless(t)
  BY <1>2 DEF Harmless, Truthful
<1>3. CASE Truthful(t)
  BY <1>1, <1>3 DEF Truthful
<1> QED BY <1>2, <1>3

(* The books are kept by a step that settles nothing,                      *)
LEMMA SettlesNothingBooks ==
  ASSUME Books, SettlesNothing
  PROVE  Books'
<1>1. \A t \in Queued' : Truthful(t)
  BY DEF SettlesNothing, Books
<1>2. ASSUME NEW t \in Queued' PROVE Truthful(t)'
  BY <1>1 DEF Truthful, Applied, SettlesNothing
<1>3. ASSUME NEW w \in engine'.waiters PROVE WaitsForLast(w)'
  BY DEF SettlesNothing, Books, WaitsForLast
<1>4. (/\ Len(promise) = Len(author)
       /\ MutationRowsBacked /\ PromisesBacked /\ Kept
       /\ \A c \in committed : c[1] \in DOMAIN author /\ c[2] = author[c[1]])'
  BY DEF SettlesNothing, Books, MutationRowsBacked, PromisesBacked, Kept,
         Decided, Elems
<1> QED BY <1>2, <1>3, <1>4 DEF Books

(* by a new session,                                                       *)
LEMMA ForgetsBooks ==
  ASSUME Books, Forgets, promise \in Seq({"pending", "resolved", "rejected", "lost"}),
         promise' \in Seq({"pending", "resolved", "rejected", "lost"})
  PROVE  Books'
<1>1. ASSUME NEW t \in Queued' PROVE Truthful(t)'
  BY DEF Truthful, Forgets, Harmless
<1>2. Len(promise') = Len(promise)
  BY LenProperties DEF Forgets
<1>3. MutationRowsBacked' /\ Kept'
      /\ (\A c \in committed : c[1] \in DOMAIN author /\ c[2] = author[c[1]])'
  BY DEF Forgets, Books, MutationRowsBacked, Kept, Decided, Elems
<1>4. PromisesBacked'
  BY DEF Forgets, PromisesBacked
<1> QED BY <1>1, <1>2, <1>3, <1>4 DEF Books, Forgets

(* by a decision of the backend, which is about the next undecided batch   *)
(* of the attempt's user,                                                  *)
LEMMA BackendBooks ==
  ASSUME Settled, Books, RequestsInOrder(rs, author, Decided),
         NEW n, NEW b, Commits(n, b) \/ Refuses(n, b)
  PROVE  /\ b \in DOMAIN author /\ rs.rpcs[n].user = author[b]
         /\ \A e \in 1 .. b - 1 : author[e] = author[b] => e \in Decided
         /\ Books'
<1> DEFINE q == Requests(n)
<1>1. q \in Seq(Nat) /\ q # <<>> /\ b = q[1] /\ 1 \in DOMAIN q /\ b # Handshake
  <2>1. rs.rpcs[n] \in RpcType /\ n \in Rpcs /\ q # <<>> /\ b = Head(q)
        /\ b # Handshake
    BY SettledParts, RpcOK DEF Commits, Refuses
  <2>2. q \in Seq(Nat)
    BY <2>1 DEF Requests, RpcType
  <2> HIDE DEF q
  <2> QED BY <2>1, <2>2, HeadTailProperties, LenProperties
<1>2. InOrder(q, rs.rpcs[n].user, author, Decided)
  BY DEF RequestsInOrder, Requests, Commits, Refuses, Rpcs
<1> HIDE DEF q
<1>3. /\ b \in DOMAIN author /\ rs.rpcs[n].user = author[b]
      /\ \A e \in 1 .. b - 1 : author[e] = author[b] => e \in Decided
  <2>1. /\ b \in DOMAIN author /\ author[b] = rs.rpcs[n].user
        /\ \A e \in 1 .. b - 1 : author[e] = rs.rpcs[n].user =>
             e \in Decided \/ \E j \in 1 .. 1 - 1 : q[j] = e
    BY <1>1, <1>2 DEF InOrder
  <2> QED BY <2>1
<1>4. /\ UNCHANGED <<local, engine, author, promise>>
      /\ committed \subseteq committed' /\ refused \subseteq refused'
  BY DEF Commits, Refuses
<1>5. ASSUME NEW t \in Queued' PROVE Truthful(t)'
  <2>1. CASE t \in Queued \/ Harmless(t)
    <3>1. Harmless(t) \/ Truthful(t)
      BY <2>1 DEF Books
    <3> QED BY <1>4, <3>1, StaysTruthful
  <2>2. CASE Commits(n, b) /\ t.kind = "result" /\ t.batch = b
    <3>1. <<b, author[b]>> \in committed'
      BY <1>3, <2>2 DEF Commits
    <3> QED BY <1>3, <1>4, <2>2, <3>1 DEF Truthful, Applied
  <2>3. CASE Refuses(n, b) /\ t.kind = "permanent" /\ t.batch = b
    BY <2>3 DEF Truthful, Refuses
  <2> QED BY <2>1, <2>2, <2>3 DEF Commits, Refuses
<1>6. Kept'
  BY <1>4 DEF Books, Kept, Decided, Decisions
<1>7. (\A c \in committed : c[1] \in DOMAIN author /\ c[2] = author[c[1]])'
  BY <1>3, <1>4 DEF Books, Commits, Refuses
<1>8. (/\ Len(promise) = Len(author) /\ MutationRowsBacked /\ PromisesBacked
       /\ \A w \in engine.waiters : WaitsForLast(w))'
  BY <1>4 DEF Books, MutationRowsBacked, PromisesBacked, WaitsForLast
<1> QED BY <1>3, <1>5, <1>6, <1>7, <1>8 DEF Books

(* What belongs to whom.                                                   *)
LEMMA QueueOwners ==
  ASSUME Settled
  PROVE  /\ Len(author) \in Nat /\ DOMAIN author = 1 .. Len(author)
         /\ \A v \in Users : \A c \in Elems(local.queue[v]) :
              c \in DOMAIN author /\ author[c] = v
         /\ \A v \in Users : /\ local.queue[v] \in Seq(BatchIds)
                             /\ Ascends(local.queue[v])
         /\ local \in LocalType /\ engine \in EngineType
         /\ local.user \in Users /\ engine.user \in Users
         /\ \A c \in DOMAIN author : author[c] \in Users
<1>1. /\ TypeOK /\ QueuesInOrder /\ author \in Seq(Users)
      /\ local \in LocalType /\ engine \in EngineType
  BY SettledParts DEF TypeOK
<1>2. Len(author) \in Nat /\ DOMAIN author = 1 .. Len(author)
      /\ \A c \in DOMAIN author : author[c] \in Users
  BY <1>1, LenProperties, ElementOfSeq
<1>3. \A v \in Users : \A c \in Elems(local.queue[v]) :
        c \in DOMAIN author /\ author[c] = v
  BY <1>1 DEF QueuesInOrder, Elems
<1> QED BY <1>1, <1>2, <1>3, QueuesOK DEF QueuesInOrder, EngineType

(* by a write,                                                             *)
LEMMA SubmitsBooks ==
  ASSUME Settled, Books, engine.user = local.user,
         NEW b, Submits(b)
  PROVE  Books'
<1> DEFINE u == local.user
           q == OwnQueue
           a == author'
<1>1. /\ Len(author) \in Nat /\ DOMAIN author = 1 .. Len(author)
      /\ \A v \in Users : \A c \in Elems(local.queue[v]) :
           c \in DOMAIN author /\ author[c] = v
      /\ local \in LocalType /\ engine \in EngineType
      /\ u \in Users /\ q \in Seq(BatchIds) /\ q = local.queue[u]
      /\ \A c \in DOMAIN author : author[c] \in Users
  BY QueueOwners DEF OwnQueue
<1>2. /\ author \in Seq(Users)
      /\ promise \in Seq({"pending", "resolved", "rejected", "lost"})
      /\ Len(promise) = Len(author) /\ b = Len(author) + 1
  BY SettledParts DEF TypeOK, Books, Submits
<1>3. /\ DOMAIN a = 1 .. b /\ a[b] = u /\ Len(a) = b
      /\ \A c \in DOMAIN author : c \in DOMAIN a /\ a[c] = author[c] /\ c # b
  <2>1. a = Append(author, u)
    BY DEF Submits
  <2> HIDE DEF a, u
  <2> QED BY <1>1, <1>2, <2>1, AppendProperties
<1>4. /\ DOMAIN promise' = 1 .. b /\ Len(promise') = b
      /\ \A c \in 1 .. Len(author) : promise'[c] = promise[c]
      /\ DOMAIN promise = 1 .. Len(author)
  <2>1. promise' = Append(promise, "pending")
    BY DEF Submits
  <2> QED BY <1>1, <1>2, <2>1, AppendProperties, LenProperties
<1>5. b \in BatchIds /\ b \in 1 .. b
      /\ \A c : c \in 1 .. b <=> c \in 1 .. Len(author) \/ c = b
  BY <1>1, <1>2 DEF BatchIds
<1>6. /\ local'.queue = [local.queue EXCEPT ![u] = Append(q, b)]
      /\ local'.rows = local.rows \union {<<u, b>>}
      /\ engine'.callbacks = [engine.callbacks EXCEPT ![u] = @ \union {b}]
      /\ engine'.waiters = engine.waiters
      /\ UNCHANGED <<committed, refused>>
  BY <1>1 DEF Submits, LocalType, EngineType
<1>7. /\ local'.queue[u] = Append(q, b)
      /\ \A v \in Users : v # u => local'.queue[v] = local.queue[v]
      /\ engine'.callbacks[u] = engine.callbacks[u] \union {b}
      /\ \A v \in Users : v # u => engine'.callbacks[v] = engine.callbacks[v]
  BY <1>1, <1>6 DEF LocalType, EngineType
<1> HIDE DEF a, q, u
<1>8. Elems(Append(q, b)) = Elems(q) \union {b}
  BY <1>1, <1>5, ElemsSteps
<1>9. \A v \in Users :
        /\ Elems(local.queue[v]) \subseteq Elems(local'.queue[v])
        /\ \A c : c \in Elems(local'.queue[v]) <=>
                   c \in Elems(local.queue[v]) \/ (v = u /\ c = b)
  BY <1>1, <1>7, <1>8
<1>10. MutationRowsBacked'
  <2> DEFINE Backs(row, m, queue) == row \in Users \X (1 .. m) /\ row[2] \in Elems(queue[row[1]])
  <2>1. \A row : row \in local.rows <=> Backs(row, Len(author), local.queue)
    BY DEF Books, MutationRowsBacked
  <2>2. ASSUME NEW row
        PROVE  row \in local'.rows <=> Backs(row, b, local'.queue)
    <3>1. row \in local'.rows <=> row \in local.rows \/ row = <<u, b>>
      BY <1>6
    <3>2. CASE row = <<u, b>>
      <4>1. b \in 1 .. b /\ b \in Elems(local'.queue[u])
        BY <1>1, <1>5, <1>9
      <4> QED BY <1>1, <3>1, <3>2, <4>1
    <3>3. ASSUME NEW v \in Users, NEW c, row = <<v, c>>, row # <<u, b>>
          PROVE  row \in local'.rows <=> Backs(row, b, local'.queue)
      <4>1. c \in Elems(local.queue[v]) <=> c \in Elems(local'.queue[v])
        BY <1>9, <3>3
      <4>2. c \in Elems(local.queue[v]) => c \in 1 .. Len(author) /\ c \in 1 .. b
        BY <1>1, <1>5
      <4> QED BY <2>1, <3>1, <3>3, <4>1, <4>2
    <3>4. row \in Users \X (1 .. b) =>
            \E v \in Users, c \in 1 .. b : row = <<v, c>>
      OBVIOUS
    <3>5. row \in local.rows => row \in Users \X (1 .. b)
      <4>1. row \in local.rows => row \in Users \X (1 .. Len(author))
        BY <2>1
      <4> QED BY <1>1, <1>2, <4>1
    <3> QED BY <3>1, <3>2, <3>3, <3>4, <3>5
  <2>3. \A row : row \in local'.rows <=>
                   /\ row \in Users \X (1 .. Len(a))
                   /\ row[2] \in Elems(local'.queue[row[1]])
    BY <1>3, <2>2
  <2> QED BY <2>3 DEF MutationRowsBacked, a
<1>11. PromisesBacked'
  <2>1. ASSUME NEW c \in DOMAIN promise', promise'[c] = "pending"
        PROVE  c \in Elems(local'.queue[a[c]]) /\ c \in engine'.callbacks[a[c]]
    <3>1. CASE c = b
      <4>1. a[c] = u /\ c \in Elems(local'.queue[u])
        BY <1>1, <1>3, <1>9, <3>1
      <4> QED BY <1>7, <3>1, <4>1
    <3>2. CASE c # b
      <4>1. c \in 1 .. Len(author)
        BY <1>1, <1>2, <1>4, <2>1, <3>2
      <4>2. /\ c \in Elems(local.queue[author[c]])
            /\ c \in engine.callbacks[author[c]]
        BY <1>4, <2>1, <4>1 DEF Books, PromisesBacked
      <4>3. author[c] \in Users /\ a[c] = author[c]
        BY <1>1, <1>3, <4>1
      <4>4. engine.callbacks[author[c]] \subseteq engine'.callbacks[author[c]]
        BY <1>7, <4>3
      <4> QED BY <1>9, <4>2, <4>3, <4>4
    <3> QED BY <3>1, <3>2
  <2> QED BY <2>1 DEF PromisesBacked, a
<1>12. \A c \in DOMAIN author : c \in DOMAIN a /\ a[c] = author[c]
  BY <1>3
<1>13. Kept'
  <2>1. ASSUME NEW c \in DOMAIN a
        PROVE  \/ c \in Elems(local'.queue[a[c]])
               \/ <<c, a[c]>> \in committed' \/ c \in refused'
    <3>1. CASE c = b
      <4>1. a[c] = u /\ c \in Elems(local'.queue[u])
        BY <1>1, <1>3, <1>9, <3>1
      <4> QED BY <4>1
    <3>2. CASE c # b
      <4>1. c \in DOMAIN author
        BY <1>1, <1>2, <1>3, <2>1, <3>2
      <4>2. c \in Elems(local.queue[author[c]]) \/ c \in Decided
        BY <4>1 DEF Books, Kept
      <4> QED BY <1>1, <1>6, <1>9, <1>12, <4>1, <4>2 DEF Decided, Decisions
    <3> QED BY <3>1, <3>2
  <2> HIDE DEF a
  <2>2. \A c \in DOMAIN a :
          \/ c \in Elems(local'.queue[a[c]])
          \/ c \in Decisions(a, committed', refused')
    BY <2>1 DEF Decisions
  <2> QED BY <2>2 DEF Kept, Decided, a
<1>14. (\A c \in committed : c[1] \in DOMAIN author /\ c[2] = author[c[1]])'
  BY <1>6, <1>12 DEF Books, a
<1>15. ASSUME NEW t \in Queued' PROVE Truthful(t)'
  <2>1. Harmless(t) \/ Truthful(t)
    BY DEF Submits, Books
  <2>2. ASSUME NEW v \in Users, local.queue[v] # <<>>
        PROVE  /\ local'.queue[v] # <<>>
               /\ Head(local'.queue[v]) = Head(local.queue[v])
    <3>1. CASE v = u
      <4>1. q # <<>> /\ local'.queue[v] = Append(q, b)
        BY <1>1, <1>7, <2>2, <3>1
      <4>2. Append(q, b) # <<>> /\ Head(Append(q, b)) = Head(q)
        <5>1. q \in Seq(BatchIds) /\ Len(q) \in Nat /\ Len(q) # 0
          BY <1>1, <4>1, LenProperties, EmptySeq
        <5>2. Append(q, b) \in Seq(BatchIds) /\ Len(Append(q, b)) = Len(q) + 1
              /\ Append(q, b)[1] = q[1]
          BY <1>5, <5>1, AppendProperties
        <5>3. Append(q, b) # <<>>
          BY <5>1, <5>2
        <5> QED BY <4>1, <5>1, <5>2, <5>3, HeadTailProperties
      <4> QED BY <1>1, <3>1, <4>1, <4>2
    <3> QED BY <1>7, <2>2, <3>1
  <2>3. committed \subseteq committed' /\ refused \subseteq refused'
    BY <1>6
  <2>4. \A c \in DOMAIN author : c \in DOMAIN author' /\ author'[c] = author[c]
    BY <1>12 DEF a
  <2> QED BY <1>1, <2>1, <2>2, <2>3, <2>4, StaysTruthful
<1>16. ASSUME NEW w \in engine'.waiters PROVE WaitsForLast(w)'
  <2>1. WaitsForLast(w)
    BY <1>6 DEF Books
  <2> QED BY <1>12, <2>1 DEF WaitsForLast, a
<1> QED BY <1>3, <1>4, <1>10, <1>11, <1>13, <1>14, <1>15, <1>16 DEF Books, a

(* by a decision that is recorded,                                         *)
LEMMA ConcludesBooks ==
  ASSUME Settled, Books, engine.user = local.user,
         NEW kind, NEW b, Concludes(kind, b)
  PROVE  Books'
<1> DEFINE u == local.user
           q == OwnQueue
<1>1. /\ DOMAIN author = 1 .. Len(author)
      /\ \A v \in Users : \A c \in Elems(local.queue[v]) :
           c \in DOMAIN author /\ author[c] = v
      /\ \A v \in Users : /\ local.queue[v] \in Seq(BatchIds)
                          /\ Ascends(local.queue[v])
      /\ local \in LocalType /\ engine \in EngineType
      /\ u \in Users /\ q = local.queue[u] /\ engine.user = u
      /\ \A c \in DOMAIN author : author[c] \in Users
  BY QueueOwners DEF OwnQueue
<1>2. /\ b \in DOMAIN author /\ author[b] = u /\ b \in Decided
  <2>1. q \in Seq(BatchIds) /\ q # <<>> /\ b = Head(q)
    BY <1>1 DEF Concludes
  <2>2. b \in Elems(q)
    BY <2>1, ElemsSteps
  <2>3. b \in DOMAIN author /\ author[b] = u
    BY <1>1, <2>2
  <2>4. <<b, author[b]>> \in committed \/ b \in refused
    BY DEF Concludes, Decision, Applied
  <2> QED BY <2>3, <2>4 DEF Decided, Decisions
<1>3. /\ local'.queue = [v \in Users |-> Without(local.queue[v], b)]
      /\ local'.rows = local.rows \ {<<u, b>>}
      /\ engine'.callbacks = [engine.callbacks EXCEPT ![u] = @ \ {b}]
      /\ engine'.waiters = {w \in engine.waiters : w.batch # b}
      /\ UNCHANGED <<author, committed, refused>>
  BY <1>1 DEF Concludes, Conclude, RemoveBatch, LocalType, EngineType
<1>4. /\ \A v \in Users : Elems(local'.queue[v]) = Elems(local.queue[v]) \ {b}
      /\ \A v \in Users : \A c :
           c \in engine'.callbacks[v] <=>
             c \in engine.callbacks[v] /\ ~(v = u /\ c = b)
  BY <1>1, <1>3, WithoutParts DEF EngineType
<1> HIDE DEF u, q
<1>5. MutationRowsBacked'
  <2>1. \A row : row \in local.rows <=>
                   /\ row \in Users \X (1 .. Len(author))
                   /\ row[2] \in Elems(local.queue[row[1]])
    BY DEF Books, MutationRowsBacked
  <2>2. ASSUME NEW row \in Users \X (1 .. Len(author))
        PROVE  row \in local'.rows <=> row[2] \in Elems(local'.queue[row[1]])
    <3>1. row[1] \in Users /\ row = <<row[1], row[2]>>
      OBVIOUS
    <3>2. row \in local'.rows <=>
            row[2] \in Elems(local.queue[row[1]]) /\ row # <<u, b>>
      BY <1>3, <2>1
    <3>3. row[2] = b /\ row[2] \in Elems(local.queue[row[1]]) => row[1] = u
      BY <1>1, <1>2, <3>1
    <3>4. row = <<u, b>> <=> row[1] = u /\ row[2] = b
      BY <3>1
    <3> QED BY <1>4, <3>1, <3>2, <3>3, <3>4
  <2>3. \A row : row \in local'.rows <=>
                   /\ row \in Users \X (1 .. Len(author))
                   /\ row[2] \in Elems(local'.queue[row[1]])
    BY <1>3, <2>1, <2>2
  <2>4. \A row : row \in local'.rows <=>
                   /\ row \in Users \X (1 .. Len(author'))
                   /\ row[2] \in Elems(local'.queue[row[1]])
    BY <1>3, <2>3
  <2> QED BY <2>4 DEF MutationRowsBacked
<1>6. /\ DOMAIN promise' = DOMAIN promise /\ Len(promise') = Len(promise)
      /\ \A c \in DOMAIN promise : c # b => promise'[c] = promise[c]
      /\ b \in engine.callbacks[u] => promise'[b] # "pending" \/ b \notin DOMAIN promise
  <2>1. promise \in Seq({"pending", "resolved", "rejected", "lost"})
    BY SettledParts DEF TypeOK
  <2>2. \/ promise' = promise /\ ~(b \in engine.callbacks[u] /\ promise[b] = "pending")
        \/ \E verdict \in {"resolved", "rejected"} :
             promise' = [promise EXCEPT ![b] = verdict]
    BY <1>1 DEF Concludes, Conclude
  <2>3. CASE promise' = promise /\ ~(b \in engine.callbacks[u] /\ promise[b] = "pending")
    BY <2>3
  <2>4. ASSUME NEW verdict \in {"resolved", "rejected"},
               promise' = [promise EXCEPT ![b] = verdict]
        PROVE  <1>6
    <3>1. b \in 1 .. Len(promise)
      BY <1>1, <1>2 DEF Books
    <3>2. /\ promise' \in Seq({"pending", "resolved", "rejected", "lost"})
          /\ Len(promise') = Len(promise)
      BY <2>1, <2>4, <3>1, ExceptSeq
    <3> QED BY <2>4, <3>2
  <2> QED BY <2>2, <2>3, <2>4
<1>7. PromisesBacked'
  <2>1. ASSUME NEW c \in DOMAIN promise', promise'[c] = "pending"
        PROVE  /\ c \in Elems(local'.queue[author[c]])
               /\ c \in engine'.callbacks[author[c]]
    <3>1. DOMAIN promise = DOMAIN author
      <4>1. promise \in Seq({"pending", "resolved", "rejected", "lost"})
            /\ Len(promise) = Len(author)
        BY SettledParts DEF TypeOK, Books
      <4> QED BY <1>1, <4>1, LenProperties
    <3>2. CASE c # b
      <4>1. /\ c \in Elems(local.queue[author[c]])
            /\ c \in engine.callbacks[author[c]]
        BY <1>6, <2>1, <3>2 DEF Books, PromisesBacked
      <4>2. author[c] \in Users
        BY <1>1, <1>6, <2>1, <3>1
      <4> QED BY <1>4, <3>2, <4>1, <4>2
    <3>3. CASE c = b
      <4>1. b \notin engine.callbacks[u]
        BY <1>6, <2>1, <3>3
      <4>2. promise[b] # "pending"
        BY <1>2, <1>6, <2>1, <3>3, <4>1 DEF Books, PromisesBacked
      <4>3. promise'[b] = promise[b]
        BY <1>1, <4>1 DEF Concludes, Conclude
      <4> QED BY <2>1, <3>3, <4>2, <4>3
    <3> QED BY <3>2, <3>3
  <2> QED BY <1>3, <2>1 DEF PromisesBacked
<1>8. Kept'
  <2>1. ASSUME NEW c \in DOMAIN author
        PROVE  c \in Elems(local'.queue[author[c]]) \/ c \in Decided
    BY <1>1, <1>2, <1>4 DEF Books, Kept
  <2>2. Decided' = Decided
    BY <1>3 DEF Decided
  <2> QED BY <1>3, <2>1, <2>2 DEF Kept
<1>9. ASSUME NEW t \in Queued' PROVE Truthful(t)'
  <2>1. Harmless(t) \/ Truthful(t)
    BY DEF Concludes, Books
  <2>2. t.kind \notin {"acknowledge", "reject"}
    BY DEF Concludes
  <2> QED BY <1>3, <2>1, <2>2, StaysTruthful
<1>10. (\A w \in engine.waiters : WaitsForLast(w))'
  BY <1>3 DEF Books, WaitsForLast
<1>11. (/\ Len(promise) = Len(author)
        /\ \A c \in committed : c[1] \in DOMAIN author /\ c[2] = author[c[1]])'
  BY <1>3, <1>6 DEF Books
<1> QED BY <1>5, <1>7, <1>8, <1>9, <1>10, <1>11 DEF Books

(* and so by whatever is accounted for.                                    *)
LEMMA AccountedBooks ==
  ASSUME Settled, Settled', Books, RequestsInOrder(rs, author, Decided),
         engine.user = local.user, Accounted
  PROVE  Books'
<1>1. /\ promise \in Seq({"pending", "resolved", "rejected", "lost"})
      /\ promise' \in Seq({"pending", "resolved", "rejected", "lost"})
  BY DEF Settled, TypeOK
<1>2. CASE Forgets
  BY <1>1, <1>2, ForgetsBooks
<1> QED BY <1>2, SettlesNothingBooks, SubmitsBooks, ConcludesBooks,
           BackendBooks DEF Accounted

(* Where the tasks and retries of a step come from.                        *)
LEMMA HarmlessOps ==
  Harmless(Op("probe", 0)) /\ Harmless(Op("auth", 0))
  /\ Harmless(Op("appCheck", 0))
BY DEF Harmless, Op

(* Whatever resumes enqueues nothing but a probe.                          *)
LEMMA ResumesQueue ==
  ASSUME NEW base, NEW c, NEW rest \in Seq(TaskType), Resumes(base, c, rest)
  PROVE  \A t \in Elems(tasks') : t \in Elems(rest) \/ Harmless(t)
<1>1. tasks' = rest \/ tasks' = Append(rest, Op("probe", 0))
  BY ResumesEffects
<1>2. Elems(Append(rest, Op("probe", 0))) = Elems(rest) \union {Op("probe", 0)}
  BY ElemsSteps, OpsTyped
<1> QED BY <1>1, <1>2, HarmlessOps

(* A task that reports no decision is truthful.                            *)
LEMMA HarmlessIsTruthful ==
  ASSUME NEW t, Harmless(t)
  PROVE  Truthful(t)
BY DEF Harmless, Truthful

(* getHighestUnacknowledgedBatchId is the last of the user's own batches,  *)
(* if there are any.                                                       *)
LEMMA HighestIsLast ==
  ASSUME Settled, OwnQueue # <<>>
  PROVE  /\ HighestUnacknowledged(local.user) \in Elems(OwnQueue)
         /\ \A c \in Elems(OwnQueue) : c <= HighestUnacknowledged(local.user)
<1> DEFINE u == local.user
           q == OwnQueue
           older == {v \in 1 .. u : local.queue[v] # <<>>}
           first == CHOOSE v \in older : \A w \in older : w <= v
<1>1. /\ u \in Users /\ q \in Seq(BatchIds) /\ q = local.queue[u] /\ Ascends(q)
  BY QueueOwners DEF OwnQueue
<1>2. u \in Nat /\ u \in 1 .. u
  BY <1>1, UsersAssumption DEF Users
<1>3. u \in older /\ \A w \in older : w <= u
  BY <1>1, <1>2
<1>4. first \in older /\ \A w \in older : w <= first
  BY <1>3
<1>5. first = u
  <2>1. first \in 1 .. u /\ u <= first
    BY <1>3, <1>4
  <2> HIDE DEF first
  <2> QED BY <1>2, <2>1
<1>6. HighestUnacknowledged(u) = q[Len(q)]
  <2>1. older # {}
    BY <1>3
  <2>2. HighestUnacknowledged(u) = local.queue[first][Len(local.queue[first])]
    BY <2>1 DEF HighestUnacknowledged
  <2> HIDE DEF first
  <2> QED BY <1>1, <1>5, <2>2
<1> HIDE DEF u, q
<1>7. Len(q) \in DOMAIN q /\ DOMAIN q = 1 .. Len(q) /\ Len(q) \in Nat
      /\ \A i \in DOMAIN q : q[i] \in Nat
  <2>1. Len(q) \in Nat /\ Len(q) # 0 /\ DOMAIN q = 1 .. Len(q)
    BY <1>1, LenProperties, EmptySeq DEF q
  <2>2. \A i \in DOMAIN q : q[i] \in Nat
    BY <1>1, <2>1, ElementOfSeq DEF BatchIds
  <2> QED BY <2>1, <2>2
<1>8. ASSUME NEW i \in DOMAIN q PROVE q[i] <= q[Len(q)]
  <2>1. CASE i = Len(q)
    BY <1>7, <2>1
  <2>2. CASE i < Len(q)
    BY <1>1, <1>7, <2>2 DEF Ascends
  <2> QED BY <1>7, <2>1, <2>2
<1> QED BY <1>6, <1>7, <1>8 DEF Elems, u, q

(* The calls of the application are accounted for.                         *)
LEMMA CallsAccounted ==
  ASSUME Settled, Settled', "reenable" \notin Faults,
         "viewRefill" \notin Faults, FollowsUser, NeverFails, Application
  PROVE  Accounted /\ NeverFails'
<1>1. /\ tasks \in Seq(TaskType) /\ retryOps \in Seq(TaskType)
      /\ rs.causes \subseteq OfflineCauses /\ CallbacksSound(rs, tasks)
  BY SettledParts
<1>2. ASSUME Running, mode' = mode PROVE NeverFails'
  BY <1>2 DEF NeverFails, Running
<1>3. ASSUME UNCHANGED <<local, engine, author, promise, committed, refused,
                         retryOps>>,
             \A t \in Elems(tasks') : t \in Elems(tasks) \/ Harmless(t)
      PROVE  Accounted
  <2>1. SettlesNothing
    BY <1>3, HarmlessIsTruthful DEF SettlesNothing, Queued
  <2> QED BY <2>1 DEF Accounted
<1>4. CASE Write
  <2>1. Resumes(rs, rs.causes, tasks)
    BY <1>4, WriteResumes
  <2>2. Submits(Len(author) + 1)
    <3>1. \A t \in Queued' : t \in Queued \/ Harmless(t)
      BY <1>1, <1>4, <2>1, ResumesQueue DEF Write, Queued
    <3> QED BY <1>4, <3>1 DEF Write, Submits
  <2> QED BY <1>2, <1>4, <2>2 DEF Accounted, Write
<1>5. CASE WaitForPendingWrites
  <2> DEFINE h == HighestUnacknowledged(local.user)
             w == [batch |-> h, covers |-> Elems(OwnQueue)]
  <2>1. /\ engine' = [engine EXCEPT !.waiters = @ \union {w}]
        /\ UNCHANGED <<local, author, promise, committed, refused, tasks,
                       retryOps, mode>> /\ Running
    BY <1>5 DEF WaitForPendingWrites
  <2>2. WaitsForLast(w)
    <3>1. ASSUME NEW c \in Elems(OwnQueue)
          PROVE  /\ h \in DOMAIN author /\ c \in DOMAIN author
                 /\ author[c] = author[h] /\ c <= h
      <4>1. OwnQueue # <<>>
        BY <3>1, ElemsSteps, SettledParts
      <4>2. h \in Elems(OwnQueue) /\ c <= h
        BY <3>1, <4>1, HighestIsLast
      <4> QED BY <3>1, <4>2, QueueOwners DEF OwnQueue
    <3> HIDE DEF h
    <3> QED BY <3>1 DEF WaitsForLast
  <2> HIDE DEF w
  <2>3. engine'.callbacks = engine.callbacks
        /\ engine'.waiters = engine.waiters \union {w}
    BY <2>1, QueueOwners DEF EngineType
  <2>4. SettlesNothing
    BY <2>1, <2>2, <2>3 DEF SettlesNothing, Queued
  <2> QED BY <1>2, <2>1, <2>4 DEF Accounted
<1>6. CASE EnableNetwork \/ ConnectivityChange
  <2>1. PICK c \in SUBSET rs.causes : Resumes(rs, c, tasks)
    BY <1>6, NetworkCallsResume
  <2>2. \A t \in Elems(tasks') : t \in Elems(tasks) \/ Harmless(t)
    BY <1>1, <2>1, ResumesQueue
  <2>3. /\ UNCHANGED <<local, engine, author, promise, committed, refused,
                       retryOps, mode>> /\ Running
    BY <1>6 DEF EnableNetwork, ConnectivityChange
  <2> QED BY <1>2, <1>3, <2>2, <2>3
<1>7. CASE DisableNetwork
  BY <1>2, <1>3, <1>7 DEF DisableNetwork
<1>8. CASE AppCheckTokenChanged \/ \E u \in Users : AuthTokenChanged(u)
  <2>1. \E kind \in {"auth", "appCheck"} : tasks' = Append(tasks, Op(kind, 0))
    BY <1>8 DEF AppCheckTokenChanged, AuthTokenChanged
  <2>2. PICK kind \in {"auth", "appCheck"} : tasks' = Append(tasks, Op(kind, 0))
    BY <2>1
  <2>3. Op(kind, 0) \in TaskType /\ Harmless(Op(kind, 0))
    BY OpsTyped, HarmlessOps
  <2>4. Elems(tasks') = Elems(tasks) \union {Op(kind, 0)}
    BY <1>1, <2>2, <2>3, ElemsSteps
  <2>5. /\ UNCHANGED <<local, engine, author, promise, committed, refused,
                       retryOps, mode>> /\ Running
    BY <1>8 DEF AppCheckTokenChanged, AuthTokenChanged
  <2> QED BY <1>2, <1>3, <2>3, <2>4, <2>5
<1>9. CASE Terminate
  <2> DEFINE c == rs.causes \union {"Shutdown"}
  <2>1. c \in SUBSET OfflineCauses /\ c # {}
    BY <1>1 DEF OfflineCauses
  <2>2. rs' = DisableNetworkInternal([rs EXCEPT !.causes = c])
        /\ mode' = "terminated" /\ UNCHANGED <<local, engine, author, promise,
                  committed, refused, retryOps, tasks>>
    BY <1>9 DEF Terminate
  <2> HIDE DEF c
  <2>3. rs'.causes # {}
    BY <1>1, <2>1, <2>2, OfflineSilent
  <2>4. NeverFails'
    BY <2>2, <2>3 DEF NeverFails, CanUseNetwork
  <2> QED BY <1>3, <2>2, <2>4
<1>10. CASE Restart
  <2>1. Resumes(rs, {}, <<>>)
    BY <1>10, RestartResumes, AfreshResumes
  <2>2. <<>> \in Seq(TaskType) /\ Elems(<<>>) = {} /\ retryOps' = <<>>
    BY <1>1, <1>10, EmptySeq, ElemsSteps DEF Restart
  <2>3. \A t \in Queued' : Harmless(t)
    BY <2>1, <2>2, ResumesQueue DEF Queued
  <2>4. local'.queue = local.queue /\ local'.rows = local.rows
    BY <1>10, QueueOwners DEF Restart, LocalType
  <2>5. engine'.waiters = {} /\ mode' = "running"
        /\ UNCHANGED <<author, committed, refused>>
        /\ promise' = [b \in DOMAIN promise |->
                   IF promise[b] = "pending" THEN "lost" ELSE promise[b]]
    BY <1>10 DEF Restart
  <2>6. Forgets
    BY <2>3, <2>4, <2>5 DEF Forgets
  <2>7. NeverFails'
    BY <2>5 DEF NeverFails, Running
  <2> QED BY <2>6, <2>7 DEF Accounted
<1> QED BY <1>4, <1>5, <1>6, <1>7, <1>8, <1>9, <1>10 DEF Application

(* Nothing stands in the way of recording the decision of the first batch. *)
LEMMA DecidableFirst ==
  ASSUME Settled, Books, OwnQueue # <<>>, NEW kind
  PROVE  Decidable(kind, Head(OwnQueue))
<1> DEFINE u == local.user
           q == OwnQueue
           b == Head(OwnQueue)
           l == RemoveBatch(b)
<1>1. /\ u \in Users /\ q \in Seq(BatchIds) /\ q = local.queue[u]
      /\ Ascends(q) /\ local \in LocalType /\ q # <<>>
  BY QueueOwners DEF OwnQueue
<1>2. b \in Elems(q)
  BY <1>1, ElemsSteps
<1>3. /\ l.user = u /\ l.queue[u] = Without(q, b)
      /\ l.rows = local.rows \ {<<u, b>>}
  BY <1>1 DEF RemoveBatch, LocalType
<1> HIDE DEF b, l
<1>4. Consistent(l)
  <2>1. ASSUME Without(q, b) = <<>>, NEW row \in l.rows, row[1] = u
        PROVE  FALSE
    <3>1. Elems(q) \ {b} = {}
      <4>1. Elems(Without(q, b)) = Elems(q) \ {b}
        BY <1>1, WithoutParts
      <4>2. Elems(<<>>) = {}
        BY <1>1, ElemsSteps
      <4> QED BY <2>1, <4>1, <4>2
    <3>2. row \in local.rows /\ row # <<u, b>>
      BY <1>3, <2>1
    <3>3. row \in Users \X (1 .. Len(author)) /\ row[2] \in Elems(q)
      BY <1>1, <2>1, <3>2 DEF Books, MutationRowsBacked
    <3>4. row = <<row[1], row[2]>>
      BY <3>3
    <3> QED BY <2>1, <3>1, <3>2, <3>3, <3>4
  <2> QED BY <1>3, <2>1 DEF Consistent
<1> QED BY <1>1, <1>2, <1>4 DEF Decidable, b, l

(* Online, no decision waits for a retry.                                  *)
LEMMA NoDecisionWaits ==
  ASSUME NEW s, NEW ops, NEW queue, OneRecovery(s, ops, queue),
         "IndexedDbFailed" \notin s.causes
  PROVE  \A t \in Elems(ops) \union Elems(queue) :
           t.kind \notin {"acknowledge", "reject"}
BY DEF OneRecovery, RecoversIn, Elems

(* The first task and the others are tasks that were there.                *)
LEMMA HeadAccounted ==
  ASSUME Settled, tasks # <<>>
  PROVE  /\ Head(tasks) \in Elems(tasks) /\ Head(tasks) \in TaskType
         /\ Tail(tasks) \in Seq(TaskType)
         /\ Elems(Tail(tasks)) \subseteq Elems(tasks)
BY SettledParts, ElemsSteps

(* What is decided is the first batch of the user's queue.                 *)
LEMMA DecidesHead ==
  ASSUME Settled, NEW kind, NEW b, b = Head(rs.pipeline), Decides(kind, b)
  PROVE  OwnQueue # <<>> /\ b = Head(OwnQueue) /\ b \in BatchIds
<1>1. /\ OwnQueue \in Seq(BatchIds) /\ Ascends(OwnQueue)
      /\ rs.pipeline = SubSeq(OwnQueue, 1, Least(MaxPending, Len(OwnQueue)))
      /\ rs.pipeline # <<>>
  BY SettledParts DEF Decides, Mirrors, CanUseNetwork
<1>2. OwnQueue # <<>> /\ Head(rs.pipeline) = OwnQueue[1]
  <2> DEFINE q == OwnQueue
             p == rs.pipeline
  <2>1. q \in Seq(BatchIds) /\ Ascends(q) /\ p # <<>>
        /\ p = SubSeq(q, 1, Least(MaxPending, Len(q)))
    BY <1>1
  <2> HIDE DEF p, q
  <2>2. q # <<>> /\ Head(p) = q[1]
    BY <2>1, FrontOfQueue
  <2> QED BY <2>2 DEF p, q
<1>3. Head(OwnQueue) = OwnQueue[1] /\ Head(OwnQueue) \in BatchIds
  BY <1>1, <1>2, HeadTailProperties
<1> QED BY <1>2, <1>3

(* A decision that the stream reports is recorded or put off, and no       *)
(* assertion fails.                                                        *)
LEMMA DecidesAccounted ==
  ASSUME Settled, Books, NeverFails, NEW kind \in {"acknowledge", "reject"},
         Decides(kind, Head(rs.pipeline))
  PROVE  Accounted /\ NeverFails'
<1> DEFINE b == Head(rs.pipeline)
           rest == Tail(tasks)
<1>1. /\ Running /\ tasks # <<>> /\ rs.causes = {} /\ rs.pipeline # <<>>
      /\ Head(tasks).kind = IF kind = "acknowledge" THEN "result" ELSE "permanent"
      /\ Head(tasks).batch = b
      /\ UNCHANGED <<creds, retryOps, author, committed, refused>>
  BY DEF Decides
<1>2. /\ OwnQueue # <<>> /\ b = Head(OwnQueue) /\ b \in BatchIds
  BY DecidesHead
<1>3. Head(tasks) \in Elems(tasks) /\ rest \in Seq(TaskType)
      /\ Elems(rest) \subseteq Elems(tasks)
  BY <1>1, HeadAccounted
<1>4. Decision(b, kind)
  <2>1. Truthful(Head(tasks))
    BY <1>3 DEF Books, Queued
  <2>2. b # 0
    BY <1>2 DEF BatchIds
  <2> HIDE DEF b
  <2> QED BY <1>1, <2>1, <2>2 DEF Truthful, Decision
<1>5. Decidable(kind, b)
  <2> HIDE DEF b
  <2> QED BY <1>2, DecidableFirst
<1>6. \A t \in Queued : t.kind \notin {"acknowledge", "reject"}
  BY <1>1, SettledParts, NoDecisionWaits DEF Queued
<1>7. CASE Conclude(kind, b) /\ Resumes(rs, {}, rest) /\ mode' = mode
  <2>1. \A t \in Elems(tasks') : t \in Elems(rest) \/ Harmless(t)
    BY <1>3, <1>7, ResumesQueue
  <2>2. \A t \in Queued' : t \in Queued \/ Harmless(t)
    BY <1>1, <1>3, <2>1 DEF Queued
  <2>3. \A t \in Queued' : t.kind \notin {"acknowledge", "reject"}
    BY <1>6, <2>2 DEF Harmless
  <2> HIDE DEF b
  <2>4. Concludes(kind, b)
    BY <1>1, <1>2, <1>4, <1>7, <2>2, <2>3 DEF Concludes
  <2>5. NeverFails'
    BY <1>1, <1>7 DEF NeverFails, Running
  <2> QED BY <2>4, <2>5 DEF Accounted
<1>8. CASE /\ tasks' = Append(rest, Op(kind, b))
           /\ UNCHANGED <<local, engine, promise, mode>>
  <2>1. Op(kind, b) \in TaskType
    BY <1>2, OpsTyped
  <2>2. Elems(tasks') = Elems(rest) \union {Op(kind, b)}
    <3> HIDE DEF b, rest
    <3> QED BY <1>3, <1>8, <2>1, ElemsSteps
  <2>3. Truthful(Op(kind, b))
    <3> HIDE DEF b
    <3>1. b \in Elems(OwnQueue)
      BY <1>2, ElemsSteps, SettledParts
    <3>2. b \in DOMAIN author /\ author[b] = local.user
      BY <3>1, QueueOwners DEF OwnQueue
    <3>3. Op(kind, b).kind = kind /\ Op(kind, b).batch = b
      BY DEF Op
    <3> QED BY <1>2, <1>4, <3>2, <3>3 DEF Truthful, Decision, OwnQueue
  <2>4. SettlesNothing
    BY <1>1, <1>3, <1>8, <2>2, <2>3 DEF SettlesNothing, Queued
  <2>5. NeverFails'
    BY <1>1, <1>8 DEF NeverFails, Running
  <2> QED BY <2>4, <2>5 DEF Accounted
<1> QED BY <1>5, <1>7, <1>8 DEF Decides

(* So the callbacks of the stream are accounted for.                       *)
LEMMA CallbacksAccounted ==
  ASSUME Settled, Settled', "viewRefill" \notin Faults, Books, NeverFails,
         StreamCallback
  PROVE  Accounted /\ NeverFails'
<1>1. ASSUME Running, tasks # <<>>, tasks' = Tail(tasks),
             UNCHANGED <<local, engine, retryOps, mode, author, promise,
                         committed, refused>>
      PROVE  Accounted /\ NeverFails'
  <2>1. Elems(tasks') \subseteq Elems(tasks)
    BY <1>1, HeadAccounted
  <2>2. SettlesNothing
    BY <1>1, <2>1 DEF SettlesNothing, Queued
  <2>3. NeverFails'
    BY <1>1 DEF NeverFails, Running
  <2> QED BY <2>2, <2>3 DEF Accounted
<1>2. CASE SkipStaleCallback
  BY <1>1, <1>2 DEF SkipStaleCallback
<1>3. CASE OnOpen
  BY <1>1, <1>3 DEF OnOpen, NextTask
<1>4. CASE OnHandshake
  <2>1. Running /\ tasks # <<>> /\ Head(tasks).kind = "handshake"
        /\ IsLive(Head(tasks))
    BY <1>4 DEF OnHandshake, NextTask
  <2>2. /\ Linked(rs, tasks) /\ 1 \in DOMAIN tasks /\ tasks[1] = Head(tasks)
        /\ LiveIn(rs, tasks, 1)
    BY <2>1, SettledParts, HeadCallback DEF StreamKinds
  <2>3. ~rs.handshake
    BY <2>1, <2>2 DEF Linked, Calls
  <2> QED BY <1>1, <1>4, <2>1, <2>3 DEF OnHandshake
<1>5. CASE OnMutationResult
  BY <1>5, OnMutationResultDecides, DecidesAccounted
<1>6. ASSUME NEW kind \in Closing, OnStreamClose(kind)
      PROVE  Accounted /\ NeverFails'
  <2>1. CASE Decides("reject", Head(rs.pipeline))
    BY <2>1, DecidesAccounted
  <2>2. CASE /\ Running /\ tasks # <<>> /\ tasks' = Tail(tasks)
             /\ UNCHANGED <<local, engine, creds, retryOps, mode, author,
                            promise, committed, refused>>
    BY <1>1, <2>2
  <2> QED BY <1>6, <2>1, <2>2, OnStreamCloseDecides
<1> QED BY <1>2, <1>3, <1>4, <1>5, <1>6 DEF StreamCallback, Closing

(* The retries.                                                            *)
LEMMA RetriesQueued ==
  ASSUME Settled, NEW ops, NEW rest, Retrying(ops, rest)
  PROVE  /\ Elems(ops) \subseteq Queued /\ Elems(rest) \subseteq Queued
         /\ Head(ops) \in Elems(ops) /\ Elems(Tail(ops)) \subseteq Elems(ops)
<1>1. /\ ops \in Seq(TaskType) /\ ops # <<>>
      /\ tasks \in Seq(TaskType) /\ retryOps \in Seq(TaskType)
  BY SettledParts DEF Retrying
<1>2. CASE ops = Append(retryOps, Head(tasks)) /\ rest = Tail(tasks)
           /\ tasks # <<>>
  <2>1. /\ Head(tasks) \in Elems(tasks) /\ Head(tasks) \in TaskType
        /\ Elems(rest) \subseteq Elems(tasks)
    BY <1>2, HeadAccounted
  <2>2. Elems(ops) = Elems(retryOps) \union {Head(tasks)}
    BY <1>1, <1>2, <2>1, ElemsSteps
  <2> QED BY <1>1, <2>1, <2>2, ElemsSteps DEF Queued
<1>3. CASE ops = retryOps /\ rest = tasks
  BY <1>1, <1>3, ElemsSteps DEF Queued
<1> QED BY <1>2, <1>3 DEF Retrying

(* A decision that waits for a retry is about the first batch of the       *)
(* user's queue: transactions fail, so there is one user.                  *)
LEMMA RecoversHead ==
  ASSUME Settled, Calm, FollowsUser, Books, NEW ops, NEW rest,
         Retrying(ops, rest), Recovers(ops, rest), NEW kind, NEW b,
         kind = Head(ops).kind, b = Head(ops).batch, kind # "probe"
  PROVE  OwnQueue # <<>> /\ b = Head(OwnQueue) /\ Decision(b, kind)
<1>1. kind \in {"acknowledge", "reject"} /\ "IndexedDbFailed" \in rs.causes
  BY DEF Recovers
<1>2. Truthful(Head(ops))
  BY RetriesQueued DEF Books
<1>3. NumUsers = 1
  BY <1>1 DEF Calm, FollowsUser, Retrying
<1>4. \A c \in DOMAIN author : author[c] = local.user
  <2>1. \A u, v \in Users : u = v
    BY <1>3 DEF Users
  <2> QED BY <2>1, QueueOwners
<1> QED BY <1>1, <1>2, <1>4 DEF Truthful, Decision, OwnQueue

(* The retries are accounted for.                                          *)
LEMMA RetriesAccounted ==
  ASSUME Settled, Settled', Calm, "viewRefill" \notin Faults, FollowsUser,
         Books, NeverFails, NEW ops, NEW rest, Retrying(ops, rest)
  PROVE  Accounted /\ NeverFails'
<1> DEFINE kind == Head(ops).kind
           b == Head(ops).batch
<1>1. /\ Running /\ ops \in Seq(TaskType) /\ ops # <<>>
      /\ rest \in Seq(TaskType) /\ OneRecovery(rs, ops, rest)
      /\ RetryRecovery(ops, rest) \/ RetryCredentials(ops, rest)
      /\ creds.user \in Users /\ engine.user \in Users
      /\ tasks \in Seq(TaskType) /\ retryOps \in Seq(TaskType)
  BY SettledParts DEF Retrying, RetryNextOp, TypeOK, EngineType
<1>2. /\ Elems(ops) \subseteq Queued /\ Elems(rest) \subseteq Queued
  BY RetriesQueued
<1>3. Head(ops) \in Elems(ops) /\ Elems(Tail(ops)) \subseteq Elems(ops)
  BY RetriesQueued
<1>4. ASSUME mode' = mode PROVE NeverFails'
  BY <1>1, <1>4 DEF NeverFails, Running
<1>5. ASSUME NEW base, NEW c, Resumes(base, c, rest),
             retryOps' = Tail(ops)
      PROVE  \A t \in Queued' : \/ t \in Elems(Tail(ops)) \/ t \in Elems(rest)
                                \/ Harmless(t)
  <2>1. \A t \in Elems(tasks') : t \in Elems(rest) \/ Harmless(t)
    BY <1>1, <1>5, ResumesQueue
  <2> QED BY <1>5, <2>1 DEF Queued
<1>6. CASE RetryRecovery(ops, rest)
  <2>1. Recovers(ops, rest)
    BY <1>6, RecoveryRecovers
  <2>2. /\ kind \in {"acknowledge", "reject", "probe"}
        /\ "IndexedDbFailed" \in rs.causes
        /\ UNCHANGED <<creds, author, committed, refused>>
    BY <2>1 DEF Recovers
  <2>3. kind # "probe" => /\ OwnQueue # <<>> /\ b = Head(OwnQueue)
                          /\ Decision(b, kind)
    BY <2>1, RecoversHead
  <2>4. kind # "probe" => Decidable(kind, b)
    BY <2>3, DecidableFirst
  <2>5. CASE /\ Resumes(rs, rs.causes \ {"IndexedDbFailed"}, rest)
             /\ retryOps' = Tail(ops) /\ mode' = mode
             /\ IF kind = "probe" THEN UNCHANGED <<local, engine, promise>>
                                  ELSE Conclude(kind, b)
    <3>1. \A t \in Queued' : \/ t \in Elems(Tail(ops)) \/ t \in Elems(rest)
                             \/ Harmless(t)
      BY <1>5, <2>5
    <3>2. \A t \in Queued' : t \in Queued \/ Harmless(t)
      BY <1>2, <1>3, <3>1
    <3>3. CASE kind = "probe"
      <4>1. SettlesNothing
        BY <2>2, <2>5, <3>2, <3>3, HarmlessIsTruthful DEF SettlesNothing
      <4> QED BY <1>4, <2>5, <4>1 DEF Accounted
    <3>4. CASE kind # "probe"
      <4>1. /\ \A i \in DOMAIN Tail(ops) : ~RecoversIn(Tail(ops), i)
            /\ \A i \in DOMAIN rest : ~RecoversIn(rest, i)
        <5>1. RecoversIn(ops, 1)
          <6>1. Head(ops) = ops[1]
            BY <1>1, HeadTailProperties
          <6> QED BY <2>2, <6>1 DEF RecoversIn
        <5> QED BY <1>1, <5>1, RecoveryEnds
      <4>2. \A t \in Queued' : t.kind \notin {"acknowledge", "reject"}
        BY <3>1, <4>1 DEF RecoversIn, Elems, Harmless
      <4> HIDE DEF kind, b
      <4>3. Concludes(kind, b)
        BY <2>2, <2>3, <2>5, <3>2, <3>4, <4>2 DEF Concludes
      <4> QED BY <1>4, <2>5, <4>3 DEF Accounted
    <3> QED BY <3>3, <3>4
  <2>6. CASE /\ UNCHANGED <<rs, local, engine, promise, mode>>
             /\ retryOps' = ops /\ tasks' = rest
    <3>1. SettlesNothing
      BY <1>2, <2>2, <2>6 DEF SettlesNothing, Queued
    <3> QED BY <1>4, <2>6, <3>1 DEF Accounted
  <2> QED BY <2>1, <2>4, <2>5, <2>6 DEF Recovers
<1>7. CASE RetryCredentials(ops, rest)
  <2>1. UNCHANGED <<mode, author, promise, committed, refused>>
    BY <1>7 DEF RetryCredentials
  <2>2. ASSUME NEW u \in Users, HandleCredentialChange(u, ops, rest)
        PROVE  Accounted /\ NeverFails'
    <3>1. Switches(u, ops, rest)
      BY <2>1, <2>2, CredentialChangeSwitches
    <3>2. Resumes(rs, rs.causes \ {"CredentialChange"}, rest)
          /\ retryOps' = Tail(ops)
      BY <3>1, AfreshResumes DEF Switches
    <3>3. \A t \in Queued' : t \in Queued \/ Harmless(t)
      BY <1>2, <1>3, <1>5, <3>2
    <3>4. local'.queue = local.queue /\ local'.rows = local.rows
          /\ engine'.callbacks = engine.callbacks
          /\ engine'.waiters \subseteq engine.waiters
      BY <3>1, QueueOwners DEF Switches, LocalType
    <3>5. SettlesNothing
      BY <2>1, <3>3, <3>4, HarmlessIsTruthful DEF SettlesNothing
    <3> QED BY <1>4, <2>1, <3>5 DEF Accounted
  <2>3. CASE /\ retryOps' = Tail(ops) /\ tasks' = rest
             /\ UNCHANGED <<rs, local, engine, creds, used>>
    <3>1. SettlesNothing
      BY <1>2, <1>3, <2>1, <2>3 DEF SettlesNothing, Queued
    <3> QED BY <1>4, <2>1, <3>1 DEF Accounted
  <2> QED BY <1>1, <1>7, <2>2, <2>3 DEF RetryCredentials
<1> QED BY <1>1, <1>6, <1>7

(* What an attempt enqueues.                                               *)
LEMMA EmitQueue ==
  ASSUME TypeOK, NEW n \in Rpcs, NEW kind \in StreamKinds, NEW b \in Nat,
         tasks' = (IF Running THEN Append(tasks, StreamTask(n, kind, b))
                              ELSE tasks)
  PROVE  \A t \in Elems(tasks') :
           t \in Elems(tasks) \/ (t.kind = kind /\ t.batch = b)
<1> DEFINE x == StreamTask(n, kind, b)
<1>1. x \in TaskType /\ tasks \in Seq(TaskType) /\ x.kind = kind /\ x.batch = b
  BY RpcOK DEF TypeOK, StreamTask
<1> HIDE DEF x
<1>2. Elems(Append(tasks, x)) = Elems(tasks) \union {x}
  BY <1>1, ElemsSteps
<1> QED BY <1>1, <1>2 DEF x

(* The continuations of attempts and the backend are accounted for,        *)
LEMMA AttemptsAccounted ==
  ASSUME Settled, Books, NeverFails, RequestsInOrder(rs, author, Decided),
         NEW n \in Rpcs,
         \/ TokenFetched(n) \/ StartRpc(n) \/ TokenFetchFails(n)
         \/ Backend(n) \/ OrphanCommits(n)
         \/ StreamBreaks(n, "transient") \/ StreamBreaks(n, "permanent")
  PROVE  Accounted
<1> DEFINE q == Requests(n)
<1>1. /\ TypeOK /\ q \in Seq(Nat)
      /\ q # <<>> => Head(q) \in Nat /\ Head(q) = q[1] /\ 1 \in DOMAIN q
  <2>1. TypeOK /\ rs.rpcs[n] \in RpcType
    BY SettledParts, RpcOK
  <2>2. q \in Seq(Nat)
    BY <2>1 DEF Requests, RpcType
  <2> HIDE DEF q
  <2> QED BY <2>1, <2>2, HeadTailProperties, LenProperties
<1>2. rs.rpcs[n].phase = "ready" /\ q # <<>> => Head(q) # Handshake
  BY <1>1 DEF RequestsInOrder, Requests, Rpcs
<1>3. ASSUME UNCHANGED <<local, engine, retryOps, author, promise, committed,
                         refused>>,
             \A t \in Elems(tasks') : t \in Elems(tasks) \/ Harmless(t)
      PROVE  Accounted
  <2>1. SettlesNothing
    BY <1>3, HarmlessIsTruthful DEF SettlesNothing, Queued
  <2> QED BY <2>1 DEF Accounted
<1>4. CASE TokenFetched(n) \/ StartRpc(n)
  BY <1>3, <1>4 DEF TokenFetched, StartRpc
<1>5. ASSUME NEW kind \in StreamKinds, kind # "result",
             tasks' = (IF Running THEN Append(tasks, StreamTask(n, kind, 0))
                                  ELSE tasks)
      PROVE  \A t \in Elems(tasks') : t \in Elems(tasks) \/ Harmless(t)
  <2>1. \A t \in Elems(tasks') :
          t \in Elems(tasks) \/ (t.kind = kind /\ t.batch = 0)
    BY <1>1, <1>5, EmitQueue
  <2> QED BY <1>5, <2>1 DEF Harmless, StreamKinds
<1>6. CASE TokenFetchFails(n)
  <2>1. \A t \in Elems(tasks') : t \in Elems(tasks) \/ Harmless(t)
    BY <1>5, <1>6 DEF TokenFetchFails, StreamKinds
  <2> QED BY <1>3, <1>6, <2>1 DEF TokenFetchFails
<1>7. CASE BackendAccepts(n)
  <2>1. \A t \in Elems(tasks') : t \in Elems(tasks) \/ Harmless(t)
    BY <1>5, <1>7 DEF BackendAccepts, Emit, StreamKinds
  <2> QED BY <1>3, <1>7, <2>1 DEF BackendAccepts
<1>8. CASE BackendShakesHands(n)
  <2>1. \A t \in Elems(tasks') : t \in Elems(tasks) \/ Harmless(t)
    BY <1>5, <1>8 DEF BackendShakesHands, Emit, StreamKinds
  <2> QED BY <1>3, <1>8, <2>1 DEF BackendShakesHands
<1>9. ASSUME NEW kind \in {"transient", "permanent"}, StreamBreaks(n, kind)
      PROVE  Accounted
  <2>1. \A t \in Elems(tasks') : t \in Elems(tasks) \/ Harmless(t)
    BY <1>5, <1>9 DEF StreamBreaks, Emit, StreamKinds
  <2> QED BY <1>3, <1>9, <2>1 DEF StreamBreaks
<1> HIDE DEF q
<1>10. CASE BackendCommits(n)
  <2>1. /\ q # <<>> /\ rs.rpcs[n].phase = "ready"
        /\ committed' = committed \union {<<Head(q), rs.rpcs[n].user>>}
        /\ UNCHANGED <<local, engine, retryOps, author, promise, refused>>
        /\ Emit(n, "result", Head(q))
    BY <1>10 DEF BackendCommits, q
  <2>2. \A t \in Elems(tasks') :
          t \in Elems(tasks) \/ (t.kind = "result" /\ t.batch = Head(q))
    BY <1>1, <2>1, EmitQueue DEF Emit, StreamKinds
  <2>3. \A t \in Queued' : \/ t \in Queued \/ Harmless(t)
                           \/ t.kind = "result" /\ t.batch = Head(q)
    BY <2>1, <2>2 DEF Queued
  <2>4. Commits(n, Head(q))
    BY <1>2, <2>1, <2>3 DEF Commits, q
  <2> QED BY <2>4 DEF Accounted
<1>11. CASE OrphanCommits(n)
  <2>1. /\ q # <<>> /\ Head(q) # Handshake
        /\ committed' = committed \union {<<Head(q), rs.rpcs[n].user>>}
        /\ UNCHANGED <<local, engine, tasks, retryOps, author, promise, refused>>
    BY <1>11 DEF OrphanCommits, q
  <2>2. Commits(n, Head(q))
    BY <2>1 DEF Commits, Queued, q
  <2> QED BY <2>2 DEF Accounted
<1>12. CASE BackendRefuses(n)
  <2>1. /\ q # <<>> /\ rs.rpcs[n].phase = "ready"
        /\ refused' = refused \union {Head(q)}
        /\ UNCHANGED <<local, engine, retryOps, author, promise, committed>>
        /\ Emit(n, "permanent", Head(q))
    BY <1>12 DEF BackendRefuses, q
  <2>2. \A t \in Elems(tasks') :
          t \in Elems(tasks) \/ (t.kind = "permanent" /\ t.batch = Head(q))
    BY <1>1, <2>1, EmitQueue DEF Emit, StreamKinds
  <2>3. \A t \in Queued' : \/ t \in Queued \/ Harmless(t)
                           \/ t.kind = "permanent" /\ t.batch = Head(q)
    BY <2>1, <2>2 DEF Queued
  <2>4. Refuses(n, Head(q))
    BY <1>2, <2>1, <2>3 DEF Refuses, q
  <2> QED BY <2>4 DEF Accounted
<1> QED BY <1>4, <1>6, <1>7, <1>8, <1>9, <1>10, <1>11, <1>12 DEF Backend

(* and do not kill the AsyncQueue.                                         *)
LEMMA AttemptsNeverFail ==
  ASSUME Settled, NeverFails, NEW n \in Rpcs,
         \/ TokenFetched(n) \/ StartRpc(n) \/ TokenFetchFails(n)
         \/ Backend(n) \/ OrphanCommits(n)
         \/ StreamBreaks(n, "transient") \/ StreamBreaks(n, "permanent")
  PROVE  NeverFails'
<1>1. TypeOK /\ rs \in RemoteStoreType
  BY SettledParts DEF TypeOK
<1>2. ASSUME mode' = mode, rs'.causes = rs.causes PROVE NeverFails'
  BY <1>2 DEF NeverFails, Running, CanUseNetwork
<1>3. CASE TokenFetched(n)
  <2> DEFINE r == [rs.rpcs[n] EXCEPT !.phase = "token", !.user = creds.user]
  <2>1. rs' = [rs EXCEPT !.rpcs[n] = r] /\ mode' = mode
    BY <1>3 DEF TokenFetched
  <2> HIDE DEF r
  <2>2. rs'.causes = rs.causes
    BY <1>1, <2>1 DEF RemoteStoreType
  <2> QED BY <1>2, <2>1, <2>2
<1>4. CASE Moves(n)
  <2>1. rs'.causes = rs.causes
    BY <1>1, <1>4 DEF Moves, BecomesAt, RemoteStoreType
  <2> QED BY <1>2, <1>4, <2>1 DEF Moves
<1> QED BY <1>1, <1>3, <1>4, AttemptMoves

(* Every step is accounted for and none kills the AsyncQueue.              *)
LEMMA StepAccounted ==
  ASSUME Settled, Settled', Calm, "reenable" \notin Faults,
         "viewRefill" \notin Faults, DeliveryInv, [Next]_vars
  PROVE  Accounted /\ NeverFails'
<1>1. /\ FollowsUser /\ NeverFails /\ Books
      /\ RequestsInOrder(rs, author, Decided)
  BY DEF DeliveryInv
<1>2. CASE UNCHANGED vars
  <2>1. SettlesNothing
    BY <1>2 DEF vars, SettlesNothing, Queued
  <2>2. NeverFails'
    BY <1>1, <1>2 DEF vars, NeverFails, Running, CanUseNetwork
  <2> QED BY <2>1, <2>2 DEF Accounted
<1>3. CASE Application
  BY <1>1, <1>3, CallsAccounted
<1>4. CASE StreamCallback
  BY <1>1, <1>4, CallbacksAccounted
<1>5. CASE RunRetryTask \/ RetryTimer
  <2>1. PICK ops, rest : Retrying(ops, rest)
    BY <1>5, RetriesRetry
  <2> QED BY <1>1, <2>1, RetriesAccounted
<1>6. CASE IdleTimeout \/ BackoffElapsed
  <2>1. /\ Running
        /\ UNCHANGED <<local, engine, creds, tasks, retryOps, mode, author,
                       promise, committed, refused>>
    BY <1>6, TimersSilent
  <2>2. SettlesNothing
    BY <2>1 DEF SettlesNothing, Queued
  <2>3. NeverFails'
    BY <1>1, <2>1 DEF NeverFails, Running
  <2> QED BY <2>2, <2>3 DEF Accounted
<1>7. ASSUME NEW n \in Rpcs,
             \/ TokenFetched(n) \/ StartRpc(n) \/ TokenFetchFails(n)
             \/ Backend(n) \/ OrphanCommits(n)
             \/ StreamBreaks(n, "transient") \/ StreamBreaks(n, "permanent")
      PROVE  Accounted /\ NeverFails'
  BY <1>1, <1>7, AttemptsAccounted, AttemptsNeverFail
<1> QED BY <1>2, <1>3, <1>4, <1>5, <1>6, <1>7 DEF Next, Timer

----------------------------------------------------------------------------
(* The requests                                                            *)

(* q is the queue of the user u, and whatever u wrote that is not in it is *)
(* decided.                                                                *)
QueueBooks(q, u, a, d) ==
  /\ q \in Seq(BatchIds) /\ Ascends(q)
  /\ \A i \in DOMAIN q : q[i] \in DOMAIN a /\ a[q[i]] = u
  /\ \A b \in DOMAIN a : a[b] = u => b \in Elems(q) \/ b \in d

(* Nothing and the handshake are in order.                                 *)
LEMMA SimpleInOrder ==
  ASSUME NEW u, NEW a, NEW d
  PROVE  InOrder(<<>>, u, a, d) /\ InOrder(<<Handshake>>, u, a, d)
BY DEF InOrder

(* The requests of a stream at work are in order because the pipeline is   *)
(* the front of the queue and the answers before them are decisions.       *)
LEMMA SliceInOrder ==
  ASSUME NEW p \in Seq(BatchIds), NEW k \in Nat, k <= Len(p),
         NEW q, NEW u, NEW a \in Seq(Users), NEW d,
         QueueBooks(q, u, a, d), Prefix(p, q), \A j \in 1 .. k : p[j] \in d
  PROVE  /\ InOrder(SubSeq(p, k + 1, Len(p)), u, a, d)
         /\ \A i \in DOMAIN SubSeq(p, k + 1, Len(p)) :
              SubSeq(p, k + 1, Len(p))[i] # Handshake
<1> DEFINE r == SubSeq(p, k + 1, Len(p))
<1>1. /\ Len(p) \in Nat /\ Len(q) \in Nat /\ DOMAIN q = 1 .. Len(q)
      /\ DOMAIN a = 1 .. Len(a) /\ Len(a) \in Nat /\ q \in Seq(BatchIds)
      /\ Len(p) <= Len(q) /\ \A i \in 1 .. Len(p) : p[i] = q[i]
  BY LenProperties DEF QueueBooks, Prefix
<1>2. k + 1 \in 1 .. Len(p) + 1 /\ Len(p) \in (k + 1) - 1 .. Len(p)
  BY <1>1
<1>3. /\ r \in Seq(BatchIds) /\ Len(r) = Len(p) - (k + 1) + 1
      /\ \A i \in 1 .. Len(p) - (k + 1) + 1 : r[i] = p[(k + 1) + i - 1]
  BY <1>2, SubSeqProperties
<1> HIDE DEF r
<1>4. DOMAIN r = 1 .. Len(p) - k
  BY <1>1, <1>3, LenProperties
<1>5. ASSUME NEW i \in DOMAIN r
      PROVE  i \in Nat /\ k + i \in 1 .. Len(p) /\ k + i \in DOMAIN q
             /\ r[i] = q[k + i]
  <2>1. i \in Nat /\ k + i \in 1 .. Len(p) /\ (k + 1) + i - 1 = k + i
        /\ i \in 1 .. Len(p) - (k + 1) + 1
    BY <1>1, <1>4
  <2>2. r[i] = p[k + i]
    BY <1>3, <2>1
  <2> QED BY <1>1, <2>1, <2>2
<1>6. ASSUME NEW i \in DOMAIN r
      PROVE  /\ r[i] \in BatchIds /\ r[i] # Handshake
             /\ r[i] \in DOMAIN a /\ a[r[i]] = u
  <2>1. r[i] = q[k + i] /\ k + i \in DOMAIN q
    BY <1>5
  <2>2. q[k + i] \in BatchIds
    BY <1>1, <2>1, ElementOfSeq
  <2> QED BY <2>1, <2>2 DEF QueueBooks, BatchIds, Handshake
<1>7. ASSUME NEW i \in DOMAIN r, NEW e \in 1 .. r[i] - 1, a[e] = u, e \notin d
      PROVE  \E j \in 1 .. i - 1 : r[j] = e
  <2>1. e \in DOMAIN a /\ e < r[i]
    BY <1>1, <1>6 DEF BatchIds
  <2>2. PICK j \in DOMAIN q : q[j] = e
    BY <1>7, <2>1 DEF QueueBooks, Elems
  <2>3. k + i \in DOMAIN q /\ r[i] = q[k + i] /\ k + i \in 1 .. Len(p)
        /\ i \in Nat /\ j \in Nat /\ 1 <= j
    BY <1>1, <1>5
  <2>4. j < k + i
    <3>1. ~(k + i < j)
      <4>1. k + i < j => q[k + i] < q[j]
        BY <2>3 DEF QueueBooks, Ascends
      <4>2. r[i] \in Nat /\ e \in Nat
        BY <1>6, <1>7 DEF BatchIds
      <4> QED BY <2>1, <2>2, <2>3, <4>1, <4>2
    <3>2. j # k + i
      BY <1>6, <2>1, <2>2, <2>3 DEF BatchIds
    <3> QED BY <2>3, <3>1, <3>2
  <2>5. j \in 1 .. Len(p) /\ p[j] = e
    BY <1>1, <2>2, <2>3, <2>4
  <2>6. ~(j <= k)
    BY <1>7, <2>3, <2>5
  <2>7. j - k \in 1 .. i - 1 /\ j - k \in DOMAIN r /\ k + (j - k) = j
    BY <1>1, <1>4, <2>3, <2>4, <2>5, <2>6
  <2>8. r[j - k] = q[j]
    BY <1>5, <2>7
  <2> QED BY <2>2, <2>7, <2>8
<1>8. InOrder(r, u, a, d)
  BY <1>6, <1>7 DEF InOrder
<1> QED BY <1>6, <1>8 DEF r

(* What an attempt under way was asked for is a part of the pipeline,      *)
(* which is the front of the queue, so it is in order.                     *)
LEMMA StoreInOrder ==
  ASSUME NEW s, Sane(s), NEW queue \in Seq(TaskType), Linked(s, queue),
         NEW q, NEW u, NEW a \in Seq(Users), NEW d, QueueBooks(q, u, a, d),
         UnderWay(s) => Prefix(s.pipeline, q),
         \A t \in Elems(queue) : t.kind = "result" => t.batch \in d,
         NEW n \in DOMAIN s.rpcs, s.rpcs[n].phase # "closed",
         s.rpcs[n].phase = "ready" /\ IsOpen(s) => s.rpcs[n].user = u
  PROVE  /\ InOrder(s.rpcs[n].reqs, s.rpcs[n].user, a, d)
         /\ s.rpcs[n].phase = "ready" =>
              \A i \in DOMAIN s.rpcs[n].reqs : s.rpcs[n].reqs[i] # Handshake
<1> DEFINE r == s.rpcs[n]
           p == s.pipeline
           A == Answers(s, queue)
<1>1. /\ s \in RemoteStoreType /\ s.rpcs \in Seq(RpcType) /\ r \in RpcType
      /\ p \in Seq(BatchIds) /\ n # 0 /\ StoreInv(s)
  <2>1. s \in RemoteStoreType /\ StoreInv(s)
    BY DEF Sane, StoreOK
  <2>2. s.rpcs \in Seq(RpcType) /\ p \in Seq(BatchIds)
    BY <2>1 DEF RemoteStoreType
  <2> QED BY <2>1, <2>2, ElementOfSeq, LenProperties
<1>2. CASE r.phase \in {"auth", "token"}
  <2>1. r.reqs = <<>>
    BY <1>1, <1>2 DEF StoreInv, Phases
  <2> QED BY <1>2, <2>1, SimpleInOrder
<1>3. CASE r.phase \in {"connecting", "open", "ready"}
  <2>1. n = s.stream /\ Attempt(s, r)
    BY <1>1, <1>3 DEF StoreInv, Phases
  <2>2. CASE r.reqs = <<>>
    BY <2>2, SimpleInOrder
  <2>3. CASE r.reqs = <<Handshake>> /\ r.phase # "ready"
    BY <2>3, SimpleInOrder
  <2>4. CASE r.phase = "ready" /\ r.reqs # <<>>
    <3>1. s.handshake /\ s.state = "Open" /\ UnderWay(s)
      BY <2>1, <2>4 DEF Attempt, UnderWay
    <3>2. r.user = u
      BY <2>4, <3>1 DEF IsOpen
    <3>3. /\ A \subseteq 1 .. Len(queue) /\ Cardinality(A) \in Nat
          /\ Len(queue) \in Nat /\ DOMAIN queue = 1 .. Len(queue)
      BY AnswersType
    <3>4. /\ Cardinality(A) <= Len(p)
          /\ \A i \in A : queue[i].batch = p[Rank(A, i)]
          /\ r.reqs = SubSeq(p, Cardinality(A) + 1, Len(p))
      BY <1>1, <2>1, <2>4, <3>1 DEF Linked, Correlated
    <3>5. \A i \in A : i \in DOMAIN queue /\ queue[i].kind = "result"
      BY DEF Answers
    <3> HIDE DEF A, p, r
    <3>6. ASSUME NEW j \in 1 .. Cardinality(A) PROVE p[j] \in d
      <4>1. PICK i \in A : Rank(A, i) = j
        BY <3>3, RanksTaken
      <4>2. queue[i] \in Elems(queue) /\ queue[i].kind = "result"
        BY <3>5 DEF Elems
      <4> QED BY <3>4, <4>1, <4>2
    <3>7. Prefix(p, q)
      BY <3>1 DEF p
    <3>8. /\ InOrder(r.reqs, u, a, d)
          /\ \A i \in DOMAIN r.reqs : r.reqs[i] # Handshake
      BY <1>1, <3>3, <3>4, <3>6, <3>7, SliceInOrder
    <3> QED BY <3>2, <3>8 DEF r
  <2>5. \/ r.reqs = <<>>
        \/ r.reqs = <<Handshake>> /\ r.phase # "ready"
        \/ r.phase = "ready" /\ r.reqs # <<>>
    BY <1>3, <2>1 DEF Attempt, UnderWay
  <2> QED BY <2>2, <2>3, <2>4, <2>5
<1>4. r.phase \in RpcPhases
  BY <1>1 DEF RpcType
<1> QED BY <1>2, <1>3, <1>4 DEF RpcPhases

(* An attempt that has ended in t had ended in s and is as it was.         *)
KeepsEnded(s, t) ==
  \A n \in DOMAIN t.rpcs :
    t.rpcs[n].phase = "closed" =>
      /\ n \in DOMAIN s.rpcs /\ s.rpcs[n].phase = "closed"
      /\ t.rpcs[n].reqs = s.rpcs[n].reqs /\ t.rpcs[n].user = s.rpcs[n].user

(* An attempt that has ended in t has the requests that it had in s.       *)
Carried(s, t) ==
  \A n \in DOMAIN t.rpcs :
    t.rpcs[n].phase = "closed" =>
      \/ t.rpcs[n].reqs = <<>>
      \/ /\ n \in DOMAIN s.rpcs /\ t.rpcs[n].reqs = s.rpcs[n].reqs
         /\ t.rpcs[n].user = s.rpcs[n].user

(* Steps of the store after which an ended attempt is still what it was.   *)
LEMMA EndedSteps ==
  ASSUME NEW s, NEW t
  PROVE  /\ t.rpcs = s.rpcs => KeepsEnded(s, t)
         /\ \A w : KeepsEnded(s, t) /\ KeepsEnded(t, w) => KeepsEnded(s, w)
         /\ SendsNothing(s, t) => Carried(s, t)
         /\ \A w : SendsNothing(s, t) /\ KeepsEnded(t, w) => Carried(s, w)
         /\ \A msgs : Sends(s, t, msgs) => KeepsEnded(s, t)
<1>1. t.rpcs = s.rpcs => KeepsEnded(s, t)
  BY DEF KeepsEnded
<1>2. ASSUME NEW w, KeepsEnded(s, t), KeepsEnded(t, w)
      PROVE  KeepsEnded(s, w)
  BY <1>2 DEF KeepsEnded
<1>3. ASSUME SendsNothing(s, t) PROVE Carried(s, t)
  BY <1>3 DEF SendsNothing, Carried
<1>4. ASSUME NEW w, SendsNothing(s, t), KeepsEnded(t, w)
      PROVE  Carried(s, w)
  <2>1. SUFFICES ASSUME NEW n \in DOMAIN w.rpcs, w.rpcs[n].phase = "closed"
                 PROVE  \/ w.rpcs[n].reqs = <<>>
                        \/ /\ n \in DOMAIN s.rpcs
                           /\ w.rpcs[n].reqs = s.rpcs[n].reqs
                           /\ w.rpcs[n].user = s.rpcs[n].user
    BY DEF Carried
  <2>2. /\ n \in DOMAIN t.rpcs
        /\ w.rpcs[n].reqs = t.rpcs[n].reqs /\ w.rpcs[n].user = t.rpcs[n].user
    BY <1>4, <2>1 DEF KeepsEnded
  <2> QED BY <1>4, <2>2 DEF SendsNothing
<1>5. ASSUME NEW msgs, Sends(s, t, msgs) PROVE KeepsEnded(s, t)
  <2>1. SUFFICES ASSUME NEW n \in DOMAIN t.rpcs, t.rpcs[n].phase = "closed"
                 PROVE  /\ n \in DOMAIN s.rpcs /\ s.rpcs[n].phase = "closed"
                        /\ t.rpcs[n].reqs = s.rpcs[n].reqs
                        /\ t.rpcs[n].user = s.rpcs[n].user
    BY DEF KeepsEnded
  <2> QED BY <1>5, <2>1 DEF Sends
<1> QED BY <1>1, <1>2, <1>3, <1>4, <1>5

(* Starting the stream keeps ended attempts,                               *)
LEMMA StartIfNeededKeepsEnded ==
  ASSUME NEW s, StoreOK(s)
  PROVE  KeepsEnded(s, StartIfNeeded(s)) /\ KeepsEnded(s, MarkIdle(s))
<1> DEFINE fresh == [s EXCEPT !.handshake = FALSE]
           t == StartStream(s)
           r == [cc |-> s.closeCount, phase |-> "auth", user |-> 0,
                 reqs |-> <<>>]
<1>1. KeepsEnded(s, MarkIdle(s))
  <2>1. MarkIdle(s).rpcs = s.rpcs
    BY DEF MarkIdle, StoreOK, RemoteStoreType
  <2> QED BY <2>1, EndedSteps
<1>2. /\ fresh.rpcs = s.rpcs /\ fresh.closeCount = s.closeCount
      /\ fresh.state = s.state /\ fresh \in RemoteStoreType
  BY DEF StoreOK, RemoteStoreType
<1>3. CASE s.state = "Error"
  <2>1. t.rpcs = s.rpcs
    BY <1>3 DEF StoreOK, RemoteStoreType, StartStream, PerformBackoff
  <2> HIDE DEF t
  <2>2. KeepsEnded(s, t)
    BY <2>1, EndedSteps
  <2>3. KeepsEnded(s, s)
    BY EndedSteps
  <2> QED BY <1>1, <2>2, <2>3 DEF StartIfNeeded, t
<1>4. CASE s.state # "Error"
  <2>1. t.rpcs = Append(s.rpcs, r)
    BY <1>2, <1>4 DEF StoreOK, RemoteStoreType, StartStream, Auth
  <2>2. /\ s.rpcs \in Seq(RpcType) /\ r \in RpcType
    BY DEF StoreOK, RemoteStoreType, RpcType, RpcPhases
  <2>3. /\ DOMAIN t.rpcs = 1 .. Len(s.rpcs) + 1
        /\ DOMAIN s.rpcs = 1 .. Len(s.rpcs) /\ Len(s.rpcs) \in Nat
        /\ \A n \in 1 .. Len(s.rpcs) : t.rpcs[n] = s.rpcs[n]
        /\ t.rpcs[Len(s.rpcs) + 1] = r
    <3> HIDE DEF t, r
    <3> QED BY <2>1, <2>2, AppendProperties, LenProperties
  <2>4. \A n \in DOMAIN t.rpcs :
          n \in DOMAIN s.rpcs \/ n = Len(s.rpcs) + 1
    BY <2>3
  <2>5. KeepsEnded(s, t)
    <3>1. r.phase = "auth"
      OBVIOUS
    <3> HIDE DEF t, r
    <3> QED BY <2>3, <2>4, <3>1 DEF KeepsEnded
  <2>6. KeepsEnded(s, s)
    BY EndedSteps
  <2> QED BY <1>1, <2>5, <2>6 DEF StartIfNeeded, t
<1> QED BY <1>3, <1>4

(* adding to the pipeline keeps them,                                      *)
LEMMA AddKeepsEnded ==
  ASSUME NEW s, Sane(s), NEW bs \in Seq(BatchIds)
  PROVE  KeepsEnded(s, AddToWritePipeline(s, bs))
<1> DEFINE added == [s EXCEPT !.pipeline = @ \o bs]
           filled == AddToWritePipeline(s, bs)
<1>1. bs \in Seq(Nat)
  BY DEF BatchIds
<1>2. StoreOK(added) /\ added.rpcs = s.rpcs /\ added.stream = s.stream
  <2>1. s.pipeline \o bs \in Seq(BatchIds)
    BY ConcatProperties DEF Sane, StoreOK, RemoteStoreType
  <2> QED BY <2>1 DEF Sane, StoreOK, RemoteStoreType
<1>3. KeepsEnded(s, added)
  <2> HIDE DEF added
  <2> QED BY <1>2, EndedSteps
<1>4. CASE IsOpen(s) /\ s.handshake /\ bs # <<>>
  <2>1. added.stream # 0
    BY <1>2, <1>4 DEF Sane, StoreInv, IsOpen
  <2>2. filled = Send(added, bs)
    BY <1>4 DEF AddToWritePipeline
  <2> HIDE DEF added, filled
  <2>3. Sends(added, filled, bs)
    BY <1>1, <1>2, <1>4, <2>1, <2>2, SendRequests
  <2>4. KeepsEnded(added, filled)
    BY <2>3, EndedSteps
  <2> QED BY <1>3, <2>4, EndedSteps DEF filled
<1>5. CASE ~(IsOpen(s) /\ s.handshake /\ bs # <<>>)
  <2>1. filled = added
    BY <1>5 DEF AddToWritePipeline, Send
  <2> QED BY <1>3, <2>1
<1> QED BY <1>4, <1>5

(* and so does filling it.                                                 *)
LEMMA FillKeepsEnded ==
  ASSUME NEW s, Sane(s), NEW q \in Seq(BatchIds)
  PROVE  KeepsEnded(s, FillWritePipeline(s, q))
<1> DEFINE bs == NextBatches(s, q)
           filled == AddToWritePipeline(s, bs)
           idle == IF filled.pipeline = <<>> THEN MarkIdle(filled) ELSE filled
           t == FillWritePipeline(s, q)
<1>1. bs \in Seq(BatchIds) /\ StoreOK(s)
  BY NextBatchesType DEF Sane
<1> HIDE DEF bs
<1>2. KeepsEnded(s, filled) /\ StoreOK(filled)
  BY <1>1, AddKeepsEnded, AddToWritePipelineOK
<1> HIDE DEF filled
<1>3. KeepsEnded(filled, idle) /\ StoreOK(idle)
  <2>1. StoreOK(MarkIdle(filled))
    BY <1>2 DEF MarkIdle, StoreOK, RemoteStoreType
  <2>2. KeepsEnded(filled, filled)
    BY EndedSteps
  <2> QED BY <1>2, <2>1, <2>2, StartIfNeededKeepsEnded
<1>4. CASE ~CanAddToWritePipeline(s)
  <2>1. t = StartIfNeeded(s)
    BY <1>4 DEF FillWritePipeline
  <2> QED BY <1>1, <2>1, StartIfNeededKeepsEnded
<1>5. CASE CanAddToWritePipeline(s)
  <2>1. t = StartIfNeeded(idle)
    BY <1>5 DEF FillWritePipeline, bs, filled
  <2> HIDE DEF idle, t
  <2>2. KeepsEnded(idle, t)
    BY <1>3, <2>1, StartIfNeededKeepsEnded
  <2> QED BY <1>2, <1>3, <2>2, EndedSteps DEF t
<1> QED BY <1>4, <1>5

(* Requests stay in order while batches are written and decided.           *)
LEMMA InOrderGrows ==
  ASSUME NEW q, NEW u, NEW a \in Seq(Users), NEW d,
         NEW a2, \A c \in DOMAIN a : c \in DOMAIN a2 /\ a2[c] = a[c],
         NEW d2, d \subseteq d2, InOrder(q, u, a, d)
  PROVE  InOrder(q, u, a2, d2)
<1>1. DOMAIN a = 1 .. Len(a) /\ Len(a) \in Nat
  BY LenProperties
<1>2. SUFFICES ASSUME NEW i \in DOMAIN q, q[i] # Handshake
               PROVE  /\ q[i] \in DOMAIN a2 /\ a2[q[i]] = u
                      /\ \A e \in 1 .. q[i] - 1 :
                           a2[e] = u => e \in d2 \/ \E j \in 1 .. i - 1 : q[j] = e
  BY DEF InOrder
<1>3. /\ q[i] \in DOMAIN a /\ a[q[i]] = u
      /\ \A e \in 1 .. q[i] - 1 :
           a[e] = u => e \in d \/ \E j \in 1 .. i - 1 : q[j] = e
  BY <1>2 DEF InOrder
<1>4. ASSUME NEW e \in 1 .. q[i] - 1, a2[e] = u
      PROVE  e \in d2 \/ \E j \in 1 .. i - 1 : q[j] = e
  <2>1. e \in DOMAIN a
    BY <1>1, <1>3
  <2>2. a[e] = u
    BY <1>4, <2>1
  <2> QED BY <1>3, <2>2
<1> QED BY <1>3, <1>4

(* Authors are added and decisions are made; none is taken back.           *)
Grows ==
  /\ \A c \in DOMAIN author : c \in DOMAIN author' /\ author'[c] = author[c]
  /\ Decided \subseteq Decided'

(* Whatever is accounted for takes no author and no decision back.         *)
LEMMA AccountedGrows ==
  ASSUME Settled, Accounted
  PROVE  Grows
<1>1. author \in Seq(Users)
  BY DEF Settled, TypeOK
<1>2. /\ committed \subseteq committed' /\ refused \subseteq refused'
      /\ author' = author \/ \E u \in Users : author' = Append(author, u)
  <2>1. local.user \in Users
    BY QueueOwners
  <2>2. CASE SettlesNothing
    BY <2>2 DEF SettlesNothing
  <2>3. ASSUME NEW b, Submits(b)
        PROVE  /\ author' = Append(author, local.user)
               /\ UNCHANGED <<committed, refused>>
    BY <2>3 DEF Submits
  <2>4. ASSUME NEW kind, NEW b, Concludes(kind, b)
        PROVE  UNCHANGED <<author, committed, refused>>
    BY <2>4 DEF Concludes
  <2>5. ASSUME NEW n, NEW b, Commits(n, b) \/ Refuses(n, b)
        PROVE  /\ author' = author
               /\ committed \subseteq committed' /\ refused \subseteq refused'
    BY <2>5 DEF Commits, Refuses
  <2>6. CASE Forgets
    BY <2>6 DEF Forgets
  <2> QED BY <2>1, <2>2, <2>3, <2>4, <2>5, <2>6 DEF Accounted
<1>3. \A c \in DOMAIN author : c \in DOMAIN author' /\ author'[c] = author[c]
  <2>1. ASSUME NEW u \in Users, author' = Append(author, u)
        PROVE  \A c \in DOMAIN author :
                 c \in DOMAIN author' /\ author'[c] = author[c]
    <3>1. /\ DOMAIN Append(author, u) = 1 .. Len(author) + 1
          /\ \A c \in 1 .. Len(author) : Append(author, u)[c] = author[c]
          /\ DOMAIN author = 1 .. Len(author) /\ Len(author) \in Nat
      BY <1>1, AppendProperties, LenProperties
    <3> QED BY <2>1, <3>1
  <2> QED BY <1>2, <2>1
<1>4. Decided \subseteq Decided'
  <2>1. ASSUME NEW b \in Decided PROVE b \in Decided'
    <3>1. b \in DOMAIN author
          /\ (<<b, author[b]>> \in committed \/ b \in refused)
      BY <2>1 DEF Decided, Decisions
    <3>2. b \in DOMAIN author' /\ author'[b] = author[b]
      BY <1>3, <3>1
    <3> QED BY <1>2, <3>1, <3>2 DEF Decided, Decisions
  <2> QED BY <2>1
<1> QED BY <1>3, <1>4 DEF Grows

(* What the next state's attempts are measured by.                         *)
LEMMA NextBooks ==
  ASSUME Settled', Books'
  PROVE  /\ QueueBooks(OwnQueue', local'.user, author', Decided')
         /\ author' \in Seq(Users)
         /\ \A t \in Queued' : t.kind = "result" => t.batch \in Decided'
<1>1. /\ OwnQueue' \in Seq(BatchIds) /\ Ascends(OwnQueue')
      /\ author' \in Seq(Users) /\ local'.user \in Users
  <2>1. TypeOK'
    BY DEF Settled
  <2> QED BY <2>1, NextQueue DEF TypeOK, LocalType
<1>2. \A i \in DOMAIN OwnQueue' :
        OwnQueue'[i] \in DOMAIN author' /\ author'[OwnQueue'[i]] = local'.user
  <2>1. QueuesInOrder'
    BY DEF Settled, PipelineInv
  <2> QED BY <1>1, <2>1 DEF QueuesInOrder, OwnQueue
<1>3. \A b \in DOMAIN author' :
        author'[b] = local'.user => b \in Elems(OwnQueue') \/ b \in Decided'
  <2>1. Kept'
    BY DEF Books
  <2> QED BY <2>1 DEF Kept, OwnQueue
<1>4. \A t \in Queued' : t.kind = "result" => t.batch \in Decided'
  <2>1. \A t \in Queued' :
          t.kind = "result" => /\ t.batch \in DOMAIN author'
                               /\ <<t.batch, author'[t.batch]>> \in committed'
    BY DEF Books, Truthful, Applied
  <2> QED BY <2>1 DEF Decided, Decisions
<1> QED BY <1>1, <1>2, <1>3, <1>4 DEF QueueBooks

(* The requests of the attempts that have ended.                           *)
EndedInOrder(s, a, d) ==
  \A n \in DOMAIN s.rpcs :
    s.rpcs[n].phase = "closed" =>
      InOrder(s.rpcs[n].reqs, s.rpcs[n].user, a, d)

(* Ended attempts that are carried over stay in order.                     *)
LEMMA CarriedInOrder ==
  ASSUME Settled, Accounted, RequestsInOrder(rs, author, Decided),
         NEW t, Carried(rs, t)
  PROVE  EndedInOrder(t, author', Decided')
<1>1. Grows /\ author \in Seq(Users)
  BY AccountedGrows DEF Settled, TypeOK
<1>2. SUFFICES ASSUME NEW n \in DOMAIN t.rpcs, t.rpcs[n].phase = "closed"
               PROVE  InOrder(t.rpcs[n].reqs, t.rpcs[n].user, author', Decided')
  BY DEF EndedInOrder
<1>3. CASE t.rpcs[n].reqs = <<>>
  BY <1>3, SimpleInOrder
<1>4. CASE /\ n \in DOMAIN rs.rpcs /\ t.rpcs[n].reqs = rs.rpcs[n].reqs
           /\ t.rpcs[n].user = rs.rpcs[n].user
  <2>1. InOrder(t.rpcs[n].reqs, t.rpcs[n].user, author, Decided)
    BY <1>4 DEF RequestsInOrder
  <2>2. /\ \A c \in DOMAIN author : c \in DOMAIN author' /\ author'[c] = author[c]
        /\ Decided \subseteq Decided'
    BY <1>1 DEF Grows
  <2> QED BY <1>1, <2>1, <2>2, InOrderGrows
<1> QED BY <1>2, <1>3, <1>4 DEF Carried

(* The others are in order because the pipeline mirrors the queue.         *)
LEMMA LiveInOrder ==
  ASSUME Settled', Books', NeverFails', TokensHeld',
         EndedInOrder(rs', author', Decided')
  PROVE  RequestsInOrder(rs', author', Decided')
<1>1. /\ Sane(rs') /\ StoreInv(rs') /\ Follows(rs') /\ tasks' \in Seq(TaskType)
      /\ rs' \in RemoteStoreType
      /\ Running' => Linked(rs', tasks') /\ Mirrors(rs', OwnQueue')
  <2>1. TypeOK' /\ OneStreamOneRecovery' /\ PipelineInv'
    BY DEF Settled
  <2> QED BY <2>1 DEF TypeOK, OneStreamOneRecovery, PipelineInv, Sane,
                      StoreOK, NetworkInv, Rpcs
<1>2. SUFFICES ASSUME NEW n \in DOMAIN rs'.rpcs, rs'.rpcs[n].phase # "closed"
               PROVE  /\ InOrder(rs'.rpcs[n].reqs, rs'.rpcs[n].user,
                                 author', Decided')
                      /\ rs'.rpcs[n].phase = "ready" =>
                           \A i \in DOMAIN rs'.rpcs[n].reqs :
                             rs'.rpcs[n].reqs[i] # Handshake
  BY DEF EndedInOrder, RequestsInOrder
<1>3. /\ QueueBooks(OwnQueue', local'.user, author', Decided')
      /\ author' \in Seq(Users)
      /\ \A t \in Elems(tasks') : t.kind = "result" => t.batch \in Decided'
  BY NextBooks DEF Queued
<1>4. CASE Running'
  <2>1. UnderWay(rs') => Prefix(rs'.pipeline, OwnQueue')
    <3>1. UnderWay(rs') => CanUseNetwork(rs')
      BY <1>1 DEF UnderWay, Follows, IsStarted, IsOpen
    <3>2. CanUseNetwork(rs') => Prefix(rs'.pipeline, OwnQueue')
      <4>1. OwnQueue' \in Seq(BatchIds)
        BY <1>3 DEF QueueBooks
      <4> DEFINE q == OwnQueue'
                 m == Least(MaxPending, Len(q))
      <4>2. m \in Nat /\ m <= Len(q)
        BY <4>1, PendingAssumption, LenProperties DEF Least
      <4>3. CanUseNetwork(rs') => rs'.pipeline = SubSeq(q, 1, m)
        BY <1>1, <1>4 DEF Mirrors
      <4> HIDE DEF q, m
      <4>4. /\ Len(SubSeq(q, 1, m)) = m
            /\ \A i \in 1 .. m : SubSeq(q, 1, m)[i] = q[i]
        BY <4>1, <4>2, PrefixIsSubSeq DEF q
      <4> QED BY <4>2, <4>3, <4>4 DEF Prefix, q
    <3> QED BY <3>1, <3>2
  <2>2. rs'.rpcs[n].phase = "ready" /\ IsOpen(rs') =>
          rs'.rpcs[n].user = local'.user
    <3>1. ASSUME rs'.rpcs[n].phase = "ready", IsOpen(rs')
          PROVE  Current(rs', n) /\ rs'.rpcs[n].user # 0
      <4>1. n = rs'.stream /\ rs'.rpcs[n].user # 0
        BY <1>1, <3>1 DEF StoreInv, Phases
      <4>2. n # 0
        BY <1>1, LenProperties DEF RemoteStoreType
      <4>3. rs'.rpcs[n].cc = rs'.closeCount
        BY <1>1, <4>1, <4>2 DEF StoreInv, Attempt
      <4> QED BY <3>1, <4>1, <4>3 DEF Current
    <3>2. \A m \in DOMAIN rs'.rpcs :
            Current(rs', m) /\ rs'.rpcs[m].user \notin {0, local'.user} =>
              ~IsOpen(rs')
      BY <1>4 DEF TokensHeld, TokensMatch
    <3> QED BY <3>1, <3>2
  <2>3. Linked(rs', tasks')
    BY <1>1, <1>4
  <2> QED BY <1>1, <1>2, <1>3, <2>1, <2>2, <2>3, StoreInOrder
<1>5. CASE ~Running'
  <2>1. ~UnderWay(rs') /\ rs'.state \notin {"Starting", "Open"}
    <3>1. ~CanUseNetwork(rs')
      BY <1>5 DEF NeverFails
    <3> QED BY <1>1, <3>1 DEF Follows, IsStarted, IsOpen, UnderWay
  <2>2. rs'.rpcs[n].phase \notin {"connecting", "open", "ready"}
    <3>1. n # 0
      BY <1>1, LenProperties DEF RemoteStoreType
    <3> QED BY <1>1, <2>1, <3>1 DEF StoreInv, Phases, Attempt
  <2>3. rs'.rpcs[n].phase \in {"auth", "token"}
    <3>1. rs'.rpcs[n] \in RpcType
      BY <1>1, ElementOfSeq, LenProperties DEF RemoteStoreType
    <3> QED BY <1>2, <2>2, <3>1 DEF RpcType, RpcPhases
  <2>4. rs'.rpcs[n].reqs = <<>>
    BY <1>1, <2>3 DEF StoreInv, Phases
  <2> QED BY <2>3, <2>4, SimpleInOrder
<1> QED BY <1>4, <1>5

(* One batch after another is added; it may stop at any of them.           *)
LEMMA AddsPrefix ==
  ASSUME NEW s, StoreOK(s), NEW q \in Seq(BatchIds), Ascends(q),
         Prefix(s.pipeline, q), Len(s.pipeline) <= MaxPending,
         NEW k \in Nat, k <= Len(NextBatches(s, q))
  PROVE  LET bs == SubSeq(NextBatches(s, q), 1, k)
         IN  bs \in Seq(BatchIds) /\ Prefix(AddToWritePipeline(s, bs).pipeline, q)
<1> DEFINE all == NextBatches(s, q)
           bs == SubSeq(all, 1, k)
           p == s.pipeline
<1>1. all \in Seq(BatchIds) /\ Prefix(p \o all, q)
  BY NextBatchesFollow
<1>2. p \in Seq(BatchIds) /\ Len(p) \in Nat
  BY LenProperties DEF StoreOK, RemoteStoreType
<1>3. k <= Len(all)
  OBVIOUS
<1> HIDE DEF all, p
<1>4. /\ bs \in Seq(BatchIds) /\ Len(bs) = k
      /\ \A i \in 1 .. k : bs[i] = all[i]
  BY <1>1, <1>3, PrefixIsSubSeq
<1> HIDE DEF bs
<1>5. /\ Len(p \o bs) = Len(p) + k /\ Len(p \o all) = Len(p) + Len(all)
      /\ \A i \in 1 .. Len(p) + k : (p \o bs)[i] = (p \o all)[i]
  <2>1. /\ Len(p \o bs) = Len(p) + k /\ Len(p \o all) = Len(p) + Len(all)
        /\ Len(all) \in Nat
        /\ \A i \in 1 .. Len(p) + k :
             (p \o bs)[i] = IF i <= Len(p) THEN p[i] ELSE bs[i - Len(p)]
        /\ \A i \in 1 .. Len(p) + Len(all) :
             (p \o all)[i] = IF i <= Len(p) THEN p[i] ELSE all[i - Len(p)]
    BY <1>1, <1>2, <1>4, ConcatProperties, LenProperties
  <2>2. \A i \in 1 .. Len(p) + k :
          /\ i \in 1 .. Len(p) + Len(all)
          /\ i <= Len(p) \/ i - Len(p) \in 1 .. k
    BY <1>2, <1>3, <2>1
  <2> QED BY <1>4, <2>1, <2>2
<1>6. Prefix(p \o bs, q)
  <2>1. Len(all) \in Nat /\ Len(q) \in Nat
    BY <1>1, LenProperties
  <2>2. Len(p) + Len(all) <= Len(q)
        /\ \A i \in 1 .. Len(p) + Len(all) : (p \o all)[i] = q[i]
    BY <1>1, <1>5 DEF Prefix
  <2>3. Len(p) + k <= Len(q)
        /\ \A i \in 1 .. Len(p) + k : i \in 1 .. Len(p) + Len(all)
    BY <1>2, <1>3, <2>1, <2>2
  <2> QED BY <1>5, <2>2, <2>3 DEF Prefix
<1>7. AddToWritePipeline(s, bs).pipeline = p \o bs
  BY <1>4, PipelineKept DEF p
<1> QED BY <1>4, <1>6, <1>7 DEF bs, all

(* Whatever resumes keeps ended attempts as they were.                     *)
LEMMA ResumesEnded ==
  ASSUME Settled, Settled', Calm, Books', Accounted,
         RequestsInOrder(rs, author, Decided),
         NEW c, NEW rest \in Seq(TaskType), Resumes(rs, c, rest)
  PROVE  EndedInOrder(rs', author', Decided')
<1>1. CASE SendsNothing(rs, rs')
  BY <1>1, EndedSteps, CarriedInOrder
<1>2. ASSUME NEW s, FillsFrom(rs, s, OwnQueue', rest)
      PROVE  EndedInOrder(rs', author', Decided')
  <2> DEFINE q == OwnQueue'
  <2>1. /\ Sane(s) /\ Quiet(s) /\ SendsNothing(rs, s) /\ StoreOK(s)
        /\ q \in Seq(BatchIds) /\ Ascends(q) /\ Fillable(s, q)
        /\ Linked(s, rest)
        /\ \E spent \in SpentType : Fill(s, q, rest, spent)
    BY <1>2 DEF FillsFrom, Sane
  <2> HIDE DEF q
  <2>2. PICK spent \in SpentType : Fill(s, q, rest, spent)
    BY <2>1
  <2>3. CASE rs' = FillWritePipeline(s, q)
    <3>1. KeepsEnded(s, rs')
      BY <2>1, <2>3, FillKeepsEnded
    <3>2. Carried(rs, rs')
      BY <2>1, <3>1, EndedSteps
    <3> QED BY <3>2, CarriedInOrder
  <2>4. ASSUME CanAddToWritePipeline(s),
               NEW k \in 0 .. Least(MaxPending - Len(s.pipeline) - 1,
                                    Len(NextBatches(s, q))),
               rs' = DisableNetworkUntilRecovery(
                       AddToWritePipeline(s, SubSeq(NextBatches(s, q), 1, k))),
               tasks' = Append(rest, Op("probe", 0)),
               spent.idb < MaxIdbFailures
        PROVE  EndedInOrder(rs', author', Decided')
    <3> DEFINE bs == SubSeq(NextBatches(s, q), 1, k)
               w == AddToWritePipeline(s, bs)
    <3>1. /\ Prefix(s.pipeline, q) /\ Len(s.pipeline) <= MaxPending
          /\ k \in Nat /\ k <= Len(NextBatches(s, q))
      <4>1. CanUseNetwork(s)
        BY <2>4 DEF CanAddToWritePipeline
      <4>2. /\ Len(s.pipeline) \in Nat /\ Len(NextBatches(s, q)) \in Nat
        <5>1. s.pipeline \in Seq(BatchIds)
          BY <2>1 DEF StoreOK, RemoteStoreType
        <5> QED BY <2>1, <5>1, NextBatchesType, LenProperties
      <4>3. k \in Nat /\ k <= Len(NextBatches(s, q))
        BY <2>4, <4>2, PendingAssumption DEF Least
      <4> QED BY <2>1, <4>1, <4>3 DEF Fillable
    <3>2. bs \in Seq(BatchIds) /\ Prefix(w.pipeline, q)
      BY <2>1, <3>1, AddsPrefix
    <3> HIDE DEF bs
    <3>3. Sane(w) /\ Linked(w, rest) /\ KeepsEnded(s, w)
      <4>1. StoreInv(w) /\ Linked(w, rest)
        BY <2>1, <3>2, AddToWritePipelineStays
      <4>2. StoreOK(w)
        BY <2>1, <3>2, AddToWritePipelineOK
      <4>3. Sound(w)
        BY <2>1, <3>2, AddToWritePipelineKeeps DEF Sane
      <4> QED BY <2>1, <3>2, <4>1, <4>2, <4>3, AddKeepsEnded DEF Sane
    <3>4. rs' = DisableNetworkUntilRecovery(w)
      BY <2>4 DEF bs
    <3>5. Prefix(w.pipeline, q)
      BY <3>2
    <3> HIDE DEF w
    <3>6. SendsNothing(w, rs')
      BY <3>3, <3>4, DisableNetworkUntilRecoverySilent DEF Sane
    <3>7. EndedInOrder(w, author', Decided')
      <4>1. Carried(rs, w)
        BY <2>1, <3>3, EndedSteps
      <4> QED BY <4>1, CarriedInOrder
    <3>8. /\ QueueBooks(q, local'.user, author', Decided')
          /\ author' \in Seq(Users)
          /\ \A t \in Elems(rest) : t.kind = "result" => t.batch \in Decided'
      <4>1. /\ QueueBooks(OwnQueue', local'.user, author', Decided')
            /\ author' \in Seq(Users)
            /\ \A t \in Elems(tasks') :
                 t.kind = "result" => t.batch \in Decided'
        BY NextBooks DEF Queued
      <4>2. Elems(rest) \subseteq Elems(tasks')
        BY <2>4, ElemsSteps, OpsTyped
      <4> QED BY <4>1, <4>2 DEF q
    <3>9. ASSUME NEW n \in DOMAIN w.rpcs, w.rpcs[n].phase # "closed"
          PROVE  InOrder(w.rpcs[n].reqs, w.rpcs[n].user, author', Decided')
      <4>1. w.rpcs[n].phase = "ready" => w.rpcs[n].user = local'.user
        <5>1. w.rpcs \in Seq(RpcType) /\ Phases(w)
          BY <3>3 DEF Sane, StoreOK, RemoteStoreType, StoreInv
        <5>2. w.rpcs[n] \in RpcType
          BY <5>1, ElementOfSeq, LenProperties
        <5>3. NumUsers = 1
          <6>1. spent.idb \in Nat
            BY DEF SpentType
          <6> QED BY <2>4, <6>1 DEF Calm
        <5>4. local'.user \in Users
          BY DEF Settled, TypeOK, LocalType
        <5>5. w.rpcs[n].user \in Users \union {0}
          BY <5>2 DEF RpcType
        <5>6. w.rpcs[n].phase = "ready" => w.rpcs[n].user # 0
          BY <5>1 DEF Phases
        <5> QED BY <5>3, <5>4, <5>5, <5>6 DEF Users
      <4>2. UnderWay(w) => Prefix(w.pipeline, q)
        BY <3>5
      <4> QED BY <3>3, <3>8, <3>9, <4>1, <4>2, StoreInOrder
    <3>10. SUFFICES ASSUME NEW n \in DOMAIN rs'.rpcs
                    PROVE  InOrder(rs'.rpcs[n].reqs, rs'.rpcs[n].user,
                                   author', Decided')
      BY DEF EndedInOrder
    <3>11. CASE n \in DOMAIN w.rpcs
      <4>1. InOrder(w.rpcs[n].reqs, w.rpcs[n].user, author', Decided')
        BY <3>7, <3>9, <3>11 DEF EndedInOrder
      <4> QED BY <3>6, <3>11, <4>1 DEF SendsNothing
    <3>12. CASE n \notin DOMAIN w.rpcs
      <4>1. rs'.rpcs[n].reqs = <<>>
        BY <3>6, <3>10, <3>12 DEF SendsNothing
      <4> QED BY <4>1, SimpleInOrder
    <3> QED BY <3>11, <3>12
  <2> QED BY <2>2, <2>3, <2>4 DEF Fill
<1> QED BY <1>1, <1>2 DEF Resumes

(* Nothing is asked of an attempt that has ended, unless the pipeline is   *)
(* being filled when IndexedDB fails.                                      *)
EndsWell ==
  \/ Carried(rs, rs')
  \/ \E c : \E rest \in Seq(TaskType) : Resumes(rs, c, rest)

(* A silent step ends well.                                                *)
LEMMA SilentEndsWell ==
  /\ SendsNothing(rs, rs') => EndsWell
  /\ rs' = rs => EndsWell
<1>1. SendsNothing(rs, rs') => EndsWell
  BY EndedSteps DEF EndsWell
<1>2. rs' = rs => SendsNothing(rs, rs')
  BY SilentSteps
<1> QED BY <1>1, <1>2

(* Calls of the application leave the attempts that have ended in order,   *)
LEMMA CallsEndWell ==
  ASSUME Settled, Settled', "reenable" \notin Faults,
         "viewRefill" \notin Faults, Application
  PROVE  EndsWell
<1>1. /\ tasks \in Seq(TaskType) /\ rs.causes \subseteq OfflineCauses
      /\ CallbacksSound(rs, tasks)
  BY SettledParts
<1>2. CASE Write
  <2>1. Resumes(rs, rs.causes, tasks)
    BY <1>2, WriteResumes
  <2> QED BY <1>1, <2>1 DEF EndsWell
<1>3. CASE EnableNetwork \/ ConnectivityChange
  <2>1. PICK c \in SUBSET rs.causes : Resumes(rs, c, tasks)
    BY <1>3, NetworkCallsResume
  <2> QED BY <1>1, <2>1 DEF EndsWell
<1>4. CASE DisableNetwork \/ Terminate
  <2>1. ASSUME NEW cause \in OfflineCauses,
               rs' = DisableNetworkInternal(
                       [rs EXCEPT !.causes = @ \union {cause}])
        PROVE  EndsWell
    <3> DEFINE c == rs.causes \union {cause}
    <3>1. c \in SUBSET OfflineCauses /\ c # {}
      BY <1>1
    <3>2. rs' = DisableNetworkInternal([rs EXCEPT !.causes = c])
      BY <2>1
    <3> HIDE DEF c
    <3>3. SendsNothing(rs, rs')
      BY <1>1, <3>1, <3>2, OfflineSilent
    <3> QED BY <3>3, SilentEndsWell
  <2>2. "UserDisabled" \in OfflineCauses /\ "Shutdown" \in OfflineCauses
    BY DEF OfflineCauses
  <2> QED BY <1>4, <2>1, <2>2 DEF DisableNetwork, Terminate
<1>5. CASE WaitForPendingWrites \/ AppCheckTokenChanged
           \/ \E u \in Users : AuthTokenChanged(u)
  <2>1. rs' = rs
    BY <1>5 DEF WaitForPendingWrites, AppCheckTokenChanged, AuthTokenChanged
  <2> QED BY <2>1, SilentEndsWell
<1>6. CASE Restart
  <2>1. Resumes(rs, {}, <<>>)
    BY <1>6, RestartResumes, AfreshResumes
  <2>2. <<>> \in Seq(TaskType)
    OBVIOUS
  <2> QED BY <2>1, <2>2 DEF EndsWell
<1> QED BY <1>2, <1>3, <1>4, <1>5, <1>6 DEF Application

(* callbacks of the stream do,                                             *)
LEMMA CallbacksEndWell ==
  ASSUME Settled, Settled', "viewRefill" \notin Faults, StreamCallback
  PROVE  EndsWell
<1>1. /\ tasks \in Seq(TaskType) /\ Sane(rs) /\ TypeOK
      /\ OneStreamOneRecovery /\ PipelineInv
  BY SettledParts
<1>2. StoreOK(rs) /\ rs.pipeline \in Seq(Nat)
  <2>1. StoreOK(rs) /\ rs.pipeline \in Seq(BatchIds)
    BY <1>1, ChangedOK DEF Sane
  <2> QED BY <2>1 DEF BatchIds
<1>3. ASSUME NEW s, StoreOK(s), s.rpcs = rs.rpcs, s.stream = rs.stream,
             s.closeCount = rs.closeCount, NEW msgs \in Seq(Nat),
             Running, tasks # <<>>, Head(tasks).kind \in StreamKinds \ Closing,
             IsLive(Head(tasks)), rs' = Send(s, msgs)
      PROVE  EndsWell
  <2>1. /\ tasks[1] = Head(tasks) /\ 1 \in DOMAIN tasks
        /\ LiveIn(rs, tasks, 1) /\ Linked(rs, tasks)
    BY <1>1, <1>3, HeadCallback
  <2>2. s.stream # 0
    BY <1>3, <2>1 DEF Linked, Calls
  <2>3. KeepsEnded(s, rs')
    <3>1. CASE msgs = <<>>
      <4>1. rs' = s
        BY <1>3, <3>1 DEF Send
      <4> QED BY <4>1, EndedSteps
    <3>2. CASE msgs # <<>>
      <4>1. Sends(s, rs', msgs)
        BY <1>3, <2>2, <3>2, SendRequests
      <4> QED BY <4>1, EndedSteps
    <3> QED BY <3>1, <3>2
  <2>4. KeepsEnded(rs, s)
    BY <1>3, EndedSteps
  <2>5. KeepsEnded(rs, rs')
    BY <2>3, <2>4, EndedSteps
  <2>6. Carried(rs, rs')
    BY <2>5 DEF KeepsEnded, Carried
  <2> QED BY <2>6 DEF EndsWell
<1>4. CASE SkipStaleCallback
  BY <1>4, SilentEndsWell DEF SkipStaleCallback
<1>5. CASE OnOpen
  <2> DEFINE s == [rs EXCEPT !.state = "Open"]
  <2>1. /\ Running /\ tasks # <<>> /\ Head(tasks).kind \in StreamKinds \ Closing
        /\ IsLive(Head(tasks)) /\ rs' = Send(s, <<Handshake>>)
    BY <1>5 DEF OnOpen, NextTask, StreamKinds, Closing
  <2>2. /\ StoreOK(s) /\ s.rpcs = rs.rpcs /\ s.closeCount = rs.closeCount
        /\ s.stream = rs.stream
    BY <1>2 DEF StoreOK, RemoteStoreType, StreamStates
  <2>3. <<Handshake>> \in Seq(Nat)
    BY DEF Handshake
  <2> HIDE DEF s
  <2> QED BY <1>3, <2>1, <2>2, <2>3
<1>6. CASE OnHandshake
  <2> DEFINE s == [rs EXCEPT !.handshake = TRUE]
  <2>1. CASE rs.handshake
    <3>1. rs' = rs
      BY <1>6, <2>1 DEF OnHandshake, QueueFails
    <3> QED BY <3>1, SilentEndsWell
  <2>2. CASE ~rs.handshake
    <3>1. /\ Running /\ tasks # <<>>
          /\ Head(tasks).kind \in StreamKinds \ Closing
          /\ IsLive(Head(tasks)) /\ rs' = Send(s, rs.pipeline)
      BY <1>6, <2>2 DEF OnHandshake, NextTask, StreamKinds, Closing
    <3>2. /\ StoreOK(s) /\ s.rpcs = rs.rpcs /\ s.closeCount = rs.closeCount
          /\ s.stream = rs.stream
      BY <1>2 DEF StoreOK, RemoteStoreType
    <3> HIDE DEF s
    <3> QED BY <1>2, <1>3, <3>1, <3>2
  <2> QED BY <2>1, <2>2
<1>7. ASSUME NEW kind \in {"acknowledge", "reject"},
             Decides(kind, Head(rs.pipeline))
      PROVE  EndsWell
  <2>1. Tail(tasks) \in Seq(TaskType)
    BY <1>1, <1>7, HeadAccounted DEF Decides
  <2>2. CASE Resumes(rs, {}, Tail(tasks))
    BY <2>1, <2>2 DEF EndsWell
  <2>3. CASE rs' = rs \/ SendsNothing(rs, rs')
    BY <2>3, SilentEndsWell
  <2> QED BY <1>7, <2>2, <2>3 DEF Decides
<1>8. CASE OnMutationResult
  BY <1>7, <1>8, OnMutationResultDecides
<1>9. CASE \E kind \in Closing : OnStreamClose(kind)
  <2>1. PICK kind \in Closing : OnStreamClose(kind)
    BY <1>9
  <2>2. Decides("reject", Head(rs.pipeline)) \/ SendsNothing(rs, rs')
    BY <2>1, OnStreamCloseDecides
  <2> QED BY <1>7, <2>2, SilentEndsWell
<1> QED BY <1>4, <1>5, <1>6, <1>8, <1>9 DEF StreamCallback, Closing

(* and retries do.                                                         *)
LEMMA RetriesEndWell ==
  ASSUME Settled, Settled', Calm, "viewRefill" \notin Faults, FollowsUser,
         NEW ops, NEW rest, Retrying(ops, rest)
  PROVE  EndsWell
<1>1. /\ rest \in Seq(TaskType) /\ creds.user \in Users /\ engine.user \in Users
      /\ RetryRecovery(ops, rest) \/ RetryCredentials(ops, rest)
  BY SettledParts DEF Retrying, RetryNextOp, TypeOK, EngineType
<1>2. CASE RetryRecovery(ops, rest)
  <2>1. Recovers(ops, rest)
    BY <1>2, RecoveryRecovers
  <2>2. Resumes(rs, rs.causes \ {"IndexedDbFailed"}, rest) \/ rs' = rs
    BY <2>1 DEF Recovers
  <2> QED BY <1>1, <2>2, SilentEndsWell DEF EndsWell
<1>3. CASE RetryCredentials(ops, rest)
  <2>1. UNCHANGED <<mode, author, promise, committed, refused>>
    BY <1>3 DEF RetryCredentials
  <2>2. ASSUME NEW u \in Users, HandleCredentialChange(u, ops, rest)
        PROVE  EndsWell
    <3>1. Switches(u, ops, rest)
      BY <2>1, <2>2, CredentialChangeSwitches
    <3>2. Resumes(rs, rs.causes \ {"CredentialChange"}, rest)
      BY <3>1, AfreshResumes DEF Switches
    <3> QED BY <1>1, <3>2 DEF EndsWell
  <2>3. CASE rs' = rs
    BY <2>3, SilentEndsWell
  <2> QED BY <1>1, <1>3, <2>2, <2>3 DEF RetryCredentials
<1> QED BY <1>1, <1>2, <1>3

(* What is left when the first request was decided is in order.            *)
LEMMA TailInOrder ==
  ASSUME NEW q \in Seq(Nat), q # <<>>, NEW u, NEW a, NEW d,
         InOrder(q, u, a, d), Head(q) \in d
  PROVE  InOrder(Tail(q), u, a, d)
<1> DEFINE w == Tail(q)
<1>1. /\ DOMAIN w = 1 .. Len(q) - 1 /\ DOMAIN q = 1 .. Len(q)
      /\ \A i \in 1 .. Len(q) - 1 : w[i] = q[i + 1]
      /\ Head(q) = q[1] /\ Len(q) \in Nat
  BY HeadTailProperties, LenProperties, EmptySeq
<1> HIDE DEF w
<1>2. SUFFICES ASSUME NEW i \in DOMAIN w, w[i] # Handshake
               PROVE  /\ w[i] \in DOMAIN a /\ a[w[i]] = u
                      /\ \A e \in 1 .. w[i] - 1 :
                           a[e] = u => e \in d \/ \E j \in 1 .. i - 1 : w[j] = e
  BY DEF InOrder, w
<1>3. i + 1 \in DOMAIN q /\ w[i] = q[i + 1] /\ i \in Nat
  BY <1>1
<1>4. /\ w[i] \in DOMAIN a /\ a[w[i]] = u
      /\ \A e \in 1 .. w[i] - 1 :
           a[e] = u => e \in d \/ \E j \in 1 .. (i + 1) - 1 : q[j] = e
  BY <1>2, <1>3 DEF InOrder
<1>5. ASSUME NEW e \in 1 .. w[i] - 1, a[e] = u, e \notin d
      PROVE  \E j \in 1 .. i - 1 : w[j] = e
  <2>1. PICK j \in 1 .. (i + 1) - 1 : q[j] = e
    BY <1>4, <1>5
  <2>2. j # 1
    BY <1>1, <1>5, <2>1
  <2>3. /\ j - 1 \in 1 .. i - 1 /\ j - 1 \in 1 .. Len(q) - 1
        /\ (j - 1) + 1 = j
    BY <1>1, <1>3, <2>1, <2>2
  <2>4. w[j - 1] = e
    BY <1>1, <2>1, <2>3
  <2> QED BY <2>3, <2>4
<1> QED BY <1>4, <1>5

(* An attempt that is replaced leaves the others as they were.             *)
LEMMA ReplacedCarries ==
  ASSUME TypeOK, NEW n \in Rpcs, NEW r, BecomesAt(n, r),
         r.phase = "closed" =>
           \/ r.reqs = <<>>
           \/ r.reqs = rs.rpcs[n].reqs /\ r.user = rs.rpcs[n].user
  PROVE  Carried(rs, rs')
<1>1. rs \in RemoteStoreType
  BY DEF TypeOK
<1>2. /\ DOMAIN rs'.rpcs = DOMAIN rs.rpcs /\ rs'.rpcs[n] = r
      /\ \A m \in DOMAIN rs.rpcs : m # n => rs'.rpcs[m] = rs.rpcs[m]
  <2>1. rs'.rpcs = [rs.rpcs EXCEPT ![n] = r]
    BY <1>1 DEF BecomesAt, RemoteStoreType
  <2> QED BY <2>1 DEF Rpcs
<1> QED BY <1>2 DEF Carried

(* The continuations of attempts and the backend leave them in order too.  *)
LEMMA AttemptsEnded ==
  ASSUME Settled, Books', Accounted, RequestsInOrder(rs, author, Decided),
         NEW n \in Rpcs,
         \/ TokenFetched(n) \/ StartRpc(n) \/ TokenFetchFails(n)
         \/ Backend(n) \/ OrphanCommits(n)
         \/ StreamBreaks(n, "transient") \/ StreamBreaks(n, "permanent")
  PROVE  EndedInOrder(rs', author', Decided')
<1> DEFINE old == rs.rpcs[n]
<1>1. TypeOK /\ old \in RpcType /\ rs \in RemoteStoreType /\ author \in Seq(Users)
  BY SettledParts, RpcOK DEF TypeOK
<1>2. ASSUME NEW r, BecomesAt(n, r),
             r.phase = "closed" =>
               r.reqs = <<>> \/ (r.reqs = old.reqs /\ r.user = old.user)
      PROVE  EndedInOrder(rs', author', Decided')
  <2>1. Carried(rs, rs')
    BY <1>1, <1>2, ReplacedCarries
  <2> QED BY <2>1, CarriedInOrder
<1>3. ASSUME NEW phase \in RpcPhases,
             rs' = Rpc(n, phase) \/ rs' = [Rpc(n, phase) EXCEPT !.stream = n]
      PROVE  EndedInOrder(rs', author', Decided')
  <2> DEFINE r == [old EXCEPT !.phase = phase]
  <2>1. /\ r.user = old.user /\ r.reqs = old.reqs
        /\ Rpc(n, phase) = [rs EXCEPT !.rpcs[n] = r]
    BY <1>1, InPhase
  <2> HIDE DEF r
  <2>2. BecomesAt(n, r)
    BY <1>3, <2>1 DEF BecomesAt
  <2> QED BY <1>2, <2>1, <2>2
<1>4. CASE TokenFetched(n)
  <2> DEFINE r == [old EXCEPT !.phase = "token", !.user = creds.user]
  <2>1. rs' = [rs EXCEPT !.rpcs[n] = r]
    BY <1>4 DEF TokenFetched
  <2>2. r.phase = "token"
    BY <1>1 DEF RpcType
  <2> HIDE DEF r
  <2>3. BecomesAt(n, r)
    BY <2>1 DEF BecomesAt
  <2> QED BY <1>2, <2>2, <2>3
<1>5. CASE StartRpc(n)
  BY <1>3, <1>5 DEF StartRpc, RpcPhases
<1>6. CASE \/ TokenFetchFails(n)
           \/ StreamBreaks(n, "transient") \/ StreamBreaks(n, "permanent")
  BY <1>3, <1>6 DEF TokenFetchFails, StreamBreaks, RpcPhases
<1>7. CASE BackendAccepts(n)
  BY <1>3, <1>7 DEF BackendAccepts, RpcPhases
<1>8. ASSUME NEW q, NEW phase,
             rs' = [rs EXCEPT !.rpcs[n] = AskedIn(n, phase, q)],
             phase # "closed" \/ q = <<>>
      PROVE  EndedInOrder(rs', author', Decided')
  <2> DEFINE r == AskedIn(n, phase, q)
  <2>1. r.phase = phase /\ r.reqs = q
    BY <1>1 DEF AskedIn, RpcType
  <2>2. BecomesAt(n, r)
    BY <1>8 DEF BecomesAt
  <2> HIDE DEF r
  <2> QED BY <1>2, <1>8, <2>1, <2>2
<1>9. CASE BackendShakesHands(n) \/ BackendRefuses(n)
  <2> DEFINE q == Tail(Requests(n))
             none == <<>>
  <2>1. CASE BackendShakesHands(n)
    <3>1. rs' = [rs EXCEPT !.rpcs[n] = AskedIn(n, "ready", q)]
      BY <2>1 DEF BackendShakesHands, AskedIn
    <3> QED BY <1>8, <3>1
  <2>2. CASE BackendRefuses(n)
    <3>1. rs' = [rs EXCEPT !.rpcs[n] = AskedIn(n, "closed", none)]
      BY <2>2 DEF BackendRefuses, AskedIn
    <3> QED BY <1>8, <3>1
  <2> QED BY <1>9, <2>1, <2>2
<1>10. CASE BackendCommits(n)
  <2> DEFINE r == Asked(n, Tail(Requests(n)))
  <2>1. rs' = [rs EXCEPT !.rpcs[n] = r] /\ old.phase = "ready"
    BY <1>10 DEF BackendCommits, Asked
  <2>2. r.phase = "ready"
    BY <1>1, <2>1 DEF Asked, RpcType
  <2> HIDE DEF r
  <2>3. BecomesAt(n, r)
    BY <2>1 DEF BecomesAt
  <2> QED BY <1>2, <2>2, <2>3
<1>11. CASE OrphanCommits(n)
  <2> DEFINE q == Requests(n)
             r == Asked(n, Tail(q))
  <2>1. /\ rs' = [rs EXCEPT !.rpcs[n] = r] /\ q # <<>>
        /\ Head(q) # Handshake /\ author' = author
        /\ committed' = committed \union {<<Head(q), old.user>>}
    BY <1>11 DEF OrphanCommits, Asked
  <2>2. /\ q \in Seq(Nat) /\ q = old.reqs /\ r.user = old.user
        /\ r.reqs = Tail(q)
    BY <1>1 DEF Requests, Asked, RpcType
  <2> HIDE DEF q, r
  <2>3. /\ DOMAIN rs'.rpcs = DOMAIN rs.rpcs /\ rs'.rpcs[n] = r
        /\ \A m \in DOMAIN rs.rpcs : m # n => rs'.rpcs[m] = rs.rpcs[m]
    <3>1. rs'.rpcs = [rs.rpcs EXCEPT ![n] = r]
      BY <1>1, <2>1 DEF RemoteStoreType
    <3> QED BY <3>1 DEF Rpcs
  <2>4. Decided \subseteq Decided'
    BY AccountedGrows DEF Grows
  <2>5. ASSUME NEW m \in DOMAIN rs.rpcs
        PROVE  InOrder(rs.rpcs[m].reqs, rs.rpcs[m].user, author', Decided')
    <3>1. InOrder(rs.rpcs[m].reqs, rs.rpcs[m].user, author, Decided)
      BY DEF RequestsInOrder
    <3>2. \A c \in DOMAIN author : c \in DOMAIN author' /\ author'[c] = author[c]
      BY <2>1
    <3> QED BY <1>1, <2>4, <3>1, <3>2, InOrderGrows
  <2>6. InOrder(q, old.user, author', Decided')
    BY <2>2, <2>5 DEF Rpcs
  <2>7. Head(q) \in Decided'
    <3>1. 1 \in DOMAIN q /\ Head(q) = q[1]
      BY <2>1, <2>2, HeadTailProperties, LenProperties, EmptySeq
    <3>2. Head(q) \in DOMAIN author' /\ author'[Head(q)] = old.user
      BY <2>1, <2>6, <3>1 DEF InOrder
    <3> QED BY <2>1, <3>2 DEF Decided, Decisions
  <2>8. InOrder(r.reqs, r.user, author', Decided')
    BY <2>1, <2>2, <2>6, <2>7, TailInOrder
  <2>9. ASSUME NEW m \in DOMAIN rs'.rpcs
        PROVE  InOrder(rs'.rpcs[m].reqs, rs'.rpcs[m].user, author', Decided')
    BY <2>3, <2>5, <2>8
  <2> QED BY <2>9 DEF EndedInOrder
<1> QED BY <1>4, <1>5, <1>6, <1>7, <1>9, <1>10, <1>11 DEF Backend

(* The requests of every attempt stay in order.                            *)
LEMMA RequestsStep ==
  ASSUME Settled, Settled', Calm, "reenable" \notin Faults,
         "viewRefill" \notin Faults, DeliveryInv, Accounted, Books',
         NeverFails', TokensHeld', [Next]_vars
  PROVE  RequestsInOrder(rs', author', Decided')
<1>1. FollowsUser /\ RequestsInOrder(rs, author, Decided)
  BY DEF DeliveryInv
<1>2. CASE EndsWell
  <2>1. EndedInOrder(rs', author', Decided')
    BY <1>1, <1>2, ResumesEnded, CarriedInOrder DEF EndsWell
  <2> QED BY <2>1, LiveInOrder
<1>3. CASE UNCHANGED vars
  <2>1. rs' = rs
    BY <1>3 DEF vars
  <2> QED BY <1>2, <2>1, SilentEndsWell
<1>4. CASE Application \/ StreamCallback
  BY <1>2, <1>4, CallsEndWell, CallbacksEndWell
<1>5. CASE RunRetryTask \/ RetryTimer
  <2>1. PICK ops, rest : Retrying(ops, rest)
    BY <1>5, RetriesRetry
  <2> QED BY <1>1, <1>2, <2>1, RetriesEndWell
<1>6. CASE IdleTimeout \/ BackoffElapsed
  BY <1>2, <1>6, TimersSilent, SilentEndsWell
<1>7. ASSUME NEW n \in Rpcs,
             \/ TokenFetched(n) \/ StartRpc(n) \/ TokenFetchFails(n)
             \/ Backend(n) \/ OrphanCommits(n)
             \/ StreamBreaks(n, "transient") \/ StreamBreaks(n, "permanent")
      PROVE  RequestsInOrder(rs', author', Decided')
  <2>1. EndedInOrder(rs', author', Decided')
    BY <1>1, <1>7, AttemptsEnded
  <2> QED BY <2>1, LiveInOrder
<1> QED BY <1>3, <1>4, <1>5, <1>6, <1>7 DEF Next, Timer

----------------------------------------------------------------------------
(* The invariant                                                           *)

LEMMA DeliveryStep ==
  ASSUME Settled, Settled', Calm, "reenable" \notin Faults,
         "viewRefill" \notin Faults, DeliveryInv, [Next]_vars
  PROVE  DeliveryInv' /\ Accounted
<1>1. Accounted /\ NeverFails'
  BY StepAccounted
<1>2. FollowsUser' /\ TokensHeld'
  BY FollowsUserStep, TokensStep DEF DeliveryInv
<1>3. Books'
  BY <1>1, AccountedBooks DEF DeliveryInv, FollowsUser
<1>4. RequestsInOrder(rs', author', Decided')
  BY <1>1, <1>2, <1>3, RequestsStep
<1> QED BY <1>1, <1>2, <1>3, <1>4 DEF DeliveryInv

(* It holds initially.                                                     *)
LEMMA DeliveryInvInitially ==
  ASSUME Init
  PROVE  DeliveryInv
<1>1. /\ tasks = <<>> /\ retryOps = <<>> /\ author = <<>> /\ promise = <<>>
      /\ committed = {} /\ refused = {} /\ mode = "running"
      /\ engine.user = 1 /\ local.user = 1 /\ creds.user = 1
      /\ engine.waiters = {} /\ local.rows = {}
      /\ local.queue = [u \in Users |-> <<>>]
      /\ rs.rpcs = <<>> /\ rs.causes = {}
  BY DEF Init, NewRemoteStore
<1>2. /\ Queued = {} /\ DOMAIN author = {} /\ DOMAIN promise = {}
      /\ DOMAIN rs.rpcs = {} /\ Len(author) = 0 /\ Len(promise) = 0
  BY <1>1 DEF Queued, Elems
<1>3. FollowsUser
  BY <1>1 DEF FollowsUser
<1>4. NeverFails
  BY <1>1 DEF NeverFails, Running
<1>5. MutationRowsBacked
  <2>1. 1 .. Len(author) = {}
    BY <1>2
  <2> QED BY <1>1, <2>1 DEF MutationRowsBacked
<1>6. Books
  BY <1>1, <1>2, <1>5 DEF Books, PromisesBacked, Kept
<1>7. RequestsInOrder(rs, author, Decided) /\ TokensHeld
  BY <1>2 DEF RequestsInOrder, TokensHeld, TokensMatch
<1> QED BY <1>3, <1>4, <1>6, <1>7 DEF DeliveryInv

(* What was proved before, in one step,                                    *)
LEMMA SettledStep ==
  ASSUME Settled, "reenable" \notin Faults, "viewRefill" \notin Faults,
         [Next]_vars
  PROVE  Settled'
BY NextTyped, NetworkInvStep, PipelineInvStep DEF Settled

(* and initially.                                                          *)
LEMMA SettledInitially ==
  ASSUME Init
  PROVE  Settled
BY InitTyped, NetworkInvInitially, PipelineInvInitially DEF Settled

----------------------------------------------------------------------------
(* The promise of ReliableWrites                                           *)

PromiseStep == [Promised!Next]_(Promised!vars)

(* A write is a submission,                                                *)
LEMMA SubmitIsPromised ==
  ASSUME Settled, NEW b, Submits(b)
  PROVE  PromiseStep
<1> DEFINE u == local.user
           q == OwnQueue
<1>1. local \in LocalType /\ u \in Users /\ q = local.queue[u]
  BY QueueOwners DEF OwnQueue
<1>2. local'.queue = [local.queue EXCEPT ![u] = Append(@, Len(author) + 1)]
  <2>1. local'.queue = [local.queue EXCEPT ![u] = Append(q, b)]
    BY <1>1 DEF Submits, LocalType
  <2>2. b = Len(author) + 1
    BY DEF Submits
  <2> QED BY <1>1, <2>1, <2>2
<1>3. Promised!Submit(u)
  BY <1>2 DEF Submits, Promised!Submit
<1> QED BY <1>1, <1>3 DEF PromiseStep, Promised!Next

(* a decision that is recorded an acknowledgement or a rejection,          *)
LEMMA ConclusionIsPromised ==
  ASSUME Settled, Books, engine.user = local.user,
         NEW kind, NEW b, Concludes(kind, b)
  PROVE  PromiseStep
<1> DEFINE u == local.user
           q == local.queue[u]
           verdict == IF kind = "acknowledge" THEN "resolved" ELSE "rejected"
<1>1. /\ DOMAIN author = 1 .. Len(author)
      /\ \A v \in Users : \A c \in Elems(local.queue[v]) :
           c \in DOMAIN author /\ author[c] = v
      /\ \A v \in Users : /\ local.queue[v] \in Seq(BatchIds)
                          /\ Ascends(local.queue[v])
      /\ local \in LocalType /\ u \in Users /\ engine.user = u
      /\ q # <<>> /\ b = Head(q) /\ Decision(b, kind)
  BY QueueOwners DEF OwnQueue, Concludes
<1> HIDE DEF q
<1>2. b \in DOMAIN author /\ author[b] = u /\ b = q[1] /\ q \in Seq(BatchIds)
  <2>1. q \in Seq(BatchIds)
    BY <1>1 DEF q
  <2>2. b \in Elems(q) /\ b = q[1]
    BY <1>1, <2>1, ElemsSteps, HeadTailProperties
  <2> QED BY <1>1, <2>1, <2>2 DEF q
<1>3. local'.queue = [local.queue EXCEPT ![u] = Tail(@)]
  <2>1. local'.queue = [v \in Users |-> Without(local.queue[v], b)]
    BY <1>1 DEF Concludes, Conclude, RemoveBatch, LocalType
  <2>2. Without(local.queue[u], b) = Tail(local.queue[u])
    BY <1>1, <1>2, WithoutParts DEF q
  <2>3. ASSUME NEW v \in Users, v # u
        PROVE  Without(local.queue[v], b) = local.queue[v]
    <3>1. b \notin Elems(local.queue[v])
      BY <1>1, <1>2, <2>3
    <3>2. ~ \E i \in DOMAIN local.queue[v] : local.queue[v][i] = b
      BY <3>1 DEF Elems
    <3> QED BY <3>2 DEF Without
  <2>4. local.queue \in [Users -> Seq(BatchIds)]
    BY <1>1 DEF LocalType
  <2> QED BY <1>1, <2>1, <2>2, <2>3, <2>4
<1>4. promise' = [promise EXCEPT ![b] = IF @ = "pending" THEN verdict ELSE @]
  <2>1. promise \in Seq({"pending", "resolved", "rejected", "lost"})
    BY SettledParts DEF TypeOK
  <2>2. b \in DOMAIN promise
    BY <1>1, <1>2, <2>1, LenProperties DEF Books
  <2>3. promise[b] = "pending" => b \in engine.callbacks[u]
    BY <1>2, <2>2 DEF Books, PromisesBacked
  <2>4. promise' = IF b \in engine.callbacks[u] /\ promise[b] = "pending"
                     THEN [promise EXCEPT ![b] = verdict] ELSE promise
    BY <1>1 DEF Concludes, Conclude
  <2> HIDE DEF verdict, u
  <2>5. CASE promise[b] = "pending"
    BY <2>3, <2>4, <2>5
  <2>6. CASE promise[b] # "pending"
    <3>1. promise' = promise
      BY <2>4, <2>6
    <3>2. [promise EXCEPT ![b] = promise[b]] = promise
      BY <2>1, <2>2
    <3> QED BY <2>6, <3>1, <3>2
  <2> QED BY <2>5, <2>6
<1>5. Promised!Settle(u, verdict)
  <2>1. UNCHANGED <<author, committed, refused>>
    BY DEF Concludes
  <2> QED BY <1>1, <1>3, <1>4, <2>1 DEF Promised!Settle, q
<1>6. CASE kind = "acknowledge"
  <2>1. <<Head(local.queue[u]), u>> \in committed
    BY <1>1, <1>2, <1>6 DEF Decision, Applied, q
  <2>2. Promised!Acknowledge(u)
    BY <1>1, <1>5, <1>6, <2>1 DEF Promised!Acknowledge, q
  <2> QED BY <1>1, <2>2 DEF PromiseStep, Promised!Next
<1>7. CASE kind = "reject"
  <2>1. Head(local.queue[u]) \in refused
    BY <1>1, <1>7 DEF Decision, q
  <2>2. Promised!Reject(u)
    BY <1>1, <1>5, <1>7, <2>1 DEF Promised!Reject, q
  <2> QED BY <1>1, <2>2 DEF PromiseStep, Promised!Next
<1> QED BY <1>6, <1>7 DEF Concludes

(* and whatever is accounted for is a step of ReliableWrites or none.      *)
LEMMA AccountedIsPromised ==
  ASSUME Settled, DeliveryInv, Accounted
  PROVE  PromiseStep
<1>1. /\ Books /\ engine.user = local.user
      /\ RequestsInOrder(rs, author, Decided)
      /\ DOMAIN author = 1 .. Len(author)
  BY QueueOwners DEF DeliveryInv, FollowsUser
<1>2. CASE SettlesNothing
  BY <1>2 DEF SettlesNothing, PromiseStep, Promised!vars
<1>3. ASSUME NEW n, NEW b, Commits(n, b) \/ Refuses(n, b)
      PROVE  PromiseStep
  <2>1. /\ b \in DOMAIN author /\ rs.rpcs[n].user = author[b]
        /\ \A e \in 1 .. b - 1 : author[e] = author[b] => e \in Decided
    BY <1>1, <1>3, BackendBooks
  <2>2. Promised!InTurn(b)
    BY <2>1 DEF Promised!InTurn, Decided, Decisions
  <2>3. CASE Commits(n, b)
    <3>1. Promised!Apply(b)
      BY <2>1, <2>2, <2>3 DEF Commits, Promised!Apply
    <3> QED BY <1>1, <2>1, <3>1 DEF PromiseStep, Promised!Next, Promised!Batches
  <2>4. CASE Refuses(n, b)
    <3>1. Promised!Refuse(b)
      BY <2>2, <2>4 DEF Refuses, Promised!Refuse
    <3> QED BY <1>1, <2>1, <3>1 DEF PromiseStep, Promised!Next, Promised!Batches
  <2> QED BY <1>3, <2>3, <2>4
<1>4. CASE Forgets
  <2>1. DOMAIN promise = 1 .. Len(author)
    <3>1. promise \in Seq({"pending", "resolved", "rejected", "lost"})
      BY SettledParts DEF TypeOK
    <3> QED BY <1>1, <3>1, LenProperties DEF Books
  <2>2. Promised!Forget
    BY <1>4, <2>1 DEF Forgets, Promised!Forget, Promised!Batches
  <2> QED BY <2>2 DEF PromiseStep, Promised!Next
<1> QED BY <1>1, <1>2, <1>3, <1>4, SubmitIsPromised, ConclusionIsPromised
        DEF Accounted


----------------------------------------------------------------------------
(* Who waits for pending writes                                            *)

(* Nobody who waits is passed over unless the user or the session changes, *)
(* or the first batch of the user's queue is decided.                      *)
Attends ==
  \/ engine.waiters \subseteq engine'.waiters
  \/ engine'.user # engine.user
  \/ used'.restarts # used.restarts
  \/ \E kind, b : OwnQueue # <<>> /\ b = Head(OwnQueue) /\ Conclude(kind, b)

(* Of the calls, only a new session passes over who waits;                 *)
LEMMA CallsAttend ==
  ASSUME Settled, Application
  PROVE  Attends
<1>1. engine \in EngineType /\ used \in SpentType
  BY SettledParts DEF TypeOK
<1>2. CASE Write
  BY <1>1, <1>2 DEF Write, EngineType, Attends
<1>3. CASE WaitForPendingWrites
  BY <1>1, <1>3 DEF WaitForPendingWrites, EngineType, Attends
<1>4. CASE Restart
  <2> DEFINE spent == Spend(used, "restarts")
  <2>1. spent \in SpentType /\ spent.restarts = used.restarts + 1
    BY <1>1 DEF Spend, SpentType
  <2>2. used' = spent \/ used' = Spend(spent, "idb")
    BY <1>4 DEF Restart, Fill
  <2> HIDE DEF spent
  <2>3. used'.restarts = used.restarts + 1
    BY <2>1, <2>2 DEF Spend, SpentType
  <2>4. used.restarts \in Nat
    BY <1>1 DEF SpentType
  <2> QED BY <2>3, <2>4 DEF Attends
<1>5. CASE engine' = engine
  BY <1>5 DEF Attends
<1>6. CASE EnableNetwork \/ DisableNetwork \/ ConnectivityChange
  BY <1>5, <1>6 DEF EnableNetwork, DisableNetwork, ConnectivityChange
<1>7. CASE \/ \E u \in Users : AuthTokenChanged(u)
           \/ AppCheckTokenChanged \/ Terminate
  BY <1>5, <1>7 DEF AuthTokenChanged, AppCheckTokenChanged, Terminate
<1> QED BY <1>2, <1>3, <1>4, <1>6, <1>7 DEF Application

(* a callback does when it records a decision,                             *)
LEMMA CallbacksAttend ==
  ASSUME Settled, Settled', "viewRefill" \notin Faults, StreamCallback
  PROVE  Attends
<1>1. CASE engine' = engine
  BY <1>1 DEF Attends
<1>2. CASE SkipStaleCallback \/ OnOpen \/ OnHandshake
  BY <1>1, <1>2 DEF SkipStaleCallback, OnOpen, OnHandshake, QueueFails
<1>3. ASSUME NEW kind, Decides(kind, Head(rs.pipeline))
      PROVE  Attends
  <2>1. CASE Conclude(kind, Head(rs.pipeline))
    <3>1. OwnQueue # <<>> /\ Head(rs.pipeline) = Head(OwnQueue)
      BY <1>3, DecidesHead
    <3> QED BY <2>1, <3>1 DEF Attends
  <2> QED BY <1>1, <1>3, <2>1 DEF Decides
<1>4. CASE OnMutationResult
  BY <1>3, <1>4, OnMutationResultDecides
<1>5. ASSUME NEW kind \in Closing, OnStreamClose(kind)
      PROVE  Attends
  BY <1>1, <1>3, <1>5, OnStreamCloseDecides
<1> QED BY <1>2, <1>4, <1>5 DEF StreamCallback, Closing

(* a retry when it records one or changes the user,                        *)
LEMMA RetriesAttend ==
  ASSUME Settled, Settled', Calm, "viewRefill" \notin Faults, FollowsUser,
         Books, NEW ops, NEW rest, Retrying(ops, rest)
  PROVE  Attends
<1>1. CASE engine' = engine
  BY <1>1 DEF Attends
<1>2. CASE RetryRecovery(ops, rest)
  <2> DEFINE kind == Head(ops).kind
             b == Head(ops).batch
  <2>1. Recovers(ops, rest)
    BY <1>2, RecoveryRecovers
  <2>2. CASE kind # "probe" /\ Conclude(kind, b)
    <3>1. OwnQueue # <<>> /\ b = Head(OwnQueue)
      BY <2>1, <2>2, RecoversHead
    <3> QED BY <2>2, <3>1 DEF Attends
  <2> QED BY <1>1, <2>1, <2>2 DEF Recovers
<1>3. ASSUME NEW u, HandleCredentialChange(u, ops, rest)
      PROVE  Attends
  <2>1. engine \in EngineType
    BY SettledParts DEF TypeOK
  <2>2. CASE u # engine.user /\ engine'= [engine EXCEPT !.user = u,
                                                        !.waiters = {}]
    <3>1. engine'.user = u
      BY <2>1, <2>2 DEF EngineType
    <3> QED BY <2>2, <3>1 DEF Attends
  <2> QED BY <1>1, <1>3, <2>2 DEF HandleCredentialChange
<1>4. CASE RetryCredentials(ops, rest)
  BY <1>1, <1>3, <1>4 DEF RetryCredentials
<1> QED BY <1>2, <1>4 DEF Retrying, RetryNextOp

(* and nothing else does.                                                  *)
LEMMA StepAttends ==
  ASSUME Settled, Settled', Calm, "viewRefill" \notin Faults, FollowsUser,
         Books, [Next]_vars
  PROVE  Attends
<1>1. CASE engine' = engine
  BY <1>1 DEF Attends
<1>2. CASE Application
  BY <1>2, CallsAttend
<1>3. CASE StreamCallback
  BY <1>3, CallbacksAttend
<1>4. CASE RunRetryTask \/ RetryTimer
  BY <1>4, RetriesRetry, RetriesAttend
<1>5. CASE IdleTimeout \/ BackoffElapsed
  BY <1>1, <1>5, TimersSilent
<1>6. ASSUME NEW n \in Rpcs,
             \/ TokenFetched(n) \/ StartRpc(n) \/ TokenFetchFails(n)
             \/ Backend(n) \/ OrphanCommits(n)
             \/ StreamBreaks(n, "transient") \/ StreamBreaks(n, "permanent")
      PROVE  Attends
  <2>1. engine' = engine
    BY <1>6 DEF TokenFetched, StartRpc, TokenFetchFails, Backend,
                BackendAccepts, BackendShakesHands, BackendCommits,
                BackendRefuses, OrphanCommits, StreamBreaks
  <2> QED BY <1>1, <2>1
<1>7. CASE UNCHANGED vars
  BY <1>1, <1>7 DEF vars
<1> QED BY <1>2, <1>3, <1>4, <1>5, <1>6, <1>7 DEF Next, Timer

(* Whoever is told that nothing is pending waited for the last batch.      *)
HeardInTime ==
  \A w \in engine.waiters \ engine'.waiters :
    engine'.user # engine.user
    \/ used'.restarts # used.restarts
    \/ \A u \in Users : Elems(local'.queue[u]) \intersect w.covers = {}

(* The first batch of a queue is the last one that whoever is told of it   *)
(* has waited for.                                                         *)
LEMMA DecidedIsHeard ==
  ASSUME Settled, Books, NEW kind, NEW b, OwnQueue # <<>>,
         b = Head(OwnQueue), Conclude(kind, b)
  PROVE  HeardInTime
<1> DEFINE own == local.user
           q == OwnQueue
<1>1. /\ DOMAIN author = 1 .. Len(author) /\ Len(author) \in Nat
      /\ \A v \in Users : \A c \in Elems(local.queue[v]) :
           c \in DOMAIN author /\ author[c] = v
      /\ \A v \in Users : /\ local.queue[v] \in Seq(BatchIds)
                          /\ Ascends(local.queue[v])
      /\ local \in LocalType /\ engine \in EngineType /\ own \in Users
      /\ q = local.queue[own]
  BY QueueOwners DEF OwnQueue
<1>2. engine'.waiters = {w \in engine.waiters : w.batch # b}
  BY <1>1 DEF Conclude, EngineType
<1>3. local'.queue = [v \in Users |-> Without(local.queue[v], b)]
  BY <1>1 DEF Conclude, RemoveBatch, LocalType
<1> HIDE DEF q, own
<1>4. /\ q \in Seq(BatchIds) /\ Ascends(q) /\ b = q[1] /\ q # <<>>
      /\ b \in DOMAIN author /\ author[b] = own
  <2>1. q \in Seq(BatchIds) /\ Ascends(q) /\ q # <<>> /\ b = Head(q)
    BY <1>1 DEF q
  <2>2. b \in Elems(q) /\ b = q[1]
    BY <2>1, ElemsSteps, HeadTailProperties
  <2> QED BY <1>1, <2>1, <2>2
<1>5. \A c \in Elems(q) : b <= c /\ c \in Nat /\ b \in Nat
  <2>1. \A i \in DOMAIN q : 1 \in DOMAIN q /\ (i = 1 \/ 1 < i)
    BY <1>4, LenProperties
  <2>2. \A i \in DOMAIN q : q[i] \in Nat
    BY <1>4, ElementOfSeq, LenProperties DEF BatchIds
  <2>3. \A i \in DOMAIN q : i = 1 \/ q[1] < q[i]
    BY <1>4, <2>1 DEF Ascends
  <2>4. \A i \in DOMAIN q : q[1] <= q[i] /\ q[1] \in Nat
    BY <2>1, <2>2, <2>3
  <2> QED BY <1>4, <2>2, <2>4 DEF Elems
<1>6. ASSUME NEW w \in engine.waiters \ engine'.waiters, NEW u \in Users
      PROVE  Elems(local'.queue[u]) \intersect w.covers = {}
  <2>1. w.batch = b /\ WaitsForLast(w)
    BY <1>2, <1>6 DEF Books
  <2>2. \A c \in w.covers : c \in DOMAIN author /\ author[c] = own /\ c <= b
    BY <1>4, <2>1 DEF WaitsForLast
  <2>3. ASSUME NEW c \in Elems(local'.queue[u]), c \in w.covers
        PROVE  FALSE
    <3>1. c \in Elems(local.queue[u]) \ {b}
      BY <1>1, <1>3, <2>3, WithoutParts
    <3>2. u = own
      BY <1>1, <2>2, <2>3, <3>1
    <3>3. c \in Elems(q) /\ c # b
      BY <1>1, <3>1, <3>2
    <3>4. b <= c /\ c \in Nat /\ b \in Nat /\ c <= b
      BY <1>5, <2>2, <2>3, <3>3
    <3> QED BY <3>3, <3>4
  <2> QED BY <2>3
<1> QED BY <1>6 DEF HeardInTime

(* So nobody is told too early.                                            *)
LEMMA HeardStep ==
  ASSUME Settled, Settled', Calm, "viewRefill" \notin Faults, DeliveryInv,
         [Next]_vars
  PROVE  HeardInTime
<1>1. FollowsUser /\ Books
  BY DEF DeliveryInv
<1>2. Attends
  BY <1>1, StepAttends
<1> QED BY <1>1, <1>2, DecidedIsHeard DEF Attends, HeardInTime


----------------------------------------------------------------------------
(* Theorems                                                                *)

(* The queue in order, the network, the pipeline and the books hold        *)
(* throughout (remote_store.ts, sync_engine_impl.ts, local_store_impl.ts), *)
(* where the application enables no network that is enabled, no view       *)
(* refill fails, and either there is one user or IndexedDB does not fail.  *)
THEOREM DeliveryKept ==
  ASSUME Calm, "reenable" \notin Faults, "viewRefill" \notin Faults
  PROVE  Spec => [](Settled /\ DeliveryInv)
<1>1. Init => Settled /\ DeliveryInv
  BY SettledInitially, DeliveryInvInitially
<1>2. Settled /\ DeliveryInv /\ [Next]_vars => (Settled /\ DeliveryInv)'
  <2> SUFFICES ASSUME Settled, DeliveryInv, [Next]_vars
               PROVE  Settled' /\ DeliveryInv'
    OBVIOUS
  <2>1. Settled'
    BY SettledStep
  <2> QED BY <2>1, DeliveryStep
<1> QED BY <1>1, <1>2, PTL DEF Spec

(* Once every token event has been handled, the SyncEngine and the         *)
(* LocalStore work for the user who is signed in, and no change of user    *)
(* keeps the network off (credentials.ts; remoteStoreHandleCredential-     *)
(* Change).                                                                *)
THEOREM EngineAlwaysFollowsAuth ==
  ASSUME Calm, "reenable" \notin Faults, "viewRefill" \notin Faults
  PROVE  Spec => []EngineFollowsAuth
<1>1. Settled /\ DeliveryInv => EngineFollowsAuth
  <2> SUFFICES ASSUME DeliveryInv, Running, ~AuthPending
               PROVE  /\ engine.user = creds.user /\ local.user = creds.user
                      /\ "CredentialChange" \notin rs.causes
    BY DEF EngineFollowsAuth
  <2>1. ~AuthQueued(tasks)
    BY DEF AuthPending, AuthQueued, Elems
  <2> QED BY <2>1 DEF DeliveryInv, FollowsUser
<1> QED BY <1>1, DeliveryKept, PTL

(* The document index has a row for every queued batch and none for a      *)
(* batch that is gone (local_store_impl.ts, performConsistencyCheck).      *)
THEOREM RowsAlwaysBacked ==
  ASSUME Calm, "reenable" \notin Faults, "viewRefill" \notin Faults
  PROVE  Spec => []MutationRowsBacked
<1>1. Settled /\ DeliveryInv => MutationRowsBacked
  BY DEF DeliveryInv, Books
<1> QED BY <1>1, DeliveryKept, PTL

(* No promise is orphaned: while it is open its write is queued for its    *)
(* author and its callback is where the decision looks for it              *)
(* (sync_engine_impl.ts, processUserCallback).                             *)
THEOREM PromisesAlwaysBacked ==
  ASSUME Calm, "reenable" \notin Faults, "viewRefill" \notin Faults
  PROVE  Spec => []PromisesBacked
<1>1. Settled /\ DeliveryInv => PromisesBacked
  BY DEF DeliveryInv, Books
<1> QED BY <1>1, DeliveryKept, PTL

(* No assertion ever kills the AsyncQueue (async_queue_impl.ts;            *)
(* localStoreAcknowledgeBatch and localStoreRejectBatch).                  *)
THEOREM QueueStaysAlive ==
  ASSUME Calm, "reenable" \notin Faults, "viewRefill" \notin Faults
  PROVE  Spec => []QueueNeverFails
<1>1. Settled /\ DeliveryInv => QueueNeverFails
  BY DEF DeliveryInv, NeverFails, QueueNeverFails
<1> QED BY <1>1, DeliveryKept, PTL

(* No batch reaches the backend under the token of anyone but its author   *)
(* (persistent_stream.ts, auth and closeCount).                            *)
THEOREM AlwaysSentAsAuthor ==
  ASSUME Calm, "reenable" \notin Faults, "viewRefill" \notin Faults
  PROVE  Spec => []SentAsAuthor
<1>1. Settled /\ DeliveryInv => SentAsAuthor
  BY DEF DeliveryInv, Books, SentAsAuthor
<1> QED BY <1>1, DeliveryKept, PTL

(* waitForPendingWrites() is resolved only when every batch that was       *)
(* pending at the call has been decided (sync_engine_impl.ts,              *)
(* triggerPendingWritesCallbacks).                                         *)
THEOREM WaitersAlwaysHeardInTime ==
  ASSUME Calm, "reenable" \notin Faults, "viewRefill" \notin Faults
  PROVE  Spec => WaitersHeardInTime
<1>1. /\ Settled /\ DeliveryInv /\ (Settled /\ DeliveryInv)' /\ [Next]_vars
      => HeardInTime
  BY HeardStep
<1> QED BY <1>1, DeliveryKept, PTL DEF Spec, WaitersHeardInTime, HeardInTime

(* The write path implements ReliableWrites: the backend applies the       *)
(* batches of a user in the order they were written, each under its        *)
(* author's credentials, every promise is settled as the backend decided,  *)
(* and nothing is settled before.                                          *)
THEOREM AlwaysDeliversReliably ==
  ASSUME Calm, "reenable" \notin Faults, "viewRefill" \notin Faults
  PROVE  Spec => DeliversReliably
<1>1. Init => Promised!Init
  BY DEF Init, Promised!Init
<1>2. /\ Settled /\ DeliveryInv /\ (Settled /\ DeliveryInv)' /\ [Next]_vars
      => PromiseStep
  BY DeliveryStep, AccountedIsPromised
<1> QED BY <1>1, <1>2, DeliveryKept, PTL
        DEF Spec, DeliversReliably, Promised!Spec, PromiseStep

=============================================================================
