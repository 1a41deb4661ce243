------------------------- MODULE ListenTargetProofs -------------------------
(***************************************************************************)
(* Real-time listens, the first half of what ListenProofs needs: the       *)
(* inductive invariant, and how the operators on the client's record keep  *)
(* it, from below: sequences and folds, the online state, the stream,      *)
(* requests, targets, limbo resolution, views and remote events, and the   *)
(* aggregator.  A task is a composition of such operators, so there is one *)
(* lemma for each, in the order of the calls.                              *)
(***************************************************************************)
EXTENDS Listen, FiniteSetTheorems, SequenceTheorems, WellFoundedInduction, TLAPS

-----------------------------------------------------------------------------
(* The inductive invariant.                                                *)

IsSequence(q) == \E R : q \in Seq(R)
IsFunction(f) == f = [x \in DOMAIN f |-> f[x]]

ClientFields == {"remote", "engine", "store"}
RemoteFields == {"listens", "agg", "stream", "idle", "reqs", "nextId",
                 "online", "failures", "timer", "strays", "orphan", "causes"}
EngineFields == {"views", "active", "enqueued", "refs"}
StoreFields == {"cache", "keysOf", "targets", "mem", "last"}
ViewFields == {"docs", "synced", "limbo", "current", "state"}
AggregatorFields == {"states", "docs", "seen", "resets"}
TargetStateFields == {"pending", "current", "token", "dirty", "changes"}
ServerFields == {"hist", "accepted", "resps", "due"}

(* Targets that were ever allocated.                                       *)
Allocated(r) == 1 .. r.nextId - 1

AggregatorShape(a) ==
  /\ DOMAIN a = AggregatorFields
  /\ \A t \in DOMAIN a.states :
       /\ DOMAIN a.states[t] = TargetStateFields
       /\ a.states[t].pending \in Int /\ a.states[t].current \in BOOLEAN

RemoteShape(r) ==
  /\ IsFunction(r) /\ DOMAIN r = RemoteFields
  /\ r.stream \in {"Stopped", "Starting", "Open"}
  /\ r.online \in {"Unknown", "Online", "Offline"}
  /\ r.idle \in BOOLEAN /\ r.timer \in BOOLEAN
  /\ r.failures \in 0 .. MaxWatchStreamFailures
  /\ r.orphan = FALSE /\ r.strays = 0
  /\ r.nextId \in Nat \ {0}
  /\ IsFunction(r.listens)
  /\ DOMAIN r.listens \subseteq Allocated(r)
  /\ \A t \in DOMAIN r.listens : DOMAIN r.listens[t] = {"sdk", "token", "ver"}
  /\ \A t, u \in DOMAIN r.listens :
       r.listens[t].sdk = r.listens[u].sdk => t = u
  /\ IsSequence(r.reqs)
  /\ \A i \in DOMAIN r.reqs : r.reqs[i].t \in Allocated(r)
  /\ r.stream # "Open" => r.reqs = << >>
  /\ r.stream # "Stopped" =>
       AggregatorShape(r.agg) /\ DOMAIN r.agg.states \subseteq Allocated(r)
  /\ r.stream = "Starting" => DOMAIN r.agg.states = {}

OnlineSound(r) ==
  /\ r.timer => r.online = "Unknown" /\ r.stream # "Stopped"
  /\ r.online = "Online" => r.stream = "Open" /\ ~r.timer /\ r.failures = 0
  /\ r.causes # {} => r.stream = "Stopped"

IdleSound(r) == r.idle => r.stream = "Open" /\ DOMAIN r.listens = {}

(* What was asked of a target, and how it was answered.                    *)
AskedOf(r, t) == {i \in DOMAIN r.reqs : r.reqs[i].t = t}

ResponsesTo(resps, kinds, t) ==
  {i \in DOMAIN resps : resps[i].kind \in kinds /\ resps[i].t = t}

PendingOf(r, t) ==
  IF t \in DOMAIN r.agg.states THEN r.agg.states[t].pending ELSE 0

Counted(r, G, t) ==
  PendingOf(r, t) = Cardinality(AskedOf(r, t))
                      + Cardinality(ResponsesTo(G.resps, {"ADD", "REMOVE"}, t))

(* The backend has the target when it reads the request to remove it.      *)
Alternates(r, G, t) ==
  \A i \in AskedOf(r, t) : r.reqs[i].op = "remove" =>
    \/ \E j \in AskedOf(r, t) :
         /\ j < i /\ r.reqs[j].op = "add"
         /\ \A k \in AskedOf(r, t) : k <= j \/ k >= i
    \/ t \in DOMAIN G.accepted /\ \A k \in AskedOf(r, t) : k >= i

(* It will have the target when it has read everything.                    *)
EndsAccepted(r, G, t) ==
  \/ \E j \in AskedOf(r, t) :
       r.reqs[j].op = "add" /\ \A k \in AskedOf(r, t) : k <= j
  \/ t \in DOMAIN G.accepted /\ AskedOf(r, t) = {}

Conversation(r, G, t) ==
  ResponsesTo(G.resps, {"ERROR"}, t) = {} =>
    /\ t \in DOMAIN r.listens \cup DOMAIN r.agg.states =>
         Counted(r, G, t) /\ Alternates(r, G, t)
    /\ t \in DOMAIN r.listens => EndsAccepted(r, G, t)

ServerShape(r, G) ==
  /\ DOMAIN G = ServerFields
  /\ IsSequence(G.resps)
  /\ \A i \in DOMAIN G.resps :
       G.resps[i].kind # "SNAPSHOT" => G.resps[i].t \in Allocated(r)
  /\ DOMAIN G.accepted \subseteq Allocated(r)

RemoteCore(r, G) ==
  /\ RemoteShape(r)
  /\ IdleSound(r)
  /\ ServerShape(r, G)
  /\ r.stream = "Open" => \A t \in Allocated(r) : Conversation(r, G, t)

RemoteInv(r, G) == RemoteCore(r, G) /\ OnlineSound(r)

-----------------------------------------------------------------------------
ViewSound(v) ==
  /\ DOMAIN v = ViewFields
  /\ v.limbo \subseteq Keys
  /\ v.current \in BOOLEAN
  /\ v.state \in {"Local", "Synced"}
  /\ v.state = "Synced" => v.current

EngineShape(e) ==
  /\ IsFunction(e) /\ DOMAIN e = EngineFields
  /\ IsFunction(e.views) /\ DOMAIN e.views \subseteq Queries
  /\ \A q \in DOMAIN e.views : ViewSound(e.views[q])
  /\ DOMAIN e.active \subseteq Keys
  /\ e.enqueued \in Seq(Keys)
  /\ e.refs \subseteq Keys \X Queries

Watched(r) == {r.listens[t].sdk : t \in DOMAIN r.listens}

Referenced(e, k) == \E q \in Queries : <<k, q>> \in e.refs

RefsMatch(e) ==
  \A k \in Keys, q \in Queries :
    <<k, q>> \in e.refs <=> q \in DOMAIN e.views /\ k \in e.views[q].limbo

Pumped(e) == e.enqueued # << >> => Cardinality(DOMAIN e.active) = MaxLimbo

(* exempt: keys that are about to lose their place                         *)
Limbo(e, exempt) ==
  /\ \A k \in DOMAIN e.active \cup Range(e.enqueued) :
       k \in exempt \/ Referenced(e, k)
  /\ DOMAIN e.active \cap Range(e.enqueued) = {}
  /\ IsInjective(e.enqueued)
  /\ Cardinality(DOMAIN e.active) <= MaxLimbo

OfflineKnown(c) ==
  c.remote.online = "Offline" =>
    \A q \in DOMAIN c.engine.views : ~c.engine.views[q].current

ClientInv(c, G, exempt) ==
  /\ DOMAIN c = ClientFields
  /\ DOMAIN c.store = StoreFields
  /\ RemoteInv(c.remote, G)
  /\ EngineShape(c.engine)
  /\ Limbo(c.engine, exempt)
  /\ OfflineKnown(c)

ListenInv ==
  /\ ClientInv(Client, server, {})
  /\ Watched(remote) = DOMAIN engine.active \cup DOMAIN engine.views
  /\ RefsMatch(engine)
  /\ Pumped(engine)
  /\ remote.stream # "Open" => server.accepted = << >> /\ server.resps = << >>

-----------------------------------------------------------------------------
(* Filter, and sets that are run through.                                  *)

FilterStep(kept, e, wanted) == IF e \in wanted THEN Append(kept, e) ELSE kept

Anything(d, i, p) == TRUE

Filtered == INSTANCE FoldTheorems WITH Op <- FilterStep, Inv <- Anything

(* Induction along a sequence.                                             *)
LEMMA AtTheEnd ==
  ASSUME NEW n \in Nat, NEW T, 0 \in T, \A i \in 1 .. n : i - 1 \in T => i \in T
  PROVE  n \in T
<1>1. 0 .. n \subseteq T
  BY Filtered!Interval
<1> QED BY <1>1

(* Filter keeps the elements that are wanted, each as often as it was.     *)
LEMMA FilterFacts ==
  ASSUME NEW S, NEW s \in Seq(S), NEW K
  PROVE  /\ Filter(s, K) \in Seq(S)
         /\ Range(Filter(s, K)) = Range(s) \cap K
         /\ IsInjective(s) => IsInjective(Filter(s, K))
<1> DEFINE n == Len(s)
<1>0. n \in Nat /\ DOMAIN s = 1 .. n /\ \A i \in 1 .. n : s[i] \in S
  OBVIOUS
<1>1. PICK r : /\ r[0] = << >>
               /\ \A i \in 1 .. n : r[i] = FilterStep(r[i - 1], s[i], K)
               /\ Filtered!Run(<< >>, s, K) = r[n]
  BY Filtered!RunSteps
<1>2. Filter(s, K) = r[n]
  <2>1. Filter(s, K) = Filtered!Run(<< >>, s, K)
    BY DEF Filter, FilterStep, FoldLeft, MapThenFoldSet, Max, Filtered!Run,
           Filtered!Last
  <2> QED BY <1>1, <2>1
<1> HIDE DEF n
<1> DEFINE P(i) == /\ r[i] \in Seq(S)
                   /\ \A j \in DOMAIN r[i] :
                        r[i][j] \in K /\ \E k \in 1 .. i : s[k] = r[i][j]
                   /\ \A k \in 1 .. i : s[k] \in K => \E j \in DOMAIN r[i] : r[i][j] = s[k]
                   /\ IsInjective(s) => IsInjective(r[i])
           T == {i \in 0 .. n : P(i)}
<1>3. 0 \in T
  <2>1. P(0)
    BY <1>1 DEF IsInjective
  <2> HIDE DEF P
  <2> QED BY <1>0, <2>1
<1>4. ASSUME NEW i \in 1 .. n, i - 1 \in T PROVE i \in T
  <2> DEFINE q == r[i - 1]
  <2>1. P(i - 1) /\ i \in 0 .. n /\ i \in Nat /\ s[i] \in S
    BY <1>0, <1>4
  <2>2. r[i] = IF s[i] \in K THEN Append(q, s[i]) ELSE q
    BY <1>1 DEF FilterStep
  <2>3. /\ q \in Seq(S)
        /\ \A j \in DOMAIN q : q[j] \in K /\ \E k \in 1 .. i - 1 : s[k] = q[j]
        /\ \A k \in 1 .. i - 1 : s[k] \in K => \E j \in DOMAIN q : q[j] = s[k]
        /\ IsInjective(s) => IsInjective(q)
    BY <2>1
  <2>4. \A k \in 1 .. i : k \in 1 .. i - 1 \/ k = i
    BY <2>1
  <2>5. 1 .. i - 1 \subseteq 1 .. i /\ i \in 1 .. i
    BY <2>1
  <2> HIDE DEF q
  <2>6. P(i)
    <3>1. CASE s[i] \notin K
      <4>1. r[i] = q
        BY <2>2, <3>1
      <4> QED BY <2>3, <2>4, <2>5, <3>1, <4>1
    <3>2. CASE s[i] \in K
      <4> DEFINE e == Append(q, s[i])
                 m == Len(q)
      <4>1. /\ e \in Seq(S) /\ m \in Nat /\ DOMAIN q = 1 .. m /\ DOMAIN e = 1 .. m + 1
            /\ \A j \in 1 .. m : e[j] = q[j]
            /\ e[m + 1] = s[i]
        BY <2>1, <2>3
      <4>2. r[i] = e
        BY <2>2, <3>2
      <4> HIDE DEF e, m
      <4>3. \A j \in 1 .. m + 1 : j \in 1 .. m \/ j = m + 1
        BY <4>1
      <4>4. \A j \in DOMAIN e : e[j] \in K /\ \E k \in 1 .. i : s[k] = e[j]
        BY <2>3, <2>5, <3>2, <4>1, <4>3
      <4>5. \A k \in 1 .. i : s[k] \in K => \E j \in DOMAIN e : e[j] = s[k]
        <5> SUFFICES ASSUME NEW k \in 1 .. i, s[k] \in K PROVE \E j \in DOMAIN e : e[j] = s[k]
          OBVIOUS
        <5>1. CASE k = i
          BY <4>1, <5>1
        <5>2. CASE k \in 1 .. i - 1
          <6>1. PICK j \in 1 .. m : q[j] = s[k]
            BY <2>3, <4>1, <5>2
          <6> QED BY <4>1, <6>1
        <5> QED BY <2>4, <5>1, <5>2
      <4>6. ASSUME IsInjective(s) PROVE IsInjective(e)
        <5>1. \A j \in 1 .. m : e[j] # s[i]
          <6> SUFFICES ASSUME NEW j \in 1 .. m, q[j] = s[i] PROVE FALSE
            BY <4>1
          <6>1. PICK k \in 1 .. i - 1 : s[k] = s[i]
            BY <2>3, <4>1
          <6>2. k \in DOMAIN s /\ i \in DOMAIN s /\ k # i
            BY <1>0, <1>4, <6>1
          <6> QED BY <4>6, <6>1, <6>2 DEF IsInjective
        <5>2. IsInjective(q)
          BY <2>3, <4>6
        <5> QED BY <4>1, <4>3, <5>1, <5>2 DEF IsInjective
      <4> QED BY <4>1, <4>2, <4>4, <4>5, <4>6
    <3> QED BY <3>1, <3>2
  <2> HIDE DEF P
  <2> QED BY <2>1, <2>6
<1>5. P(n)
  <2> HIDE DEF T, P
  <2>1. n \in T
    BY <1>0, <1>3, <1>4, AtTheEnd
  <2> QED BY <2>1 DEF T
<1> DEFINE f == Filter(s, K)
<1>6. /\ f \in Seq(S)
      /\ \A j \in DOMAIN f : f[j] \in K /\ \E k \in 1 .. n : s[k] = f[j]
      /\ \A k \in 1 .. n : s[k] \in K => \E j \in DOMAIN f : f[j] = s[k]
      /\ IsInjective(s) => IsInjective(f)
  BY <1>2, <1>5
<1> HIDE DEF f, P, T
<1>7. Range(f) = Range(s) \cap K
  <2>1. ASSUME NEW x \in Range(f) PROVE x \in Range(s) /\ x \in K
    BY <1>0, <1>6 DEF Range
  <2>2. ASSUME NEW x \in Range(s), x \in K PROVE x \in Range(f)
    <3>1. PICK k \in 1 .. n : s[k] = x
      BY <1>0 DEF Range
    <3>2. PICK j \in DOMAIN f : f[j] = s[k]
      BY <1>6, <2>2, <3>1
    <3> QED BY <3>1, <3>2 DEF Range
  <2> QED BY <2>1, <2>2
<1> QED BY <1>6, <1>7 DEF f

(* The order in which a loop takes the elements of a set.                  *)
LEMMA SetToSeqFacts ==
  ASSUME NEW S, IsFiniteSet(S)
  PROVE  /\ SetToSeq(S) \in Seq(S)
         /\ Range(SetToSeq(S)) = S
         /\ IsInjective(SetToSeq(S))
<1> DEFINE n == Cardinality(S)
           w == SetToSeq(S)
<1>1. n \in Nat /\ \E f : f \in Bijection(1 .. n, S)
  BY FS_CardinalityType DEF ExistsBijection
<1>2. \E f \in [1 .. n -> S] : IsInjective(f)
  BY <1>1 DEF Bijection, Injection, IsInjective
<1>3. w \in [1 .. n -> S] /\ IsInjective(w)
  BY <1>2 DEF SetToSeq
<1>4. IsFiniteSet(1 .. n) /\ Cardinality(1 .. n) = n
  BY <1>1, FS_Interval
<1> HIDE DEF w
<1>5. w \in Injection(1 .. n, S)
  BY <1>3 DEF Injection, IsInjective
<1>6. w \in Surjection(1 .. n, S)
  BY <1>4, <1>5, FS_Injection
<1>7. Range(w) = S
  BY <1>3, <1>6 DEF Surjection, Range
<1> QED BY <1>1, <1>3, <1>7, SeqDef DEF w

Enumerable(n) ==
  \A S \in SUBSET Nat : IsFiniteSet(S) /\ Cardinality(S) = n =>
    \E f \in [1 .. n -> S] : \A i, j \in 1 .. n : i < j => f[i] < f[j]

(* The targets in ascending order.                                         *)
LEMMA AscendingFacts ==
  ASSUME NEW S \in SUBSET Nat, IsFiniteSet(S)
  PROVE  /\ Ascending(S) \in Seq(S)
         /\ Range(Ascending(S)) = S
         /\ IsInjective(Ascending(S))
<1> DEFINE n == Cardinality(S)
           T == {k \in 0 .. n : Enumerable(k)}
<1>1. n \in Nat
  BY FS_CardinalityType
<1> HIDE DEF n
<1>2. 0 \in T
  <2>1. Enumerable(0)
    <3> SUFFICES ASSUME NEW X \in SUBSET Nat
                 PROVE  \E f \in [1 .. 0 -> X] : \A i, j \in 1 .. 0 : i < j => f[i] < f[j]
      BY DEF Enumerable
    <3>1. 1 .. 0 = {}
      OBVIOUS
    <3>2. [i \in 1 .. 0 |-> 0] \in [1 .. 0 -> X]
      BY <3>1
    <3> QED BY <3>1, <3>2
  <2> QED BY <1>1, <2>1
<1>3. ASSUME NEW k \in 1 .. n, k - 1 \in T PROVE k \in T
  <2>0. k \in Nat \ {0} /\ k - 1 \in Nat /\ k \in 0 .. n /\ Enumerable(k - 1)
    BY <1>1, <1>3
  <2>1. ASSUME NEW X \in SUBSET Nat, IsFiniteSet(X), Cardinality(X) = k
        PROVE  \E f \in [1 .. k -> X] : \A i, j \in 1 .. k : i < j => f[i] < f[j]
    <3>1. X # {}
      BY <2>0, <2>1, FS_EmptySet
    <3>2. PICK m \in X : \A y \in X : m <= y
      <4> DEFINE R == OpToRel(<, Nat)
      <4>1. IsWellFoundedOn(R, Nat)
        BY NatLessThanWellFounded
      <4>2. \A x, y \in Nat : <<y, x>> \notin R => x <= y
        BY DEF OpToRel
      <4> HIDE DEF R
      <4>3. \E x \in X : \A y \in X : ~(<<y, x>> \in R)
        BY <3>1, <4>1, WFMin
      <4> QED BY <4>2, <4>3
    <3>3. IsFiniteSet(X \ {m}) /\ Cardinality(X \ {m}) = k - 1
      BY <2>1, FS_RemoveElement
    <3>4. PICK g \in [1 .. k - 1 -> X \ {m}] :
                 \A i, j \in 1 .. k - 1 : i < j => g[i] < g[j]
      <4>1. X \ {m} \in SUBSET Nat
        OBVIOUS
      <4> QED BY <2>0, <3>3, <4>1 DEF Enumerable
    <3> DEFINE f == [i \in 1 .. k |-> IF i = 1 THEN m ELSE g[i - 1]]
    <3>5. \A i \in 1 .. k : i = 1 \/ i - 1 \in 1 .. k - 1
      BY <2>0
    <3>6. \A i \in 1 .. k - 1 : g[i] \in X /\ g[i] \in Nat /\ m < g[i]
      <4> TAKE i \in 1 .. k - 1
      <4>1. g[i] \in X /\ g[i] # m
        BY <3>4
      <4>2. g[i] \in Nat /\ m \in Nat /\ m <= g[i]
        BY <3>2, <4>1
      <4> QED BY <4>1, <4>2
    <3>7. f \in [1 .. k -> X]
      BY <3>5, <3>6
    <3>8. ASSUME NEW i \in 1 .. k, NEW j \in 1 .. k, i < j PROVE f[i] < f[j]
      <4>1. j - 1 \in 1 .. k - 1 /\ j # 1
        BY <2>0, <3>8
      <4>2. CASE i = 1
        BY <3>6, <4>1, <4>2
      <4>3. CASE i # 1
        <5>1. i - 1 \in 1 .. k - 1 /\ i - 1 < j - 1
          BY <2>0, <3>8, <4>3
        <5> QED BY <3>4, <4>1, <4>3, <5>1
      <4> QED BY <4>2, <4>3
    <3> HIDE DEF f
    <3> QED BY <3>7, <3>8
  <2> QED BY <2>0, <2>1 DEF Enumerable
<1>4. Enumerable(n)
  <2> HIDE DEF T
  <2>1. n \in T
    BY <1>1, <1>2, <1>3, AtTheEnd
  <2> QED BY <2>1 DEF T
<1> DEFINE w == Ascending(S)
<1>5. w \in [1 .. n -> S] /\ \A i, j \in 1 .. n : i < j => w[i] < w[j]
  <2>1. \E f \in [1 .. n -> S] : \A i, j \in 1 .. n : i < j => f[i] < f[j]
    BY <1>4 DEF Enumerable, n
  <2> QED BY <2>1 DEF Ascending, n
<1> HIDE DEF w
<1>6. IsInjective(w)
  <2> SUFFICES ASSUME NEW i \in 1 .. n, NEW j \in 1 .. n, w[i] = w[j], i # j PROVE FALSE
    BY <1>5 DEF IsInjective
  <2>0. i < j \/ j < i
    BY <1>1
  <2>1. w[i] \in Nat /\ w[j] \in Nat
    BY <1>5
  <2> QED BY <1>5, <2>0, <2>1
<1>7. w \in Injection(1 .. n, S)
  BY <1>5, <1>6 DEF Injection, IsInjective
<1>8. w \in Surjection(1 .. n, S)
  BY <1>1, <1>7, FS_Interval, FS_Injection DEF n
<1>9. Range(w) = S
  BY <1>5, <1>8 DEF Surjection, Range
<1> QED BY <1>1, <1>5, <1>6, <1>9, SeqDef DEF w

(* A sequence with one more element.                                       *)
LEMMA AppendFacts ==
  ASSUME NEW q, IsSequence(q), NEW e
  PROVE  /\ IsSequence(Append(q, e))
         /\ Len(q) \in Nat /\ DOMAIN q = 1 .. Len(q)
         /\ Len(Append(q, e)) = Len(q) + 1
         /\ DOMAIN Append(q, e) = 1 .. Len(q) + 1
         /\ \A i \in 1 .. Len(q) : Append(q, e)[i] = q[i]
         /\ Append(q, e)[Len(q) + 1] = e
<1>1. PICK R : q \in Seq(R)
  BY DEF IsSequence
<1> DEFINE S == R \cup {e}
<1>2. q \in Seq(S) /\ e \in S
  BY <1>1
<1> HIDE DEF S
<1> QED BY <1>2, LenProperties, AppendProperties DEF IsSequence

(* A sequence without its first element.                                   *)
LEMMA TailFacts ==
  ASSUME NEW q, IsSequence(q), q # << >>
  PROVE  /\ IsSequence(Tail(q)) /\ Head(q) = q[1]
         /\ Len(q) \in Nat \ {0} /\ DOMAIN q = 1 .. Len(q)
         /\ Len(Tail(q)) = Len(q) - 1 /\ DOMAIN Tail(q) = 1 .. Len(q) - 1
         /\ \A i \in 1 .. Len(q) - 1 : Tail(q)[i] = q[i + 1]
<1>1. PICK R : q \in Seq(R)
  BY DEF IsSequence
<1>2. Tail(q) \in Seq(R) /\ Len(q) \in Nat \ {0} /\ Len(Tail(q)) = Len(q) - 1
  BY <1>1, LenProperties, HeadTailProperties, EmptySeq
<1>3. \A i \in 1 .. Len(q) - 1 : Tail(q)[i] = q[i + 1]
  BY <1>1, <1>2, HeadTailProperties
<1>4. Head(q) = q[1]
  BY <1>1
<1> QED BY <1>1, <1>2, <1>3, <1>4, LenProperties DEF IsSequence

(* A sequence after another.                                               *)
LEMMA ConcatFacts ==
  ASSUME NEW q, IsSequence(q), NEW s, IsSequence(s)
  PROVE  /\ IsSequence(q \o s)
         /\ Len(q) \in Nat /\ Len(s) \in Nat
         /\ DOMAIN q = 1 .. Len(q) /\ DOMAIN s = 1 .. Len(s)
         /\ Len(q \o s) = Len(q) + Len(s)
         /\ DOMAIN (q \o s) = 1 .. Len(q) + Len(s)
         /\ \A i \in 1 .. Len(q) : (q \o s)[i] = q[i]
         /\ \A i \in 1 .. Len(s) : (q \o s)[Len(q) + i] = s[i]
<1>1. PICK R : q \in Seq(R)
  BY DEF IsSequence
<1>2. PICK U : s \in Seq(U)
  BY DEF IsSequence
<1> DEFINE S == R \cup U
<1>3. q \in Seq(S) /\ s \in Seq(S)
  BY <1>1, <1>2
<1> HIDE DEF S
<1>4. /\ q \o s \in Seq(S) /\ Len(q \o s) = Len(q) + Len(s)
      /\ Len(q) \in Nat /\ Len(s) \in Nat
      /\ DOMAIN q = 1 .. Len(q) /\ DOMAIN s = 1 .. Len(s)
      /\ DOMAIN (q \o s) = 1 .. Len(q \o s)
  BY <1>3, LenProperties, ConcatProperties
<1>5. \A i \in 1 .. Len(q) : (q \o s)[i] = q[i]
  BY <1>3, <1>4, ConcatProperties
<1>6. \A i \in 1 .. Len(s) : (q \o s)[Len(q) + i] = s[i]
  <2> TAKE i \in 1 .. Len(s)
  <2>1. Len(q) + i \in 1 .. Len(q) + Len(s) /\ ~(Len(q) + i <= Len(q)) /\ (Len(q) + i) - Len(q) = i
    BY <1>4
  <2> QED BY <1>3, <2>1, ConcatProperties
<1> QED BY <1>4, <1>5, <1>6 DEF IsSequence

(* Two steps that turn up often.                                           *)
LEMMA EmptyFunction ==
  /\ IsSequence(<< >>) /\ DOMAIN << >> = {} /\ IsFunction(<< >>)
  /\ \A f : IsFunction(f) /\ DOMAIN f = {} => f = << >>
<1>1. IsSequence(<< >>)
  <2>1. << >> \in Seq({})
    OBVIOUS
  <2> QED BY <2>1 DEF IsSequence
<1>2. DOMAIN << >> = {}
  OBVIOUS
<1>3. \A f : IsFunction(f) /\ DOMAIN f = {} => f = << >>
  BY DEF IsFunction
<1> QED BY <1>1, <1>2, <1>3 DEF IsFunction

(* With and Without.                                                       *)
LEMMA WithFacts ==
  ASSUME NEW f, NEW x, NEW v
  PROVE  /\ IsFunction(With(f, x, v)) /\ DOMAIN With(f, x, v) = DOMAIN f \cup {x}
         /\ With(f, x, v)[x] = v
         /\ \A y \in DOMAIN f : y # x => With(f, x, v)[y] = f[y]
BY DEF With, IsFunction

(* A function without one of its arguments.                                *)
LEMMA WithoutFacts ==
  ASSUME NEW f, NEW x
  PROVE  /\ IsFunction(Without(f, x)) /\ DOMAIN Without(f, x) = DOMAIN f \ {x}
         /\ \A y \in DOMAIN f : y # x => Without(f, x)[y] = f[y]
BY DEF Without, IsFunction

-----------------------------------------------------------------------------
(* RemoteStore and the online state.                                       *)

(* A client whose RemoteStore is in order but for the online state.        *)
Basic(c, G) ==
  DOMAIN c = ClientFields /\ RemoteCore(c.remote, G) /\ EngineShape(c.engine)

(* Only the RemoteStore has changed.                                       *)
Kept(c, d) == DOMAIN d = ClientFields /\ d.engine = c.engine /\ d.store = c.store

(* The parts of the RemoteStore that have nothing to do with the online    *)
(* state.                                                                  *)
SameCore(r, s) ==
  /\ IsFunction(s) /\ DOMAIN s = RemoteFields
  /\ s.listens = r.listens /\ s.agg = r.agg /\ s.stream = r.stream
  /\ s.idle = r.idle /\ s.reqs = r.reqs /\ s.nextId = r.nextId
  /\ s.online \in {"Unknown", "Online", "Offline"} /\ s.timer \in BOOLEAN
  /\ s.failures \in 0 .. MaxWatchStreamFailures
  /\ s.orphan = r.orphan /\ s.strays = r.strays

(* What concerns the online state only does not touch the rest.            *)
LEMMA CoreSame ==
  ASSUME NEW r, NEW G, RemoteCore(r, G), NEW s, SameCore(r, s)
  PROVE  RemoteCore(s, G)
<1>1. RemoteShape(s) /\ IdleSound(s) /\ ServerShape(s, G) /\ Allocated(s) = Allocated(r)
  BY DEF RemoteCore, SameCore, RemoteShape, IdleSound, ServerShape, Allocated
<1>2. ASSUME NEW t, Conversation(r, G, t) PROVE Conversation(s, G, t)
  BY <1>2 DEF SameCore, Conversation, Counted, Alternates, EndsAccepted, PendingOf, AskedOf
<1> QED BY <1>1, <1>2 DEF RemoteCore, SameCore

(* A state other than Offline does not concern the views.                  *)
LEMMA ViewsUnconcerned ==
  ASSUME NEW c, DOMAIN c = ClientFields, EngineShape(c.engine), NEW o, o # "Offline"
  PROVE  LET d == ApplyOnlineState(c, o)
         IN  Kept(c, d) /\ d.remote = c.remote
<1> DEFINE e == c.engine
           d == ApplyOnlineState(c, o)
           views == [q \in DOMAIN e.views |-> V!ApplyOnlineStateChange(e.views[q], o)]
<1>1. IsFunction(e) /\ DOMAIN e = EngineFields /\ IsFunction(e.views)
  BY DEF EngineShape
<1>2. views = e.views
  <2>1. \A v : V!ApplyOnlineStateChange(v, o) = v
    BY DEF V!ApplyOnlineStateChange
  <2> QED BY <1>1, <2>1 DEF IsFunction
<1>3. d.engine = [e EXCEPT !.views = views] /\ d.remote = c.remote /\ d.store = c.store
      /\ DOMAIN d = ClientFields
  BY DEF ApplyOnlineState, ClientFields
<1> HIDE DEF d, views
<1>4. [e EXCEPT !.views = views] = e
  BY <1>1, <1>2 DEF IsFunction, EngineFields
<1> QED BY <1>3, <1>4 DEF Kept, d

(* setAndBroadcast of such a state changes one field.                      *)
LEMMA SetAndBroadcastFields ==
  ASSUME NEW c, DOMAIN c = ClientFields, EngineShape(c.engine),
         IsFunction(c.remote), DOMAIN c.remote = RemoteFields,
         NEW o, o # "Offline"
  PROVE  LET d == SetAndBroadcast(c, o)
         IN  Kept(c, d) /\ d.remote = [c.remote EXCEPT !.online = o]
<1> DEFINE r == c.remote
           m == [c EXCEPT !.remote.online = o]
           d == SetAndBroadcast(c, o)
<1>1. CASE r.online = o
  <2>1. [r EXCEPT !.online = o] = r
    BY <1>1 DEF IsFunction, RemoteFields
  <2>2. d = c
    BY <1>1 DEF SetAndBroadcast
  <2> QED BY <2>1, <2>2 DEF Kept
<1>2. CASE r.online # o
  <2>1. d = ApplyOnlineState(m, o)
    BY <1>2 DEF SetAndBroadcast
  <2>2. /\ DOMAIN m = ClientFields /\ m.engine = c.engine /\ m.store = c.store
        /\ m.remote = [r EXCEPT !.online = o]
    BY DEF ClientFields
  <2> HIDE DEF m, d
  <2> QED BY <2>1, <2>2, ViewsUnconcerned DEF Kept, d
<1> QED BY <1>1, <1>2

(* set() of the tracker.                                                   *)
OnlineSet(r, o) == [r EXCEPT !.timer = FALSE, !.failures = 0, !.online = o]

(* set() of such a state also stops the timer and the count.               *)
LEMMA SetOnlineFields ==
  ASSUME NEW c, DOMAIN c = ClientFields, EngineShape(c.engine),
         IsFunction(c.remote), DOMAIN c.remote = RemoteFields,
         NEW o, o # "Offline"
  PROVE  LET d == SetOnline(c, o)
         IN  Kept(c, d) /\ d.remote = OnlineSet(c.remote, o)
<1> DEFINE m == [c EXCEPT !.remote.timer = FALSE, !.remote.failures = 0]
           n == [c.remote EXCEPT !.timer = FALSE, !.failures = 0]
           d == SetOnline(c, o)
<1>1. d = SetAndBroadcast(m, o)
  BY DEF SetOnline
<1>2. /\ DOMAIN m = ClientFields /\ m.engine = c.engine /\ m.store = c.store
      /\ m.remote = n
  BY DEF ClientFields, RemoteFields
<1>3. IsFunction(n) /\ DOMAIN n = RemoteFields
  BY DEF IsFunction, RemoteFields
<1>4. [n EXCEPT !.online = o] = OnlineSet(c.remote, o)
  BY DEF OnlineSet
<1> HIDE DEF m, n, d
<1> QED BY <1>1, <1>2, <1>3, <1>4, SetAndBroadcastFields DEF Kept, d

(* It leaves the RemoteStore in order, whatever the state was.             *)
LEMMA OnlineSetKeeps ==
  ASSUME NEW r, NEW G, RemoteCore(r, G), NEW o \in {"Unknown", "Online", "Offline"},
         o = "Online" => r.stream = "Open", r.causes # {} => r.stream = "Stopped"
  PROVE  /\ RemoteInv(OnlineSet(r, o), G) /\ SameCore(r, OnlineSet(r, o))
         /\ OnlineSet(r, o).online = o /\ OnlineSet(r, o).causes = r.causes
<1> DEFINE s == OnlineSet(r, o)
<1>1. SameCore(r, s) /\ s.timer = FALSE /\ s.failures = 0 /\ s.online = o
      /\ s.causes = r.causes
  <2>1. IsFunction(r) /\ DOMAIN r = RemoteFields
    BY DEF RemoteCore, RemoteShape
  <2>2. IsFunction(s) /\ DOMAIN s = RemoteFields
    BY <2>1 DEF OnlineSet, IsFunction
  <2>3. /\ s.listens = r.listens /\ s.agg = r.agg /\ s.stream = r.stream
        /\ s.idle = r.idle /\ s.reqs = r.reqs /\ s.nextId = r.nextId
        /\ s.timer = FALSE /\ s.failures = 0 /\ s.online = o /\ s.causes = r.causes
        /\ s.orphan = r.orphan /\ s.strays = r.strays
    BY <2>1 DEF OnlineSet, RemoteFields
  <2>4. 0 \in 0 .. MaxWatchStreamFailures
    BY DEF MaxWatchStreamFailures
  <2> HIDE DEF s
  <2> QED BY <2>2, <2>3, <2>4 DEF SameCore
<1> HIDE DEF s
<1>2. RemoteCore(s, G)
  BY <1>1, CoreSame
<1>3. OnlineSound(s)
  BY <1>1 DEF OnlineSound, SameCore
<1> QED BY <1>1, <1>2, <1>3 DEF RemoteInv, s

(* set("Unknown") and set("Online"), at once.                              *)
LEMMA SetOnlineKeeps ==
  ASSUME NEW c, NEW G, Basic(c, G), NEW o \in {"Unknown", "Online"},
         o = "Online" => c.remote.stream = "Open",
         c.remote.causes # {} => c.remote.stream = "Stopped"
  PROVE  LET d == SetOnline(c, o)
         IN  /\ Kept(c, d) /\ RemoteInv(d.remote, G)
             /\ SameCore(c.remote, d.remote) /\ d.remote.online = o
             /\ d.remote.causes = c.remote.causes
<1> DEFINE r == c.remote
           d == SetOnline(c, o)
<1>1. /\ DOMAIN c = ClientFields /\ EngineShape(c.engine) /\ RemoteCore(r, G)
      /\ IsFunction(r) /\ DOMAIN r = RemoteFields
  BY DEF Basic, RemoteCore, RemoteShape
<1>2. Kept(c, d) /\ d.remote = OnlineSet(r, o)
  BY <1>1, SetOnlineFields
<1> HIDE DEF r, d
<1>3. /\ RemoteInv(OnlineSet(r, o), G) /\ SameCore(r, OnlineSet(r, o))
      /\ OnlineSet(r, o).online = o /\ OnlineSet(r, o).causes = r.causes
  BY <1>1, OnlineSetKeeps DEF r
<1> QED BY <1>2, <1>3 DEF d, r

OfflineViews(views) ==
  [q \in DOMAIN views |-> V!ApplyOnlineStateChange(views[q], "Offline")]

GoneOffline(e, f) ==
  /\ IsFunction(f) /\ DOMAIN f = EngineFields
  /\ f.views = OfflineViews(e.views)
  /\ f.active = e.active /\ f.enqueued = e.enqueued /\ f.refs = e.refs

(* Going offline changes the views too; the rest as above.                 *)
LEMMA SetOfflineKeeps ==
  ASSUME NEW c, NEW G, Basic(c, G), c.remote.causes # {} => c.remote.stream = "Stopped"
  PROVE  LET d == SetOnline(c, "Offline")
         IN  /\ DOMAIN d = ClientFields /\ d.store = c.store
             /\ RemoteInv(d.remote, G)
             /\ SameCore(c.remote, d.remote) /\ d.remote.online = "Offline"
             /\ \/ GoneOffline(c.engine, d.engine)
                \/ d.engine = c.engine /\ c.remote.online = "Offline"
<1> DEFINE m == [c EXCEPT !.remote.timer = FALSE, !.remote.failures = 0]
           n == [c.remote EXCEPT !.timer = FALSE, !.failures = 0]
           d == SetOnline(c, "Offline")
<1>0. DOMAIN c = ClientFields /\ IsFunction(c.remote) /\ DOMAIN c.remote = RemoteFields
  BY DEF Basic, RemoteCore, RemoteShape
<1>1. /\ DOMAIN m = ClientFields /\ m.engine = c.engine /\ m.store = c.store
      /\ m.remote = n
  BY <1>0 DEF ClientFields, RemoteFields
<1>2. [n EXCEPT !.online = "Offline"] = OnlineSet(c.remote, "Offline")
  BY DEF OnlineSet
<1>3. /\ RemoteInv(OnlineSet(c.remote, "Offline"), G)
      /\ SameCore(c.remote, OnlineSet(c.remote, "Offline"))
      /\ OnlineSet(c.remote, "Offline").online = "Offline"
  BY OnlineSetKeeps DEF Basic
<1>4. n.online = c.remote.online /\ IsFunction(n) /\ DOMAIN n = RemoteFields
  BY <1>0 DEF RemoteFields, IsFunction
<1>5. d = IF m.remote.online = "Offline" THEN m
          ELSE ApplyOnlineState([m EXCEPT !.remote.online = "Offline"], "Offline")
  BY DEF SetOnline, SetAndBroadcast
<1> HIDE DEF m, n
<1>6. CASE m.remote.online = "Offline"
  <2>1. [n EXCEPT !.online = "Offline"] = n
    BY <1>1, <1>4, <1>6 DEF RemoteFields, IsFunction
  <2>2. d = m
    BY <1>5, <1>6
  <2> HIDE DEF d
  <2> QED BY <1>1, <1>2, <1>3, <1>4, <1>6, <2>1, <2>2 DEF d
<1>7. CASE m.remote.online # "Offline"
  <2> DEFINE k == [m EXCEPT !.remote.online = "Offline"]
  <2>1. /\ DOMAIN k = ClientFields /\ k.engine = c.engine /\ k.store = c.store
        /\ k.remote = OnlineSet(c.remote, "Offline")
    BY <1>1, <1>2 DEF ClientFields
  <2>2. d = ApplyOnlineState(k, "Offline")
    BY <1>5, <1>7
  <2> HIDE DEF k, d
  <2>3. /\ DOMAIN d = ClientFields /\ d.store = k.store /\ d.remote = k.remote
        /\ GoneOffline(c.engine, d.engine)
    <3> DEFINE views == OfflineViews(k.engine.views)
               e == [k.engine EXCEPT !.views = views]
    <3>1. d = [k EXCEPT !.engine.views = views]
      BY <2>2 DEF ApplyOnlineState, OfflineViews
    <3>2. DOMAIN k.engine = EngineFields
      BY <2>1 DEF Basic, EngineShape
    <3>3. GoneOffline(k.engine, e)
      <4>1. IsFunction(e) /\ DOMAIN e = EngineFields /\ e.views = views
            /\ e.active = k.engine.active /\ e.enqueued = k.engine.enqueued
            /\ e.refs = k.engine.refs
        <5> HIDE DEF views
        <5> QED BY <3>2 DEF EngineFields, IsFunction
      <4> QED BY <4>1 DEF GoneOffline
    <3> HIDE DEF views
    <3>4. /\ DOMAIN d = ClientFields /\ d.store = k.store /\ d.remote = k.remote
          /\ d.engine = e
      BY <2>1, <3>1 DEF ClientFields
    <3> QED BY <2>1, <3>4, <3>3
  <2>4. d.remote = OnlineSet(c.remote, "Offline") /\ d.store = c.store
    BY <2>1, <2>3
  <2>5. d.remote.online = "Offline" /\ SameCore(c.remote, d.remote) /\ RemoteInv(d.remote, G)
    BY <1>3, <2>4
  <2>6. DOMAIN d = ClientFields /\ GoneOffline(c.engine, d.engine)
    BY <2>3
  <2> QED BY <2>4, <2>5, <2>6 DEF d
<1> QED BY <1>6, <1>7

(* No step of RemoteStore goes offline by itself.                          *)
Quiet(r, s) == s.online = "Offline" => r.online = "Offline"

(* Closing the stream leaves nothing that depends on it.                   *)
LEMMA StreamClosedKeeps ==
  ASSUME NEW c, NEW G, Basic(c, G)
  PROVE  LET d == StreamClosed(c)
         IN  /\ Kept(c, d) /\ Basic(d, G)
             /\ d.remote.stream = "Stopped" /\ d.remote.online = c.remote.online
             /\ d.remote.timer = c.remote.timer /\ d.remote.failures = c.remote.failures
             /\ d.remote.listens = c.remote.listens /\ d.remote.nextId = c.remote.nextId
             /\ d.remote.causes = c.remote.causes
<1> DEFINE r == c.remote
           stopped == r.stream = "Stopped"
           s == [r EXCEPT !.stream = "Stopped", !.agg = NoUpdate, !.reqs = << >>,
                          !.idle = stopped /\ @, !.orphan = stopped /\ @]
           d == StreamClosed(c)
<1>1. Kept(c, d) /\ d.remote = s
  BY DEF StreamClosed, Kept, Basic, ClientFields
<1>2. /\ IsFunction(s) /\ DOMAIN s = RemoteFields
      /\ s.stream = "Stopped" /\ s.idle = FALSE /\ s.reqs = << >>
      /\ s.listens = r.listens /\ s.nextId = r.nextId
      /\ s.online = r.online /\ s.timer = r.timer /\ s.failures = r.failures
      /\ s.orphan = FALSE /\ s.strays = r.strays /\ s.causes = r.causes
  <2>1. IsFunction(r) /\ DOMAIN r = RemoteFields
    BY DEF Basic, RemoteCore, RemoteShape
  <2>2. (stopped /\ r.idle) = FALSE
    BY DEF Basic, RemoteCore, IdleSound
  <2>3. (stopped /\ r.orphan) = FALSE
    BY DEF Basic, RemoteCore, RemoteShape
  <2> HIDE DEF stopped
  <2>4. s = [r EXCEPT !.stream = "Stopped", !.agg = NoUpdate, !.reqs = << >>,
                      !.idle = FALSE, !.orphan = FALSE]
    BY <2>1, <2>2, <2>3
  <2> HIDE DEF s
  <2> QED BY <2>1, <2>4 DEF RemoteFields, IsFunction
<1> HIDE DEF s
<1>3. RemoteShape(s)
  BY <1>2, EmptyFunction DEF Basic, RemoteCore, RemoteShape, Allocated
<1>4. IdleSound(s) /\ ServerShape(s, G)
  BY <1>2 DEF Basic, RemoteCore, IdleSound, ServerShape, Allocated
<1>5. RemoteCore(s, G)
  BY <1>2, <1>3, <1>4 DEF RemoteCore
<1> HIDE DEF d
<1> QED BY <1>1, <1>2, <1>5 DEF Basic, Kept, d

(* startWatchStream: a fresh aggregator, and the timer, if no start has    *)
(* failed.                                                                 *)
LEMMA StartWatchStreamKeeps ==
  ASSUME NEW c, NEW G, Basic(c, G), OnlineSound(c.remote), ShouldStartWatchStream(c)
  PROVE  LET d == StartWatchStream(c)
         IN  /\ Kept(c, d) /\ RemoteInv(d.remote, G) /\ Quiet(c.remote, d.remote)
             /\ d.remote.stream = "Starting"
             /\ d.remote.listens = c.remote.listens /\ d.remote.nextId = c.remote.nextId
<1> DEFINE r == c.remote
           m == [c EXCEPT !.remote.agg = W!FreshAggregator, !.remote.stream = "Starting"]
           s == [r EXCEPT !.agg = W!FreshAggregator, !.stream = "Starting"]
           d == StartWatchStream(c)
<1>1. Kept(c, m) /\ m.remote = s
  BY DEF Kept, Basic, ClientFields
<1>2. /\ IsFunction(s) /\ DOMAIN s = RemoteFields
      /\ s.stream = "Starting" /\ s.idle = r.idle /\ s.reqs = r.reqs
      /\ s.listens = r.listens /\ s.nextId = r.nextId
      /\ s.online = r.online /\ s.timer = r.timer /\ s.failures = r.failures
      /\ s.orphan = r.orphan /\ s.strays = r.strays
      /\ s.causes = r.causes /\ s.agg = W!FreshAggregator
  BY DEF Basic, RemoteCore, RemoteShape, RemoteFields, IsFunction
<1>3. r.idle = FALSE /\ r.reqs = << >> /\ r.timer = FALSE /\ r.online # "Online"
      /\ r.causes = {}
  BY DEF Basic, RemoteCore, RemoteShape, IdleSound, OnlineSound, ShouldStartWatchStream,
         CanUseNetwork
<1>4. AggregatorShape(W!FreshAggregator) /\ DOMAIN W!FreshAggregator.states = {}
  BY EmptyFunction DEF AggregatorShape, W!FreshAggregator, AggregatorFields
<1> HIDE DEF s, m
<1>5. RemoteCore(s, G)
  <2>1. RemoteShape(s)
    BY <1>2, <1>3, <1>4, EmptyFunction DEF Basic, RemoteCore, RemoteShape, Allocated
  <2>2. IdleSound(s) /\ ServerShape(s, G)
    BY <1>2, <1>3 DEF Basic, RemoteCore, IdleSound, ServerShape, Allocated
  <2> QED BY <1>2, <2>1, <2>2 DEF RemoteCore
<1>6. OnlineSound(s)
  BY <1>2, <1>3 DEF OnlineSound
<1>7. d = IF s.failures # 0 THEN m
          ELSE [SetAndBroadcast(m, "Unknown") EXCEPT
                  !.remote.timer = TRUE,
                  !.remote.strays = IF s.timer THEN @ + 1 ELSE @]
  <2>1. d = HandleWatchStreamStart(m)
    BY DEF StartWatchStream, m
  <2> HIDE DEF d
  <2> QED BY <1>1, <2>1 DEF HandleWatchStreamStart
<1>8. CASE s.failures # 0
  <2>1. d = m
    BY <1>7, <1>8
  <2> HIDE DEF d
  <2> QED BY <1>1, <1>2, <1>5, <1>6, <2>1 DEF RemoteInv, Quiet, d
<1>9. CASE s.failures = 0
  <2> DEFINE n == SetAndBroadcast(m, "Unknown")
  <2>1. Kept(m, n) /\ n.remote = [s EXCEPT !.online = "Unknown"]
    BY <1>1, <1>2, SetAndBroadcastFields DEF Kept, Basic
  <2> DEFINE a == [s EXCEPT !.online = "Unknown"]
             u == [a EXCEPT !.timer = TRUE, !.strays = IF s.timer THEN @ + 1 ELSE @]
  <2>2. d = [n EXCEPT !.remote.timer = TRUE,
                      !.remote.strays = IF s.timer THEN @ + 1 ELSE @]
    BY <1>7, <1>9
  <2> HIDE DEF n, d
  <2>3. Kept(c, d) /\ d.remote = u
    <3> HIDE DEF a
    <3>1. DOMAIN n = ClientFields /\ n.remote = a /\ DOMAIN a = RemoteFields
      BY <1>2, <2>1 DEF Kept, a
    <3> QED BY <1>1, <2>1, <2>2, <3>1 DEF Kept, ClientFields, RemoteFields
  <2>4. SameCore(s, u) /\ u.online = "Unknown" /\ u.timer = TRUE /\ u.causes = s.causes
    <3>1. /\ IsFunction(u) /\ DOMAIN u = RemoteFields
          /\ u.listens = s.listens /\ u.agg = s.agg /\ u.stream = s.stream
          /\ u.idle = s.idle /\ u.reqs = s.reqs /\ u.nextId = s.nextId
          /\ u.online = "Unknown" /\ u.timer = TRUE /\ u.failures = s.failures
          /\ u.orphan = s.orphan /\ u.strays = s.strays /\ u.causes = s.causes
      BY <1>2, <1>3 DEF RemoteFields, IsFunction
    <3>2. s.failures \in 0 .. MaxWatchStreamFailures
      BY <1>5 DEF RemoteCore, RemoteShape
    <3> HIDE DEF u
    <3> QED BY <3>1, <3>2 DEF SameCore
  <2> HIDE DEF u
  <2>5. RemoteCore(u, G) /\ OnlineSound(u)
    BY <1>2, <1>3, <1>5, <2>4, CoreSame DEF OnlineSound, SameCore
  <2>6. d.remote = u
    BY <2>3 DEF u
  <2>7. /\ u.stream = "Starting" /\ u.listens = r.listens /\ u.nextId = r.nextId
        /\ Quiet(r, u)
    BY <1>2, <2>4 DEF SameCore, Quiet
  <2> QED BY <2>3, <2>5, <2>6, <2>7 DEF RemoteInv, d
<1> QED BY <1>8, <1>9

-----------------------------------------------------------------------------
(* Requests.                                                               *)

(* What one request does to the RemoteStore.                               *)
Asking(r, t, request) ==
  [r EXCEPT !.agg = W!RecordPendingTargetRequest(@, t),
            !.reqs = Append(@, request), !.idle = FALSE]

IsRequestFor(request, t, op) == request.t = t /\ request.op = op

(* A request is counted, sent, and stops the idle timer; nothing else.     *)
LEMMA RequestFields ==
  ASSUME NEW c, DOMAIN c = ClientFields, DOMAIN c.remote = RemoteFields,
         NEW t, NEW from
  PROVE  /\ Kept(c, SendUnwatchRequest(c, t))
         /\ \E m : /\ IsRequestFor(m, t, "remove")
                   /\ SendUnwatchRequest(c, t).remote = Asking(c.remote, t, m)
         /\ Kept(c, SendWatchRequest(c, t, from))
         /\ \E m : /\ IsRequestFor(m, t, "add")
                   /\ SendWatchRequest(c, t, from).remote = Asking(c.remote, t, m)
<1> DEFINE r == c.remote
<1>0. DOMAIN c = ClientFields /\ DOMAIN r = RemoteFields
  OBVIOUS
<1>1. ASSUME NEW m
      PROVE  /\ Kept(c, SendRequest(RecordPending(c, t), m))
             /\ SendRequest(RecordPending(c, t), m).remote = Asking(r, t, m)
  <2> DEFINE a == W!RecordPendingTargetRequest(r.agg, t)
             b == [c EXCEPT !.remote.agg = a]
             d == SendRequest(b, m)
  <2>1. RecordPending(c, t) = b
    BY DEF RecordPending
  <2> HIDE DEF a
  <2>2. Kept(c, b) /\ b.remote = [r EXCEPT !.agg = a]
    BY <1>0 DEF Kept, ClientFields
  <2>3. Kept(b, d) /\ d.remote = [b.remote EXCEPT !.reqs = Append(@, m), !.idle = FALSE]
    <3> HIDE DEF b
    <3> QED BY <1>0, <2>2 DEF Kept, ClientFields, SendRequest
  <2> HIDE DEF b, d
  <2>4. d.remote = [r EXCEPT !.agg = a, !.reqs = Append(@, m), !.idle = FALSE]
    BY <1>0, <2>2, <2>3 DEF RemoteFields
  <2>5. Kept(c, d)
    BY <2>2, <2>3 DEF Kept
  <2> QED BY <2>1, <2>4, <2>5 DEF Asking, a, d
<1> DEFINE down == [op |-> "remove", t |-> t]
           up == [op |-> "add", t |-> t, what |-> r.listens[t].sdk, from |-> from,
                  expected |-> Cardinality(RemoteKeysForTarget(c, r.listens[t].sdk))]
<1>2. IsRequestFor(down, t, "remove") /\ IsRequestFor(up, t, "add")
  BY DEF IsRequestFor
<1>3. SendUnwatchRequest(c, t) = SendRequest(RecordPending(c, t), down)
  BY DEF SendUnwatchRequest
<1>4. SendWatchRequest(c, t, from) = SendRequest(RecordPending(c, t), up)
  BY DEF SendWatchRequest
<1> HIDE DEF down, up
<1> QED BY <1>1, <1>2, <1>3, <1>4

(* s has one more request than r: the last one, m, about t.                *)
AskedOnce(r, s, t, m) ==
  LET n == Len(r.reqs) + 1
  IN  /\ n \in Nat /\ \A u : IsFiniteSet(AskedOf(r, u)) /\ AskedOf(r, u) \subseteq 1 .. n - 1
      /\ \A i \in 1 .. n - 1 : s.reqs[i] = r.reqs[i]
      /\ s.reqs[n] = m
      /\ \A u : u # t => AskedOf(s, u) = AskedOf(r, u)
      /\ AskedOf(s, t) = AskedOf(r, t) \cup {n}
      /\ Cardinality(AskedOf(s, t)) = Cardinality(AskedOf(r, t)) + 1

(* The requests of a target, counted.                                      *)
LEMMA AskedAfter ==
  ASSUME NEW r, NEW s, IsSequence(r.reqs), NEW m, NEW t, m.t = t,
         s.reqs = Append(r.reqs, m)
  PROVE  AskedOnce(r, s, t, m)
<1> DEFINE n == Len(r.reqs) + 1
<1>1. /\ n \in Nat /\ n - 1 \in Nat /\ DOMAIN r.reqs = 1 .. n - 1 /\ DOMAIN s.reqs = 1 .. n
      /\ \A i \in 1 .. n - 1 : s.reqs[i] = r.reqs[i]
      /\ s.reqs[n] = m
  BY AppendFacts
<1> HIDE DEF n
<1>2. \A u : IsFiniteSet(AskedOf(r, u)) /\ AskedOf(r, u) \subseteq 1 .. n - 1
  <2> TAKE u
  <2>1. AskedOf(r, u) \in SUBSET (1 .. n - 1)
    BY <1>1 DEF AskedOf
  <2>2. IsFiniteSet(1 .. n - 1)
    BY <1>1, FS_Interval
  <2> QED BY <2>1, <2>2, FS_Subset
<1>3. 1 .. n = (1 .. n - 1) \cup {n} /\ n \notin 1 .. n - 1
  BY <1>1
<1>4. \A u : u # t => AskedOf(s, u) = AskedOf(r, u)
  BY <1>1, <1>3 DEF AskedOf
<1>5. AskedOf(s, t) = AskedOf(r, t) \cup {n}
  BY <1>1, <1>3 DEF AskedOf
<1>6. Cardinality(AskedOf(s, t)) = Cardinality(AskedOf(r, t)) + 1
  BY <1>2, <1>3, <1>5, FS_AddElement
<1> QED BY <1>1, <1>2, <1>4, <1>5, <1>6 DEF n, AskedOnce

(* The count of a target after another request.                            *)
LEMMA RecordPendingFacts ==
  ASSUME NEW a, AggregatorShape(a), NEW t
  PROVE  LET b == W!RecordPendingTargetRequest(a, t)
         IN  /\ AggregatorShape(b)
             /\ DOMAIN b.states = DOMAIN a.states \cup {t}
             /\ b.states[t].pending =
                  (IF t \in DOMAIN a.states THEN a.states[t].pending ELSE 0) + 1
             /\ \A u \in DOMAIN a.states : u # t => b.states[u] = a.states[u]
<1> DEFINE ts == IF t \in DOMAIN a.states THEN a.states[t] ELSE W!FreshTargetState
           us == [ts EXCEPT !.pending = @ + 1]
           b == W!RecordPendingTargetRequest(a, t)
<1>1. DOMAIN ts = TargetStateFields /\ ts.pending \in Int /\ ts.current \in BOOLEAN
      /\ ts.pending = IF t \in DOMAIN a.states THEN a.states[t].pending ELSE 0
  <2>1. /\ DOMAIN W!FreshTargetState = TargetStateFields
        /\ W!FreshTargetState.pending = 0 /\ W!FreshTargetState.current \in BOOLEAN
    BY DEF W!FreshTargetState, TargetStateFields
  <2>2. CASE t \in DOMAIN a.states
    <3>1. ts = a.states[t]
      BY <2>2
    <3> HIDE DEF ts
    <3> QED BY <2>2, <3>1 DEF AggregatorShape
  <2>3. CASE t \notin DOMAIN a.states
    <3>1. ts = W!FreshTargetState
      BY <2>3
    <3> HIDE DEF ts
    <3> QED BY <2>1, <2>3, <3>1
  <2> QED BY <2>2, <2>3
<1>2. b = W!WithState(a, t, us)
  BY DEF W!RecordPendingTargetRequest
<1> HIDE DEF ts
<1>3. DOMAIN us = TargetStateFields /\ us.pending = ts.pending + 1
      /\ us.current = ts.current
  BY <1>1 DEF TargetStateFields
<1> HIDE DEF us, b
<1>4. DOMAIN b = AggregatorFields
      /\ b.states = [u \in DOMAIN a.states \cup {t} |-> IF u = t THEN us ELSE a.states[u]]
  BY <1>2 DEF W!WithState, AggregatorShape, AggregatorFields
<1>5. /\ DOMAIN b.states = DOMAIN a.states \cup {t} /\ b.states[t] = us
      /\ \A u \in DOMAIN a.states : u # t => b.states[u] = a.states[u]
  BY <1>4
<1>6. AggregatorShape(b)
  BY <1>1, <1>3, <1>4, <1>5 DEF AggregatorShape
<1> QED BY <1>1, <1>3, <1>5, <1>6 DEF b

(* s is r after a request m about the target t.                            *)
HasAsked(r, s, t, m) ==
  /\ RemoteShape(s) /\ s.stream = "Open" /\ s.idle = FALSE
  /\ s.listens = r.listens /\ s.nextId = r.nextId
  /\ s.online = r.online /\ s.timer = r.timer /\ s.failures = r.failures
  /\ s.orphan = r.orphan /\ s.strays = r.strays /\ s.causes = r.causes
  /\ s.reqs = Append(r.reqs, m)
  /\ DOMAIN s.agg.states = DOMAIN r.agg.states \cup {t}
  /\ PendingOf(r, t) \in Int /\ PendingOf(s, t) = PendingOf(r, t) + 1
  /\ \A u : u # t => PendingOf(s, u) = PendingOf(r, u)

(* A request adds one to what its target waits for.                        *)
LEMMA AskingFacts ==
  ASSUME NEW r, RemoteShape(r), r.stream = "Open", NEW t \in Allocated(r),
         NEW m, m.t = t
  PROVE  HasAsked(r, Asking(r, t, m), t, m)
<1> DEFINE b == W!RecordPendingTargetRequest(r.agg, t)
           s == Asking(r, t, m)
<1>1. IsFunction(r) /\ DOMAIN r = RemoteFields /\ AggregatorShape(r.agg) /\ IsSequence(r.reqs)
  BY DEF RemoteShape
<1>2. /\ AggregatorShape(b)
      /\ DOMAIN b.states = DOMAIN r.agg.states \cup {t}
      /\ b.states[t].pending =
           (IF t \in DOMAIN r.agg.states THEN r.agg.states[t].pending ELSE 0) + 1
      /\ \A u \in DOMAIN r.agg.states : u # t => b.states[u] = r.agg.states[u]
  BY <1>1, RecordPendingFacts
<1> HIDE DEF b
<1>3. /\ IsFunction(s) /\ DOMAIN s = RemoteFields
      /\ s.agg = b /\ s.reqs = Append(r.reqs, m) /\ s.idle = FALSE
      /\ s.stream = r.stream /\ s.listens = r.listens /\ s.nextId = r.nextId
      /\ s.online = r.online /\ s.timer = r.timer /\ s.failures = r.failures
      /\ s.orphan = r.orphan /\ s.strays = r.strays /\ s.causes = r.causes
  BY <1>1 DEF Asking, RemoteFields, IsFunction, b
<1> HIDE DEF s
<1>4. /\ IsSequence(s.reqs) /\ Len(r.reqs) \in Nat /\ DOMAIN r.reqs = 1 .. Len(r.reqs)
      /\ DOMAIN s.reqs = 1 .. Len(r.reqs) + 1
      /\ \A i \in 1 .. Len(r.reqs) : s.reqs[i] = r.reqs[i]
      /\ s.reqs[Len(r.reqs) + 1] = m
  BY <1>1, <1>3, AppendFacts
<1>5. Allocated(s) = Allocated(r)
  BY <1>3 DEF Allocated
<1>6. \A i \in DOMAIN s.reqs : s.reqs[i].t \in Allocated(s)
  <2> TAKE i \in DOMAIN s.reqs
  <2>1. i \in DOMAIN r.reqs \/ i = Len(r.reqs) + 1
    BY <1>4
  <2> QED BY <1>4, <1>5, <2>1 DEF RemoteShape
<1>7. RemoteShape(s)
  <2>1. /\ r.nextId \in Nat \ {0} /\ IsFunction(r.listens)
        /\ DOMAIN r.listens \subseteq Allocated(r)
        /\ \A u \in DOMAIN r.listens : DOMAIN r.listens[u] = {"sdk", "token", "ver"}
        /\ \A u, v \in DOMAIN r.listens :
             r.listens[u].sdk = r.listens[v].sdk => u = v
        /\ r.online \in {"Unknown", "Online", "Offline"} /\ r.timer \in BOOLEAN
        /\ r.failures \in 0 .. MaxWatchStreamFailures /\ r.orphan = FALSE /\ r.strays = 0
        /\ DOMAIN r.agg.states \subseteq Allocated(r)
    BY DEF RemoteShape
  <2>2. s.stream = "Open" /\ DOMAIN s.agg.states \subseteq Allocated(s) /\ AggregatorShape(s.agg)
    BY <1>2, <1>3, <1>5, <2>1
  <2> QED BY <1>3, <1>4, <1>5, <1>6, <2>1, <2>2 DEF RemoteShape
<1>8. /\ PendingOf(r, t) \in Int /\ PendingOf(s, t) = PendingOf(r, t) + 1
      /\ \A u : u # t => PendingOf(s, u) = PendingOf(r, u)
  BY <1>1, <1>2, <1>3 DEF PendingOf, AggregatorShape
<1>9. s.stream = "Open"
  BY <1>3
<1> QED BY <1>2, <1>3, <1>7, <1>8, <1>9 DEF s, HasAsked

Talk(r, G, t) == Counted(r, G, t) /\ Alternates(r, G, t)

(* Requests of other targets do not matter.                                *)
LEMMA AskingOthers ==
  ASSUME NEW r, RemoteShape(r), r.stream = "Open", NEW t \in Allocated(r),
         NEW m, m.t = t, NEW G, NEW u, u # t
  PROVE  LET s == Asking(r, t, m)
         IN  /\ Talk(r, G, u) => Talk(s, G, u)
             /\ EndsAccepted(r, G, u) => EndsAccepted(s, G, u)
             /\ AskedOf(s, u) = AskedOf(r, u)
             /\ Conversation(r, G, u) => Conversation(s, G, u)
<1> DEFINE s == Asking(r, t, m)
<1>1. /\ s.reqs = Append(r.reqs, m) /\ PendingOf(s, u) = PendingOf(r, u)
      /\ DOMAIN s.agg.states = DOMAIN r.agg.states \cup {t} /\ s.listens = r.listens
  <2>1. HasAsked(r, s, t, m)
    BY AskingFacts, Zenon
  <2> QED BY <2>1 DEF HasAsked
<1> HIDE DEF s
<1>2. IsSequence(r.reqs)
  BY DEF RemoteShape
<1>3. AskedOf(s, u) = AskedOf(r, u) /\ \A i \in AskedOf(r, u) : s.reqs[i] = r.reqs[i]
  <2>1. AskedOnce(r, s, t, m)
    BY <1>1, <1>2, AskedAfter
  <2> QED BY <2>1 DEF AskedOnce
<1>4. Counted(r, G, u) => Counted(s, G, u)
  BY <1>1, <1>3 DEF Counted
<1>5. Alternates(r, G, u) => Alternates(s, G, u)
  BY <1>3 DEF Alternates
<1>6. EndsAccepted(r, G, u) => EndsAccepted(s, G, u)
  BY <1>3 DEF EndsAccepted
<1>7. Conversation(r, G, u) => Conversation(s, G, u)
  BY <1>1, <1>4, <1>5, <1>6 DEF Conversation
<1> QED BY <1>3, <1>4, <1>5, <1>6, <1>7 DEF Talk, s

(* The count of the target stays right.                                    *)
LEMMA CountedAfter ==
  ASSUME NEW r, RemoteShape(r), r.stream = "Open", NEW t \in Allocated(r),
         NEW m, m.t = t, NEW G, IsSequence(G.resps), Counted(r, G, t)
  PROVE  Counted(Asking(r, t, m), G, t)
<1> DEFINE s == Asking(r, t, m)
           R == ResponsesTo(G.resps, {"ADD", "REMOVE"}, t)
<1>1. s.reqs = Append(r.reqs, m) /\ PendingOf(s, t) = PendingOf(r, t) + 1
  <2>1. HasAsked(r, s, t, m)
    BY AskingFacts, Zenon
  <2> HIDE DEF s
  <2> QED BY <2>1 DEF HasAsked
<1> HIDE DEF s
<1>2. IsSequence(r.reqs)
  BY DEF RemoteShape
<1>3. /\ IsFiniteSet(AskedOf(r, t))
      /\ Cardinality(AskedOf(s, t)) = Cardinality(AskedOf(r, t)) + 1
  <2>1. AskedOnce(r, s, t, m)
    BY <1>2, <1>1, AskedAfter
  <2> QED BY <2>1 DEF AskedOnce
<1>4. Cardinality(AskedOf(r, t)) \in Nat
  BY <1>3, FS_CardinalityType
<1>5. Cardinality(R) \in Nat
  <2>1. DOMAIN G.resps = 1 .. Len(G.resps) /\ Len(G.resps) \in Nat
    BY AppendFacts
  <2>2. R \in SUBSET (1 .. Len(G.resps))
    BY <2>1 DEF ResponsesTo
  <2>3. IsFiniteSet(R)
    <3>1. IsFiniteSet(1 .. Len(G.resps))
      BY <2>1, FS_Interval
    <3> QED BY <2>2, <3>1, FS_Subset
  <2> QED BY <2>3, FS_CardinalityType
<1> HIDE DEF R
<1>6. PendingOf(r, t) = Cardinality(AskedOf(r, t)) + Cardinality(R)
  BY DEF Counted, R
<1>7. PendingOf(s, t) = Cardinality(AskedOf(s, t)) + Cardinality(R)
  BY <1>1, <1>3, <1>4, <1>5, <1>6
<1> QED BY <1>7 DEF Counted, R, s

(* A request to watch a target.                                            *)
LEMMA AskAdd ==
  ASSUME NEW r, RemoteShape(r), r.stream = "Open", NEW t \in Allocated(r),
         NEW m, IsRequestFor(m, t, "add"), NEW G, IsSequence(G.resps), Talk(r, G, t)
  PROVE  Talk(Asking(r, t, m), G, t) /\ EndsAccepted(Asking(r, t, m), G, t)
<1> DEFINE s == Asking(r, t, m)
           n == Len(r.reqs) + 1
<1>0. m.t = t /\ m.op = "add"
  BY DEF IsRequestFor
<1>1. s.reqs = Append(r.reqs, m)
  <2>1. HasAsked(r, s, t, m)
    BY <1>0, AskingFacts, Zenon
  <2> HIDE DEF s
  <2> QED BY <2>1 DEF HasAsked
<1>2. Counted(s, G, t)
  BY <1>0, CountedAfter DEF Talk
<1> HIDE DEF s
<1>3. /\ n \in Nat /\ AskedOf(r, t) \subseteq 1 .. n - 1
      /\ \A i \in 1 .. n - 1 : s.reqs[i] = r.reqs[i]
      /\ s.reqs[n] = m
      /\ AskedOf(s, t) = AskedOf(r, t) \cup {n}
  <2>1. IsSequence(r.reqs)
    BY DEF RemoteShape
  <2>2. AskedOnce(r, s, t, m)
    BY <1>0, <1>1, <2>1, AskedAfter
  <2> QED BY <2>2 DEF AskedOnce, n
<1> HIDE DEF n
<1>4. \A i \in 1 .. n - 1 : i < n /\ i \in Nat
  BY <1>3
<1>5. Alternates(s, G, t)
  <2> SUFFICES ASSUME NEW i \in AskedOf(s, t), s.reqs[i].op = "remove"
               PROVE  \/ \E j \in AskedOf(s, t) :
                           /\ j < i /\ s.reqs[j].op = "add"
                           /\ \A k \in AskedOf(s, t) : k <= j \/ k >= i
                      \/ t \in DOMAIN G.accepted /\ \A k \in AskedOf(s, t) : k >= i
    BY DEF Alternates
  <2>1. i \in AskedOf(r, t) /\ i \in 1 .. n - 1 /\ r.reqs[i].op = "remove"
    BY <1>0, <1>3
  <2>2. n >= i
    BY <1>3, <2>1
  <2>3. CASE t \in DOMAIN G.accepted /\ \A k \in AskedOf(r, t) : k >= i
    BY <1>3, <2>2, <2>3
  <2>4. CASE \E j \in AskedOf(r, t) :
               /\ j < i /\ r.reqs[j].op = "add"
               /\ \A k \in AskedOf(r, t) : k <= j \/ k >= i
    BY <1>3, <2>2, <2>4
  <2> QED BY <2>1, <2>3, <2>4 DEF Talk, Alternates
<1>6. EndsAccepted(s, G, t)
  <2>1. n \in AskedOf(s, t) /\ s.reqs[n].op = "add"
    BY <1>0, <1>3
  <2>2. \A k \in AskedOf(s, t) : k <= n
    BY <1>3, <1>4
  <2> QED BY <2>1, <2>2 DEF EndsAccepted
<1> QED BY <1>2, <1>5, <1>6 DEF Talk, s

(* A request not to watch it any more.                                     *)
LEMMA AskRemove ==
  ASSUME NEW r, RemoteShape(r), r.stream = "Open", NEW t \in Allocated(r),
         NEW m, IsRequestFor(m, t, "remove"), NEW G, IsSequence(G.resps),
         Talk(r, G, t), EndsAccepted(r, G, t)
  PROVE  Talk(Asking(r, t, m), G, t)
<1> DEFINE s == Asking(r, t, m)
           n == Len(r.reqs) + 1
<1>0. m.t = t /\ m.op = "remove"
  BY DEF IsRequestFor
<1>1. s.reqs = Append(r.reqs, m)
  <2>1. HasAsked(r, s, t, m)
    BY <1>0, AskingFacts, Zenon
  <2> HIDE DEF s
  <2> QED BY <2>1 DEF HasAsked
<1>2. Counted(s, G, t)
  BY <1>0, CountedAfter DEF Talk
<1> HIDE DEF s
<1>3. /\ n \in Nat /\ AskedOf(r, t) \subseteq 1 .. n - 1
      /\ \A i \in 1 .. n - 1 : s.reqs[i] = r.reqs[i]
      /\ s.reqs[n] = m
      /\ AskedOf(s, t) = AskedOf(r, t) \cup {n}
  <2>1. IsSequence(r.reqs)
    BY DEF RemoteShape
  <2>2. AskedOnce(r, s, t, m)
    BY <1>0, <1>1, <2>1, AskedAfter
  <2> QED BY <2>2 DEF AskedOnce, n
<1> HIDE DEF n
<1>4. \A i \in 1 .. n - 1 : i < n /\ i \in Nat
  BY <1>3
<1>5. Alternates(s, G, t)
  <2> SUFFICES ASSUME NEW i \in AskedOf(s, t), s.reqs[i].op = "remove"
               PROVE  \/ \E j \in AskedOf(s, t) :
                           /\ j < i /\ s.reqs[j].op = "add"
                           /\ \A k \in AskedOf(s, t) : k <= j \/ k >= i
                      \/ t \in DOMAIN G.accepted /\ \A k \in AskedOf(s, t) : k >= i
    BY DEF Alternates
  <2>1. CASE i = n
    <3>1. CASE \E j \in AskedOf(r, t) :
                 r.reqs[j].op = "add" /\ \A k \in AskedOf(r, t) : k <= j
      <4>1. PICK j \in AskedOf(r, t) :
                   r.reqs[j].op = "add" /\ \A k \in AskedOf(r, t) : k <= j
        BY <3>1
      <4>2. j \in 1 .. n - 1 /\ j < n /\ s.reqs[j].op = "add"
        BY <1>3, <1>4, <4>1
      <4>3. \A k \in AskedOf(s, t) : k <= j \/ k >= n
        BY <1>3, <4>1
      <4> QED BY <1>3, <2>1, <4>2, <4>3
    <3>2. CASE t \in DOMAIN G.accepted /\ AskedOf(r, t) = {}
      <4>1. AskedOf(s, t) = {n}
        BY <1>3, <3>2
      <4> QED BY <1>3, <2>1, <3>2, <4>1
    <3> QED BY <3>1, <3>2 DEF EndsAccepted
  <2>2. CASE i # n
    <3>1. i \in AskedOf(r, t) /\ i \in 1 .. n - 1 /\ r.reqs[i].op = "remove"
      BY <1>3, <2>2
    <3>2. n >= i
      BY <1>3, <3>1
    <3>3. CASE t \in DOMAIN G.accepted /\ \A k \in AskedOf(r, t) : k >= i
      BY <1>3, <3>2, <3>3
    <3>4. CASE \E j \in AskedOf(r, t) :
                 /\ j < i /\ r.reqs[j].op = "add"
                 /\ \A k \in AskedOf(r, t) : k <= j \/ k >= i
      BY <1>3, <3>2, <3>4
    <3> QED BY <3>1, <3>3, <3>4 DEF Talk, Alternates
  <2> QED BY <2>1, <2>2
<1> QED BY <1>2, <1>5 DEF Talk, s

-----------------------------------------------------------------------------
(* Targets that come and go.                                               *)

(* From r to s only targets of X were dropped, and no number was reused.   *)
Evolves(r, s, X) ==
  /\ r.nextId \in Nat /\ s.nextId \in Nat /\ r.nextId <= s.nextId
  /\ \A t \in DOMAIN s.listens : t \in Allocated(r) =>
       t \in DOMAIN r.listens /\ s.listens[t].sdk = r.listens[t].sdk
  /\ \A t \in DOMAIN r.listens : r.listens[t].sdk \notin X =>
       t \in DOMAIN s.listens /\ s.listens[t].sdk = r.listens[t].sdk

(* What RemoteStore does on its own, from a client c to d.                 *)
RemoteMoves(c, d, G, X) ==
  /\ Kept(c, d) /\ RemoteInv(d.remote, G) /\ Quiet(c.remote, d.remote)
  /\ Evolves(c.remote, d.remote, X)

(* Steps compose.                                                          *)
LEMMA EvolvesOn ==
  ASSUME NEW r, NEW s, NEW u, NEW X, NEW Y, Evolves(r, s, X), Evolves(s, u, Y)
  PROVE  Evolves(r, u, X \cup Y)
<1>1. r.nextId <= u.nextId /\ r.nextId \in Nat /\ u.nextId \in Nat
  BY DEF Evolves
<1>2. ASSUME NEW t \in DOMAIN u.listens, t \in Allocated(r)
      PROVE  t \in DOMAIN r.listens /\ u.listens[t].sdk = r.listens[t].sdk
  <2>1. t \in Allocated(s)
    BY <1>2 DEF Allocated, Evolves
  <2> QED BY <1>2, <2>1 DEF Evolves
<1>3. ASSUME NEW t \in DOMAIN r.listens, r.listens[t].sdk \notin X \cup Y
      PROVE  t \in DOMAIN u.listens /\ u.listens[t].sdk = r.listens[t].sdk
  BY <1>3 DEF Evolves
<1> QED BY <1>1, <1>2, <1>3 DEF Evolves

(* The same targets.                                                       *)
LEMMA EvolvesSame ==
  ASSUME NEW r, NEW s, NEW X, r.nextId \in Nat,
         s.listens = r.listens, s.nextId = r.nextId
  PROVE  Evolves(r, s, X) /\ Watched(s) = Watched(r)
BY DEF Evolves, Watched

(* r with a new target, and nothing said about it.                         *)
Mapped(r, m, sdk) ==
  /\ IsFunction(m) /\ DOMAIN m = RemoteFields
  /\ m.agg = r.agg /\ m.stream = r.stream /\ m.idle = r.idle /\ m.reqs = r.reqs
  /\ m.online = r.online /\ m.timer = r.timer /\ m.failures = r.failures
  /\ m.orphan = r.orphan /\ m.strays = r.strays /\ m.causes = r.causes
  /\ m.nextId = r.nextId + 1
  /\ IsFunction(m.listens)
  /\ DOMAIN m.listens = DOMAIN r.listens \cup {r.nextId}
  /\ m.listens[r.nextId].sdk = sdk
  /\ DOMAIN m.listens[r.nextId] = {"sdk", "token", "ver"}
  /\ \A t \in DOMAIN r.listens : m.listens[t] = r.listens[t]

(* A new target gets a number that was never used.                         *)
LEMMA MappedFacts ==
  ASSUME NEW r, NEW m, NEW sdk, RemoteShape(r), sdk \notin Watched(r), Mapped(r, m, sdk)
  PROVE  /\ RemoteShape(m) /\ Watched(m) = Watched(r) \cup {sdk} /\ Evolves(r, m, {})
         /\ r.nextId \in Allocated(m) /\ Allocated(m) = Allocated(r) \cup {r.nextId}
         /\ r.nextId \notin Allocated(r)
<1>1. r.nextId \in Nat \ {0} /\ DOMAIN r.listens \subseteq Allocated(r)
  BY DEF RemoteShape
<1>2. Allocated(m) = Allocated(r) \cup {r.nextId} /\ r.nextId \notin Allocated(r)
  BY <1>1 DEF Mapped, Allocated
<1>3. Watched(m) = Watched(r) \cup {sdk}
  BY <1>1, <1>2 DEF Mapped, Watched
<1>4. Evolves(r, m, {})
  BY <1>1, <1>2 DEF Mapped, Evolves
<1>5. \A t, u \in DOMAIN m.listens : m.listens[t].sdk = m.listens[u].sdk => t = u
  BY DEF Mapped, RemoteShape, Watched
<1>6. \A t \in DOMAIN m.listens : DOMAIN m.listens[t] = {"sdk", "token", "ver"}
  BY DEF Mapped, RemoteShape
<1>7. \A i \in DOMAIN r.reqs : r.reqs[i].t \in Allocated(m)
  BY <1>2 DEF RemoteShape
<1>8. r.stream # "Stopped" =>
        AggregatorShape(r.agg) /\ DOMAIN r.agg.states \subseteq Allocated(m)
  BY <1>2 DEF RemoteShape
<1>9. RemoteShape(m)
  <2>1. /\ IsFunction(m) /\ DOMAIN m = RemoteFields
        /\ m.agg = r.agg /\ m.stream = r.stream /\ m.idle = r.idle /\ m.reqs = r.reqs
        /\ m.online = r.online /\ m.timer = r.timer /\ m.failures = r.failures
        /\ m.orphan = r.orphan /\ m.strays = r.strays /\ m.causes = r.causes
        /\ m.nextId \in Nat \ {0} /\ IsFunction(m.listens)
        /\ DOMAIN m.listens \subseteq Allocated(m)
    BY <1>1, <1>2 DEF Mapped
  <2> QED BY <1>5, <1>6, <1>7, <1>8, <2>1 DEF RemoteShape
<1> QED BY <1>1, <1>2, <1>3, <1>4, <1>9

(* Nobody ever spoke about the new target.                                 *)
LEMMA MappedConversations ==
  ASSUME NEW r, NEW m, NEW sdk, NEW G, RemoteCore(r, G), sdk \notin Watched(r),
         Mapped(r, m, sdk), r.stream = "Open"
  PROVE  /\ \A t \in Allocated(r) : Conversation(m, G, t)
         /\ Talk(m, G, r.nextId)
<1>1. /\ RemoteShape(r) /\ RemoteShape(m) /\ r.nextId \notin Allocated(r)
  BY MappedFacts DEF RemoteCore
<1>2. ASSUME NEW t \in Allocated(r) PROVE Conversation(m, G, t)
  <2>1. Conversation(r, G, t)
    BY DEF RemoteCore
  <2>2. t # r.nextId
    BY <1>1
  <2>3. t \in DOMAIN m.listens <=> t \in DOMAIN r.listens
    BY <2>2 DEF Mapped
  <2>4. m.agg = r.agg /\ m.reqs = r.reqs
    BY DEF Mapped
  <2> QED BY <2>1, <2>3, <2>4
       DEF Conversation, Counted, Alternates, EndsAccepted, PendingOf, AskedOf
<1>3. AskedOf(m, r.nextId) = {}
  BY <1>1 DEF Mapped, RemoteShape, AskedOf
<1>4. ResponsesTo(G.resps, {"ADD", "REMOVE"}, r.nextId) = {}
  BY <1>1 DEF RemoteCore, ServerShape, ResponsesTo
<1>5. PendingOf(m, r.nextId) = 0
  <2>1. r.nextId \notin DOMAIN r.agg.states /\ m.agg = r.agg
    BY <1>1 DEF Mapped, RemoteShape
  <2> QED BY <2>1 DEF PendingOf
<1>6. Counted(m, G, r.nextId)
  BY <1>3, <1>4, <1>5, FS_EmptySet DEF Counted
<1>7. Alternates(m, G, r.nextId)
  BY <1>3 DEF Alternates
<1> QED BY <1>2, <1>6, <1>7 DEF Talk

(* More numbers in use do not concern the backend.                         *)
LEMMA ServerShapeGrows ==
  ASSUME NEW r, NEW s, NEW G, ServerShape(r, G), Allocated(r) \subseteq Allocated(s)
  PROVE  ServerShape(s, G)
BY DEF ServerShape

(* RemoteStore.listen: one target more is watched.                         *)
LEMMA ListenKeeps ==
  ASSUME NEW c, NEW G, Basic(c, G), OnlineSound(c.remote), NEW sdk, NEW target
  PROVE  LET d == RemoteStoreListen(c, sdk, target)
         IN  /\ RemoteMoves(c, d, G, {})
             /\ Watched(d.remote) = Watched(c.remote) \cup {sdk}
<1> DEFINE r == c.remote
           t == r.nextId
           listens == With(r.listens, t, [sdk |-> sdk, token |-> target.token,
                                          ver |-> target.ver])
           n == [c EXCEPT !.remote.nextId = t + 1, !.remote.listens = listens]
           m == n.remote
           d == RemoteStoreListen(c, sdk, target)
<1>0. RemoteShape(r) /\ DOMAIN c = ClientFields /\ t \in Nat \ {0}
  BY DEF Basic, RemoteCore, RemoteShape
<1>1. d = IF IsListened(c, sdk) THEN c
          ELSE IF ShouldStartWatchStream(n) THEN StartWatchStream(n)
          ELSE IF m.stream = "Open" THEN SendWatchRequest(n, t, ResumeFrom(target))
          ELSE n
  BY DEF RemoteStoreListen
<1>2. IsListened(c, sdk) <=> sdk \in Watched(r)
  BY DEF IsListened, Watched
<1>3. CASE IsListened(c, sdk)
  <2>1. d = c
    BY <1>1, <1>3
  <2>2. Watched(r) = Watched(r) \cup {sdk}
    BY <1>2, <1>3
  <2>3. Evolves(r, r, {})
    BY <1>0, EvolvesSame
  <2> HIDE DEF d
  <2>4. RemoteMoves(c, d, G, {})
    BY <1>0, <2>1, <2>3 DEF RemoteMoves, Kept, RemoteInv, Basic, Quiet
  <2> QED BY <2>1, <2>2, <2>4 DEF d
<1>4. CASE ~IsListened(c, sdk)
  <2>1. sdk \notin Watched(r)
    BY <1>2, <1>4
  <2>2. Mapped(r, m, sdk)
    <3> DEFINE rec == [sdk |-> sdk, token |-> target.token, ver |-> target.ver]
    <3>1. /\ IsFunction(listens) /\ DOMAIN listens = DOMAIN r.listens \cup {t}
          /\ listens[t] = rec
          /\ \A u \in DOMAIN r.listens : u # t => listens[u] = r.listens[u]
      <4> HIDE DEF rec
      <4>1. listens = With(r.listens, t, rec)
        BY DEF rec
      <4> HIDE DEF listens
      <4> QED BY <4>1 DEF With, IsFunction
    <3>2. t \notin DOMAIN r.listens
      BY <1>0 DEF RemoteShape, Allocated
    <3>3. rec.sdk = sdk /\ DOMAIN rec = {"sdk", "token", "ver"}
      OBVIOUS
    <3> HIDE DEF listens, rec
    <3>4. IsFunction(r) /\ DOMAIN r = RemoteFields
      BY <1>0 DEF RemoteShape
    <3>5. /\ IsFunction(m) /\ DOMAIN m = RemoteFields
          /\ m.agg = r.agg /\ m.stream = r.stream /\ m.idle = r.idle /\ m.reqs = r.reqs
          /\ m.online = r.online /\ m.timer = r.timer /\ m.failures = r.failures
          /\ m.orphan = r.orphan /\ m.strays = r.strays /\ m.causes = r.causes
          /\ m.nextId = t + 1 /\ m.listens = listens
      BY <1>0, <3>4 DEF IsFunction, RemoteFields, ClientFields
    <3> HIDE DEF m
    <3> QED BY <3>1, <3>2, <3>3, <3>5 DEF Mapped
  <2>3. Kept(c, n)
    BY <1>0 DEF Kept, ClientFields
  <2> HIDE DEF n, d, listens
  <2>4. /\ RemoteShape(m) /\ Watched(m) = Watched(r) \cup {sdk} /\ Evolves(r, m, {})
        /\ t \in Allocated(m) /\ Allocated(m) = Allocated(r) \cup {t}
    BY <1>0, <2>1, <2>2, MappedFacts
  <2>5. ServerShape(m, G) /\ IsSequence(G.resps)
    BY <2>4, ServerShapeGrows DEF Basic, RemoteCore, ServerShape
  <2>6. OnlineSound(m) /\ m.stream = r.stream /\ m.online = r.online /\ m.idle = r.idle
    BY <2>2 DEF Mapped, OnlineSound
  <2>7. CASE m.stream # "Open"
    <3>1. IdleSound(m)
      BY <2>6, <2>7 DEF Basic, RemoteCore, IdleSound
    <3>2. RemoteCore(m, G)
      BY <2>4, <2>5, <2>7, <3>1 DEF RemoteCore
    <3>3. CASE ShouldStartWatchStream(n)
      <4>1. Basic(n, G) /\ m.stream = "Stopped"
        BY <2>3, <3>2, <3>3 DEF Basic, Kept, ShouldStartWatchStream
      <4>2. /\ Kept(n, d) /\ RemoteInv(d.remote, G) /\ Quiet(m, d.remote)
            /\ d.remote.listens = m.listens /\ d.remote.nextId = m.nextId
        BY <1>1, <1>4, <2>6, <3>3, <4>1, StartWatchStreamKeeps
      <4>3. Evolves(r, d.remote, {}) /\ Watched(d.remote) = Watched(m)
        BY <2>4, <4>2 DEF Evolves, Watched
      <4>4. Kept(c, d) /\ Quiet(r, d.remote)
        BY <2>3, <2>6, <4>2 DEF Kept, Quiet
      <4> QED BY <2>4, <4>2, <4>3, <4>4 DEF RemoteMoves, d
    <3>4. CASE ~ShouldStartWatchStream(n)
      <4>1. d = n
        BY <1>1, <1>4, <2>7, <3>4
      <4>2. RemoteInv(m, G) /\ Quiet(r, m)
        BY <2>6, <3>2 DEF RemoteInv, Quiet
      <4> QED BY <2>3, <2>4, <4>1, <4>2 DEF RemoteMoves, d
    <3> QED BY <3>3, <3>4
  <2>8. CASE m.stream = "Open"
    <3>1. d = SendWatchRequest(n, t, ResumeFrom(target))
      BY <1>1, <1>4, <2>8 DEF ShouldStartWatchStream
    <3>2. \A u \in Allocated(r) : Conversation(m, G, u)
      BY <2>1, <2>2, <2>6, <2>8, MappedConversations DEF Basic
    <3>3. Talk(m, G, t)
      BY <2>1, <2>2, <2>6, <2>8, MappedConversations DEF Basic
    <3>4. PICK q : IsRequestFor(q, t, "add") /\ Kept(n, d) /\ d.remote = Asking(m, t, q)
      BY <2>3, <2>4, <3>1, RequestFields DEF Kept, RemoteShape
    <3> DEFINE s == d.remote
    <3>5. HasAsked(m, s, t, q)
      BY <2>4, <2>8, <3>4, AskingFacts DEF IsRequestFor
    <3>6. Talk(s, G, t) /\ EndsAccepted(s, G, t)
      BY <2>4, <2>5, <2>8, <3>3, <3>4, AskAdd
    <3> HIDE DEF s, m
    <3>7. \A u \in Allocated(s) : Conversation(s, G, u)
      <4> TAKE u \in Allocated(s)
      <4>1. u \in Allocated(r) \/ u = t
        BY <2>4, <3>5 DEF HasAsked, Allocated
      <4>2. CASE u = t
        BY <3>6, <4>2 DEF Conversation, Talk
      <4>3. CASE u # t
        <5>1. Conversation(m, G, u)
          BY <3>2, <4>1, <4>3
        <5>2. s = Asking(m, t, q) /\ q.t = t
          BY <3>4 DEF s, IsRequestFor
        <5> QED BY <2>4, <2>8, <4>3, <5>1, <5>2, AskingOthers
      <4> QED BY <4>2, <4>3
    <3>8. /\ RemoteShape(s) /\ IdleSound(s) /\ ServerShape(s, G) /\ OnlineSound(s)
          /\ Evolves(r, s, {}) /\ Watched(s) = Watched(m) /\ Quiet(r, s)
      <4>1. RemoteShape(s) /\ IdleSound(s) /\ s.listens = m.listens /\ s.nextId = m.nextId
            /\ OnlineSound(s) /\ s.online = m.online
        BY <2>6, <2>8, <3>5 DEF HasAsked, IdleSound, OnlineSound
      <4>2. ServerShape(s, G)
        BY <2>5, <4>1 DEF ServerShape, Allocated
      <4>3. Evolves(r, s, {}) /\ Watched(s) = Watched(m) /\ Quiet(r, s)
        BY <2>4, <2>6, <4>1 DEF Evolves, Watched, Quiet
      <4> QED BY <4>1, <4>2, <4>3
    <3>9. RemoteInv(s, G)
      BY <3>7, <3>8 DEF RemoteInv, RemoteCore
    <3>10. Kept(c, d)
      BY <2>3, <3>4 DEF Kept
    <3> QED BY <2>4, <3>8, <3>9, <3>10 DEF RemoteMoves, d, s
  <2> QED BY <2>7, <2>8
<1> QED BY <1>3, <1>4

(* r without the target t.                                                 *)
Dropped(r, m, t) ==
  /\ IsFunction(m) /\ DOMAIN m = RemoteFields
  /\ m.agg = r.agg /\ m.stream = r.stream /\ m.idle = r.idle /\ m.reqs = r.reqs
  /\ m.online = r.online /\ m.timer = r.timer /\ m.failures = r.failures
  /\ m.orphan = r.orphan /\ m.strays = r.strays
  /\ m.causes = r.causes /\ m.nextId = r.nextId
  /\ IsFunction(m.listens)
  /\ DOMAIN m.listens = DOMAIN r.listens \ {t}
  /\ \A u \in DOMAIN m.listens : m.listens[u] = r.listens[u]

(* Dropping a target keeps all that is said of the others.                 *)
LEMMA DroppedFacts ==
  ASSUME NEW r, NEW m, NEW t \in DOMAIN r.listens, RemoteShape(r), Dropped(r, m, t)
  PROVE  /\ RemoteShape(m) /\ Watched(m) = Watched(r) \ {r.listens[t].sdk}
         /\ Evolves(r, m, {r.listens[t].sdk}) /\ Allocated(m) = Allocated(r)
         /\ t \in Allocated(r) /\ \A u : AskedOf(m, u) = AskedOf(r, u)
         /\ \A u : PendingOf(m, u) = PendingOf(r, u)
<1>1. /\ r.nextId \in Nat \ {0} /\ DOMAIN r.listens \subseteq Allocated(r)
      /\ \A u, v \in DOMAIN r.listens :
           r.listens[u].sdk = r.listens[v].sdk => u = v
      /\ \A u \in DOMAIN r.listens : DOMAIN r.listens[u] = {"sdk", "token", "ver"}
  BY DEF RemoteShape
<1>2. Allocated(m) = Allocated(r)
  BY DEF Dropped, Allocated
<1>3. Watched(m) = Watched(r) \ {r.listens[t].sdk}
  BY <1>1 DEF Dropped, Watched
<1>4. Evolves(r, m, {r.listens[t].sdk})
  BY <1>1, <1>2 DEF Dropped, Evolves
<1>5. /\ \A u, v \in DOMAIN m.listens :
           m.listens[u].sdk = m.listens[v].sdk => u = v
      /\ \A u \in DOMAIN m.listens : DOMAIN m.listens[u] = {"sdk", "token", "ver"}
      /\ DOMAIN m.listens \subseteq Allocated(m)
  BY <1>1, <1>2 DEF Dropped
<1>6. RemoteShape(m)
  <2>1. /\ IsFunction(m) /\ DOMAIN m = RemoteFields
        /\ m.agg = r.agg /\ m.stream = r.stream /\ m.idle = r.idle /\ m.reqs = r.reqs
        /\ m.online = r.online /\ m.timer = r.timer /\ m.failures = r.failures
        /\ m.orphan = r.orphan /\ m.strays = r.strays /\ m.causes = r.causes
        /\ m.nextId = r.nextId /\ IsFunction(m.listens)
    BY DEF Dropped
  <2>2. \A i \in DOMAIN r.reqs : r.reqs[i].t \in Allocated(m)
    BY <1>2 DEF RemoteShape
  <2>3. r.stream # "Stopped" =>
          AggregatorShape(r.agg) /\ DOMAIN r.agg.states \subseteq Allocated(m)
    BY <1>2 DEF RemoteShape
  <2> QED BY <1>5, <2>1, <2>2, <2>3 DEF RemoteShape
<1>7. m.reqs = r.reqs /\ m.agg = r.agg
  BY DEF Dropped
<1>8. /\ \A u : AskedOf(m, u) = AskedOf(r, u)
      /\ \A u : PendingOf(m, u) = PendingOf(r, u)
  BY <1>7 DEF AskedOf, PendingOf
<1> QED BY <1>1, <1>2, <1>3, <1>4, <1>6, <1>8

(* The conversations of the others, and what is owed to the dropped one.   *)
LEMMA DroppedConversations ==
  ASSUME NEW r, NEW m, NEW t \in DOMAIN r.listens, NEW G, RemoteCore(r, G),
         Dropped(r, m, t), r.stream = "Open"
  PROVE  /\ \A u \in Allocated(r) : u # t => Conversation(m, G, u)
         /\ ResponsesTo(G.resps, {"ERROR"}, t) = {} =>
              Talk(m, G, t) /\ EndsAccepted(m, G, t)
<1>1. m.agg = r.agg /\ m.reqs = r.reqs /\ DOMAIN m.listens = DOMAIN r.listens \ {t}
  BY DEF Dropped
<1>2. ASSUME NEW u \in Allocated(r), u # t PROVE Conversation(m, G, u)
  <2>1. Conversation(r, G, u)
    BY DEF RemoteCore
  <2>2. u \in DOMAIN m.listens <=> u \in DOMAIN r.listens
    BY <1>1, <1>2
  <2> QED BY <1>1, <2>1, <2>2
       DEF Conversation, Counted, Alternates, EndsAccepted, PendingOf, AskedOf
<1>3. ASSUME ResponsesTo(G.resps, {"ERROR"}, t) = {}
      PROVE  Talk(m, G, t) /\ EndsAccepted(m, G, t)
  <2>1. t \in Allocated(r)
    BY DEF RemoteCore, RemoteShape
  <2>2. Counted(r, G, t) /\ Alternates(r, G, t) /\ EndsAccepted(r, G, t)
    BY <1>3, <2>1 DEF RemoteCore, Conversation
  <2> QED BY <1>1, <2>2
       DEF Talk, Counted, Alternates, EndsAccepted, PendingOf, AskedOf
<1> QED BY <1>2, <1>3

(* Asking not to watch a target that was just dropped.                     *)
LEMMA DroppedAsked ==
  ASSUME NEW r, NEW m, NEW t \in DOMAIN r.listens, NEW G, RemoteCore(r, G),
         OnlineSound(r), Dropped(r, m, t), r.stream = "Open",
         NEW q, IsRequestFor(q, t, "remove")
  PROVE  LET s == Asking(m, t, q)
         IN  /\ RemoteInv(s, G) /\ HasAsked(m, s, t, q)
<1> DEFINE s == Asking(m, t, q)
<1>0. /\ RemoteShape(r) /\ RemoteShape(m) /\ Allocated(m) = Allocated(r) /\ t \in Allocated(r)
      /\ m.stream = "Open" /\ q.t = t
  BY DroppedFacts DEF RemoteCore, Dropped, IsRequestFor
<1>1. HasAsked(m, s, t, q)
  BY <1>0, AskingFacts
<1>2. ServerShape(m, G) /\ IsSequence(G.resps)
  BY <1>0, ServerShapeGrows DEF RemoteCore, ServerShape
<1>3. ASSUME NEW u \in Allocated(s) PROVE Conversation(s, G, u)
  <2>1. u \in Allocated(r)
    BY <1>0, <1>1 DEF HasAsked, Allocated
  <2>2. CASE u # t
    <3>1. Conversation(m, G, u)
      BY <2>1, <2>2, DroppedConversations
    <3> QED BY <1>0, <2>2, <3>1, AskingOthers
  <2>3. CASE u = t
    <3>1. SUFFICES ASSUME ResponsesTo(G.resps, {"ERROR"}, t) = {} PROVE Conversation(s, G, t)
      BY <2>3 DEF Conversation
    <3>2. Talk(m, G, t) /\ EndsAccepted(m, G, t)
      BY <3>1, DroppedConversations
    <3>3. Talk(s, G, t)
      BY <1>0, <1>2, <3>2, AskRemove
    <3> HIDE DEF s
    <3>4. t \notin DOMAIN s.listens
      BY <1>1 DEF HasAsked, Dropped
    <3> QED BY <3>3, <3>4 DEF Conversation, Talk
  <2> QED BY <2>2, <2>3
<1> HIDE DEF s
<1>4. RemoteShape(s) /\ IdleSound(s) /\ s.listens = m.listens /\ s.nextId = m.nextId
      /\ s.stream = "Open"
  BY <1>1 DEF HasAsked, IdleSound
<1>5. OnlineSound(s)
  BY <1>0, <1>1 DEF HasAsked, OnlineSound, Dropped
<1>6. ServerShape(s, G)
  BY <1>2, <1>4 DEF ServerShape, Allocated
<1> QED BY <1>1, <1>3, <1>4, <1>5, <1>6 DEF RemoteInv, RemoteCore, s

(* RemoteStore.unlisten: one target less is watched.                       *)
LEMMA UnlistenKeeps ==
  ASSUME NEW c, NEW G, Basic(c, G), OnlineSound(c.remote), NEW sdk \in Watched(c.remote)
  PROVE  LET d == RemoteStoreUnlisten(c, sdk)
         IN  /\ RemoteMoves(c, d, G, {sdk})
             /\ Watched(d.remote) = Watched(c.remote) \ {sdk}
<1> DEFINE r == c.remote
           t == RemoteTargetId(c, sdk)
           n == [c EXCEPT !.remote.listens = Without(@, t)]
           m == n.remote
           told == IF r.stream = "Open" THEN SendUnwatchRequest(n, t) ELSE n
           d == RemoteStoreUnlisten(c, sdk)
<1>0. RemoteCore(r, G) /\ RemoteShape(r) /\ DOMAIN c = ClientFields
  BY DEF Basic, RemoteCore
<1>1. t \in DOMAIN r.listens /\ r.listens[t].sdk = sdk
  BY DEF RemoteTargetId, Watched
<1>2. Dropped(r, m, t)
  <2>1. IsFunction(r) /\ DOMAIN r = RemoteFields
    BY <1>0 DEF RemoteShape
  <2> HIDE DEF t
  <2>2. m = [r EXCEPT !.listens = Without(@, t)]
    BY <1>0 DEF ClientFields
  <2> DEFINE l == Without(r.listens, t)
  <2>3. /\ IsFunction(l) /\ DOMAIN l = DOMAIN r.listens \ {t}
        /\ \A u \in DOMAIN l : l[u] = r.listens[u]
    BY DEF Without, IsFunction
  <2> HIDE DEF m, l
  <2>4. m = [r EXCEPT !.listens = l]
    BY <2>2 DEF l
  <2>5. /\ IsFunction(m) /\ DOMAIN m = RemoteFields
        /\ m.agg = r.agg /\ m.stream = r.stream /\ m.idle = r.idle /\ m.reqs = r.reqs
        /\ m.online = r.online /\ m.timer = r.timer /\ m.failures = r.failures
        /\ m.orphan = r.orphan /\ m.strays = r.strays
        /\ m.causes = r.causes /\ m.nextId = r.nextId /\ m.listens = l
    BY <2>1, <2>4 DEF IsFunction, RemoteFields
  <2> QED BY <2>3, <2>5 DEF Dropped
<1>3. Kept(c, n)
  BY <1>0 DEF Kept, ClientFields
<1>4. d = IF DOMAIN told.remote.listens # {} THEN told
          ELSE IF told.remote.stream = "Open" THEN [told EXCEPT !.remote.idle = TRUE]
          ELSE IF CanUseNetwork(told) THEN SetOnline(told, "Unknown")
          ELSE told
  BY DEF RemoteStoreUnlisten
<1> DEFINE s == told.remote
<1> HIDE DEF d, m, n, t
<1>5. /\ RemoteShape(m) /\ Watched(m) = Watched(r) \ {sdk} /\ Evolves(r, m, {sdk})
      /\ Allocated(m) = Allocated(r)
  BY <1>0, <1>1, <1>2, DroppedFacts
<1>6. m.stream = r.stream /\ m.idle = r.idle /\ m.online = r.online /\ OnlineSound(m)
  BY <1>2 DEF Dropped, OnlineSound
<1>7. /\ Kept(c, told) /\ RemoteInv(s, G) /\ Quiet(r, s) /\ Evolves(r, s, {sdk})
      /\ Watched(s) = Watched(r) \ {sdk}
  <2>1. CASE r.stream = "Open"
    <3>1. told = SendUnwatchRequest(n, t)
      BY <2>1
    <3>2. PICK q : IsRequestFor(q, t, "remove") /\ Kept(n, told) /\ s = Asking(m, t, q)
      <4>1. DOMAIN n = ClientFields /\ DOMAIN n.remote = RemoteFields
        BY <1>3, <1>5 DEF Kept, RemoteShape, m
      <4>2. PICK q : /\ IsRequestFor(q, t, "remove")
                     /\ SendUnwatchRequest(n, t).remote = Asking(n.remote, t, q)
        BY <4>1, RequestFields
      <4>3. Kept(n, SendUnwatchRequest(n, t))
        BY <4>1, RequestFields
      <4> HIDE DEF told
      <4> QED BY <3>1, <4>2, <4>3 DEF m
    <3> HIDE DEF told, s
    <3>3. RemoteInv(s, G) /\ HasAsked(m, s, t, q)
      BY <1>0, <1>1, <1>2, <2>1, <3>2, DroppedAsked
    <3>4. s.listens = m.listens /\ s.nextId = m.nextId /\ s.online = m.online
      BY <3>3 DEF HasAsked
    <3>5. Evolves(r, s, {sdk}) /\ Watched(s) = Watched(m) /\ Quiet(r, s)
      BY <1>5, <1>6, <3>4 DEF Evolves, Watched, Quiet
    <3> QED BY <1>3, <1>5, <3>2, <3>3, <3>5 DEF Kept
  <2>2. CASE r.stream # "Open"
    <3>1. told = n /\ s = m
      BY <2>2 DEF m
    <3>2. IdleSound(m)
      BY <1>0, <1>6, <2>2 DEF RemoteCore, IdleSound
    <3>3. ServerShape(m, G)
      BY <1>0, <1>5, ServerShapeGrows DEF RemoteCore
    <3>4. RemoteInv(m, G)
      BY <1>5, <1>6, <2>2, <3>2, <3>3 DEF RemoteInv, RemoteCore
    <3> QED BY <1>3, <1>5, <1>6, <3>1, <3>4 DEF Quiet
  <2> QED BY <2>1, <2>2
<1> HIDE DEF told
<1>8. CASE d = told
  BY <1>7, <1>8 DEF RemoteMoves, d, s
<1>9. CASE d = [told EXCEPT !.remote.idle = TRUE] /\ DOMAIN s.listens = {} /\ s.stream = "Open"
  <2> DEFINE u == [s EXCEPT !.idle = TRUE]
  <2>1. Kept(c, d) /\ d.remote = u
    BY <1>7, <1>9 DEF Kept, ClientFields
  <2>2. IsFunction(s) /\ DOMAIN s = RemoteFields /\ RemoteShape(s)
    BY <1>7 DEF RemoteInv, RemoteCore, RemoteShape
  <2> HIDE DEF s
  <2>3. /\ IsFunction(u) /\ DOMAIN u = RemoteFields /\ u.idle = TRUE
        /\ u.agg = s.agg /\ u.stream = s.stream /\ u.reqs = s.reqs
        /\ u.online = s.online /\ u.timer = s.timer /\ u.failures = s.failures
        /\ u.orphan = s.orphan /\ u.strays = s.strays /\ u.causes = s.causes
        /\ u.listens = s.listens /\ u.nextId = s.nextId
    BY <2>2 DEF IsFunction, RemoteFields
  <2> HIDE DEF u
  <2>4. RemoteShape(u) /\ Allocated(u) = Allocated(s)
    BY <2>2, <2>3 DEF RemoteShape, Allocated
  <2>5. IdleSound(u) /\ OnlineSound(u) /\ ServerShape(u, G)
    BY <1>7, <1>9, <2>3, <2>4 DEF IdleSound, OnlineSound, RemoteInv, RemoteCore, ServerShape
  <2>6. \A v \in Allocated(u) : Conversation(u, G, v)
    <3> TAKE v \in Allocated(u)
    <3>1. Conversation(s, G, v)
      BY <1>7, <1>9, <2>4 DEF RemoteInv, RemoteCore
    <3> QED BY <2>3, <3>1 DEF Conversation, Counted, Alternates, EndsAccepted, PendingOf, AskedOf
  <2>7. RemoteInv(u, G)
    BY <2>4, <2>5, <2>6 DEF RemoteInv, RemoteCore
  <2>8. Evolves(r, u, {sdk}) /\ Watched(u) = Watched(s) /\ Quiet(r, u)
    BY <1>7, <2>3 DEF Evolves, Watched, Quiet
  <2> QED BY <1>7, <2>1, <2>7, <2>8 DEF RemoteMoves, d
<1>10. CASE d = SetOnline(told, "Unknown")
  <2>1. Basic(told, G)
    BY <1>7 DEF Basic, Kept, RemoteInv, s
  <2>4. told.remote.causes # {} => told.remote.stream = "Stopped"
    BY <1>7 DEF RemoteInv, OnlineSound, s
  <2>2. /\ Kept(told, d) /\ RemoteInv(d.remote, G)
        /\ SameCore(s, d.remote) /\ d.remote.online = "Unknown"
    BY <1>10, <2>1, <2>4, SetOnlineKeeps
  <2>3. Evolves(r, d.remote, {sdk}) /\ Watched(d.remote) = Watched(s) /\ Quiet(r, d.remote)
    BY <1>7, <2>2 DEF SameCore, Evolves, Watched, Quiet
  <2> QED BY <1>7, <2>2, <2>3 DEF RemoteMoves, Kept, d
<1> QED BY <1>4, <1>8, <1>9, <1>10

-----------------------------------------------------------------------------
(* The client between two tasks.                                           *)

Settled(c, G) ==
  /\ ClientInv(c, G, {})
  /\ Watched(c.remote) = DOMAIN c.engine.active \cup DOMAIN c.engine.views
  /\ RefsMatch(c.engine)
  /\ Pumped(c.engine)

(* A step of the network that leaves the engine alone.                     *)
LEMMA NetworkKeeps ==
  ASSUME NEW c, NEW G, Settled(c, G), NEW d, Kept(c, d), RemoteInv(d.remote, G),
         Watched(d.remote) = Watched(c.remote), Quiet(c.remote, d.remote)
  PROVE  Settled(d, G)
<1>1. OfflineKnown(d)
  BY DEF Settled, ClientInv, Kept, Quiet, OfflineKnown
<1> QED BY <1>1 DEF Settled, ClientInv, Kept

(* One that takes the views offline.                                       *)
WentOffline(c, d) ==
  /\ DOMAIN d = ClientFields /\ d.store = c.store
  /\ \/ GoneOffline(c.engine, d.engine)
     \/ d.engine = c.engine /\ c.remote.online = "Offline"

(* Going offline leaves a view sound, with its doubts, and not current.    *)
LEMMA OfflineView ==
  ASSUME NEW v, ViewSound(v)
  PROVE  LET w == V!ApplyOnlineStateChange(v, "Offline")
         IN  ViewSound(w) /\ w.limbo = v.limbo /\ w.current = FALSE
<1> DEFINE w == V!ApplyOnlineStateChange(v, "Offline")
<1>1. DOMAIN v = ViewFields /\ v.current \in BOOLEAN
  BY DEF ViewSound
<1>2. CASE v.current
  <2> DEFINE u == [v EXCEPT !.current = FALSE]
             x == [u EXCEPT !.docs = v.docs]
             y == [x EXCEPT !.state = "Local"]
  <2>1. DOMAIN u = ViewFields /\ u.current = FALSE /\ u.limbo = v.limbo
    BY <1>1 DEF ViewFields
  <2>2. w = V!ApplyChanges(u, v.docs, FALSE, NoUpdate, FALSE).view
    BY <1>2 DEF V!ApplyOnlineStateChange
  <2> HIDE DEF u
  <2>3. DOMAIN x = ViewFields /\ x.current = FALSE /\ x.limbo = v.limbo
    BY <2>1 DEF ViewFields
  <2>4. w = [x EXCEPT !.state = IF x.limbo = {} /\ x.current /\ ~FALSE
                                  THEN "Synced" ELSE "Local"]
    BY <2>2 DEF V!ApplyChanges, V!ApplyTargetChange
  <2> HIDE DEF x, w
  <2>5. w = y
    BY <2>3, <2>4
  <2>6. DOMAIN y = ViewFields /\ y.current = FALSE /\ y.limbo = v.limbo /\ y.state = "Local"
    BY <2>3 DEF ViewFields
  <2> HIDE DEF y
  <2> QED BY <2>5, <2>6 DEF ViewSound, w
<1>3. CASE ~v.current
  <2>1. w = v
    BY <1>3 DEF V!ApplyOnlineStateChange
  <2> QED BY <1>1, <1>3, <2>1
<1> QED BY <1>1, <1>2, <1>3

(* All tables agree as before; no view is current.                         *)
LEMMA OfflineKeeps ==
  ASSUME NEW c, NEW G, Settled(c, G), NEW d, WentOffline(c, d),
         RemoteInv(d.remote, G), Watched(d.remote) = Watched(c.remote)
  PROVE  Settled(d, G)
<1> DEFINE e == c.engine
           f == d.engine
<1>1. CASE f = e /\ c.remote.online = "Offline"
  <2>1. OfflineKnown(d)
    BY <1>1 DEF Settled, ClientInv, OfflineKnown
  <2> QED BY <1>1, <2>1 DEF Settled, ClientInv, WentOffline
<1>2. CASE GoneOffline(e, f)
  <2>0. /\ EngineShape(e) /\ IsFunction(f) /\ DOMAIN f = EngineFields
        /\ f.active = e.active /\ f.enqueued = e.enqueued /\ f.refs = e.refs
        /\ f.views = OfflineViews(e.views)
    BY <1>2 DEF Settled, ClientInv, GoneOffline
  <2>1. /\ DOMAIN f.views = DOMAIN e.views /\ IsFunction(f.views)
        /\ \A q \in DOMAIN e.views :
             f.views[q] = V!ApplyOnlineStateChange(e.views[q], "Offline")
    BY <2>0 DEF OfflineViews, IsFunction
  <2>2. \A q \in DOMAIN e.views :
          ViewSound(f.views[q]) /\ f.views[q].limbo = e.views[q].limbo
            /\ f.views[q].current = FALSE
    <3> TAKE q \in DOMAIN e.views
    <3>1. ViewSound(e.views[q])
      BY <2>0 DEF EngineShape
    <3> QED BY <2>1, <3>1, OfflineView
  <2>3. EngineShape(f)
    BY <2>0, <2>1, <2>2 DEF EngineShape
  <2>4. OfflineKnown(d)
    BY <2>1, <2>2 DEF OfflineKnown
  <2>5. Limbo(f, {}) /\ Pumped(f)
    BY <2>0 DEF Settled, ClientInv, Limbo, Referenced, Pumped
  <2>6. RefsMatch(f)
    BY <2>0, <2>1, <2>2 DEF Settled, RefsMatch
  <2>7. DOMAIN d.store = StoreFields /\ DOMAIN d = ClientFields
    BY DEF Settled, ClientInv, WentOffline
  <2> QED BY <2>0, <2>1, <2>3, <2>4, <2>5, <2>6, <2>7 DEF Settled, ClientInv
<1> QED BY <1>1, <1>2 DEF WentOffline

(* setAndBroadcast("Offline").                                             *)
LEMMA BroadcastOffline ==
  ASSUME NEW m, DOMAIN m = ClientFields, DOMAIN m.engine = EngineFields,
         IsFunction(m.remote), DOMAIN m.remote = RemoteFields
  PROVE  LET d == SetAndBroadcast(m, "Offline")
         IN  WentOffline(m, d) /\ d.remote = [m.remote EXCEPT !.online = "Offline"]
<1> DEFINE n == m.remote
           d == SetAndBroadcast(m, "Offline")
<1>5. d = IF n.online = "Offline" THEN m
          ELSE ApplyOnlineState([m EXCEPT !.remote.online = "Offline"], "Offline")
  BY DEF SetAndBroadcast
<1>6. CASE n.online = "Offline"
  <2>1. [n EXCEPT !.online = "Offline"] = n
    BY <1>6 DEF RemoteFields, IsFunction
  <2>2. d = m
    BY <1>5, <1>6
  <2> HIDE DEF d
  <2> QED BY <1>6, <2>1, <2>2 DEF WentOffline, d
<1>7. CASE n.online # "Offline"
  <2> DEFINE k == [m EXCEPT !.remote.online = "Offline"]
  <2>1. /\ DOMAIN k = ClientFields /\ k.engine = m.engine /\ k.store = m.store
        /\ k.remote = [n EXCEPT !.online = "Offline"]
    BY DEF ClientFields
  <2>2. d = ApplyOnlineState(k, "Offline")
    BY <1>5, <1>7
  <2> HIDE DEF k, d
  <2> DEFINE views == OfflineViews(k.engine.views)
             e == [k.engine EXCEPT !.views = views]
  <2>3. d = [k EXCEPT !.engine.views = views]
    BY <2>2 DEF ApplyOnlineState, OfflineViews
  <2>4. GoneOffline(k.engine, e)
    <3>1. IsFunction(e) /\ DOMAIN e = EngineFields /\ e.views = views
          /\ e.active = k.engine.active /\ e.enqueued = k.engine.enqueued
          /\ e.refs = k.engine.refs
      <4> HIDE DEF views
      <4> QED BY <2>1 DEF EngineFields, IsFunction
    <3> QED BY <3>1 DEF GoneOffline
  <2> HIDE DEF views
  <2>5. /\ DOMAIN d = ClientFields /\ d.store = k.store /\ d.remote = k.remote
        /\ d.engine = e
    BY <2>1, <2>3 DEF ClientFields
  <2> QED BY <2>1, <2>4, <2>5 DEF WentOffline, d
<1> QED BY <1>6, <1>7

-----------------------------------------------------------------------------
(* The end of a task: a stream that is not open has no messages.           *)

Quiesced(c, G) == c.remote.stream # "Open" => G.accepted = << >> /\ G.resps = << >>

(* The messages of a stream that is not open are dropped.                  *)
LEMMA OpenServerKeeps ==
  ASSUME NEW c, NEW G, Settled(c, G)
  PROVE  Settled(c, OpenServer(c, G)) /\ Quiesced(c, OpenServer(c, G))
<1>1. CASE c.remote.stream = "Open"
  BY <1>1 DEF OpenServer, Quiesced
<1>2. CASE c.remote.stream # "Open"
  <2> DEFINE H == OpenServer(c, G)
  <2>0. RemoteInv(c.remote, G) /\ DOMAIN G = ServerFields
    BY DEF Settled, ClientInv, RemoteInv, RemoteCore, ServerShape
  <2>1. DOMAIN H = ServerFields /\ H.accepted = << >> /\ H.resps = << >>
    BY <1>2, <2>0 DEF OpenServer, ServerFields, RemoteInv, RemoteCore, RemoteShape
  <2> HIDE DEF H
  <2>2. ServerShape(c.remote, H)
    BY <2>1, EmptyFunction DEF ServerShape
  <2>3. RemoteInv(c.remote, H)
    BY <1>2, <2>0, <2>2 DEF RemoteInv, RemoteCore
  <2>4. Settled(c, H)
    BY <2>3 DEF Settled, ClientInv
  <2> QED BY <2>1, <2>4 DEF Quiesced, H
<1> QED BY <1>1, <1>2

-----------------------------------------------------------------------------
(* The network, on and off.                                                *)

(* What is known of RemoteStore between two tasks.                         *)
LEMMA SettledBasic ==
  ASSUME NEW c, NEW G, Settled(c, G)
  PROVE  /\ Basic(c, G) /\ OnlineSound(c.remote) /\ RemoteInv(c.remote, G)
         /\ DOMAIN c = ClientFields /\ DOMAIN c.engine = EngineFields
         /\ IsFunction(c.remote) /\ DOMAIN c.remote = RemoteFields
BY DEF Settled, ClientInv, Basic, RemoteInv, RemoteCore, RemoteShape, EngineShape

(* The causes for which the network is off are nobody else's concern.      *)
LEMMA CausesKeep ==
  ASSUME NEW c, NEW G, Basic(c, G), NEW causes
  PROVE  LET d == [c EXCEPT !.remote.causes = causes]
         IN  /\ Kept(c, d) /\ Basic(d, G) /\ SameCore(c.remote, d.remote)
             /\ d.remote.online = c.remote.online
             /\ d.remote.stream = c.remote.stream
             /\ OnlineSound(c.remote) /\ c.remote.stream = "Stopped" =>
                  OnlineSound(d.remote)
<1> DEFINE d == [c EXCEPT !.remote.causes = causes]
           r == c.remote
           s == [r EXCEPT !.causes = causes]
<1>1. Kept(c, d) /\ d.remote = s
  BY DEF Basic, Kept, ClientFields
<1>2. RemoteShape(r) /\ IsFunction(r) /\ DOMAIN r = RemoteFields
  BY DEF Basic, RemoteCore, RemoteShape
<1>3. /\ IsFunction(s) /\ DOMAIN s = RemoteFields
      /\ s.agg = r.agg /\ s.stream = r.stream /\ s.reqs = r.reqs /\ s.idle = r.idle
      /\ s.online = r.online /\ s.timer = r.timer /\ s.failures = r.failures
      /\ s.orphan = r.orphan /\ s.strays = r.strays
      /\ s.listens = r.listens /\ s.nextId = r.nextId
  BY <1>2 DEF IsFunction, RemoteFields
<1> HIDE DEF s, d
<1>4. SameCore(r, s)
  BY <1>2, <1>3 DEF SameCore, RemoteShape
<1>5. RemoteCore(s, G)
  BY <1>4, CoreSame DEF Basic
<1>6. OnlineSound(r) /\ r.stream = "Stopped" => OnlineSound(s)
  BY <1>3 DEF OnlineSound
<1> QED BY <1>1, <1>3, <1>4, <1>5, <1>6 DEF Basic, Kept, d

(* inhibitBackoff() of a stream that has stopped changes nothing.          *)
LEMMA InhibitKeeps ==
  ASSUME NEW c, NEW G, Settled(c, G), c.remote.stream = "Stopped"
  PROVE  Settled(InhibitBackoff(c), G)
<1> DEFINE r == c.remote
           d == InhibitBackoff(c)
           s == [r EXCEPT !.stream = "Stopped", !.reqs = << >>,
                          !.orphan = @ \/ r.stream # "Stopped"]
<1>1. /\ DOMAIN c = ClientFields /\ IsFunction(r) /\ DOMAIN r = RemoteFields
      /\ RemoteInv(r, G)
  BY SettledBasic
<1>2. r.reqs = << >> /\ r.orphan = FALSE
  BY <1>1 DEF RemoteInv, RemoteCore, RemoteShape
<1>3. (r.orphan \/ r.stream # "Stopped") = FALSE
  BY <1>2
<1>4. s = [r EXCEPT !.stream = "Stopped", !.reqs = << >>, !.orphan = FALSE]
  BY <1>1, <1>3 DEF RemoteFields
<1>5. Kept(c, d) /\ d.remote = s
  BY <1>1 DEF InhibitBackoff, Kept, ClientFields
<1> HIDE DEF s, d
<1>6. s = r
  BY <1>1, <1>2, <1>4 DEF IsFunction, RemoteFields
<1> QED BY <1>1, <1>5, <1>6, NetworkKeeps DEF d, Quiet

(* enableNetworkInternal, when no stream runs.                             *)
LEMMA EnableSettled ==
  ASSUME NEW c, NEW G, Settled(c, G), c.remote.stream = "Stopped"
  PROVE  Settled(EnableNetworkInternal(c), G)
<1> DEFINE d == EnableNetworkInternal(c)
           b == InhibitBackoff(c)
<1>0. Settled(b, G)
  BY InhibitKeeps
<1>1. /\ Basic(b, G) /\ OnlineSound(b.remote)
  BY <1>0, SettledBasic
<1>2. \/ d = c
      \/ d = StartWatchStream(b) /\ ShouldStartWatchStream(b)
      \/ d = SetOnline(b, "Unknown")
  BY DEF EnableNetworkInternal, EnableWatch
<1> HIDE DEF d, b
<1>3. CASE d = StartWatchStream(b) /\ ShouldStartWatchStream(b)
  <2>1. /\ Kept(b, d) /\ RemoteInv(d.remote, G) /\ Quiet(b.remote, d.remote)
        /\ d.remote.listens = b.remote.listens
    BY <1>1, <1>3, StartWatchStreamKeeps
  <2>2. Watched(d.remote) = Watched(b.remote)
    BY <2>1 DEF Watched
  <2> QED BY <1>0, <2>1, <2>2, NetworkKeeps DEF d
<1>4. CASE d = SetOnline(b, "Unknown")
  <2>1. /\ Kept(b, d) /\ RemoteInv(d.remote, G)
        /\ SameCore(b.remote, d.remote) /\ d.remote.online = "Unknown"
    BY <1>1, <1>4, SetOnlineKeeps DEF OnlineSound
  <2>2. Watched(d.remote) = Watched(b.remote) /\ Quiet(b.remote, d.remote)
    BY <2>1 DEF Watched, SameCore, Quiet
  <2> QED BY <1>0, <2>1, <2>2, NetworkKeeps DEF d
<1> QED BY <1>2, <1>3, <1>4 DEF d

(* The same, when the causes for which the network is off have changed.    *)
LEMMA EnableKeeps ==
  ASSUME NEW c, NEW G, Settled(c, G), c.remote.stream = "Stopped", NEW causes
  PROVE  Settled(EnableNetworkInternal([c EXCEPT !.remote.causes = causes]), G)
<1> DEFINE b == [c EXCEPT !.remote.causes = causes]
<1>1. /\ Basic(c, G) /\ OnlineSound(c.remote)
  BY SettledBasic
<1>2. /\ Kept(c, b) /\ Basic(b, G) /\ SameCore(c.remote, b.remote)
      /\ b.remote.online = c.remote.online /\ OnlineSound(b.remote)
      /\ b.remote.stream = "Stopped"
  BY <1>1, CausesKeep
<1> HIDE DEF b
<1>3. Settled(b, G)
  BY <1>2, NetworkKeeps DEF RemoteInv, Basic, SameCore, Watched, Quiet
<1> QED BY <1>2, <1>3, EnableSettled DEF b

(* Closing the stream, with the state that is then set.                    *)
LEMMA CloseKeeps ==
  ASSUME NEW c, NEW G, Settled(c, G)
  PROVE  LET d == SetOnline(StreamClosed(c), "Unknown")
         IN  Settled(d, G) /\ d.remote.stream = "Stopped"
<1> DEFINE b == StreamClosed(c)
           d == SetOnline(b, "Unknown")
<1>1. Basic(c, G)
  BY SettledBasic
<1>2. Kept(c, b) /\ Basic(b, G) /\ b.remote.listens = c.remote.listens
      /\ b.remote.stream = "Stopped"
  BY <1>1, StreamClosedKeeps
<1> HIDE DEF b
<1>3. /\ Kept(b, d) /\ RemoteInv(d.remote, G)
      /\ SameCore(b.remote, d.remote) /\ d.remote.online = "Unknown"
  BY <1>2, SetOnlineKeeps
<1> HIDE DEF d
<1>4. /\ Kept(c, d) /\ Watched(d.remote) = Watched(c.remote) /\ Quiet(c.remote, d.remote)
  BY <1>2, <1>3 DEF Kept, Watched, SameCore, Quiet
<1>5. d.remote.stream = "Stopped"
  BY <1>2, <1>3 DEF SameCore
<1> QED BY <1>3, <1>4, <1>5, NetworkKeeps DEF d, b

(* The network goes off.                                                   *)
LEMMA DisableKeeps ==
  ASSUME NEW c, NEW G, Settled(c, G), NEW causes
  PROVE  Settled(SetOnline([StreamClosed(c) EXCEPT !.remote.causes = causes], "Offline"), G)
<1> DEFINE a == StreamClosed(c)
           b == [a EXCEPT !.remote.causes = causes]
           d == SetOnline(b, "Offline")
<1>1. Basic(c, G)
  BY SettledBasic
<1>2. /\ Kept(c, a) /\ Basic(a, G) /\ a.remote.listens = c.remote.listens
      /\ a.remote.online = c.remote.online /\ a.remote.stream = "Stopped"
  BY <1>1, StreamClosedKeeps
<1> HIDE DEF a
<1>3. Kept(a, b) /\ Basic(b, G) /\ SameCore(a.remote, b.remote) /\ b.remote.online = a.remote.online
      /\ b.remote.stream = "Stopped"
  BY <1>2, CausesKeep
<1> HIDE DEF b
<1>4. /\ DOMAIN d = ClientFields /\ d.store = b.store
      /\ RemoteInv(d.remote, G)
      /\ SameCore(b.remote, d.remote)
      /\ \/ GoneOffline(b.engine, d.engine)
         \/ d.engine = b.engine /\ b.remote.online = "Offline"
  BY <1>3, SetOfflineKeeps
<1> HIDE DEF d
<1>5. WentOffline(c, d) /\ Watched(d.remote) = Watched(c.remote)
  BY <1>2, <1>3, <1>4 DEF Kept, Watched, SameCore, WentOffline
<1> QED BY <1>4, <1>5, OfflineKeeps DEF d, b, a

(* A failure is the last one that may be borne.                            *)
LEMMA FailureKeeps ==
  ASSUME NEW c, NEW G, Settled(c, G), ShouldStartWatchStream(StreamClosed(c))
  PROVE  Settled(StartWatchStream(HandleWatchStreamFailure(StreamClosed(c))), G)
<1> DEFINE a == StreamClosed(c)
           r == a.remote
           b == HandleWatchStreamFailure(a)
           d == StartWatchStream(b)
<1>1. Basic(c, G) /\ OnlineSound(c.remote)
  BY SettledBasic
<1>2. /\ Kept(c, a) /\ Basic(a, G) /\ r.listens = c.remote.listens
      /\ r.stream = "Stopped" /\ r.online = c.remote.online
      /\ ShouldStartWatchStream(a) /\ r.causes = {}
      /\ r.timer = c.remote.timer /\ r.failures = c.remote.failures
  BY <1>1, StreamClosedKeeps DEF ShouldStartWatchStream, CanUseNetwork
<1> HIDE DEF a
<1>3. /\ IsFunction(r) /\ DOMAIN r = RemoteFields /\ RemoteShape(r) /\ RemoteCore(r, G)
      /\ DOMAIN a = ClientFields /\ EngineShape(a.engine) /\ DOMAIN a.engine = EngineFields
  BY <1>2 DEF Basic, RemoteCore, RemoteShape, EngineShape
<1>4. /\ Basic(b, G) /\ OnlineSound(b.remote) /\ SameCore(r, b.remote)
      /\ b.remote.causes = r.causes
      /\ (Kept(a, b) /\ b.remote.online # "Offline") \/ WentOffline(a, b)
  <2>1. CASE r.online = "Online"
    <3>1. b = SetAndBroadcast(a, "Unknown")
      BY <2>1 DEF HandleWatchStreamFailure
    <3>2. Kept(a, b) /\ b.remote = [r EXCEPT !.online = "Unknown"]
      BY <1>3, <3>1, SetAndBroadcastFields
    <3> DEFINE s == [r EXCEPT !.online = "Unknown"]
    <3>3. /\ IsFunction(s) /\ DOMAIN s = RemoteFields
          /\ s.agg = r.agg /\ s.stream = r.stream /\ s.reqs = r.reqs /\ s.idle = r.idle
          /\ s.online = "Unknown" /\ s.timer = r.timer /\ s.failures = r.failures
          /\ s.orphan = r.orphan /\ s.strays = r.strays /\ s.causes = r.causes
          /\ s.listens = r.listens /\ s.nextId = r.nextId
      BY <1>3 DEF IsFunction, RemoteFields
    <3> HIDE DEF s, b
    <3>4. SameCore(r, s)
      BY <1>3, <3>3 DEF SameCore, RemoteShape
    <3>5. OnlineSound(s)
      BY <1>1, <1>2, <2>1, <3>3 DEF OnlineSound
    <3>6. RemoteCore(s, G)
      BY <1>3, <3>4, CoreSame
    <3>7. b.remote = s /\ b.remote.online = "Unknown" /\ s.causes = r.causes
      BY <3>2, <3>3 DEF s
    <3> QED BY <1>3, <3>2, <3>4, <3>5, <3>6, <3>7 DEF Basic, Kept, b
  <2>2. CASE r.online # "Online"
    <3> DEFINE f == [a EXCEPT !.remote.failures = 1]
               m == [f EXCEPT !.remote.timer = FALSE]
               n == [[r EXCEPT !.failures = 1] EXCEPT !.timer = FALSE]
               s == [n EXCEPT !.online = "Offline"]
    <3>1. r.failures \in 0 .. 1
      BY <1>3 DEF RemoteShape, MaxWatchStreamFailures
    <3>2. b = SetAndBroadcast(m, "Offline")
      <4> DEFINE k == IF r.failures < MaxWatchStreamFailures THEN r.failures + 1 ELSE r.failures
                 Out(i) == SetAndBroadcast([[a EXCEPT !.remote.failures = i]
                                              EXCEPT !.remote.timer = FALSE], "Offline")
      <4>1. k = 1
        BY <3>1 DEF MaxWatchStreamFailures
      <4>2. b = IF k < MaxWatchStreamFailures THEN [a EXCEPT !.remote.failures = k]
                ELSE Out(k)
        BY <2>2 DEF HandleWatchStreamFailure
      <4> HIDE DEF k, b, Out
      <4>3. ~(k < MaxWatchStreamFailures)
        BY <4>1 DEF MaxWatchStreamFailures
      <4>4. b = Out(1)
        BY <4>1, <4>2, <4>3
      <4> QED BY <4>4 DEF Out
    <3>3. Kept(a, m) /\ m.remote = n
      BY <1>3 DEF Kept, ClientFields
    <3>4. IsFunction(n) /\ DOMAIN n = RemoteFields
      BY <1>3 DEF IsFunction, RemoteFields
    <3> HIDE DEF m, f, b
    <3>5. WentOffline(m, b) /\ b.remote = [m.remote EXCEPT !.online = "Offline"]
      BY <1>3, <3>2, <3>3, <3>4, BroadcastOffline DEF Kept
    <3>6. b.remote = s
      BY <3>3, <3>5
    <3>7. /\ IsFunction(s) /\ DOMAIN s = RemoteFields
          /\ s.agg = r.agg /\ s.stream = r.stream /\ s.reqs = r.reqs /\ s.idle = r.idle
          /\ s.online = "Offline" /\ s.timer = FALSE /\ s.failures = 1
          /\ s.orphan = r.orphan /\ s.strays = r.strays /\ s.causes = r.causes
          /\ s.listens = r.listens /\ s.nextId = r.nextId
      BY <1>3 DEF IsFunction, RemoteFields
    <3>8. m.remote.online = r.online
      BY <1>3, <3>3 DEF RemoteFields
    <3> HIDE DEF s, n
    <3>9. s.failures \in 0 .. MaxWatchStreamFailures
      BY <3>7 DEF MaxWatchStreamFailures
    <3>10. SameCore(r, s) /\ OnlineSound(s)
      <4>1. SameCore(r, s)
        BY <3>7, <3>9 DEF SameCore
      <4>2. OnlineSound(s)
        BY <1>2, <3>7 DEF OnlineSound
      <4> QED BY <4>1, <4>2
    <3>11. RemoteCore(s, G)
      BY <1>3, <3>10, CoreSame
    <3>12. WentOffline(a, b)
      BY <3>3, <3>5, <3>8 DEF WentOffline, Kept
    <3>13. EngineShape(b.engine)
      <4>1. CASE b.engine = a.engine
        BY <1>3, <4>1
      <4>2. CASE GoneOffline(a.engine, b.engine)
        <5>1. \A q \in DOMAIN a.engine.views :
                ViewSound(V!ApplyOnlineStateChange(a.engine.views[q], "Offline"))
          BY <1>3, OfflineView DEF EngineShape
        <5>2. /\ DOMAIN b.engine.views = DOMAIN a.engine.views /\ IsFunction(b.engine.views)
              /\ \A q \in DOMAIN b.engine.views : ViewSound(b.engine.views[q])
          BY <4>2, <5>1 DEF GoneOffline, OfflineViews, IsFunction
        <5> QED BY <1>3, <4>2, <5>2 DEF GoneOffline, EngineShape
      <4> QED BY <3>12, <4>1, <4>2 DEF WentOffline
    <3>14. b.remote.causes = r.causes
      BY <3>6, <3>7
    <3> QED BY <3>6, <3>10, <3>11, <3>12, <3>13, <3>14 DEF Basic, WentOffline, b
  <2> QED BY <2>1, <2>2
<1> HIDE DEF b
<1>5. ShouldStartWatchStream(b)
  BY <1>2, <1>4 DEF SameCore, ShouldStartWatchStream, CanUseNetwork
<1>6. /\ Kept(b, d) /\ RemoteInv(d.remote, G) /\ Quiet(b.remote, d.remote)
      /\ d.remote.listens = b.remote.listens
  BY <1>4, <1>5, StartWatchStreamKeeps
<1> HIDE DEF d
<1>7. Watched(d.remote) = Watched(c.remote)
  BY <1>2, <1>4, <1>6 DEF SameCore, Watched
<1>8. CASE Kept(a, b) /\ b.remote.online # "Offline"
  <2>1. Kept(c, d) /\ Quiet(c.remote, d.remote)
    BY <1>2, <1>6, <1>8 DEF Kept, Quiet
  <2> QED BY <1>6, <1>7, <2>1, NetworkKeeps DEF d, b, a
<1>9. CASE WentOffline(a, b)
  <2>1. WentOffline(c, d)
    BY <1>2, <1>6, <1>9 DEF Kept, WentOffline
  <2> QED BY <1>6, <1>7, <2>1, OfflineKeeps DEF d, b, a
<1> QED BY <1>4, <1>8, <1>9

-----------------------------------------------------------------------------
(* Requests for many targets.                                              *)

(* s is r with more requests.                                              *)
MoreAsked(r, s) ==
  /\ RemoteShape(s) /\ s.stream = "Open" /\ s.idle = FALSE
  /\ s.listens = r.listens /\ s.nextId = r.nextId
  /\ s.online = r.online /\ s.timer = r.timer /\ s.failures = r.failures
  /\ s.orphan = r.orphan /\ s.strays = r.strays /\ s.causes = r.causes

(* A request to watch.                                                     *)
LEMMA WatchAsks ==
  ASSUME NEW c, DOMAIN c = ClientFields, RemoteShape(c.remote), c.remote.stream = "Open",
         NEW t \in Allocated(c.remote), NEW from
  PROVE  LET d == SendWatchRequest(c, t, from)
         IN  /\ Kept(c, d) /\ MoreAsked(c.remote, d.remote)
             /\ \E m : /\ IsRequestFor(m, t, "add") /\ HasAsked(c.remote, d.remote, t, m)
                       /\ d.remote = Asking(c.remote, t, m)
<1> DEFINE d == SendWatchRequest(c, t, from)
<1>1. DOMAIN c.remote = RemoteFields
  BY DEF RemoteShape
<1>2. Kept(c, d)
  BY <1>1, RequestFields
<1>3. PICK m : IsRequestFor(m, t, "add") /\ d.remote = Asking(c.remote, t, m)
  BY <1>1, RequestFields
<1>4. HasAsked(c.remote, d.remote, t, m)
  BY <1>3, AskingFacts DEF IsRequestFor
<1> HIDE DEF d
<1>5. MoreAsked(c.remote, d.remote)
  BY <1>4 DEF HasAsked, MoreAsked
<1> QED BY <1>2, <1>3, <1>4, <1>5 DEF d

(* A request not to watch.                                                 *)
LEMMA UnwatchAsks ==
  ASSUME NEW c, DOMAIN c = ClientFields, RemoteShape(c.remote), c.remote.stream = "Open",
         NEW t \in Allocated(c.remote)
  PROVE  LET d == SendUnwatchRequest(c, t)
         IN  /\ Kept(c, d) /\ MoreAsked(c.remote, d.remote)
             /\ \E m : /\ IsRequestFor(m, t, "remove") /\ HasAsked(c.remote, d.remote, t, m)
                       /\ d.remote = Asking(c.remote, t, m)
<1> DEFINE d == SendUnwatchRequest(c, t)
<1>1. DOMAIN c.remote = RemoteFields
  BY DEF RemoteShape
<1>2. Kept(c, d)
  BY <1>1, RequestFields
<1>3. PICK m : IsRequestFor(m, t, "remove") /\ d.remote = Asking(c.remote, t, m)
  BY <1>1, RequestFields
<1>4. HasAsked(c.remote, d.remote, t, m)
  BY <1>3, AskingFacts DEF IsRequestFor
<1> HIDE DEF d
<1>5. MoreAsked(c.remote, d.remote)
  BY <1>4 DEF HasAsked, MoreAsked
<1> QED BY <1>2, <1>3, <1>4, <1>5 DEF d

(* onWatchStreamOpen, one target after the other.                          *)
SendOne(d, t, p) == SendWatchRequest(d, t, ResumeFrom(d.remote.listens[t]))

Unspoken(s, t) == AskedOf(s, t) = {} /\ t \notin DOMAIN s.agg.states

SentSoFar(d, i, p) ==
  /\ Kept(p.client, d)
  /\ RemoteShape(d.remote) /\ d.remote.stream = "Open" /\ d.remote.idle = FALSE
  /\ d.remote.listens = p.client.remote.listens /\ d.remote.nextId = p.client.remote.nextId
  /\ d.remote.online = p.client.remote.online /\ d.remote.timer = p.client.remote.timer
  /\ d.remote.failures = p.client.remote.failures
  /\ d.remote.orphan = p.client.remote.orphan /\ d.remote.strays = p.client.remote.strays
  /\ d.remote.causes = p.client.remote.causes
  /\ \A j \in 1 .. i : Talk(d.remote, p.ground, p.targets[j])
                         /\ EndsAccepted(d.remote, p.ground, p.targets[j])
  /\ \A t \in Allocated(d.remote) :
       (\A j \in 1 .. i : p.targets[j] # t) => Unspoken(d.remote, t)

Opening == INSTANCE FoldTheorems WITH Op <- SendOne, Inv <- SentSoFar

(* One target more has been requested.                                     *)
LEMMA SendOneKeeps ==
  ASSUME NEW p, IsSequence(p.ground.resps), p.ground.resps = << >>,
         IsInjective(p.targets), p.targets \in Seq(Allocated(p.client.remote)),
         NEW i \in DOMAIN p.targets, NEW d, SentSoFar(d, i - 1, p)
  PROVE  SentSoFar(SendOne(d, p.targets[i], p), i, p)
<1> DEFINE t == p.targets[i]
           r == d.remote
           e == SendOne(d, t, p)
           s == e.remote
           G == p.ground
<1>0. DOMAIN p.targets = 1 .. Len(p.targets) /\ Len(p.targets) \in Nat /\ i \in Nat \ {0}
  OBVIOUS
<1>1. /\ DOMAIN d = ClientFields /\ RemoteShape(r) /\ r.stream = "Open"
      /\ t \in Allocated(r)
  <2>1. t \in Allocated(p.client.remote)
    OBVIOUS
  <2>2. DOMAIN d = ClientFields /\ RemoteShape(r) /\ r.stream = "Open"
    BY DEF SentSoFar, Kept
  <2>3. r.nextId = p.client.remote.nextId
    BY DEF SentSoFar
  <2> QED BY <2>1, <2>2, <2>3 DEF Allocated
<1>2. /\ Kept(d, e) /\ MoreAsked(r, s)
  BY <1>1, WatchAsks DEF SendOne
<1>3. PICK m : /\ IsRequestFor(m, t, "add") /\ HasAsked(r, s, t, m)
               /\ s = Asking(r, t, m)
  BY <1>1, WatchAsks DEF SendOne
<1>4. \A j \in 1 .. i - 1 : p.targets[j] # t
  <2> TAKE j \in 1 .. i - 1
  <2>1. j \in DOMAIN p.targets /\ j # i
    BY <1>0
  <2> QED BY <2>1 DEF IsInjective
<1>5. Unspoken(r, t)
  BY <1>1, <1>4 DEF SentSoFar
<1>6. Talk(r, G, t)
  <2>1. ResponsesTo(G.resps, {"ADD", "REMOVE"}, t) = {}
    BY EmptyFunction DEF ResponsesTo
  <2>2. PendingOf(r, t) = 0 /\ AskedOf(r, t) = {}
    BY <1>5 DEF Unspoken, PendingOf
  <2>3. Counted(r, G, t)
    <3>1. Cardinality({}) = 0
      BY FS_EmptySet
    <3>2. PendingOf(r, t) = Cardinality(AskedOf(r, t))
                  + Cardinality(ResponsesTo(G.resps, {"ADD", "REMOVE"}, t))
      <4>1. Cardinality(AskedOf(r, t)) = 0
        BY <2>2, <3>1, Zenon
      <4>2. Cardinality(ResponsesTo(G.resps, {"ADD", "REMOVE"}, t)) = 0
        BY <2>1, <3>1, Zenon
      <4> QED BY <2>2, <4>1, <4>2
    <3> QED BY <3>2 DEF Counted
  <2> QED BY <2>2, <2>3 DEF Talk, Alternates
<1>7. Talk(s, G, t) /\ EndsAccepted(s, G, t)
  BY <1>1, <1>3, <1>6, AskAdd
<1> HIDE DEF s
<1>8. ASSUME NEW j \in 1 .. i
      PROVE  Talk(s, G, p.targets[j]) /\ EndsAccepted(s, G, p.targets[j])
  <2>1. CASE j = i
    BY <1>7, <2>1
  <2>2. CASE j # i
    <3>1. j \in 1 .. i - 1 /\ p.targets[j] # t
      BY <1>0, <1>4, <2>2
    <3>2. Talk(r, G, p.targets[j]) /\ EndsAccepted(r, G, p.targets[j])
      BY <3>1 DEF SentSoFar
    <3>3. m.t = t
      BY <1>3 DEF IsRequestFor
    <3> QED BY <1>1, <1>3, <3>1, <3>2, <3>3, AskingOthers
  <2> QED BY <2>1, <2>2
<1>9. ASSUME NEW u \in Allocated(s), \A j \in 1 .. i : p.targets[j] # u
      PROVE  Unspoken(s, u)
  <2>1. u # t /\ i \in 1 .. i /\ \A j \in 1 .. i - 1 : p.targets[j] # u
    BY <1>0, <1>9
  <2>2. u \in Allocated(r)
    BY <1>2 DEF MoreAsked, Allocated
  <2>3. Unspoken(r, u)
    BY <2>1, <2>2 DEF SentSoFar
  <2>4. m.t = t
    BY <1>3 DEF IsRequestFor
  <2>5. AskedOf(s, u) = AskedOf(r, u)
    BY <1>1, <1>3, <2>1, <2>4, AskingOthers
  <2>6. DOMAIN s.agg.states = DOMAIN r.agg.states \cup {t}
    BY <1>3 DEF HasAsked
  <2> QED BY <2>1, <2>3, <2>5, <2>6 DEF Unspoken
<1> HIDE DEF e, t
<1>10. Kept(p.client, e)
  BY <1>2 DEF SentSoFar, Kept
<1> QED BY <1>2, <1>8, <1>9, <1>10 DEF SentSoFar, MoreAsked, s, e, t

(* onWatchStreamOpen: afterwards every target has been requested.          *)
LEMMA OpenKeeps ==
  ASSUME NEW c, NEW G, Settled(c, G), c.remote.stream = "Starting",
         G.accepted = << >>, G.resps = << >>
  PROVE  Settled(SendAllWatchRequests([c EXCEPT !.remote.stream = "Open"]), G)
<1> DEFINE r == c.remote
           b == [c EXCEPT !.remote.stream = "Open"]
           m == [r EXCEPT !.stream = "Open"]
           w == Ascending(DOMAIN r.listens)
           p == [client |-> b, ground |-> G, targets |-> w]
           d == SendAllWatchRequests(b)
           s == d.remote
<1>0. /\ Basic(c, G) /\ RemoteShape(r) /\ OnlineSound(r) /\ IdleSound(r) /\ ServerShape(r, G)
      /\ DOMAIN c = ClientFields /\ IsFunction(r) /\ DOMAIN r = RemoteFields
  BY SettledBasic DEF Basic, RemoteCore
<1>1. Kept(c, b) /\ b.remote = m
  BY <1>0 DEF Kept, ClientFields
<1>2. /\ IsFunction(m) /\ DOMAIN m = RemoteFields
      /\ m.agg = r.agg /\ m.stream = "Open" /\ m.reqs = r.reqs /\ m.idle = r.idle
      /\ m.online = r.online /\ m.timer = r.timer /\ m.failures = r.failures
      /\ m.orphan = r.orphan /\ m.strays = r.strays /\ m.causes = r.causes
      /\ m.listens = r.listens /\ m.nextId = r.nextId
  BY <1>0 DEF IsFunction, RemoteFields
<1> HIDE DEF m, b
<1>3. RemoteShape(m) /\ m.reqs = << >> /\ DOMAIN m.agg.states = {} /\ m.idle = FALSE
      /\ Allocated(m) = Allocated(r)
  <2>1. r.reqs = << >> /\ DOMAIN r.agg.states = {} /\ r.idle = FALSE /\ AggregatorShape(r.agg)
    BY <1>0 DEF RemoteShape, IdleSound
  <2> QED BY <1>0, <1>2, <2>1 DEF RemoteShape, Allocated
<1>4. w \in Seq(DOMAIN r.listens) /\ Range(w) = DOMAIN r.listens /\ IsInjective(w)
  <2>1. DOMAIN r.listens \in SUBSET (1 .. r.nextId - 1) /\ r.nextId \in Nat \ {0}
    BY <1>0 DEF RemoteShape, Allocated
  <2>2. IsFiniteSet(1 .. r.nextId - 1)
    BY <2>1, FS_Interval
  <2>3. IsFiniteSet(DOMAIN r.listens) /\ DOMAIN r.listens \in SUBSET Nat
    BY <2>1, <2>2, FS_Subset
  <2> QED BY <2>3, AscendingFacts
<1>5. p.client = b /\ p.ground = G /\ p.targets = w
  OBVIOUS
<1>6. d = Opening!Run(b, w, p)
  <2>1. DOMAIN b.remote.listens = DOMAIN r.listens
    BY <1>1, <1>2
  <2> HIDE DEF p
  <2> QED BY <2>1 DEF SendAllWatchRequests, SendOne, FoldLeft, MapThenFoldSet, Max, Opening!Run,
         Opening!Last
<1> HIDE DEF w, p, d
<1>7. w \in Seq(Allocated(m)) /\ DOMAIN w = 1 .. Len(w) /\ Len(w) \in Nat
  BY <1>0, <1>3, <1>4 DEF RemoteShape
<1>8. SentSoFar(b, 0, p)
  <2>1. \A t : Unspoken(m, t)
    BY <1>3, EmptyFunction DEF Unspoken, AskedOf
  <2> QED BY <1>1, <1>2, <1>3, <1>5, <2>1 DEF SentSoFar, Kept
<1>9. ASSUME NEW i \in 1 .. Len(w), NEW e, SentSoFar(e, i - 1, p)
      PROVE  SentSoFar(SendOne(e, w[i], p), i, p)
  <2>1. IsSequence(p.ground.resps) /\ p.ground.resps = << >>
    BY <1>5, EmptyFunction
  <2> QED BY <1>1, <1>4, <1>5, <1>7, <1>9, <2>1, SendOneKeeps
<1>10. SentSoFar(d, Len(w), p)
  BY <1>4, <1>6, <1>8, <1>9, Opening!FoldKeeps
<1>11. ASSUME NEW t \in Allocated(s) PROVE Conversation(s, G, t)
  <2>1. CASE t \in DOMAIN r.listens
    <3>1. PICK j \in 1 .. Len(w) : w[j] = t
      BY <1>4, <1>7, <2>1 DEF Range
    <3> QED BY <1>5, <1>10, <3>1 DEF SentSoFar, Conversation, Talk
  <2>2. CASE t \notin DOMAIN r.listens
    <3>1. \A j \in 1 .. Len(w) : w[j] # t
      BY <1>4, <1>7, <2>2
    <3>2. Unspoken(s, t) /\ s.listens = r.listens
      BY <1>1, <1>2, <1>5, <1>10, <1>11, <3>1 DEF SentSoFar
    <3> QED BY <2>2, <3>2 DEF Conversation, Unspoken
  <2> QED BY <2>1, <2>2
<1>12. /\ Kept(c, d) /\ RemoteShape(s) /\ s.stream = "Open" /\ s.idle = FALSE
       /\ s.listens = r.listens /\ s.nextId = r.nextId
       /\ s.online = r.online /\ s.timer = r.timer /\ s.failures = r.failures
       /\ s.orphan = r.orphan /\ s.strays = r.strays /\ s.causes = r.causes
  BY <1>1, <1>2, <1>5, <1>10 DEF SentSoFar, Kept
<1> HIDE DEF s
<1>13. OnlineSound(s) /\ IdleSound(s) /\ ServerShape(s, G)
  BY <1>0, <1>12 DEF OnlineSound, IdleSound, ServerShape, Allocated
<1>14. RemoteInv(s, G) /\ Watched(s) = Watched(r) /\ Quiet(r, s)
  BY <1>11, <1>12, <1>13 DEF RemoteInv, RemoteCore, Watched, Quiet
<1> QED BY <1>12, <1>14, NetworkKeeps DEF d, s, b

(* A target that is watched from the start again.                          *)
LEMMA RewatchKeeps ==
  ASSUME NEW c, NEW G, DOMAIN c = ClientFields, RemoteInv(c.remote, G),
         c.remote.stream = "Open", NEW t \in DOMAIN c.remote.listens
  PROVE  LET d == RewatchTarget(c, t)
         IN  /\ Kept(c, d) /\ RemoteInv(d.remote, G) /\ MoreAsked(c.remote, d.remote)
<1> DEFINE r == c.remote
           b == SendUnwatchRequest(c, t)
           m == b.remote
           d == SendWatchRequest(b, t, 0)
           s == d.remote
<1>0. /\ RemoteShape(r) /\ OnlineSound(r) /\ ServerShape(r, G) /\ IsSequence(G.resps)
      /\ r.stream = "Open" /\ t \in Allocated(r)
      /\ \A u \in Allocated(r) : Conversation(r, G, u)
  BY DEF RemoteInv, RemoteCore, RemoteShape, ServerShape
<1>1. /\ Kept(c, b) /\ MoreAsked(r, m)
  BY <1>0, UnwatchAsks
<1>2. PICK q : /\ IsRequestFor(q, t, "remove") /\ HasAsked(r, m, t, q)
               /\ m = Asking(r, t, q)
  BY <1>0, UnwatchAsks
<1>3. /\ DOMAIN b = ClientFields /\ RemoteShape(m) /\ m.stream = "Open" /\ t \in Allocated(m)
      /\ Allocated(m) = Allocated(r)
  BY <1>0, <1>1 DEF Kept, MoreAsked, Allocated
<1> HIDE DEF b, r
<1>4. Kept(b, d) /\ MoreAsked(m, s)
  BY <1>3, WatchAsks
<1>5. PICK k : /\ IsRequestFor(k, t, "add") /\ HasAsked(m, s, t, k)
               /\ s = Asking(m, t, k)
  BY <1>3, WatchAsks
<1> HIDE DEF d, m, s
<1>6. /\ RemoteShape(s) /\ s.stream = "Open" /\ s.idle = FALSE
      /\ s.listens = r.listens /\ s.nextId = r.nextId
      /\ s.online = r.online /\ s.timer = r.timer /\ s.failures = r.failures
      /\ s.orphan = r.orphan /\ s.strays = r.strays /\ s.causes = r.causes
  BY <1>1, <1>4 DEF MoreAsked
<1>7. ASSUME NEW u \in Allocated(s) PROVE Conversation(s, G, u)
  <2>1. u \in Allocated(r) /\ q.t = t /\ k.t = t
    BY <1>2, <1>5, <1>6 DEF Allocated, IsRequestFor
  <2>2. CASE u # t
    <3>1. Conversation(m, G, u)
      BY <1>0, <1>2, <2>1, <2>2, AskingOthers
    <3> QED BY <1>3, <1>5, <2>1, <2>2, <3>1, AskingOthers
  <2>3. CASE u = t
    <3>1. SUFFICES ASSUME ResponsesTo(G.resps, {"ERROR"}, t) = {} PROVE Conversation(s, G, t)
      BY <2>3 DEF Conversation
    <3>2. Counted(r, G, t) /\ Alternates(r, G, t) /\ EndsAccepted(r, G, t)
      BY <1>0, <3>1 DEF Conversation, r
    <3>3. Talk(m, G, t)
      BY <1>0, <1>2, <3>2, AskRemove DEF Talk
    <3>4. Talk(s, G, t) /\ EndsAccepted(s, G, t)
      BY <1>0, <1>3, <1>5, <3>3, AskAdd
    <3> QED BY <3>4 DEF Talk, Conversation
  <2> QED BY <2>2, <2>3
<1>8. OnlineSound(s) /\ IdleSound(s) /\ ServerShape(s, G)
  BY <1>0, <1>6 DEF OnlineSound, IdleSound, ServerShape, Allocated
<1>9. RemoteInv(s, G)
  BY <1>6, <1>7, <1>8 DEF RemoteInv, RemoteCore
<1>10. Kept(c, d) /\ MoreAsked(r, s)
  BY <1>1, <1>4, <1>6 DEF Kept, MoreAsked
<1> QED BY <1>9, <1>10 DEF RewatchTarget, d, b, s, r, m

RewatchOne(d, t, p) == RewatchTarget(d, t)

RewatchedSoFar(d, i, p) ==
  /\ Kept(p.client, d) /\ RemoteInv(d.remote, p.ground)
  /\ d.remote.stream = "Open" /\ d.remote.listens = p.client.remote.listens
  /\ d.remote.nextId = p.client.remote.nextId
  /\ d.remote.online = p.client.remote.online

Rewatching == INSTANCE FoldTheorems WITH Op <- RewatchOne, Inv <- RewatchedSoFar

(* The loop over the targets whose existence filter did not match.         *)
LEMMA RewatchAllKeeps ==
  ASSUME NEW c, NEW G, DOMAIN c = ClientFields, RemoteInv(c.remote, G),
         c.remote.stream = "Open", NEW event
  PROVE  LET d == RewatchMismatches(c, event)
         IN  /\ Kept(c, d) /\ RemoteInv(d.remote, G) /\ d.remote.stream = "Open"
             /\ d.remote.listens = c.remote.listens /\ d.remote.nextId = c.remote.nextId
             /\ d.remote.online = c.remote.online
<1> DEFINE r == c.remote
           S == event.mismatches \cap DOMAIN r.listens
           w == Ascending(S)
           p == [client |-> c, ground |-> G]
           d == RewatchMismatches(c, event)
<1>1. w \in Seq(S)
  <2>1. DOMAIN r.listens \in SUBSET (1 .. r.nextId - 1) /\ r.nextId \in Nat \ {0}
    BY DEF RemoteInv, RemoteCore, RemoteShape, Allocated
  <2>2. IsFiniteSet(1 .. r.nextId - 1)
    BY <2>1, FS_Interval
  <2>3. S \in SUBSET (1 .. r.nextId - 1)
    BY <2>1
  <2>4. IsFiniteSet(S) /\ S \in SUBSET Nat
    BY <2>1, <2>2, <2>3, FS_Subset
  <2> QED BY <2>4, AscendingFacts
<1>2. p.client = c /\ p.ground = G
  OBVIOUS
<1> HIDE DEF p
<1>3. d = Rewatching!Run(c, w, p)
  BY DEF RewatchMismatches, RewatchOne, FoldLeft, MapThenFoldSet, Max, Rewatching!Run,
         Rewatching!Last
<1> HIDE DEF w, d
<1>4. RewatchedSoFar(c, 0, p)
  BY <1>2 DEF RewatchedSoFar, Kept
<1>5. ASSUME NEW i \in 1 .. Len(w), NEW e, RewatchedSoFar(e, i - 1, p)
      PROVE  RewatchedSoFar(RewatchOne(e, w[i], p), i, p)
  <2> DEFINE f == RewatchOne(e, w[i], p)
  <2>1. w[i] \in S
    BY <1>1
  <2>2. /\ DOMAIN e = ClientFields /\ RemoteInv(e.remote, G) /\ e.remote.stream = "Open"
        /\ w[i] \in DOMAIN e.remote.listens
    BY <1>2, <1>5, <2>1 DEF RewatchedSoFar, Kept
  <2>3. Kept(e, f) /\ RemoteInv(f.remote, G) /\ MoreAsked(e.remote, f.remote)
    BY <2>2, RewatchKeeps DEF RewatchOne
  <2> HIDE DEF f
  <2> QED BY <1>2, <1>5, <2>3 DEF RewatchedSoFar, Kept, MoreAsked, f
<1>6. RewatchedSoFar(d, Len(w), p)
  BY <1>1, <1>3, <1>4, <1>5, Rewatching!FoldKeeps
<1> QED BY <1>2, <1>6 DEF RewatchedSoFar, d

-----------------------------------------------------------------------------
(* Limbo resolution, in the middle of a task: X are the targets that are   *)
(* listened to though no table says so, T the keys that are about to lose  *)
(* their place.                                                            *)

Unpumped(c, G, X, T) ==
  /\ ClientInv(c, G, T)
  /\ Watched(c.remote) = DOMAIN c.engine.active \cup DOMAIN c.engine.views \cup X

Working(c, G, X, T) == Unpumped(c, G, X, T) /\ Pumped(c.engine)

(* k does not wait, and its resolution, if there is one, is the target t.  *)
Held(c, k, t) ==
  /\ k \notin Range(c.engine.enqueued)
  /\ k \in DOMAIN c.engine.active =>
       t \in DOMAIN c.remote.listens /\ c.remote.listens[t].sdk = k

HeldOn(c, d, A) == \A k \in Keys \ A, t \in Nat : Held(c, k, t) => Held(d, k, t)

(* What no step of limbo resolution changes.                               *)
Within(c, d) ==
  /\ d.store = c.store /\ d.engine.views = c.engine.views
  /\ Quiet(c.remote, d.remote) /\ Evolves(c.remote, d.remote, Keys)

(* Only resolutions are started, of documents that waited.                 *)
Starts(c, d) ==
  /\ Evolves(c.remote, d.remote, {})
  /\ DOMAIN d.engine.active \cup Range(d.engine.enqueued)
       \subseteq DOMAIN c.engine.active \cup Range(c.engine.enqueued)

(* Steps that only start resolutions compose.                              *)
LEMMA StartsOn ==
  ASSUME NEW c, NEW d, NEW e, Starts(c, d), Starts(d, e)
  PROVE  Starts(c, e)
<1>1. Evolves(c.remote, e.remote, {} \cup {})
  BY EvolvesOn DEF Starts
<1>2. {} \cup {} = {}
  OBVIOUS
<1>3. Evolves(c.remote, e.remote, {})
  BY <1>1, <1>2
<1> QED BY <1>3 DEF Starts

(* Steps of limbo resolution compose.                                      *)
LEMMA WithinOn ==
  ASSUME NEW c, NEW d, NEW e, Within(c, d), Within(d, e)
  PROVE  Within(c, e)
<1>1. Evolves(c.remote, e.remote, Keys \cup Keys)
  BY EvolvesOn DEF Within
<1>2. Keys \cup Keys = Keys
  OBVIOUS
<1>3. Evolves(c.remote, e.remote, Keys)
  BY <1>1, <1>2
<1> QED BY <1>3 DEF Within, Quiet

(* What they hold composes too.                                            *)
LEMMA HeldOnOn ==
  ASSUME NEW c, NEW d, NEW e, NEW A, NEW B, HeldOn(c, d, A), HeldOn(d, e, B)
  PROVE  HeldOn(c, e, A \cup B)
BY DEF HeldOn

(* What is known of the client in the middle of a task.                    *)
LEMMA UnpumpedFacts ==
  ASSUME NEW c, NEW G, NEW X, NEW T, Unpumped(c, G, X, T)
  PROVE  /\ Basic(c, G) /\ OnlineSound(c.remote) /\ RemoteInv(c.remote, G)
         /\ DOMAIN c = ClientFields /\ DOMAIN c.store = StoreFields
         /\ EngineShape(c.engine) /\ IsFunction(c.engine) /\ DOMAIN c.engine = EngineFields
         /\ c.remote.nextId \in Nat
         /\ IsFiniteSet(DOMAIN c.engine.active)
         /\ Cardinality(DOMAIN c.engine.active) \in Nat
         /\ c.engine.enqueued \in Seq(Keys)
         /\ DOMAIN c.engine.active \subseteq Keys
<1>1. DOMAIN c.engine.active \subseteq Keys
  BY DEF Unpumped, ClientInv, EngineShape
<1>2. IsFiniteSet(DOMAIN c.engine.active)
  BY <1>1, FinitelyMany, FS_Subset
<1>3. Cardinality(DOMAIN c.engine.active) \in Nat
  BY <1>2, FS_CardinalityType
<1> QED BY <1>1, <1>2, <1>3
     DEF Unpumped, ClientInv, Basic, RemoteInv, RemoteCore, RemoteShape, EngineShape

(* The head of a queue without repetitions.                                *)
LEMMA HeadFacts ==
  ASSUME NEW q \in Seq(Keys), q # << >>, IsInjective(q)
  PROVE  /\ Tail(q) \in Seq(Keys) /\ Head(q) \in Keys /\ Head(q) = q[1]
         /\ Range(q) = Range(Tail(q)) \cup {Head(q)} /\ Head(q) \notin Range(Tail(q))
         /\ IsInjective(Tail(q))
         /\ Len(q) \in Nat \ {0} /\ Len(Tail(q)) = Len(q) - 1
         /\ \A i \in 1 .. Len(q) - 1 : Tail(q)[i] = q[i + 1]
<1>1. /\ Tail(q) \in Seq(Keys) /\ Head(q) = q[1]
      /\ Len(q) \in Nat \ {0} /\ DOMAIN q = 1 .. Len(q)
      /\ Len(Tail(q)) = Len(q) - 1 /\ DOMAIN Tail(q) = 1 .. Len(q) - 1
      /\ \A i \in 1 .. Len(q) - 1 : Tail(q)[i] = q[i + 1]
  BY TailFacts DEF IsSequence
<1>2. Head(q) \in Keys /\ 1 \in DOMAIN q
  BY <1>1
<1>3. \A i \in DOMAIN Tail(q) : i + 1 \in DOMAIN q /\ i + 1 # 1 /\ Tail(q)[i] = q[i + 1]
  BY <1>1
<1>4. \A i \in DOMAIN q : i = 1 \/ (i - 1 \in DOMAIN Tail(q) /\ Tail(q)[i - 1] = q[i])
  <2> TAKE i \in DOMAIN q
  <2>1. i \in Nat /\ i >= 1 /\ i <= Len(q)
    BY <1>1
  <2>2. CASE i # 1
    <3> DEFINE k == i - 1
    <3>1. k \in 1 .. Len(q) - 1 /\ k + 1 = i
      BY <1>1, <2>1, <2>2
    <3> HIDE DEF k
    <3>2. k \in DOMAIN Tail(q) /\ Tail(q)[k] = q[i]
      BY <1>1, <3>1
    <3> QED BY <3>2 DEF k
  <2>3. CASE i = 1
    BY <2>3
  <2> QED BY <2>2, <2>3
<1>5. Range(q) = Range(Tail(q)) \cup {Head(q)}
  BY <1>1, <1>2, <1>3, <1>4 DEF Range
<1>6. Head(q) \notin Range(Tail(q))
  BY <1>1, <1>2, <1>3 DEF Range, IsInjective
<1>7. IsInjective(Tail(q))
  <2> SUFFICES ASSUME NEW i \in DOMAIN Tail(q), NEW j \in DOMAIN Tail(q),
                      Tail(q)[i] = Tail(q)[j]
               PROVE  i = j
    BY DEF IsInjective
  <2>1. i + 1 = j + 1 /\ i \in Nat /\ j \in Nat
    BY <1>1, <1>3 DEF IsInjective
  <2> QED BY <2>1
<1> QED BY <1>1, <1>2, <1>5, <1>6, <1>7

(* RemoteStore's listen is such a step.                                    *)
LEMMA ListenWithin ==
  ASSUME NEW c, NEW d, NEW G, RemoteMoves(c, d, G, {})
  PROVE  /\ Within(c, d) /\ d.engine = c.engine /\ DOMAIN d = ClientFields
         /\ HeldOn(c, d, {})
<1>1. Evolves(c.remote, d.remote, Keys) /\ d.engine = c.engine /\ d.store = c.store
  BY DEF RemoteMoves, Evolves, Kept
<1>2. HeldOn(c, d, {})
  BY <1>1 DEF RemoteMoves, Evolves, HeldOn, Held
<1> QED BY <1>1, <1>2 DEF RemoteMoves, Within, Kept

(* startLimboResolution for the key at the head of the queue.              *)
LEMMA StartKeeps ==
  ASSUME NEW c, NEW G, NEW X, NEW T, Unpumped(c, G, X, T), c.engine.enqueued # << >>,
         Cardinality(DOMAIN c.engine.active) < MaxLimbo,
         NEW key, key = Head(c.engine.enqueued)
  PROVE  LET d == StartLimboResolution(c, key)
         IN  /\ Unpumped(d, G, X, T) /\ Within(c, d) /\ HeldOn(c, d, {})
             /\ Starts(c, d)
             /\ d.engine.refs = c.engine.refs
             /\ d.engine.enqueued = Tail(c.engine.enqueued)
             /\ Cardinality(DOMAIN d.engine.active) = Cardinality(DOMAIN c.engine.active) + 1
<1> DEFINE e == c.engine
           q == e.enqueued
           f == [[e EXCEPT !.enqueued = Tail(@)] EXCEPT !.active = With(@, key, FALSE)]
           b == [c EXCEPT !.engine.enqueued = Tail(@), !.engine.active = With(@, key, FALSE)]
           target == [token |-> 0, ver |-> 0]
           d == RemoteStoreListen(b, key, target)
<1>0. /\ Basic(c, G) /\ OnlineSound(c.remote) /\ RemoteInv(c.remote, G)
      /\ DOMAIN c = ClientFields /\ DOMAIN c.store = StoreFields
      /\ EngineShape(e) /\ IsFunction(e) /\ DOMAIN e = EngineFields
      /\ c.remote.nextId \in Nat
      /\ IsFiniteSet(DOMAIN e.active) /\ q \in Seq(Keys) /\ DOMAIN e.active \subseteq Keys
  BY UnpumpedFacts
<1>1. /\ IsInjective(q) /\ DOMAIN e.active \cap Range(q) = {}
      /\ \A k \in DOMAIN e.active \cup Range(q) : k \in T \/ Referenced(e, k)
  BY DEF Unpumped, ClientInv, Limbo
<1>2. /\ Tail(q) \in Seq(Keys) /\ key \in Keys
      /\ Range(q) = Range(Tail(q)) \cup {key} /\ key \notin Range(Tail(q))
      /\ IsInjective(Tail(q))
  BY <1>0, <1>1, HeadFacts
<1>3. DOMAIN b = ClientFields /\ b.engine = f /\ b.remote = c.remote /\ b.store = c.store
  BY <1>0 DEF ClientFields, EngineFields
<1> DEFINE act == With(e.active, key, FALSE)
           tail == Tail(q)
<1>4. DOMAIN act = DOMAIN e.active \cup {key}
  BY DEF With
<1> HIDE DEF act, tail
<1>5. f = [[e EXCEPT !.enqueued = tail] EXCEPT !.active = act]
  BY <1>0 DEF act, tail, EngineFields
<1>6. /\ IsFunction(f) /\ DOMAIN f = EngineFields /\ f.views = e.views
      /\ f.refs = e.refs /\ f.enqueued = tail /\ f.active = act
  <2> HIDE DEF f
  <2> QED BY <1>0, <1>5 DEF EngineFields, IsFunction
<1> HIDE DEF b, f, target
<1>7. EngineShape(f)
  BY <1>0, <1>2, <1>4, <1>6 DEF EngineShape, tail
<1>8. Basic(b, G) /\ OnlineSound(b.remote)
  BY <1>0, <1>3, <1>7 DEF Basic
<1>9. RemoteMoves(b, d, G, {}) /\ Watched(d.remote) = Watched(c.remote) \cup {key}
  <2>1. RemoteMoves(b, d, G, {}) /\ Watched(d.remote) = Watched(b.remote) \cup {key}
    BY <1>8, ListenKeeps, Zenon
  <2> HIDE DEF d
  <2> QED BY <1>3, <2>1
<1> HIDE DEF d
<1>10. Within(b, d) /\ d.engine = f /\ DOMAIN d = ClientFields /\ HeldOn(b, d, {})
  BY <1>3, <1>9, ListenWithin
<1>11. Cardinality(DOMAIN f.active) = Cardinality(DOMAIN e.active) + 1
  <2>1. key \notin DOMAIN e.active /\ DOMAIN f.active = DOMAIN e.active \cup {key}
    BY <1>1, <1>2, <1>4, <1>6
  <2> QED BY <1>0, <2>1, FS_AddElement
<1>12. Limbo(f, T)
  <2>1. \A k \in DOMAIN f.active \cup Range(f.enqueued) : k \in T \/ Referenced(f, k)
    BY <1>1, <1>2, <1>4, <1>6 DEF Referenced, tail
  <2>2. DOMAIN f.active \cap Range(f.enqueued) = {} /\ IsInjective(f.enqueued)
    BY <1>1, <1>2, <1>4, <1>6 DEF tail
  <2>3. Cardinality(DOMAIN f.active) <= MaxLimbo
    BY <1>0, <1>11, LimboLimit, FS_CardinalityType
  <2> QED BY <2>1, <2>2, <2>3 DEF Limbo
<1>13. OfflineKnown(d)
  BY <1>3, <1>6, <1>10 DEF Unpumped, ClientInv, OfflineKnown, Within, Quiet
<1>14. Unpumped(d, G, X, T)
  <2>1. Watched(d.remote) = DOMAIN f.active \cup DOMAIN f.views \cup X
    BY <1>4, <1>6, <1>9 DEF Unpumped
  <2>2. d.store = c.store /\ RemoteInv(d.remote, G)
    BY <1>3, <1>9 DEF RemoteMoves, Kept
  <2> QED BY <1>0, <1>7, <1>10, <1>12, <1>13, <2>1, <2>2 DEF Unpumped, ClientInv
<1>15. Within(c, d)
  BY <1>3, <1>6, <1>10 DEF Within
<1>16. HeldOn(c, d, {})
  <2>1. HeldOn(c, b, {})
    BY <1>2, <1>3, <1>4, <1>6 DEF HeldOn, Held, tail
  <2> QED BY <1>10, <2>1 DEF HeldOn
<1>17. d = StartLimboResolution(c, key)
  BY DEF StartLimboResolution, d, b, target
<1>18. Starts(c, d)
  <2>1. Evolves(c.remote, d.remote, {})
    BY <1>3, <1>9 DEF RemoteMoves
  <2>2. DOMAIN d.engine.active \cup Range(d.engine.enqueued)
          \subseteq DOMAIN e.active \cup Range(q)
    BY <1>2, <1>4, <1>6, <1>10 DEF tail
  <2> QED BY <2>1, <2>2 DEF Starts
<1> QED BY <1>6, <1>10, <1>11, <1>14, <1>15, <1>16, <1>17, <1>18 DEF tail

Begin(d, key, p) == StartLimboResolution(d, key)

PumpedSoFar(d, i, p) ==
  LET was == p.client.engine.enqueued
      q   == d.engine.enqueued
  IN  /\ Unpumped(d, p.ground, p.extra, p.exempt)
      /\ Within(p.client, d) /\ HeldOn(p.client, d, {}) /\ Starts(p.client, d)
      /\ d.engine.refs = p.client.engine.refs
      /\ Len(q) = Len(was) - i
      /\ \A j \in 1 .. Len(q) : q[j] = was[j + i]
      /\ Cardinality(DOMAIN d.engine.active)
           = Cardinality(DOMAIN p.client.engine.active) + i

Pumping == INSTANCE FoldTheorems WITH Op <- Begin, Inv <- PumpedSoFar

(* One resolution more has been started.                                   *)
LEMMA BeginKeeps ==
  ASSUME NEW p, Unpumped(p.client, p.ground, p.extra, p.exempt),
         NEW i \in Nat \ {0}, i <= Len(p.client.engine.enqueued),
         Cardinality(DOMAIN p.client.engine.active) + i <= MaxLimbo,
         NEW key, key = p.client.engine.enqueued[i],
         NEW d, PumpedSoFar(d, i - 1, p)
  PROVE  PumpedSoFar(Begin(d, key, p), i, p)
<1> DEFINE was == p.client.engine.enqueued
           q == d.engine.enqueued
           e == StartLimboResolution(d, key)
           card == Cardinality(DOMAIN p.client.engine.active)
<1>1. /\ Unpumped(d, p.ground, p.extra, p.exempt)
      /\ Within(p.client, d) /\ HeldOn(p.client, d, {}) /\ Starts(p.client, d)
      /\ d.engine.refs = p.client.engine.refs
      /\ Len(q) = Len(was) - (i - 1)
      /\ \A j \in 1 .. Len(q) : q[j] = was[j + (i - 1)]
      /\ Cardinality(DOMAIN d.engine.active) = card + (i - 1)
  BY DEF PumpedSoFar
<1>2. q \in Seq(Keys) /\ IsInjective(q) /\ was \in Seq(Keys) /\ card \in Nat
  BY <1>1, UnpumpedFacts DEF Unpumped, ClientInv, Limbo
<1>3. Len(was) \in Nat /\ Len(q) \in Nat \ {0} /\ q # << >>
  <2>1. Len(was) \in Nat /\ Len(q) \in Nat
    BY <1>2
  <2>2. Len(q) > 0
    BY <1>1, <2>1
  <2> QED BY <1>2, <2>1, <2>2
<1>4. /\ Head(q) = q[1] /\ Len(Tail(q)) = Len(q) - 1
      /\ \A j \in 1 .. Len(q) - 1 : Tail(q)[j] = q[j + 1]
  BY <1>2, <1>3, HeadFacts
<1>5. Head(q) = key
  <2>1. 1 \in 1 .. Len(q) /\ 1 + (i - 1) = i
    BY <1>3
  <2>2. q[1] = was[1 + (i - 1)]
    BY <1>1, <2>1
  <2> QED BY <1>4, <2>1, <2>2
<1>6. Cardinality(DOMAIN d.engine.active) < MaxLimbo
  BY <1>1, <1>2, LimboLimit
<1>7. /\ Unpumped(e, p.ground, p.extra, p.exempt) /\ Within(d, e) /\ HeldOn(d, e, {})
      /\ Starts(d, e) /\ e.engine.refs = d.engine.refs
      /\ e.engine.enqueued = Tail(q)
      /\ Cardinality(DOMAIN e.engine.active) = Cardinality(DOMAIN d.engine.active) + 1
  BY <1>1, <1>3, <1>5, <1>6, StartKeeps
<1> HIDE DEF e
<1>8. Within(p.client, e) /\ Starts(p.client, e)
  BY <1>1, <1>7, WithinOn, StartsOn
<1>9. HeldOn(p.client, e, {})
  BY <1>1, <1>7 DEF HeldOn
<1>10. Cardinality(DOMAIN e.engine.active) = card + i
  BY <1>1, <1>2, <1>7
<1> HIDE DEF was, q
<1>11. Len(Tail(q)) = Len(was) - i
  BY <1>1, <1>3, <1>4
<1>12. \A j \in 1 .. Len(Tail(q)) : Tail(q)[j] = was[j + i]
  <2> TAKE j \in 1 .. Len(Tail(q))
  <2>1. j \in 1 .. Len(q) - 1
    BY <1>4
  <2> DEFINE k == j + 1
  <2>2. k \in 1 .. Len(q) /\ k + (i - 1) = j + i
    BY <1>3, <2>1
  <2>3. Tail(q)[j] = q[k]
    BY <1>4, <2>1
  <2> HIDE DEF k
  <2>4. q[k] = was[k + (i - 1)]
    BY <1>1, <2>2
  <2> QED BY <2>2, <2>3, <2>4
<1> QED BY <1>7, <1>8, <1>9, <1>1, <1>10, <1>11, <1>12 DEF PumpedSoFar, Begin, was, q, e

(* pumpEnqueuedLimboResolutions: afterwards all places are taken, or       *)
(* nobody waits.                                                           *)
LEMMA PumpKeeps ==
  ASSUME NEW c, NEW G, NEW X, NEW T, Unpumped(c, G, X, T)
  PROVE  LET d == Pump(c)
         IN  /\ Working(d, G, X, T) /\ Within(c, d) /\ HeldOn(c, d, {})
             /\ Starts(c, d) /\ d.engine.refs = c.engine.refs
<1> DEFINE waiting == c.engine.enqueued
           card == Cardinality(DOMAIN c.engine.active)
           free == MaxLimbo - card
           n == IF free < Len(waiting) THEN free ELSE Len(waiting)
           w == SubSeq(waiting, 1, n)
           p == [client |-> c, ground |-> G, extra |-> X, exempt |-> T]
           d == Pump(c)
<1>1. /\ waiting \in Seq(Keys) /\ Len(waiting) \in Nat /\ card \in Nat
      /\ card <= MaxLimbo /\ c.remote.nextId \in Nat
  <2>1. waiting \in Seq(Keys) /\ card \in Nat /\ c.remote.nextId \in Nat
    BY UnpumpedFacts
  <2>2. card <= MaxLimbo
    BY DEF Unpumped, ClientInv, Limbo
  <2> QED BY <2>1, <2>2
<1>2. n \in Nat /\ n <= Len(waiting) /\ card + n <= MaxLimbo /\ (n = Len(waiting) \/ n = free)
  BY <1>1, LimboLimit
<1>3. p.client = c /\ p.ground = G /\ p.extra = X /\ p.exempt = T
  OBVIOUS
<1>4. d = FoldLeft(StartLimboResolution, c, w)
  BY DEF Pump
<1> HIDE DEF n, p, d
<1>5. w \in Seq(Keys) /\ Len(w) = n /\ \A i \in 1 .. n : w[i] = waiting[i]
  <2>1. \A i \in 1 .. n : waiting[i] \in Keys
    BY <1>1, <1>2
  <2>2. w = [i \in 1 .. n |-> waiting[i]]
    <3>1. w = [i \in 1 .. (1 + n) - 1 |-> waiting[(i + 1) - 1]]
      BY <1>1, <1>2
    <3> QED BY <1>2, <3>1
  <2> HIDE DEF w
  <2> QED BY <1>2, <2>1, <2>2
<1> HIDE DEF w
<1>6. d = Pumping!Run(c, w, p)
  BY <1>4 DEF Begin, FoldLeft, MapThenFoldSet, Max, Pumping!Run,
         Pumping!Last
<1>7. PumpedSoFar(c, 0, p)
  <2>1. Within(c, c) /\ HeldOn(c, c, {}) /\ Starts(c, c)
    BY <1>1 DEF Within, HeldOn, Quiet, Evolves, Starts
  <2> HIDE DEF waiting, card
  <2>2. Len(waiting) = Len(waiting) - 0 /\ card = card + 0
        /\ \A j \in 1 .. Len(waiting) : waiting[j] = waiting[j + 0]
    BY <1>1
  <2> QED BY <1>3, <2>1, <2>2 DEF PumpedSoFar, waiting, card
<1>8. ASSUME NEW i \in 1 .. n, NEW e, PumpedSoFar(e, i - 1, p)
      PROVE  PumpedSoFar(Begin(e, w[i], p), i, p)
  <2>1. i \in Nat \ {0} /\ i <= Len(p.client.engine.enqueued)
        /\ Cardinality(DOMAIN p.client.engine.active) + i <= MaxLimbo
        /\ w[i] = p.client.engine.enqueued[i]
    BY <1>1, <1>2, <1>3, <1>5, LimboLimit
  <2>2. Unpumped(p.client, p.ground, p.extra, p.exempt)
    BY <1>3
  <2> QED BY <1>8, <2>1, <2>2, BeginKeeps
<1>9. PumpedSoFar(d, n, p)
  BY <1>5, <1>6, <1>7, <1>8, Pumping!FoldKeeps
<1>10. /\ Unpumped(d, G, X, T) /\ Within(c, d) /\ HeldOn(c, d, {})
       /\ Starts(c, d) /\ d.engine.refs = c.engine.refs
       /\ Len(d.engine.enqueued) = Len(waiting) - n
       /\ Cardinality(DOMAIN d.engine.active) = card + n
  BY <1>3, <1>9 DEF PumpedSoFar
<1>11. Pumped(d.engine)
  <2>1. CASE n = Len(waiting)
    <3>1. d.engine.enqueued \in Seq(Keys) /\ Len(d.engine.enqueued) = 0
      BY <1>1, <1>10, <2>1, UnpumpedFacts
    <3>2. d.engine.enqueued = << >>
      BY <3>1
    <3> QED BY <3>2 DEF Pumped
  <2>2. CASE n = free
    BY <1>1, <1>10, <2>2, LimboLimit DEF Pumped
  <2> QED BY <1>2, <2>1, <2>2
<1> QED BY <1>10, <1>11 DEF Working, d

(* A step that leaves RemoteStore, the store and the views alone.          *)
LEMMA WithinSelf ==
  ASSUME NEW c, NEW d, c.remote.nextId \in Nat,
         d.remote = c.remote, d.store = c.store, d.engine.views = c.engine.views
  PROVE  Within(c, d)
BY DEF Within, Quiet, Evolves

(* A step of limbo resolution, with the references R that it leaves; only  *)
(* the resolutions of the documents A may change hands.                    *)
LimboMoves(c, d, G, X, T, A, R) ==
  /\ Working(d, G, X, T) /\ Within(c, d) /\ HeldOn(c, d, A)
  /\ d.engine.refs = R

(* What else is left when only the references change.                      *)
SamePlaces(c, d) ==
  /\ d.remote = c.remote
  /\ d.engine.active = c.engine.active /\ d.engine.enqueued = c.engine.enqueued

(* Documents that lose their last reference are exempt.                    *)
LEMMA RefsKeep ==
  ASSUME NEW c, NEW G, NEW X, NEW T, Working(c, G, X, T), NEW A,
         NEW R \in SUBSET (Keys \X Queries),
         \A k \in Keys \ A : Referenced(c.engine, k) => \E q \in Queries : <<k, q>> \in R,
         NEW d, d = [c EXCEPT !.engine.refs = R]
  PROVE  LimboMoves(c, d, G, X, T \cup A, {}, R) /\ SamePlaces(c, d)
<1> DEFINE e == c.engine
           f == [e EXCEPT !.refs = R]
<1>0. /\ RemoteInv(c.remote, G) /\ DOMAIN c = ClientFields /\ DOMAIN c.store = StoreFields
      /\ EngineShape(e) /\ IsFunction(e) /\ DOMAIN e = EngineFields
      /\ c.remote.nextId \in Nat
  BY UnpumpedFacts DEF Working
<1>1. DOMAIN d = ClientFields /\ d.engine = f /\ d.remote = c.remote /\ d.store = c.store
  BY <1>0 DEF ClientFields
<1>2. /\ IsFunction(f) /\ DOMAIN f = EngineFields /\ f.refs = R
      /\ f.views = e.views /\ f.active = e.active /\ f.enqueued = e.enqueued
  BY <1>0 DEF IsFunction, EngineFields
<1> HIDE DEF f
<1>3. EngineShape(f)
  BY <1>0, <1>2 DEF EngineShape
<1>4. DOMAIN e.active \cup Range(e.enqueued) \subseteq Keys
  BY <1>0 DEF EngineShape, Range
<1>5. Limbo(f, T \cup A)
  <2>1. Limbo(e, T)
    BY DEF Working, Unpumped, ClientInv
  <2>2. ASSUME NEW k \in DOMAIN f.active \cup Range(f.enqueued)
        PROVE  k \in T \cup A \/ Referenced(f, k)
    <3>1. k \in Keys /\ (k \in T \/ Referenced(e, k))
      BY <1>2, <1>4, <2>1 DEF Limbo
    <3> QED BY <1>2, <3>1 DEF Referenced
  <2> QED BY <1>2, <2>1, <2>2 DEF Limbo
<1>6. OfflineKnown(d)
  BY <1>1, <1>2 DEF Working, Unpumped, ClientInv, OfflineKnown
<1>7. Unpumped(d, G, X, T \cup A)
  BY <1>0, <1>1, <1>2, <1>3, <1>5, <1>6 DEF Working, Unpumped, ClientInv
<1>8. Pumped(f)
  BY <1>2 DEF Working, Pumped
<1>9. HeldOn(c, d, {})
  BY <1>1, <1>2 DEF HeldOn, Held
<1>10. Within(c, d)
  BY <1>0, <1>1, <1>2, WithinSelf
<1> QED BY <1>1, <1>2, <1>7, <1>8, <1>9, <1>10 DEF Working, LimboMoves, SamePlaces

(* A document that is referenced or has no place needs no exemption.       *)
LEMMA ExemptLess ==
  ASSUME NEW c, NEW G, NEW X, NEW T, Working(c, G, X, T), NEW U,
         \A k \in T : k \in U \/ Referenced(c.engine, k)
                        \/ k \notin DOMAIN c.engine.active \cup Range(c.engine.enqueued)
  PROVE  Working(c, G, X, U)
<1>1. Limbo(c.engine, U)
  BY DEF Working, Unpumped, ClientInv, Limbo
<1> QED BY <1>1 DEF Working, Unpumped, ClientInv

(* removeLimboTarget: the document has no place any more.                  *)
LEMMA RemoveLimboKeeps ==
  ASSUME NEW c, NEW G, NEW X \in SUBSET Queries, NEW T, Working(c, G, X, T), NEW key \in Keys
  PROVE  LET d == RemoveLimboTarget(c, key)
         IN  /\ Working(d, G, X, T \ {key}) /\ Within(c, d) /\ HeldOn(c, d, {})
             /\ d.engine.refs = c.engine.refs
<1> DEFINE e == c.engine
           q == Filter(e.enqueued, Keys \ {key})
           f == [e EXCEPT !.enqueued = q]
           b == [c EXCEPT !.engine.enqueued = Filter(@, Keys \ {key})]
           d == RemoveLimboTarget(c, key)
<1>0. /\ Basic(c, G) /\ OnlineSound(c.remote) /\ RemoteInv(c.remote, G)
      /\ DOMAIN c = ClientFields /\ DOMAIN c.store = StoreFields
      /\ EngineShape(e) /\ IsFunction(e) /\ DOMAIN e = EngineFields
      /\ c.remote.nextId \in Nat
      /\ IsFiniteSet(DOMAIN e.active) /\ Cardinality(DOMAIN e.active) \in Nat
      /\ e.enqueued \in Seq(Keys) /\ DOMAIN e.active \subseteq Keys
  BY UnpumpedFacts DEF Working
<1>1. Limbo(e, T) /\ Watched(c.remote) = DOMAIN e.active \cup DOMAIN e.views \cup X
  BY DEF Working, Unpumped, ClientInv
<1>2. /\ q \in Seq(Keys) /\ Range(q) = Range(e.enqueued) \ {key} /\ IsInjective(q)
  <2>1. Range(e.enqueued) \subseteq Keys
    BY <1>0 DEF Range
  <2>2. IsInjective(e.enqueued)
    BY <1>1 DEF Limbo
  <2> QED BY <1>0, <2>1, <2>2, FilterFacts
<1>3. b = [c EXCEPT !.engine.enqueued = q]
  BY <1>0 DEF ClientFields, EngineFields
<1>4. d = IF key \notin DOMAIN e.active THEN b
          ELSE Pump([RemoteStoreUnlisten(b, key) EXCEPT !.engine.active = Without(@, key)])
  BY DEF RemoveLimboTarget
<1> HIDE DEF q
<1>5. DOMAIN b = ClientFields /\ b.engine = f /\ b.remote = c.remote /\ b.store = c.store
  BY <1>0, <1>3 DEF ClientFields, EngineFields
<1>6. /\ IsFunction(f) /\ DOMAIN f = EngineFields /\ f.refs = e.refs
      /\ f.views = e.views /\ f.active = e.active /\ f.enqueued = q
  BY <1>0 DEF IsFunction, EngineFields
<1> HIDE DEF b, f, d
<1>7. EngineShape(f)
  BY <1>0, <1>2, <1>6 DEF EngineShape
<1>8. Basic(b, G) /\ OnlineSound(b.remote)
  BY <1>0, <1>5, <1>7 DEF Basic
<1>9. DOMAIN e.views \subseteq Queries /\ Keys \cap Queries = {}
  BY <1>0, KeysAreNotQueries DEF EngineShape
<1>10. OfflineKnown(c)
  BY DEF Working, Unpumped, ClientInv
<1>11. CASE key \notin DOMAIN e.active
  <2>1. d = b
    BY <1>4, <1>11
  <2>2. Limbo(f, T \ {key})
    <3>1. \A k \in DOMAIN f.active \cup Range(f.enqueued) : k \in T \ {key} \/ Referenced(f, k)
      BY <1>1, <1>2, <1>6, <1>11 DEF Limbo, Referenced
    <3> QED BY <1>1, <1>2, <1>6, <3>1 DEF Limbo
  <2>3. OfflineKnown(b)
    BY <1>5, <1>6, <1>10 DEF OfflineKnown
  <2>4. Unpumped(b, G, X, T \ {key})
    BY <1>0, <1>1, <1>5, <1>6, <1>7, <2>2, <2>3 DEF Unpumped, ClientInv
  <2>5. Pumped(f)
    <3>1. q # << >> => e.enqueued # << >>
      <4> SUFFICES ASSUME q # << >>, e.enqueued = << >> PROVE FALSE
        OBVIOUS
      <4>1. Range(e.enqueued) = {}
        BY EmptyFunction DEF Range
      <4>2. Range(q) = {}
        BY <1>2, <4>1
      <4>3. Len(q) \in Nat /\ DOMAIN q = 1 .. Len(q) /\ Len(q) # 0
        BY <1>2
      <4>4. 1 \in DOMAIN q
        BY <4>3
      <4> QED BY <4>2, <4>4 DEF Range
    <3> QED BY <1>6, <3>1 DEF Working, Pumped
  <2>6. HeldOn(c, b, {}) /\ Within(c, b)
    BY <1>0, <1>2, <1>5, <1>6, WithinSelf DEF HeldOn, Held
  <2> QED BY <1>5, <1>6, <2>1, <2>4, <2>5, <2>6 DEF Working, d
<1>12. CASE key \in DOMAIN e.active
  <2> DEFINE u == RemoteStoreUnlisten(b, key)
             act == Without(e.active, key)
             g == [f EXCEPT !.active = act]
             v == [u EXCEPT !.engine.active = Without(@, key)]
  <2>1. key \in Watched(b.remote)
    BY <1>1, <1>5, <1>12
  <2>2. RemoteMoves(b, u, G, {key}) /\ Watched(u.remote) = Watched(b.remote) \ {key}
    BY <1>8, <2>1, UnlistenKeeps, Zenon
  <2> HIDE DEF u
  <2>3. /\ Kept(b, u) /\ RemoteInv(u.remote, G) /\ Quiet(c.remote, u.remote)
        /\ Evolves(c.remote, u.remote, {key}) /\ DOMAIN u = ClientFields
        /\ u.engine = f /\ u.store = c.store
    BY <1>5, <2>2 DEF RemoteMoves, Kept
  <2>4. DOMAIN act = DOMAIN e.active \ {key}
    BY DEF Without
  <2>5. v.engine = g /\ v.remote = u.remote /\ v.store = c.store /\ DOMAIN v = ClientFields
    BY <1>6, <2>3 DEF ClientFields
  <2> HIDE DEF act, v
  <2>6. /\ IsFunction(g) /\ DOMAIN g = EngineFields /\ g.refs = e.refs
        /\ g.views = e.views /\ g.active = act /\ g.enqueued = q
    BY <1>6 DEF IsFunction, EngineFields
  <2> HIDE DEF g
  <2>7. EngineShape(g)
    BY <1>0, <1>2, <2>4, <2>6 DEF EngineShape
  <2>8. Cardinality(DOMAIN act) <= MaxLimbo
    <3>1. Cardinality(DOMAIN e.active \ {key}) = Cardinality(DOMAIN e.active) - 1
      BY <1>0, <1>12, FS_RemoveElement
    <3>2. Cardinality(DOMAIN e.active) <= MaxLimbo
      BY <1>1 DEF Limbo
    <3> QED BY <1>0, <2>4, <3>1, <3>2, LimboLimit
  <2>9. Limbo(g, T \ {key})
    <3>1. \A k \in DOMAIN g.active \cup Range(g.enqueued) : k \in T \ {key} \/ Referenced(g, k)
      BY <1>1, <1>2, <2>4, <2>6 DEF Limbo, Referenced
    <3>2. DOMAIN g.active \cap Range(g.enqueued) = {}
      BY <1>1, <1>2, <2>4, <2>6 DEF Limbo
    <3> QED BY <1>2, <2>6, <2>8, <3>1, <3>2 DEF Limbo
  <2>10. OfflineKnown(v)
    BY <1>10, <2>3, <2>5, <2>6 DEF OfflineKnown, Quiet
  <2>11. Watched(v.remote) = DOMAIN g.active \cup DOMAIN g.views \cup X
    <3>1. Watched(u.remote) = (DOMAIN e.active \cup DOMAIN e.views \cup X) \ {key}
      BY <1>1, <1>5, <2>2
    <3>2. key \notin DOMAIN e.views \cup X
      BY <1>9
    <3> QED BY <2>4, <2>5, <2>6, <3>1, <3>2
  <2>12. Unpumped(v, G, X, T \ {key})
    BY <1>0, <2>3, <2>5, <2>7, <2>9, <2>10, <2>11 DEF Unpumped, ClientInv
  <2>13. d = Pump(v)
    BY <1>4, <1>12 DEF v, u
  <2>14. /\ Working(d, G, X, T \ {key}) /\ Within(v, d) /\ HeldOn(v, d, {})
         /\ d.engine.refs = v.engine.refs
    BY <2>12, <2>13, PumpKeeps
  <2>15. Within(c, v)
    <3>1. Evolves(c.remote, v.remote, Keys)
      BY <2>3, <2>5 DEF Evolves
    <3> QED BY <2>3, <2>5, <2>6, <3>1 DEF Within
  <2>16. HeldOn(c, v, {})
    <3> SUFFICES ASSUME NEW k \in Keys, NEW t \in Nat, Held(c, k, t) PROVE Held(v, k, t)
      BY DEF HeldOn
    <3>1. k \notin Range(g.enqueued)
      BY <1>2, <2>6 DEF Held
    <3>2. ASSUME k \in DOMAIN g.active
          PROVE  t \in DOMAIN v.remote.listens /\ v.remote.listens[t].sdk = k
      <4>1. k # key /\ k \in DOMAIN e.active
        BY <2>4, <2>6, <3>2
      <4> QED BY <2>3, <2>5, <4>1 DEF Held, Evolves
    <3> QED BY <2>5, <3>1, <3>2 DEF Held
  <2>17. Within(c, d) /\ HeldOn(c, d, {})
    BY <2>14, <2>15, <2>16, WithinOn DEF HeldOn
  <2> QED BY <2>5, <2>6, <2>14, <2>17 DEF d
<1> QED BY <1>11, <1>12

(* The same, between two steps of limbo resolution.                        *)
LEMMA WorkingFacts ==
  ASSUME NEW c, NEW G, NEW X, NEW T, Working(c, G, X, T)
  PROVE  /\ DOMAIN c = ClientFields /\ IsFunction(c.engine) /\ DOMAIN c.engine = EngineFields
         /\ EngineShape(c.engine) /\ c.engine.refs \in SUBSET (Keys \X Queries)
         /\ c.remote.nextId \in Nat /\ DOMAIN c.store = StoreFields
         /\ RemoteInv(c.remote, G)
BY UnpumpedFacts DEF Working, EngineShape

(* A view does not doubt a document any more.                              *)
LEMMA UntrackKeeps ==
  ASSUME NEW c, NEW G, NEW X \in SUBSET Queries, NEW T, Working(c, G, X, T),
         NEW q \in Queries, NEW key \in Keys
  PROVE  LimboMoves(c, Untrack(c, q, key), G, X, T, {}, c.engine.refs \ {<<key, q>>})
<1> DEFINE R == c.engine.refs \ {<<key, q>>}
           b == [c EXCEPT !.engine.refs = @ \ {<<key, q>>}]
           d == Untrack(c, q, key)
<1>0. DOMAIN c = ClientFields /\ DOMAIN c.engine = EngineFields
      /\ c.engine.refs \in SUBSET (Keys \X Queries)
  BY WorkingFacts
<1>1. b = [c EXCEPT !.engine.refs = R]
  BY <1>0 DEF ClientFields, EngineFields
<1>2. R \in SUBSET (Keys \X Queries)
  BY <1>0
<1>3. \A k \in Keys \ {key} : Referenced(c.engine, k) => \E p \in Queries : <<k, p>> \in R
  BY DEF Referenced
<1>4. d = IF IsReferenced(b, key) THEN b ELSE RemoveLimboTarget(b, key)
  BY DEF Untrack
<1> HIDE DEF R, b, d
<1>5. /\ Working(b, G, X, T \cup {key}) /\ Within(c, b) /\ HeldOn(c, b, {})
      /\ b.engine.refs = R
  <2> DEFINE A == {key}
  <2>1. \A k \in Keys \ A : Referenced(c.engine, k) => \E p \in Queries : <<k, p>> \in R
    BY <1>3
  <2> HIDE DEF A
  <2>2. LimboMoves(c, b, G, X, T \cup A, {}, R)
    BY <1>1, <1>2, <2>1, RefsKeep
  <2> QED BY <2>2 DEF LimboMoves, A
<1>6. CASE IsReferenced(b, key)
  <2>1. Referenced(b.engine, key) /\ d = b
    BY <1>4, <1>6 DEF IsReferenced, Referenced
  <2>2. Working(b, G, X, T)
    BY <1>5, <2>1, ExemptLess
  <2> QED BY <1>5, <2>1, <2>2 DEF R, d, LimboMoves
<1>7. CASE ~IsReferenced(b, key)
  <2>1. /\ Working(d, G, X, (T \cup {key}) \ {key}) /\ Within(b, d) /\ HeldOn(b, d, {})
        /\ d.engine.refs = b.engine.refs
    BY <1>4, <1>5, <1>7, RemoveLimboKeeps
  <2>2. Working(d, G, X, T)
    BY <2>1, ExemptLess
  <2>3. Within(c, d) /\ HeldOn(c, d, {})
    BY <1>5, <2>1, WithinOn DEF HeldOn
  <2> QED BY <1>5, <2>1, <2>2, <2>3 DEF R, d, LimboMoves
<1> QED BY <1>6, <1>7

(* A view doubts a document.                                               *)
LEMMA TrackKeeps ==
  ASSUME NEW c, NEW G, NEW X \in SUBSET Queries, NEW T, Working(c, G, X, T),
         NEW q \in Queries, NEW key \in Keys
  PROVE  LimboMoves(c, TrackLimbo(c, q, key), G, X, T, {key},
                    c.engine.refs \cup {<<key, q>>})
<1> DEFINE R == c.engine.refs \cup {<<key, q>>}
           b == [c EXCEPT !.engine.refs = @ \cup {<<key, q>>}]
           n == [b EXCEPT !.engine.enqueued = Append(@, key)]
           d == TrackLimbo(c, q, key)
<1>0. DOMAIN c = ClientFields /\ DOMAIN c.engine = EngineFields
      /\ c.engine.refs \in SUBSET (Keys \X Queries)
  BY WorkingFacts
<1>1. b = [c EXCEPT !.engine.refs = R]
  BY <1>0 DEF ClientFields, EngineFields
<1>2. R \in SUBSET (Keys \X Queries)
  BY <1>0
<1>3. \A k \in Keys \ {} : Referenced(c.engine, k) => \E p \in Queries : <<k, p>> \in R
  BY DEF Referenced
<1>4. d = IF key \in DOMAIN c.engine.active \cup Range(c.engine.enqueued) THEN b ELSE Pump(n)
  BY DEF TrackLimbo
<1>5. <<key, q>> \in R
  OBVIOUS
<1> HIDE DEF R, b, d
<1>6. /\ Working(b, G, X, T \cup {}) /\ Within(c, b) /\ HeldOn(c, b, {})
      /\ b.engine.refs = R
      /\ b.engine.active = c.engine.active /\ b.engine.enqueued = c.engine.enqueued
  <2> DEFINE A == {}
  <2>1. \A k \in Keys \ A : Referenced(c.engine, k) => \E p \in Queries : <<k, p>> \in R
    BY <1>3
  <2> HIDE DEF A
  <2>2. LimboMoves(c, b, G, X, T \cup A, {}, R) /\ SamePlaces(c, b)
    BY <1>1, <1>2, <2>1, RefsKeep
  <2> QED BY <2>2 DEF LimboMoves, SamePlaces, A
<1>7. Working(b, G, X, T)
  BY <1>6, ExemptLess
<1>8. CASE key \in DOMAIN c.engine.active \cup Range(c.engine.enqueued)
  <2>1. d = b
    BY <1>4, <1>8
  <2> QED BY <1>6, <1>7, <2>1 DEF R, HeldOn, d, LimboMoves
<1>9. CASE key \notin DOMAIN c.engine.active \cup Range(c.engine.enqueued)
  <2> DEFINE e == b.engine
             w == Append(e.enqueued, key)
             f == [e EXCEPT !.enqueued = w]
  <2>0. /\ RemoteInv(b.remote, G) /\ DOMAIN b = ClientFields /\ DOMAIN b.store = StoreFields
        /\ EngineShape(e) /\ IsFunction(e) /\ DOMAIN e = EngineFields
        /\ b.remote.nextId \in Nat
    BY <1>7, WorkingFacts
  <2>1. n.engine = f /\ n.remote = b.remote /\ n.store = b.store /\ DOMAIN n = ClientFields
    BY <2>0 DEF ClientFields, EngineFields
  <2>2. /\ w \in Seq(Keys) /\ Range(w) = Range(e.enqueued) \cup {key} /\ IsInjective(w)
    <3>0. e.enqueued \in Seq(Keys) /\ IsInjective(e.enqueued) /\ key \notin Range(e.enqueued)
      BY <1>6, <1>7, <1>9, <2>0 DEF Working, Unpumped, ClientInv, Limbo, EngineShape
    <3>1. /\ Len(e.enqueued) \in Nat /\ DOMAIN e.enqueued = 1 .. Len(e.enqueued)
          /\ DOMAIN w = 1 .. Len(e.enqueued) + 1
          /\ \A i \in 1 .. Len(e.enqueued) : w[i] = e.enqueued[i]
          /\ w[Len(e.enqueued) + 1] = key
      BY <3>0, AppendFacts DEF IsSequence
    <3>2. w \in Seq(Keys)
      BY <3>0
    <3> HIDE DEF w, e
    <3> DEFINE l == Len(e.enqueued) + 1
    <3>3. \A i \in DOMAIN w : (i \in DOMAIN e.enqueued /\ w[i] = e.enqueued[i])
                                \/ (i = l /\ w[i] = key)
      BY <3>1
    <3>4. l \in DOMAIN w /\ w[l] = key /\ \A i \in DOMAIN e.enqueued : i \in DOMAIN w
      BY <3>1
    <3> HIDE DEF l
    <3>5. Range(w) = Range(e.enqueued) \cup {key}
      BY <3>1, <3>3, <3>4 DEF Range
    <3>6. \A i \in DOMAIN e.enqueued : e.enqueued[i] # key
      BY <3>0 DEF Range
    <3>7. IsInjective(w)
      BY <3>0, <3>3, <3>6 DEF IsInjective
    <3> QED BY <3>2, <3>5, <3>7
  <2> HIDE DEF n, w
  <2>3. /\ IsFunction(f) /\ DOMAIN f = EngineFields /\ f.refs = e.refs
        /\ f.views = e.views /\ f.active = e.active /\ f.enqueued = w
    BY <2>0 DEF IsFunction, EngineFields
  <2> HIDE DEF f
  <2>4. EngineShape(f)
    BY <2>0, <2>2, <2>3 DEF EngineShape
  <2>5. Limbo(f, T)
    <3>0. Limbo(e, T)
      BY <1>7 DEF Working, Unpumped, ClientInv
    <3>1. Referenced(f, key)
      BY <1>5, <1>6, <2>3 DEF Referenced
    <3>2. \A k \in DOMAIN f.active \cup Range(f.enqueued) : k \in T \/ Referenced(f, k)
      BY <2>2, <2>3, <3>0, <3>1 DEF Limbo, Referenced
    <3>3. DOMAIN f.active \cap Range(f.enqueued) = {}
      BY <1>6, <1>9, <2>2, <2>3, <3>0 DEF Limbo
    <3> QED BY <2>2, <2>3, <3>0, <3>2, <3>3 DEF Limbo
  <2>6. OfflineKnown(n)
    BY <1>7, <2>1, <2>3 DEF Working, Unpumped, ClientInv, OfflineKnown
  <2>7. Unpumped(n, G, X, T)
    BY <1>7, <2>0, <2>1, <2>3, <2>4, <2>5, <2>6 DEF Working, Unpumped, ClientInv
  <2>8. /\ Working(d, G, X, T) /\ Within(n, d) /\ HeldOn(n, d, {})
        /\ d.engine.refs = n.engine.refs
    BY <1>4, <1>9, <2>7, PumpKeeps
  <2>9. Within(b, n)
    BY <2>0, <2>1, <2>3, WithinSelf
  <2>10. Within(c, d)
    BY <1>6, <2>8, <2>9, WithinOn
  <2>11. HeldOn(b, n, {key})
    BY <2>1, <2>2, <2>3 DEF HeldOn, Held
  <2>12. HeldOn(c, d, {key})
    BY <1>6, <2>8, <2>11 DEF HeldOn
  <2> QED BY <1>6, <2>1, <2>3, <2>8, <2>10, <2>12 DEF R, d, LimboMoves
<1> QED BY <1>8, <1>9

-----------------------------------------------------------------------------
(* updateTrackedLimbos.                                                    *)

UntrackOne(d, k, p) == Untrack(d, p.query, k)

UntrackedSoFar(d, i, p) ==
  /\ Working(d, p.ground, p.extra, {}) /\ Within(p.client, d) /\ HeldOn(p.client, d, {})
  /\ d.engine.refs = p.client.engine.refs \ ({p.keys[j] : j \in 1 .. i} \X {p.query})

Untracking == INSTANCE FoldTheorems WITH Op <- UntrackOne, Inv <- UntrackedSoFar

(* The loop over the documents that a view does not doubt any more.        *)
LEMMA UntrackAllKeeps ==
  ASSUME NEW c, NEW G, NEW X \in SUBSET Queries, Working(c, G, X, {}),
         NEW q \in Queries, NEW removed \in SUBSET Keys
  PROVE  LimboMoves(c, FoldLeft(LAMBDA d, k : Untrack(d, q, k), c, SetToSeq(removed)),
                    G, X, {}, {}, c.engine.refs \ (removed \X {q}))
<1> DEFINE w == SetToSeq(removed)
           p == [client |-> c, ground |-> G, extra |-> X, query |-> q, keys |-> w]
           d == FoldLeft(LAMBDA d, k : Untrack(d, q, k), c, SetToSeq(removed))
<1>0. w \in Seq(removed) /\ Range(w) = removed
  BY FinitelyMany, FS_Subset, SetToSeqFacts
<1>1. p.client = c /\ p.ground = G /\ p.extra = X /\ p.query = q /\ p.keys = w
  OBVIOUS
<1> HIDE DEF p
<1>2. d = Untracking!Run(c, w, p)
  BY <1>1 DEF UntrackOne, FoldLeft, MapThenFoldSet, Max, Untracking!Run,
         Untracking!Last
<1> HIDE DEF w, d
<1>3. Len(w) \in Nat /\ DOMAIN w = 1 .. Len(w) /\ \A i \in 1 .. Len(w) : w[i] \in Keys
  BY <1>0
<1>4. UntrackedSoFar(c, 0, p)
  <2>1. Within(c, c)
    BY WorkingFacts, WithinSelf
  <2>2. c.engine.refs \ ({w[j] : j \in 1 .. 0} \X {q}) = c.engine.refs
    OBVIOUS
  <2> QED BY <1>1, <2>1, <2>2 DEF UntrackedSoFar, HeldOn
<1>5. ASSUME NEW i \in 1 .. Len(w), NEW e, UntrackedSoFar(e, i - 1, p)
      PROVE  UntrackedSoFar(UntrackOne(e, w[i], p), i, p)
  <2> DEFINE f == Untrack(e, q, w[i])
  <2>1. /\ Working(e, G, X, {}) /\ Within(c, e) /\ HeldOn(c, e, {})
        /\ e.engine.refs = c.engine.refs \ ({w[j] : j \in 1 .. i - 1} \X {q})
    BY <1>1, <1>5 DEF UntrackedSoFar
  <2>2. LimboMoves(e, f, G, X, {}, {}, e.engine.refs \ {<<w[i], q>>})
    BY <1>3, <2>1, UntrackKeeps
  <2> HIDE DEF f
  <2>3. {w[j] : j \in 1 .. i} = {w[j] : j \in 1 .. i - 1} \cup {w[i]}
    BY <1>3
  <2>4. f.engine.refs = c.engine.refs \ ({w[j] : j \in 1 .. i} \X {q})
    BY <2>1, <2>2, <2>3 DEF LimboMoves
  <2>5. Within(c, f) /\ HeldOn(c, f, {})
    BY <2>1, <2>2, WithinOn DEF HeldOn, LimboMoves
  <2> QED BY <1>1, <2>2, <2>4, <2>5 DEF UntrackedSoFar, UntrackOne, LimboMoves, f
<1>6. UntrackedSoFar(d, Len(w), p)
  BY <1>0, <1>2, <1>4, <1>5, Untracking!FoldKeeps
<1>7. {w[j] : j \in 1 .. Len(w)} = removed
  BY <1>0, <1>3 DEF Range
<1>8. LimboMoves(c, d, G, X, {}, {}, c.engine.refs \ ({w[j] : j \in 1 .. Len(w)} \X {q}))
  BY <1>1, <1>6 DEF UntrackedSoFar, LimboMoves
<1> QED BY <1>7, <1>8, Zenon DEF d

TrackOne(d, k, p) == TrackLimbo(d, p.query, k)

TrackedSoFar(d, i, p) ==
  /\ Working(d, p.ground, p.extra, {}) /\ Within(p.client, d) /\ HeldOn(p.client, d, p.added)
  /\ d.engine.refs = p.client.engine.refs \cup ({p.keys[j] : j \in 1 .. i} \X {p.query})

Tracking == INSTANCE FoldTheorems WITH Op <- TrackOne, Inv <- TrackedSoFar

(* The loop over the documents that it begins to doubt.                    *)
LEMMA TrackAllKeeps ==
  ASSUME NEW c, NEW G, NEW X \in SUBSET Queries, Working(c, G, X, {}),
         NEW q \in Queries, NEW added \in SUBSET Keys
  PROVE  LimboMoves(c, FoldLeft(LAMBDA d, k : TrackLimbo(d, q, k), c, SetToSeq(added)),
                    G, X, {}, added, c.engine.refs \cup (added \X {q}))
<1> DEFINE w == SetToSeq(added)
           p == [client |-> c, ground |-> G, extra |-> X, query |-> q, keys |-> w,
                 added |-> added]
           d == FoldLeft(LAMBDA d, k : TrackLimbo(d, q, k), c, SetToSeq(added))
<1>0. w \in Seq(added) /\ Range(w) = added
  BY FinitelyMany, FS_Subset, SetToSeqFacts
<1>1. /\ p.client = c /\ p.ground = G /\ p.extra = X /\ p.query = q /\ p.keys = w
      /\ p.added = added
  OBVIOUS
<1> HIDE DEF p
<1>2. d = Tracking!Run(c, w, p)
  BY <1>1 DEF TrackOne, FoldLeft, MapThenFoldSet, Max, Tracking!Run,
         Tracking!Last
<1> HIDE DEF w, d
<1>3. Len(w) \in Nat /\ DOMAIN w = 1 .. Len(w)
      /\ \A i \in 1 .. Len(w) : w[i] \in Keys /\ w[i] \in added
  BY <1>0
<1>4. TrackedSoFar(c, 0, p)
  <2>1. Within(c, c)
    BY WorkingFacts, WithinSelf
  <2>2. c.engine.refs \cup ({w[j] : j \in 1 .. 0} \X {q}) = c.engine.refs
    OBVIOUS
  <2> QED BY <1>1, <2>1, <2>2 DEF TrackedSoFar, HeldOn
<1>5. ASSUME NEW i \in 1 .. Len(w), NEW e, TrackedSoFar(e, i - 1, p)
      PROVE  TrackedSoFar(TrackOne(e, w[i], p), i, p)
  <2> DEFINE f == TrackLimbo(e, q, w[i])
  <2>1. /\ Working(e, G, X, {}) /\ Within(c, e) /\ HeldOn(c, e, added)
        /\ e.engine.refs = c.engine.refs \cup ({w[j] : j \in 1 .. i - 1} \X {q})
    BY <1>1, <1>5 DEF TrackedSoFar
  <2>2. LimboMoves(e, f, G, X, {}, {w[i]}, e.engine.refs \cup {<<w[i], q>>})
    BY <1>3, <2>1, TrackKeeps
  <2> HIDE DEF f
  <2>3. {w[j] : j \in 1 .. i} = {w[j] : j \in 1 .. i - 1} \cup {w[i]}
    BY <1>3
  <2>4. f.engine.refs = c.engine.refs \cup ({w[j] : j \in 1 .. i} \X {q})
    BY <2>1, <2>2, <2>3 DEF LimboMoves
  <2>5. Within(c, f)
    BY <2>1, <2>2, WithinOn DEF LimboMoves
  <2>6. HeldOn(c, f, added)
    BY <1>3, <2>1, <2>2 DEF HeldOn, LimboMoves
  <2> QED BY <1>1, <2>2, <2>4, <2>5, <2>6 DEF TrackedSoFar, TrackOne, LimboMoves, f
<1>6. TrackedSoFar(d, Len(w), p)
  BY <1>0, <1>2, <1>4, <1>5, Tracking!FoldKeeps
<1>7. {w[j] : j \in 1 .. Len(w)} = added
  BY <1>0, <1>3 DEF Range
<1>8. LimboMoves(c, d, G, X, {}, added, c.engine.refs \cup ({w[j] : j \in 1 .. Len(w)} \X {q}))
  BY <1>1, <1>6 DEF TrackedSoFar, LimboMoves
<1> QED BY <1>7, <1>8, Zenon DEF d

(* updateTrackedLimbos, both loops.                                        *)
LEMMA UpdateTrackedKeeps ==
  ASSUME NEW c, NEW G, NEW X \in SUBSET Queries, Working(c, G, X, {}),
         NEW q \in Queries, NEW added \in SUBSET Keys, NEW removed \in SUBSET Keys
  PROVE  LimboMoves(c, UpdateTrackedLimbos(c, q, added, removed), G, X, {}, added,
                    (c.engine.refs \ (removed \X {q})) \cup (added \X {q}))
<1> DEFINE b == FoldLeft(LAMBDA d, k : Untrack(d, q, k), c, SetToSeq(removed))
           d == FoldLeft(LAMBDA d, k : TrackLimbo(d, q, k), b, SetToSeq(added))
<1>1. LimboMoves(c, b, G, X, {}, {}, c.engine.refs \ (removed \X {q}))
  BY UntrackAllKeeps, Zenon
<1> HIDE DEF b
<1>2. Working(b, G, X, {})
  BY <1>1 DEF LimboMoves
<1>3. LimboMoves(b, d, G, X, {}, added, b.engine.refs \cup (added \X {q}))
  BY <1>2, TrackAllKeeps, Zenon
<1>4. d = UpdateTrackedLimbos(c, q, added, removed)
  BY DEF UpdateTrackedLimbos, b
<1> HIDE DEF d
<1>5. Within(c, d) /\ HeldOn(c, d, added)
  BY <1>1, <1>3, WithinOn DEF HeldOn, LimboMoves
<1> QED BY <1>1, <1>3, <1>4, <1>5 DEF LimboMoves

-----------------------------------------------------------------------------
(* removeAndCleanupTarget.                                                 *)

CleanOne(d, k, p) == IF IsReferenced(d, k) THEN d ELSE RemoveLimboTarget(d, k)

CleanedSoFar(d, i, p) ==
  LimboMoves(p.client, d, p.ground, p.extra,
             p.exempt \ {p.keys[j] : j \in 1 .. i}, {}, p.client.engine.refs)

Cleaning == INSTANCE FoldTheorems WITH Op <- CleanOne, Inv <- CleanedSoFar

(* The loop over the keys that lost a reference.                           *)
LEMMA CleanAllKeeps ==
  ASSUME NEW c, NEW G, NEW X \in SUBSET Queries, NEW K \in SUBSET Keys, Working(c, G, X, K)
  PROVE  LimboMoves(c, FoldLeft(LAMBDA d, k : IF IsReferenced(d, k) THEN d
                                              ELSE RemoveLimboTarget(d, k),
                                c, SetToSeq(K)),
                    G, X, {}, {}, c.engine.refs)
<1> DEFINE w == SetToSeq(K)
           p == [client |-> c, ground |-> G, extra |-> X, exempt |-> K, keys |-> w]
           d == FoldLeft(LAMBDA d, k : IF IsReferenced(d, k) THEN d
                                       ELSE RemoveLimboTarget(d, k),
                         c, SetToSeq(K))
<1>0. w \in Seq(K) /\ Range(w) = K
  BY FinitelyMany, FS_Subset, SetToSeqFacts
<1>1. p.client = c /\ p.ground = G /\ p.extra = X /\ p.exempt = K /\ p.keys = w
  OBVIOUS
<1> HIDE DEF p
<1>2. d = Cleaning!Run(c, w, p)
  BY <1>1 DEF CleanOne, FoldLeft, MapThenFoldSet, Max, Cleaning!Run,
         Cleaning!Last
<1> HIDE DEF w, d
<1>3. Len(w) \in Nat /\ DOMAIN w = 1 .. Len(w) /\ \A i \in 1 .. Len(w) : w[i] \in Keys
  BY <1>0
<1>4. CleanedSoFar(c, 0, p)
  <2>1. Within(c, c)
    BY WorkingFacts, WithinSelf
  <2>2. K \ {w[j] : j \in 1 .. 0} = K
    OBVIOUS
  <2>3. Working(c, G, X, K \ {w[j] : j \in 1 .. 0})
    BY <2>2
  <2> QED BY <1>1, <2>1, <2>3 DEF CleanedSoFar, LimboMoves, HeldOn
<1>5. ASSUME NEW i \in 1 .. Len(w), NEW e, CleanedSoFar(e, i - 1, p)
      PROVE  CleanedSoFar(CleanOne(e, w[i], p), i, p)
  <2> DEFINE f == CleanOne(e, w[i], p)
             T == K \ {w[j] : j \in 1 .. i - 1}
             U == K \ {w[j] : j \in 1 .. i}
  <2>1. LimboMoves(c, e, G, X, T, {}, c.engine.refs)
    BY <1>1, <1>5 DEF CleanedSoFar
  <2>2. U = T \ {w[i]}
    BY <1>3
  <2> HIDE DEF T, U
  <2>3. Working(e, G, X, T) /\ Within(c, e) /\ HeldOn(c, e, {})
        /\ e.engine.refs = c.engine.refs
    BY <2>1 DEF LimboMoves
  <2>4. CASE IsReferenced(e, w[i])
    <3>1. f = e /\ Referenced(e.engine, w[i])
      BY <2>4 DEF CleanOne, IsReferenced, Referenced
    <3>2. Working(e, G, X, U)
      BY <2>2, <2>3, <3>1, ExemptLess
    <3>3. LimboMoves(c, f, G, X, U, {}, c.engine.refs)
      BY <2>3, <3>1, <3>2 DEF LimboMoves
    <3> QED BY <1>1, <3>3 DEF CleanedSoFar, U, f
  <2>5. CASE ~IsReferenced(e, w[i])
    <3>1. f = RemoveLimboTarget(e, w[i])
      BY <2>5 DEF CleanOne
    <3>2. /\ Working(f, G, X, T \ {w[i]}) /\ Within(e, f) /\ HeldOn(e, f, {})
          /\ f.engine.refs = e.engine.refs
      BY <1>3, <2>3, <3>1, RemoveLimboKeeps
    <3>3. LimboMoves(c, f, G, X, U, {}, c.engine.refs)
      BY <2>2, <2>3, <3>2, WithinOn DEF LimboMoves, HeldOn
    <3> QED BY <1>1, <3>3 DEF CleanedSoFar, U, f
  <2> QED BY <2>4, <2>5
<1>6. CleanedSoFar(d, Len(w), p)
  BY <1>0, <1>2, <1>4, <1>5, Cleaning!FoldKeeps
<1>7. K \ {w[j] : j \in 1 .. Len(w)} = {}
  BY <1>0, <1>3 DEF Range
<1>8. LimboMoves(c, d, G, X, K \ {w[j] : j \in 1 .. Len(w)}, {}, c.engine.refs)
  BY <1>1, <1>6 DEF CleanedSoFar
<1> QED BY <1>7, <1>8, Zenon DEF d

(* What a removed query leaves.                                            *)
Cleaned(c, d, G, X, q) ==
  /\ Working(d, G, X, {}) /\ RefsMatch(d.engine)
  /\ Quiet(c.remote, d.remote) /\ Evolves(c.remote, d.remote, Keys)
  /\ d.store = c.store /\ d.engine.views = Without(c.engine.views, q)

(* removeAndCleanupTarget: the references of the query are gone, and no    *)
(* place is lost.                                                          *)
LEMMA CleanupKeeps ==
  ASSUME NEW c, NEW G, NEW X \in SUBSET Queries, NEW q \in Queries,
         ClientInv(c, G, {}), Pumped(c.engine), RefsMatch(c.engine),
         Watched(c.remote) = DOMAIN c.engine.active \cup (DOMAIN c.engine.views \ {q}) \cup X
  PROVE  Cleaned(c, RemoveAndCleanupTarget(c, q), G, X, q)
<1> DEFINE e == c.engine
           views == Without(e.views, q)
           R == e.refs \ (Keys \X {q})
           K == {k \in Keys : <<k, q>> \in e.refs}
           f == [[e EXCEPT !.views = views] EXCEPT !.refs = R]
           b == [c EXCEPT !.engine.views = Without(@, q), !.engine.refs = @ \ (Keys \X {q})]
           d == RemoveAndCleanupTarget(c, q)
<1>0. /\ RemoteInv(c.remote, G) /\ DOMAIN c = ClientFields /\ DOMAIN c.store = StoreFields
      /\ EngineShape(e) /\ IsFunction(e) /\ DOMAIN e = EngineFields
      /\ c.remote.nextId \in Nat /\ e.refs \in SUBSET (Keys \X Queries)
  BY DEF ClientInv, EngineShape, RemoteInv, RemoteCore, RemoteShape
<1>1. /\ IsFunction(views) /\ DOMAIN views = DOMAIN e.views \ {q}
      /\ \A p \in DOMAIN views : views[p] = e.views[p]
  BY DEF Without, IsFunction
<1> HIDE DEF views
<1>2. b = [[c EXCEPT !.engine.views = views] EXCEPT !.engine.refs = R]
  BY <1>0 DEF ClientFields, EngineFields, views
<1>3. R \in SUBSET (Keys \X Queries) /\ \A k \in Keys, p \in Queries :
         <<k, p>> \in R <=> <<k, p>> \in e.refs /\ p # q
  BY <1>0
<1>4. d = FoldLeft(LAMBDA s, k : IF IsReferenced(s, k) THEN s
                                 ELSE RemoveLimboTarget(s, k), b, SetToSeq(K))
  BY DEF RemoveAndCleanupTarget
<1> HIDE DEF R, d
<1>5. DOMAIN b = ClientFields /\ b.engine = f /\ b.remote = c.remote /\ b.store = c.store
  BY <1>0, <1>2 DEF ClientFields, EngineFields
<1>6. /\ IsFunction(f) /\ DOMAIN f = EngineFields /\ f.refs = R
      /\ f.views = views /\ f.active = e.active /\ f.enqueued = e.enqueued
  BY <1>0 DEF IsFunction, EngineFields
<1> HIDE DEF b, f
<1>7. EngineShape(f)
  BY <1>0, <1>1, <1>3, <1>6 DEF EngineShape
<1>8. Limbo(f, K)
  <2>1. Limbo(e, {})
    BY DEF ClientInv
  <2>2. DOMAIN e.active \cup Range(e.enqueued) \subseteq Keys
    BY <1>0 DEF EngineShape, Range
  <2>3. ASSUME NEW k \in DOMAIN f.active \cup Range(f.enqueued)
        PROVE  k \in K \/ Referenced(f, k)
    <3>1. k \in Keys /\ Referenced(e, k)
      BY <1>6, <2>1, <2>2, <2>3 DEF Limbo
    <3> QED BY <1>3, <1>6, <3>1 DEF Referenced
  <2> QED BY <1>6, <2>1, <2>3 DEF Limbo
<1>9. OfflineKnown(b)
  BY <1>1, <1>5, <1>6 DEF ClientInv, OfflineKnown
<1>10. Working(b, G, X, K)
  <2>1. ClientInv(b, G, K)
    BY <1>0, <1>5, <1>7, <1>8, <1>9 DEF ClientInv
  <2>2. Watched(b.remote) = DOMAIN b.engine.active \cup DOMAIN b.engine.views \cup X
    BY <1>1, <1>5, <1>6
  <2>3. Pumped(f)
    BY <1>6 DEF Pumped
  <2> QED BY <1>5, <2>1, <2>2, <2>3 DEF Working, Unpumped
<1>11. K \in SUBSET Keys
  OBVIOUS
<1> HIDE DEF K
<1>12. LimboMoves(b, d, G, X, {}, {}, b.engine.refs)
  BY <1>4, <1>10, <1>11, CleanAllKeeps, Zenon
<1>13. /\ Working(d, G, X, {}) /\ Within(b, d) /\ d.engine.refs = R /\ d.engine.views = views
  BY <1>5, <1>6, <1>12 DEF LimboMoves, Within
<1>14. RefsMatch(d.engine)
  BY <1>1, <1>3, <1>13 DEF RefsMatch
<1> QED BY <1>5, <1>13, <1>14 DEF Cleaned, Within, views, d

-----------------------------------------------------------------------------
(* Views.                                                                  *)

(* What applyChanges tells of a view v that becomes r.view with documents  *)
(* docs.                                                                   *)
Refreshed(v, docs, change, r) ==
  /\ ViewSound(r.view)
  /\ r.added = r.view.limbo \ v.limbo /\ r.removed = v.limbo \ r.view.limbo
  /\ r.view.current = IF change = NoUpdate THEN v.current ELSE change.current
  /\ ~r.view.current => r.view.limbo = v.limbo
  /\ \A k \in Keys : docs[k] = Absent => k \notin r.added

(* View.applyChanges: what it tells is what has changed, and a view that   *)
(* is not current does not doubt.                                          *)
LEMMA ApplyChangesFacts ==
  ASSUME NEW v, DOMAIN v = ViewFields, v.limbo \subseteq Keys, v.current \in BOOLEAN,
         NEW docs, NEW change, change # NoUpdate => change.current \in BOOLEAN,
         NEW reset \in BOOLEAN
  PROVE  Refreshed(v, docs, change, V!ApplyChanges(v, docs, TRUE, change, reset))
<1> DEFINE a == [v EXCEPT !.docs = docs]
           told == V!ApplyTargetChange(a, change)
           seen == IF ~reset THEN V!UpdateLimboDocuments(told) ELSE told
           state == IF seen.limbo = {} /\ seen.current /\ ~reset THEN "Synced" ELSE "Local"
           done == [seen EXCEPT !.state = state]
           r == V!ApplyChanges(v, docs, TRUE, change, reset)
<1>1. r.view = done /\ r.added = done.limbo \ v.limbo /\ r.removed = v.limbo \ done.limbo
  BY DEF V!ApplyChanges
<1> HIDE DEF r
<1>2. DOMAIN a = ViewFields /\ a.docs = docs /\ a.limbo = v.limbo /\ a.current = v.current
  BY DEF ViewFields
<1> HIDE DEF a
<1>3. /\ DOMAIN told = ViewFields /\ told.docs = docs /\ told.limbo = v.limbo
      /\ told.current \in BOOLEAN
      /\ told.current = IF change = NoUpdate THEN v.current ELSE change.current
  <2>1. CASE change = NoUpdate
    BY <1>2, <2>1 DEF V!ApplyTargetChange
  <2>2. CASE change # NoUpdate
    <3> DEFINE synced == (a.synced \cup change.added) \ change.removed
               b == [[a EXCEPT !.synced = synced] EXCEPT !.current = change.current]
    <3>1. told = b
      BY <1>2, <2>2 DEF V!ApplyTargetChange, ViewFields
    <3> HIDE DEF synced, told
    <3>2. DOMAIN b = ViewFields /\ b.docs = docs /\ b.limbo = v.limbo
          /\ b.current = change.current
      BY <1>2 DEF ViewFields
    <3> HIDE DEF b
    <3> QED BY <2>2, <3>1, <3>2
  <2> QED BY <2>1, <2>2
<1> HIDE DEF told
<1>4. /\ DOMAIN seen = ViewFields /\ seen.current = told.current
      /\ seen.limbo \subseteq Keys
      /\ ~told.current => seen.limbo = v.limbo
      /\ \A k \in Keys : docs[k] = Absent => k \notin seen.limbo \ v.limbo
  <2>1. CASE reset \/ ~told.current
    <3>1. seen = told
      BY <2>1 DEF V!UpdateLimboDocuments
    <3> HIDE DEF seen
    <3> QED BY <1>3, <3>1
  <2>2. CASE ~reset /\ told.current
    <3> DEFINE limbo == {k \in Keys : V!ShouldBeInLimbo(told, k)}
               b == [told EXCEPT !.limbo = limbo]
    <3>1. seen = b
      BY <2>2 DEF V!UpdateLimboDocuments
    <3> HIDE DEF seen
    <3>2. limbo \subseteq Keys /\ \A k \in Keys : docs[k] = Absent => k \notin limbo
      BY <1>3 DEF V!ShouldBeInLimbo
    <3> HIDE DEF limbo
    <3>3. DOMAIN b = ViewFields /\ b.current = told.current /\ b.limbo = limbo
      BY <1>3 DEF ViewFields
    <3> HIDE DEF b
    <3> QED BY <2>2, <3>1, <3>2, <3>3
  <2> QED BY <2>1, <2>2
<1>5. state \in {"Local", "Synced"} /\ (state = "Synced" => seen.current)
  OBVIOUS
<1> HIDE DEF seen, state
<1>6. /\ DOMAIN done = ViewFields /\ done.current = seen.current
      /\ done.limbo = seen.limbo /\ done.state = state
  BY <1>4 DEF ViewFields
<1> HIDE DEF done
<1>7. ViewSound(done)
  BY <1>3, <1>4, <1>5, <1>6 DEF ViewSound
<1> QED BY <1>1, <1>3, <1>4, <1>6, <1>7 DEF Refreshed, r

-----------------------------------------------------------------------------
(* Remote events.                                                          *)

(* A client in the middle of applying an event.                            *)
Applying(c, d, G, A) ==
  /\ Settled(d, G) /\ d.remote.online # "Offline"
  /\ DOMAIN d.engine.views = DOMAIN c.engine.views
  /\ Evolves(c.remote, d.remote, Keys) /\ HeldOn(c, d, A)

(* Between two tasks no target is left over and no reference is missing.   *)
LEMMA SettledWorking ==
  ASSUME NEW c, NEW G
  PROVE  Settled(c, G) <=> Working(c, G, {}, {}) /\ RefsMatch(c.engine)
<1>1. DOMAIN c.engine.active \cup DOMAIN c.engine.views \cup {}
        = DOMAIN c.engine.active \cup DOMAIN c.engine.views
  OBVIOUS
<1> QED BY <1>1 DEF Settled, Working, Unpumped

(* A view is replaced; its doubts are settled afterwards.                  *)
ViewReplacement(c, b, G, q, v) ==
  /\ Working(b, G, {}, {}) /\ b.remote = c.remote
  /\ b.engine.refs = c.engine.refs
  /\ DOMAIN b.engine.views = DOMAIN c.engine.views
  /\ b.engine.views[q] = v
  /\ \A p \in DOMAIN c.engine.views : p # q => b.engine.views[p] = c.engine.views[p]
  /\ HeldOn(c, b, {})

(* Replacing a view touches neither RemoteStore nor limbo resolution.      *)
LEMMA ViewReplaced ==
  ASSUME NEW c, NEW G, Settled(c, G), c.remote.online # "Offline",
         NEW q \in DOMAIN c.engine.views, NEW v, ViewSound(v), NEW free,
         NEW b, b = [c EXCEPT !.engine.views[q] = v, !.store.mem[q].free = free]
  PROVE  ViewReplacement(c, b, G, q, v)
<1> DEFINE e == c.engine
           views == [e.views EXCEPT ![q] = v]
           mem == [c.store.mem EXCEPT ![q].free = free]
           f == [e EXCEPT !.views = views]
           s == [c.store EXCEPT !.mem = mem]
<1>0. /\ Working(c, G, {}, {})
      /\ RemoteInv(c.remote, G) /\ DOMAIN c = ClientFields /\ DOMAIN c.store = StoreFields
      /\ EngineShape(e) /\ IsFunction(e) /\ DOMAIN e = EngineFields
      /\ IsFunction(e.views) /\ DOMAIN e.views \subseteq Queries
  BY SettledWorking, WorkingFacts DEF Settled, ClientInv, EngineShape
<1>1. /\ IsFunction(views) /\ DOMAIN views = DOMAIN e.views /\ views[q] = v
      /\ \A p \in DOMAIN views : p # q => views[p] = e.views[p]
  BY <1>0 DEF IsFunction
<1>2. DOMAIN b = ClientFields /\ b.engine = f /\ b.remote = c.remote /\ b.store = s
  <2> HIDE DEF views
  <2>1. b = [[c EXCEPT !.engine = f] EXCEPT !.store = s]
    BY <1>0 DEF ClientFields, EngineFields, StoreFields, views
  <2> HIDE DEF f, s
  <2> QED BY <1>0, <2>1 DEF ClientFields
<1> HIDE DEF views, mem
<1>3. DOMAIN s = StoreFields
  BY <1>0 DEF StoreFields
<1>4. /\ IsFunction(f) /\ DOMAIN f = EngineFields /\ f.refs = e.refs
      /\ f.views = views /\ f.active = e.active /\ f.enqueued = e.enqueued
  BY <1>0 DEF IsFunction, EngineFields
<1> HIDE DEF f, s
<1>5. EngineShape(f)
  <2>1. \A p \in DOMAIN views : ViewSound(views[p])
    BY <1>0, <1>1 DEF EngineShape
  <2> QED BY <1>0, <1>1, <1>4, <2>1 DEF EngineShape
<1>6. Limbo(f, {}) /\ Pumped(f)
  BY <1>4 DEF Settled, ClientInv, Limbo, Referenced, Pumped
<1>7. OfflineKnown(b)
  BY <1>2 DEF OfflineKnown
<1>8. ClientInv(b, G, {})
  BY <1>0, <1>2, <1>3, <1>5, <1>6, <1>7 DEF ClientInv
<1>9. Watched(b.remote) = DOMAIN b.engine.active \cup DOMAIN b.engine.views \cup {}
  BY <1>1, <1>2, <1>4 DEF Settled
<1>10. Working(b, G, {}, {})
  BY <1>2, <1>6, <1>8, <1>9 DEF Working, Unpumped
<1>11. HeldOn(c, b, {})
  BY <1>2, <1>4 DEF HeldOn, Held
<1> QED BY <1>1, <1>2, <1>4, <1>10, <1>11 DEF ViewReplacement

(* The changes of an event for a view, and whether the view is to be reset.*)
ChangeFor(event, q) == IF q \in DOMAIN event.changes THEN event.changes[q] ELSE NoUpdate

EventShape(event) ==
  \A x \in DOMAIN event.changes :
    event.changes[x] # NoUpdate => event.changes[x].current \in BOOLEAN

(* A view is refreshed, and its doubts are tracked.                        *)
LEMMA RefreshKeeps ==
  ASSUME NEW c, NEW d, NEW G, NEW A, Applying(c, d, G, A), NEW q \in DOMAIN c.engine.views,
         NEW changed, NEW event, EventShape(event),
         \A k \in Keys \ A : k \in DOMAIN changed /\ changed[k] = Absent
  PROVE  Applying(c, RefreshView(d, q, changed, event), G, A)
<1> DEFINE old == d.engine.views[q]
           docs == V!ComputeDocChanges(old, Matches[q], changed)
           change == ChangeFor(event, q)
           r == V!ApplyChanges(old, docs, TRUE, change, q \in event.mismatches)
           free == IF r.raised /\ r.view.state = "Synced" THEN d.store.mem[q].ver
                   ELSE d.store.mem[q].free
           b == [d EXCEPT !.engine.views[q] = r.view, !.store.mem[q].free = free]
           g == RefreshView(d, q, changed, event)
<1>0. /\ Settled(d, G) /\ d.remote.online # "Offline" /\ q \in DOMAIN d.engine.views
      /\ ViewSound(old) /\ RefsMatch(d.engine) /\ q \in Queries
      /\ d.remote.nextId \in Nat
      /\ DOMAIN d = ClientFields /\ DOMAIN d.store = StoreFields
  BY DEF Applying, Settled, ClientInv, EngineShape, RemoteInv, RemoteCore, RemoteShape
<1>1. Refreshed(old, docs, change, r)
  <2>1. change # NoUpdate => change.current \in BOOLEAN
    BY DEF ChangeFor, EventShape
  <2>2. DOMAIN old = ViewFields /\ old.limbo \subseteq Keys /\ old.current \in BOOLEAN
    BY <1>0 DEF ViewSound
  <2>3. (q \in event.mismatches) \in BOOLEAN
    OBVIOUS
  <2> HIDE DEF change, docs, old
  <2> QED BY <2>1, <2>2, <2>3, ApplyChangesFacts
<1>2. g = UpdateTrackedLimbos(b, q, r.added, r.removed)
  BY <1>0 DEF RefreshView, ChangeFor, ClientFields, StoreFields
<1>3. \A k \in Keys \ A : k \notin r.added
  <2>1. \A k \in Keys \ A : docs[k] = Absent
    BY DEF V!ComputeDocChanges
  <2> HIDE DEF docs
  <2> QED BY <1>1, <2>1 DEF Refreshed
<1> DEFINE v == r.view
           added == r.added
           removed == r.removed
<1>4. ViewSound(v) /\ added = v.limbo \ old.limbo /\ removed = old.limbo \ v.limbo
  BY <1>1 DEF Refreshed
<1> HIDE DEF r, g
<1>5. b = [d EXCEPT !.engine.views[q] = v, !.store.mem[q].free = free]
  OBVIOUS
<1> HIDE DEF v, free, b
<1>6. /\ Working(b, G, {}, {}) /\ b.remote = d.remote /\ b.engine.refs = d.engine.refs
      /\ DOMAIN b.engine.views = DOMAIN d.engine.views
      /\ b.engine.views[q] = v
      /\ \A p \in DOMAIN d.engine.views : p # q => b.engine.views[p] = d.engine.views[p]
      /\ HeldOn(d, b, {})
  <2>1. ViewReplacement(d, b, G, q, v)
    BY <1>0, <1>4, <1>5, ViewReplaced
  <2> QED BY <2>1 DEF ViewReplacement
<1>7. added \in SUBSET Keys /\ removed \in SUBSET Keys
  BY <1>0, <1>4 DEF ViewSound
<1> HIDE DEF added, removed, old
<1> DEFINE R == (b.engine.refs \ (removed \X {q})) \cup (added \X {q})
<1>8. LimboMoves(b, g, G, {}, {}, added, R)
  <2>1. g = UpdateTrackedLimbos(b, q, added, removed)
    BY <1>2 DEF added, removed
  <2>2. {} \in SUBSET Queries
    OBVIOUS
  <2> QED BY <1>0, <1>6, <1>7, <2>1, <2>2, UpdateTrackedKeeps, Zenon
<1> HIDE DEF R
<1>9. /\ Working(g, G, {}, {}) /\ Within(b, g) /\ HeldOn(b, g, added)
      /\ g.engine.refs = R
  BY <1>8 DEF LimboMoves
<1>10. RefsMatch(g.engine)
  <2> SUFFICES ASSUME NEW k \in Keys, NEW p \in Queries
               PROVE  <<k, p>> \in R <=> p \in DOMAIN g.engine.views
                                           /\ k \in g.engine.views[p].limbo
    BY <1>9 DEF RefsMatch
  <2>1. g.engine.views = b.engine.views
    BY <1>9 DEF Within
  <2>2. <<k, p>> \in d.engine.refs <=> p \in DOMAIN d.engine.views
                                         /\ k \in d.engine.views[p].limbo
    BY <1>0 DEF RefsMatch
  <2>3. CASE p # q
    <3>1. <<k, p>> \in R <=> <<k, p>> \in d.engine.refs
      BY <1>6, <2>3 DEF R
    <3> QED BY <1>6, <2>1, <2>2, <2>3, <3>1
  <2>4. CASE p = q
    <3>1. <<k, q>> \in R <=> (<<k, q>> \in d.engine.refs /\ k \notin removed) \/ k \in added
      BY <1>6 DEF R
    <3>2. g.engine.views[q] = v /\ q \in DOMAIN g.engine.views
      BY <1>0, <1>6, <2>1
    <3>3. <<k, q>> \in d.engine.refs <=> k \in old.limbo
      BY <1>0, <2>2, <2>4 DEF old
    <3> QED BY <1>4, <2>4, <3>1, <3>2, <3>3
  <2> QED BY <2>3, <2>4
<1>11. Settled(g, G)
  BY <1>9, <1>10, SettledWorking
<1>12. g.remote.online # "Offline" /\ DOMAIN g.engine.views = DOMAIN c.engine.views
  BY <1>0, <1>6, <1>9 DEF Within, Quiet, Applying
<1>13. Evolves(c.remote, g.remote, Keys)
  <2>1. Evolves(d.remote, g.remote, Keys)
    BY <1>6, <1>9 DEF Within
  <2>2. Evolves(c.remote, d.remote, Keys)
    BY DEF Applying
  <2>3. Evolves(c.remote, g.remote, Keys \cup Keys)
    BY <2>1, <2>2, EvolvesOn
  <2>4. Keys \cup Keys = Keys
    OBVIOUS
  <2> QED BY <2>3, <2>4
<1>14. HeldOn(c, g, A)
  <2>1. added \cap (Keys \ A) = {}
    BY <1>3 DEF added
  <2>2. HeldOn(c, d, A) /\ HeldOn(d, b, {}) /\ HeldOn(b, g, added)
    BY <1>6, <1>9 DEF Applying
  <2> QED BY <2>1, <2>2 DEF HeldOn
<1> QED BY <1>11, <1>12, <1>13, <1>14 DEF Applying, g

(* The loop over the views.                                                *)
RefreshOne(d, q, p) == RefreshView(d, q, p.changed, p.event)

AppliedSoFar(d, i, p) == Applying(p.client, d, p.ground, p.others)

Applied == INSTANCE FoldTheorems WITH Op <- RefreshOne, Inv <- AppliedSoFar

AllRefreshed(c, changed, event) ==
  FoldLeft(LAMBDA d, q : RefreshView(d, q, changed, event),
           c, SetToSeq(DOMAIN c.engine.views))

(* All views are refreshed.                                                *)
LEMMA RefreshAllKeeps ==
  ASSUME NEW c, NEW G, Settled(c, G), c.remote.online # "Offline",
         NEW changed, NEW event, EventShape(event), NEW A,
         \A k \in Keys \ A : k \in DOMAIN changed /\ changed[k] = Absent
  PROVE  Applying(c, AllRefreshed(c, changed, event), G, A)
<1> DEFINE w == SetToSeq(DOMAIN c.engine.views)
           p == [client |-> c, ground |-> G, changed |-> changed, event |-> event,
                 others |-> A]
           d == AllRefreshed(c, changed, event)
<1>0. DOMAIN c.engine.views \subseteq Queries /\ c.remote.nextId \in Nat
  BY DEF Settled, ClientInv, EngineShape, RemoteInv, RemoteCore, RemoteShape
<1>1. w \in Seq(DOMAIN c.engine.views)
  BY <1>0, FinitelyMany, FS_Subset, SetToSeqFacts
<1>2. p.client = c /\ p.ground = G /\ p.changed = changed /\ p.event = event /\ p.others = A
  OBVIOUS
<1> HIDE DEF p
<1>3. d = Applied!Run(c, w, p)
  BY <1>2 DEF AllRefreshed, RefreshOne, FoldLeft, MapThenFoldSet, Max, Applied!Run,
         Applied!Last
<1> HIDE DEF w, d
<1>4. AppliedSoFar(c, 0, p)
  <2>1. Evolves(c.remote, c.remote, Keys)
    BY <1>0, EvolvesSame
  <2> QED BY <1>2, <2>1 DEF AppliedSoFar, Applying, HeldOn
<1>5. ASSUME NEW i \in 1 .. Len(w), NEW e, AppliedSoFar(e, i - 1, p)
      PROVE  AppliedSoFar(RefreshOne(e, w[i], p), i, p)
  <2>1. w[i] \in DOMAIN c.engine.views
    BY <1>1
  <2>2. Applying(c, e, G, A)
    BY <1>2, <1>5 DEF AppliedSoFar
  <2>3. Applying(c, RefreshView(e, w[i], changed, event), G, A)
    BY <2>1, <2>2, RefreshKeeps
  <2> QED BY <1>2, <2>3 DEF AppliedSoFar, RefreshOne
<1>6. AppliedSoFar(d, Len(w), p)
  BY <1>1, <1>3, <1>4, <1>5, Applied!FoldKeeps
<1> QED BY <1>2, <1>6 DEF AppliedSoFar, w, d

(* The documents that an event takes to be deleted.                        *)
Deleted(c, event) ==
  {k \in AcceptedUpdates(c.store, event.docs) : event.docs[k].data = Absent}

(* syncEngineApplyRemoteEvent.                                             *)
LEMMA ApplyEventKeeps ==
  ASSUME NEW c, NEW G, Settled(c, G), c.remote.online # "Offline",
         NEW event, EventShape(event)
  PROVE  Applying(c, ApplyRemoteEvent(c, event), G, Keys \ Deleted(c, event))
<1> DEFINE e == c.engine
           st == ApplyToLocalCache(c.store, event)
           act == [k \in DOMAIN e.active |->
                     IF k \in DOMAIN event.changes
                       THEN ReceivedDocument(e.active[k], event.changes[k]) ELSE e.active[k]]
           f == [e EXCEPT !.active = act]
           stored == [c EXCEPT !.store = ApplyToLocalCache(@, event)]
           n == NoteLimboDocuments(stored, event)
           changed == [k \in AcceptedUpdates(c.store, event.docs) |-> event.docs[k].data]
           A == Keys \ Deleted(c, event)
           d == ApplyRemoteEvent(c, event)
<1>0. /\ RemoteInv(c.remote, G) /\ DOMAIN c = ClientFields /\ DOMAIN c.store = StoreFields
      /\ EngineShape(e) /\ IsFunction(e) /\ DOMAIN e = EngineFields
      /\ c.remote.nextId \in Nat
  BY DEF Settled, ClientInv, EngineShape, RemoteInv, RemoteCore, RemoteShape
<1>1. DOMAIN act = DOMAIN e.active
  OBVIOUS
<1>2. DOMAIN st = StoreFields
  BY <1>0 DEF ApplyToLocalCache, StoreFields
<1>3. /\ DOMAIN stored = ClientFields /\ stored.engine = e /\ stored.remote = c.remote
      /\ stored.store = st
  BY <1>0 DEF ClientFields
<1> HIDE DEF stored, st
<1>4. n = [stored EXCEPT !.engine.active = act]
  BY <1>3 DEF NoteLimboDocuments
<1> HIDE DEF act, n
<1>5. DOMAIN n = ClientFields /\ n.engine = f /\ n.remote = c.remote /\ n.store = st
  BY <1>3, <1>4 DEF ClientFields
<1>6. /\ IsFunction(f) /\ DOMAIN f = EngineFields /\ f.refs = e.refs
      /\ f.views = e.views /\ f.active = act /\ f.enqueued = e.enqueued
  BY <1>0 DEF IsFunction, EngineFields
<1> HIDE DEF f
<1>7. EngineShape(f)
  BY <1>0, <1>1, <1>6 DEF EngineShape
<1>8. Settled(n, G)
  <2>1. Limbo(f, {}) /\ Pumped(f) /\ RefsMatch(f)
    BY <1>1, <1>6 DEF Settled, ClientInv, Limbo, Referenced, Pumped, RefsMatch
  <2>2. OfflineKnown(n)
    BY <1>5 DEF OfflineKnown
  <2>3. Watched(n.remote) = DOMAIN f.active \cup DOMAIN f.views
    BY <1>1, <1>5, <1>6 DEF Settled
  <2> QED BY <1>0, <1>2, <1>5, <1>7, <2>1, <2>2, <2>3 DEF Settled, ClientInv
<1>9. \A k \in Keys \ A : k \in DOMAIN changed /\ changed[k] = Absent
  BY DEF Deleted
<1>10. DOMAIN n.engine.views = DOMAIN e.views /\ n.remote.online # "Offline"
  BY <1>5, <1>6
<1>11. d = AllRefreshed(n, changed, event)
  BY <1>10 DEF ApplyRemoteEvent, AllRefreshed, n, stored
<1> HIDE DEF changed, A, d
<1>12. Applying(n, d, G, A)
  BY <1>8, <1>9, <1>10, <1>11, RefreshAllKeeps
<1>13. HeldOn(c, n, {})
  BY <1>1, <1>5, <1>6 DEF HeldOn, Held
<1>14. Applying(c, d, G, A)
  BY <1>5, <1>6, <1>12, <1>13 DEF Applying, HeldOn
<1> QED BY <1>14 DEF A, d

-----------------------------------------------------------------------------
(* A queue loses its head: what is left moves up by one.                   *)

MovedUp(S, n) == {i \in 1 .. n - 1 : i + 1 \in S}

(* As many are left, without the head.                                     *)
LEMMA MovedUpFacts ==
  ASSUME NEW n \in Nat \ {0}, NEW S \in SUBSET (1 .. n)
  PROVE  /\ IsFiniteSet(S)
         /\ Cardinality(MovedUp(S, n)) = Cardinality(S) - (IF 1 \in S THEN 1 ELSE 0)
         /\ 1 \notin S => (MovedUp(S, n) = {} <=> S = {})
<1> DEFINE B == MovedUp(S, n)
           A == S \ {1}
           f == [j \in A |-> j - 1]
<1>1. IsFiniteSet(S) /\ IsFiniteSet(A)
  <2>1. IsFiniteSet(1 .. n)
    BY FS_Interval
  <2> HIDE DEF A
  <2>2. IsFiniteSet(S)
    BY <2>1, FS_Subset
  <2> QED BY <2>2, FS_Subset DEF A
<1>2. \A i \in B : i \in Nat /\ i + 1 \in A
  BY DEF MovedUp
<1>3. \A j \in A : j \in Nat /\ j - 1 \in B
  <2> TAKE j \in A
  <2> DEFINE i == j - 1
  <2>1. i \in 1 .. n - 1 /\ i + 1 = j
    OBVIOUS
  <2> HIDE DEF i
  <2>2. i \in B /\ j = i + 1
    BY <2>1 DEF MovedUp
  <2> QED BY <2>2 DEF i
<1>4. S \ {1} = A /\ 1 \notin A
  OBVIOUS
<1> HIDE DEF A, B
<1>5. f \in [A -> B]
  BY <1>3
<1>6. \A i, j \in A : f[i] = f[j] => i = j
  BY <1>3
<1>7. \A i \in B : \E j \in A : f[j] = i
  <2> TAKE i \in B
  <2>1. f[i + 1] = i
    BY <1>2
  <2> QED BY <1>2, <2>1
<1>8. ExistsBijection(A, B)
  <2> HIDE DEF f
  <2>1. f \in Bijection(A, B)
    BY <1>5, <1>6, <1>7 DEF Bijection, Injection, Surjection, IsInjective
  <2> QED BY <2>1 DEF ExistsBijection
<1>9. Cardinality(B) = Cardinality(A)
  BY <1>1, <1>8, FS_Bijection
<1>10. Cardinality(A) = Cardinality(S) - (IF 1 \in S THEN 1 ELSE 0)
  <2>1. CASE 1 \in S
    <3>1. Cardinality(S \ {1}) = Cardinality(S) - 1
      BY <1>1, <2>1, FS_RemoveElement
    <3> QED BY <1>4, <2>1, <3>1, Zenon
  <2>2. CASE 1 \notin S
    <3>1. S = A
      BY <1>4, <2>2
    <3>2. Cardinality(S) \in Nat
      BY <1>1, FS_CardinalityType
    <3> QED BY <2>2, <3>1, <3>2
  <2> QED BY <2>1, <2>2
<1>11. 1 \notin S => (B = {} <=> S = {})
  BY <1>2, <1>3, <1>4
<1> QED BY <1>1, <1>9, <1>10, <1>11 DEF B

-----------------------------------------------------------------------------
(* The client reads messages: no target is new, and what is asked is the   *)
(* same.                                                                   *)

(* s is r with other target data and another aggregator.                   *)
Reads(r, s) ==
  /\ IsFunction(s) /\ DOMAIN s = RemoteFields
  /\ s.stream = r.stream /\ s.idle = r.idle /\ s.reqs = r.reqs /\ s.nextId = r.nextId
  /\ s.online = r.online /\ s.timer = r.timer /\ s.failures = r.failures
  /\ s.orphan = r.orphan /\ s.strays = r.strays /\ s.causes = r.causes
  /\ IsFunction(s.listens) /\ DOMAIN s.listens \subseteq DOMAIN r.listens
  /\ \A t \in DOMAIN s.listens :
       DOMAIN s.listens[t] = {"sdk", "token", "ver"} /\ s.listens[t].sdk = r.listens[t].sdk
  /\ AggregatorShape(r.agg) =>
       AggregatorShape(s.agg) /\ DOMAIN s.agg.states \subseteq DOMAIN r.agg.states

(* The targets that are left are counted as before.                        *)
CountsKept(r, s, G, H) ==
  /\ ServerShape(r, H) /\ H.accepted = G.accepted
  /\ \A t \in DOMAIN s.listens \cup DOMAIN s.agg.states :
       ResponsesTo(H.resps, {"ERROR"}, t) = {} =>
         /\ ResponsesTo(G.resps, {"ERROR"}, t) = {}
         /\ Counted(r, G, t) => Counted(s, H, t)

(* RemoteStore stays in order when counts and messages go down together.   *)
LEMMA ReadKeeps ==
  ASSUME NEW r, NEW s, NEW G, NEW H, RemoteInv(r, G), Reads(r, s),
         ServerShape(r, H), r.stream = "Open" => CountsKept(r, s, G, H)
  PROVE  RemoteInv(s, H)
<1>1. Allocated(s) = Allocated(r) /\ RemoteShape(r) /\ IdleSound(r)
  BY DEF Reads, Allocated, RemoteInv, RemoteCore
<1>2. RemoteShape(s)
  <2>1. /\ IsFunction(s) /\ DOMAIN s = RemoteFields
        /\ s.stream \in {"Stopped", "Starting", "Open"}
        /\ s.online \in {"Unknown", "Online", "Offline"}
        /\ s.idle \in BOOLEAN /\ s.timer \in BOOLEAN
        /\ s.failures \in 0 .. MaxWatchStreamFailures /\ s.nextId \in Nat \ {0}
        /\ s.orphan = FALSE /\ s.strays = 0
        /\ IsSequence(s.reqs) /\ (s.stream # "Open" => s.reqs = << >>)
        /\ \A i \in DOMAIN s.reqs : s.reqs[i].t \in Allocated(s)
    BY <1>1 DEF Reads, RemoteShape
  <2>2. /\ IsFunction(s.listens) /\ DOMAIN s.listens \subseteq Allocated(s)
        /\ \A t \in DOMAIN s.listens : DOMAIN s.listens[t] = {"sdk", "token", "ver"}
        /\ \A t, u \in DOMAIN s.listens : s.listens[t].sdk = s.listens[u].sdk => t = u
    BY <1>1 DEF Reads, RemoteShape
  <2>3. /\ s.stream # "Stopped" =>
             AggregatorShape(s.agg) /\ DOMAIN s.agg.states \subseteq Allocated(s)
        /\ s.stream = "Starting" => DOMAIN s.agg.states = {}
    BY <1>1 DEF Reads, RemoteShape
  <2> QED BY <2>1, <2>2, <2>3 DEF RemoteShape
<1>3. IdleSound(s)
  BY <1>1 DEF IdleSound, Reads
<1>4. ServerShape(s, H)
  BY <1>1 DEF ServerShape
<1>5. ASSUME s.stream = "Open", NEW t \in Allocated(s),
             ResponsesTo(H.resps, {"ERROR"}, t) = {},
             t \in DOMAIN s.listens \cup DOMAIN s.agg.states
      PROVE  /\ Counted(s, H, t) /\ Alternates(s, H, t)
             /\ t \in DOMAIN s.listens => EndsAccepted(s, H, t)
  <2>1. r.stream = "Open" /\ CountsKept(r, s, G, H) /\ s.reqs = r.reqs
    BY <1>5 DEF Reads
  <2>2. Conversation(r, G, t)
    BY <1>1, <1>5, <2>1 DEF RemoteInv, RemoteCore
  <2>3. t \in DOMAIN r.listens \cup DOMAIN r.agg.states
    BY <1>1, <1>5, <2>1 DEF Reads, RemoteShape
  <2>4. ResponsesTo(G.resps, {"ERROR"}, t) = {} /\ (Counted(r, G, t) => Counted(s, H, t))
    BY <1>5, <2>1 DEF CountsKept
  <2>5. Counted(r, G, t) /\ Alternates(r, G, t) /\ (t \in DOMAIN r.listens => EndsAccepted(r, G, t))
    BY <2>2, <2>3, <2>4 DEF Conversation
  <2>6. AskedOf(s, t) = AskedOf(r, t) /\ H.accepted = G.accepted
    BY <2>1 DEF AskedOf, CountsKept
  <2>7. Alternates(s, H, t)
    BY <2>1, <2>5, <2>6 DEF Alternates
  <2>8. t \in DOMAIN s.listens => EndsAccepted(s, H, t)
    BY <2>1, <2>5, <2>6 DEF EndsAccepted, Reads
  <2> QED BY <2>4, <2>5, <2>7, <2>8
<1>6. s.stream = "Open" => \A t \in Allocated(s) : Conversation(s, H, t)
  BY <1>5 DEF Conversation
<1>7. OnlineSound(s)
  BY DEF OnlineSound, Reads, RemoteInv
<1> QED BY <1>2, <1>3, <1>4, <1>6, <1>7 DEF RemoteInv, RemoteCore

(* The answers to t that are gone when the message m is.                   *)
Told(m, kinds, t) == IF m.kind \in kinds /\ m.t = t THEN 1 ELSE 0

Consumes(r, G, H, m) ==
  /\ ServerShape(r, H) /\ H.accepted = G.accepted
  /\ \A t :
       /\ Cardinality(ResponsesTo(H.resps, {"ADD", "REMOVE"}, t))
            = Cardinality(ResponsesTo(G.resps, {"ADD", "REMOVE"}, t))
                - Told(m, {"ADD", "REMOVE"}, t)
       /\ Cardinality(ResponsesTo(G.resps, {"ADD", "REMOVE"}, t)) \in Nat
       /\ ~(m.kind = "ERROR" /\ m.t = t) =>
            (ResponsesTo(H.resps, {"ERROR"}, t) = {}
               <=> ResponsesTo(G.resps, {"ERROR"}, t) = {})

(* One message less is on its way.                                         *)
LEMMA ConsumeFacts ==
  ASSUME NEW r, NEW G, ServerShape(r, G), G.resps # << >>
  PROVE  Consumes(r, G, [G EXCEPT !.resps = Tail(@)], Head(G.resps))
<1> DEFINE q == G.resps
           m == Head(q)
           H == [G EXCEPT !.resps = Tail(@)]
           n == Len(q)
<1>1. /\ IsSequence(Tail(q)) /\ m = q[1] /\ n \in Nat \ {0} /\ DOMAIN q = 1 .. n
      /\ DOMAIN Tail(q) = 1 .. n - 1
      /\ \A i \in 1 .. n - 1 : Tail(q)[i] = q[i + 1]
  BY TailFacts DEF ServerShape
<1>2. DOMAIN H = ServerFields /\ H.resps = Tail(q) /\ H.accepted = G.accepted
  BY DEF ServerShape, ServerFields
<1> HIDE DEF H, n
<1>3. ServerShape(r, H)
  <2>1. \A i \in DOMAIN H.resps : i + 1 \in DOMAIN q /\ H.resps[i] = q[i + 1]
    BY <1>1, <1>2
  <2> QED BY <1>1, <1>2, <2>1 DEF ServerShape
<1>4. ASSUME NEW kinds, NEW t
      PROVE  /\ Cardinality(ResponsesTo(H.resps, kinds, t))
                  = Cardinality(ResponsesTo(q, kinds, t)) - Told(m, kinds, t)
             /\ Cardinality(ResponsesTo(q, kinds, t)) \in Nat
             /\ ~(m.kind \in kinds /\ m.t = t) =>
                  (ResponsesTo(H.resps, kinds, t) = {} <=> ResponsesTo(q, kinds, t) = {})
  <2> DEFINE S == ResponsesTo(q, kinds, t)
  <2>1. S \in SUBSET (1 .. n)
    BY <1>1 DEF ResponsesTo
  <2>2. ResponsesTo(H.resps, kinds, t) = MovedUp(S, n)
    <3>1. ASSUME NEW i \in 1 .. n - 1
          PROVE  i + 1 \in DOMAIN q /\ Tail(q)[i] = q[i + 1]
      BY <1>1
    <3> QED BY <1>1, <1>2, <3>1 DEF ResponsesTo, MovedUp
  <2>3. 1 \in S <=> m.kind \in kinds /\ m.t = t
    BY <1>1 DEF ResponsesTo
  <2> HIDE DEF S
  <2>4. /\ IsFiniteSet(S)
        /\ Cardinality(MovedUp(S, n)) = Cardinality(S) - (IF 1 \in S THEN 1 ELSE 0)
        /\ 1 \notin S => (MovedUp(S, n) = {} <=> S = {})
    BY <1>1, <2>1, MovedUpFacts
  <2>5. Cardinality(S) \in Nat
    BY <2>4, FS_CardinalityType
  <2>6. Told(m, kinds, t) = IF 1 \in S THEN 1 ELSE 0
    BY <2>3 DEF Told
  <2>7. Cardinality(ResponsesTo(H.resps, kinds, t)) = Cardinality(S) - Told(m, kinds, t)
    BY <2>2, <2>4, <2>6
  <2>8. ~(m.kind \in kinds /\ m.t = t) => (ResponsesTo(H.resps, kinds, t) = {} <=> S = {})
    BY <2>2, <2>3, <2>4
  <2> QED BY <2>5, <2>7, <2>8 DEF S
<1>5. \A t : ~(m.kind = "ERROR" /\ m.t = t) =>
         (ResponsesTo(H.resps, {"ERROR"}, t) = {} <=> ResponsesTo(q, {"ERROR"}, t) = {})
  <2> TAKE t
  <2>1. m.kind \in {"ERROR"} <=> m.kind = "ERROR"
    OBVIOUS
  <2> QED BY <1>4, <2>1
<1> QED BY <1>2, <1>3, <1>4, <1>5 DEF Consumes, H

-----------------------------------------------------------------------------
(* The aggregator.                                                         *)

(* b has the targets of a, each waiting for as many answers.               *)
SamePending(a, b) ==
  /\ AggregatorShape(b) /\ DOMAIN b.states = DOMAIN a.states
  /\ \A t \in DOMAIN a.states : b.states[t].pending = a.states[t].pending

SoundState(ts) ==
  DOMAIN ts = TargetStateFields /\ ts.pending \in Int /\ ts.current \in BOOLEAN

(* The state of a target is replaced.                                      *)
LEMMA WithStateFacts ==
  ASSUME NEW a, AggregatorShape(a), NEW t, NEW ts, SoundState(ts)
  PROVE  /\ AggregatorShape(W!WithState(a, t, ts))
         /\ DOMAIN W!WithState(a, t, ts).states = DOMAIN a.states \cup {t}
         /\ W!WithState(a, t, ts).states[t] = ts
         /\ \A u \in DOMAIN a.states : u # t => W!WithState(a, t, ts).states[u] = a.states[u]
<1> DEFINE b == W!WithState(a, t, ts)
<1>1. DOMAIN b = AggregatorFields
      /\ b.states = [u \in DOMAIN a.states \cup {t} |-> IF u = t THEN ts ELSE a.states[u]]
  BY DEF W!WithState, AggregatorShape, AggregatorFields
<1> HIDE DEF b
<1>2. /\ DOMAIN b.states = DOMAIN a.states \cup {t} /\ b.states[t] = ts
      /\ \A u \in DOMAIN a.states : u # t => b.states[u] = a.states[u]
  BY <1>1
<1>3. AggregatorShape(b)
  <2> SUFFICES ASSUME NEW u \in DOMAIN b.states PROVE SoundState(b.states[u])
    BY <1>1 DEF AggregatorShape, SoundState
  <2>1. CASE u = t
    BY <1>2, <2>1
  <2>2. CASE u # t
    BY <1>2, <2>2 DEF AggregatorShape, SoundState
  <2> QED BY <2>1, <2>2
<1> QED BY <1>2, <1>3 DEF b

(* It waits for as many answers as before.                                 *)
LEMMA StateChanged ==
  ASSUME NEW a, AggregatorShape(a), NEW t \in DOMAIN a.states, NEW ts, SoundState(ts),
         ts.pending = a.states[t].pending
  PROVE  SamePending(a, W!WithState(a, t, ts))
<1> DEFINE b == W!WithState(a, t, ts)
<1>1. /\ AggregatorShape(b) /\ DOMAIN b.states = DOMAIN a.states \cup {t}
      /\ b.states[t] = ts
      /\ \A u \in DOMAIN a.states : u # t => b.states[u] = a.states[u]
  BY WithStateFacts
<1> HIDE DEF b
<1>2. SamePending(a, b)
  BY <1>1 DEF SamePending
<1> QED BY <1>2 DEF b

(* The states are not concerned.                                           *)
LEMMA StatesSame ==
  ASSUME NEW a, NEW b, AggregatorShape(a), DOMAIN b = DOMAIN a, b.states = a.states
  PROVE  SamePending(a, b) /\ AggregatorShape(b)
BY DEF SamePending, AggregatorShape

(* Handlers compose.                                                       *)
LEMMA SamePendingOn ==
  ASSUME NEW a, NEW b, NEW c, SamePending(a, b), SamePending(b, c)
  PROVE  SamePending(a, c)
BY DEF SamePending

(* An active target is listened to and waits for no answer.                *)
LEMMA ActiveFacts ==
  ASSUME NEW a, AggregatorShape(a), NEW md, NEW t, W!IsActiveTarget(a, md, t)
  PROVE  /\ t \in DOMAIN a.states /\ SoundState(a.states[t]) /\ a.states[t].pending = 0
         /\ t \in DOMAIN md
BY DEF W!IsActiveTarget, AggregatorShape, SoundState

(* The handlers of messages that answer no request.                        *)
LEMMA DocumentChangeKeeps ==
  ASSUME NEW a, AggregatorShape(a), NEW md, NEW m
  PROVE  SamePending(a, W!HandleDocumentChange(a, md, m))
<1>1. SamePending(a, a)
  BY DEF SamePending
<1>2. ASSUME NEW t, NEW key, NEW doc, W!IsActiveTarget(a, md, t), NEW change, NEW docs, NEW seen
      PROVE  SamePending(a, [W!WithState(a, t, [a.states[t] EXCEPT !.dirty = TRUE,
                                                        !.changes[key] = change])
                               EXCEPT !.docs[key] = docs, !.seen = seen])
  <2> DEFINE changes == [a.states[t].changes EXCEPT ![key] = change]
             us == [[a.states[t] EXCEPT !.dirty = TRUE] EXCEPT !.changes = changes]
             ts == [a.states[t] EXCEPT !.dirty = TRUE, !.changes[key] = change]
             b == W!WithState(a, t, ts)
             alldocs == [b.docs EXCEPT ![key] = docs]
             d == [[b EXCEPT !.docs = alldocs] EXCEPT !.seen = seen]
             e == [b EXCEPT !.docs[key] = docs, !.seen = seen]
  <2>1. t \in DOMAIN a.states /\ SoundState(a.states[t])
    BY <1>2, ActiveFacts
  <2>2. ts = us
    BY <2>1 DEF SoundState, TargetStateFields
  <2> HIDE DEF changes
  <2>3. SoundState(us) /\ us.pending = a.states[t].pending
    BY <2>1 DEF SoundState, TargetStateFields
  <2> HIDE DEF us, ts
  <2>4. SamePending(a, b)
    BY <2>1, <2>2, <2>3, StateChanged
  <2> HIDE DEF b
  <2>5. AggregatorShape(b)
    BY <2>4 DEF SamePending
  <2>6. e = d
    BY <2>5 DEF AggregatorShape, AggregatorFields
  <2> HIDE DEF alldocs
  <2>7. DOMAIN d = DOMAIN b /\ d.states = b.states
    BY <2>5 DEF AggregatorShape, AggregatorFields
  <2> HIDE DEF d, e
  <2>8. SamePending(b, d)
    BY <2>5, <2>7, StatesSame
  <2>9. SamePending(a, e)
    BY <2>4, <2>6, <2>8, SamePendingOn
  <2> QED BY <2>9 DEF e, b, ts
<1>3. ASSUME NEW t, NEW key, NEW doc PROVE SamePending(a, W!AddDocumentToTarget(a, md, t, key, doc))
  <2>1. CASE ~W!IsActiveTarget(a, md, t)
    BY <1>1, <2>1 DEF W!AddDocumentToTarget
  <2>2. CASE W!IsActiveTarget(a, md, t)
    <3> DEFINE change == IF key \in md[t].keys THEN "modified" ELSE "added"
               ts == [a.states[t] EXCEPT !.dirty = TRUE, !.changes[key] = change]
               b == W!WithState(a, t, ts)
               seen == b.seen \cup {<<key, t>>}
               e == [b EXCEPT !.docs[key] = doc, !.seen = seen]
               d == W!AddDocumentToTarget(a, md, t, key, doc)
    <3>1. d = e
      <4>1. d = [b EXCEPT !.docs[key] = doc, !.seen = @ \cup {<<key, t>>}]
        BY <2>2 DEF W!AddDocumentToTarget
      <4>2. DOMAIN b = AggregatorFields
        BY DEF W!WithState, AggregatorShape
      <4> HIDE DEF b, d
      <4> QED BY <4>1, <4>2 DEF AggregatorFields
    <3> HIDE DEF change, seen, d
    <3>2. SamePending(a, e)
      BY <1>2, <2>2, Zenon
    <3> HIDE DEF e
    <3>3. SamePending(a, d)
      BY <3>1, <3>2
    <3> QED BY <3>3 DEF d
  <2> QED BY <2>1, <2>2
<1>4. ASSUME NEW t, NEW key, NEW doc
      PROVE  SamePending(a, W!RemoveDocumentFromTarget(a, md, t, key, doc))
  <2>1. CASE ~W!IsActiveTarget(a, md, t)
    BY <1>1, <2>1 DEF W!RemoveDocumentFromTarget
  <2>2. CASE W!IsActiveTarget(a, md, t)
    <3> DEFINE change == IF key \in md[t].keys THEN "removed" ELSE "none"
               ts == [a.states[t] EXCEPT !.dirty = TRUE, !.changes[key] = change]
               b == W!WithState(a, t, ts)
               docs == IF doc = NoUpdate THEN b.docs[key] ELSE doc
               d == W!RemoveDocumentFromTarget(a, md, t, key, doc)
               e == [b EXCEPT !.docs[key] = docs, !.seen = b.seen]
    <3>1. d = [b EXCEPT !.docs[key] = docs]
      BY <2>2 DEF W!RemoveDocumentFromTarget
    <3> HIDE DEF change, docs, d
    <3>2. SamePending(a, e)
      BY <1>2, <2>2, Zenon
    <3> HIDE DEF b
    <3>3. AggregatorShape(e) /\ DOMAIN d = DOMAIN e /\ d.states = e.states
      <4>1. DOMAIN e = DOMAIN b /\ DOMAIN d = DOMAIN b
        BY <3>1
      <4>2. DOMAIN b = AggregatorFields
        BY <3>2, <4>1 DEF SamePending, AggregatorShape
      <4>3. e.states = b.states /\ d.states = b.states
        BY <3>1, <4>2 DEF AggregatorFields
      <4> QED BY <3>2, <4>1, <4>3 DEF SamePending
    <3> HIDE DEF e
    <3>4. SamePending(a, d)
      BY <3>2, <3>3, StatesSame, SamePendingOn
    <3> QED BY <3>4 DEF d
  <2> QED BY <2>1, <2>2
<1> QED BY <1>3, <1>4 DEF W!HandleDocumentChange

(* Documents that the bloom filter excludes leave the target.              *)
LEMMA RemoveKeysKeeps ==
  ASSUME NEW a, AggregatorShape(a), NEW md, NEW t, NEW gone
  PROVE  SamePending(a, W!RemoveKeys(a, md, t, gone))
<1>1. CASE ~W!IsActiveTarget(a, md, t)
  BY <1>1 DEF W!RemoveKeys, SamePending
<1>2. CASE W!IsActiveTarget(a, md, t)
  <2> DEFINE old == a.states[t]
             dirty == old.dirty \/ gone # {}
             changes == [k \in Keys |-> IF k \notin gone THEN old.changes[k]
                                        ELSE IF k \in md[t].keys THEN "removed" ELSE "none"]
             ts == [[old EXCEPT !.dirty = dirty] EXCEPT !.changes = changes]
             b == W!RemoveKeys(a, md, t, gone)
  <2>1. t \in DOMAIN a.states /\ SoundState(old)
    BY <1>2, ActiveFacts
  <2>2. b = W!WithState(a, t, [old EXCEPT
                !.dirty   = @ \/ gone # {},
                !.changes = [k \in Keys |->
                               IF k \notin gone THEN @[k]
                               ELSE IF k \in md[t].keys THEN "removed"
                               ELSE "none"]])
    BY <1>2 DEF W!RemoveKeys
  <2>3. b = W!WithState(a, t, ts)
    BY <2>1, <2>2 DEF SoundState, TargetStateFields
  <2> HIDE DEF dirty, changes, b
  <2>4. SoundState(ts) /\ ts.pending = old.pending
    BY <2>1 DEF SoundState, TargetStateFields
  <2> HIDE DEF ts
  <2>5. SamePending(a, b)
    BY <2>1, <2>3, <2>4, StateChanged
  <2> QED BY <2>5 DEF b
<1> QED BY <1>1, <1>2

(* The state of a new target.                                              *)
LEMMA FreshStateFacts ==
  SoundState(W!FreshTargetState) /\ W!FreshTargetState.pending = 0
BY DEF W!FreshTargetState, SoundState, TargetStateFields

(* An active target waits for no answer, and so does a fresh one.          *)
LEMMA ResetKeeps ==
  ASSUME NEW a, AggregatorShape(a), NEW md, NEW t, W!IsActiveTarget(a, md, t)
  PROVE  SamePending(a, W!ResetTarget(a, md, t))
<1> DEFINE b == W!WithState(a, t, W!FreshTargetState)
<1>1. SamePending(a, b)
  BY ActiveFacts, FreshStateFacts, StateChanged
<1> HIDE DEF b
<1>2. SamePending(b, W!RemoveKeys(b, md, t, md[t].keys))
  BY <1>1, RemoveKeysKeeps DEF SamePending
<1>3. SamePending(a, W!RemoveKeys(b, md, t, md[t].keys))
  BY <1>1, <1>2, SamePendingOn
<1> QED BY <1>3 DEF W!ResetTarget, b

(* A target starts from nothing.                                           *)
LEMMA TargetResetKeeps ==
  ASSUME NEW a, AggregatorShape(a), NEW md, NEW t
  PROVE  SamePending(a, W!HandleReset(a, md, t))
BY ResetKeeps DEF W!HandleReset, SamePending

(* A resume token is remembered.                                           *)
LEMMA UpdateTokenFacts ==
  ASSUME NEW ts, SoundState(ts), NEW token
  PROVE  SoundState(W!UpdateResumeToken(ts, token))
         /\ W!UpdateResumeToken(ts, token).pending = ts.pending
<1> DEFINE us == [ts EXCEPT !.token = token, !.dirty = TRUE]
<1>1. SoundState(us) /\ us.pending = ts.pending
  BY DEF SoundState, TargetStateFields
<1> QED BY <1>1 DEF W!UpdateResumeToken

(* A target is current.                                                    *)
LEMMA CurrentKeeps ==
  ASSUME NEW a, AggregatorShape(a), NEW md, NEW t, NEW token
  PROVE  SamePending(a, W!HandleCurrent(a, md, t, token))
<1>1. CASE ~W!IsActiveTarget(a, md, t)
  BY <1>1 DEF W!HandleCurrent, SamePending
<1>2. CASE W!IsActiveTarget(a, md, t)
  <2> DEFINE old == a.states[t]
             ts == [old EXCEPT !.current = TRUE, !.dirty = TRUE]
             us == W!UpdateResumeToken(ts, token)
  <2>1. t \in DOMAIN a.states /\ SoundState(old)
    BY <1>2, ActiveFacts
  <2>2. SoundState(ts) /\ ts.pending = old.pending
    BY <2>1 DEF SoundState, TargetStateFields
  <2> HIDE DEF ts
  <2>3. SoundState(us) /\ us.pending = old.pending
    BY <2>2, UpdateTokenFacts
  <2> HIDE DEF us
  <2>4. SamePending(a, W!WithState(a, t, us))
    BY <2>1, <2>3, StateChanged
  <2> QED BY <1>2, <2>4 DEF W!HandleCurrent, us, ts
<1> QED BY <1>1, <1>2

(* A number of documents is compared with what is known.                   *)
LEMMA ExistenceFilterKeeps ==
  ASSUME NEW a, AggregatorShape(a), NEW md, NEW m
  PROVE  SamePending(a, W!HandleExistenceFilter(a, md, m))
<1> DEFINE t == m.t
           ruled == IF m.might = NoUpdate THEN {} ELSE md[t].keys \ m.might
           trimmed == W!RemoveKeys(a, md, t, ruled)
           reset == W!ResetTarget(trimmed, md, t)
           mismatch == [reset EXCEPT !.resets = @ \cup {t}]
           key == CHOOSE k \in md[t].single : TRUE
           doc == W!RemoveDocumentFromTarget(a, md, t, key, W!NoDocument(0))
           b == W!HandleExistenceFilter(a, md, m)
<1>1. SamePending(a, a)
  BY DEF SamePending
<1>2. CASE ~W!IsActiveTarget(a, md, t)
  BY <1>1, <1>2 DEF W!HandleExistenceFilter
<1>3. CASE W!IsActiveTarget(a, md, t)
  <2>1. b = a \/ b = doc \/ b = trimmed \/ b = mismatch
    BY <1>3 DEF W!HandleExistenceFilter
  <2> HIDE DEF ruled, key, b
  <2>2. SamePending(a, trimmed) /\ AggregatorShape(trimmed)
    BY RemoveKeysKeeps DEF SamePending
  <2>3. SamePending(a, doc)
    <3> DEFINE n == [member |-> FALSE, t |-> t, key |-> key, doc |-> W!NoDocument(0)]
    <3>1. n.member = FALSE /\ n.t = t /\ n.key = key /\ n.doc = W!NoDocument(0)
      OBVIOUS
    <3> HIDE DEF n, t
    <3>2. W!HandleDocumentChange(a, md, n) = doc
      BY <3>1 DEF W!HandleDocumentChange
    <3> HIDE DEF doc
    <3>3. SamePending(a, W!HandleDocumentChange(a, md, n))
      BY DocumentChangeKeeps
    <3> QED BY <3>2, <3>3, Zenon
  <2> HIDE DEF trimmed, doc, t
  <2>4. W!IsActiveTarget(trimmed, md, t)
    BY <1>3, <2>2 DEF W!IsActiveTarget, SamePending
  <2>5. SamePending(trimmed, reset) /\ AggregatorShape(reset)
    BY <2>2, <2>4, ResetKeeps DEF SamePending
  <2> HIDE DEF reset
  <2>6. SamePending(reset, mismatch)
    <3>1. DOMAIN mismatch = DOMAIN reset /\ mismatch.states = reset.states
      BY <2>5 DEF AggregatorShape, AggregatorFields
    <3> HIDE DEF mismatch
    <3> QED BY <2>5, <3>1, StatesSame
  <2> HIDE DEF mismatch
  <2>7. SamePending(a, mismatch)
    BY <2>2, <2>5, <2>6, SamePendingOn
  <2> QED BY <1>1, <2>1, <2>2, <2>3, <2>7 DEF b
<1> QED BY <1>2, <1>3

(* A global snapshot; every target learns its token.                       *)
LEMMA NoChangeKeeps ==
  ASSUME NEW a, AggregatorShape(a), NEW md, NEW token
  PROVE  SamePending(a, W!HandleNoChange(a, md, token))
<1> DEFINE states == [t \in DOMAIN a.states |->
                        IF W!IsActiveTarget(a, md, t)
                          THEN W!UpdateResumeToken(a.states[t], token) ELSE a.states[t]]
           b == W!HandleNoChange(a, md, token)
<1>1. b = [a EXCEPT !.states = states]
  BY DEF W!HandleNoChange
<1>2. DOMAIN states = DOMAIN a.states
      /\ \A t \in DOMAIN states :
           SoundState(states[t]) /\ states[t].pending = a.states[t].pending
  <2>1. \A t \in DOMAIN a.states : SoundState(a.states[t])
    BY DEF AggregatorShape, SoundState
  <2> QED BY <2>1, UpdateTokenFacts
<1> HIDE DEF states, b
<1>3. DOMAIN b = AggregatorFields /\ b.states = states
  BY <1>1 DEF AggregatorShape, AggregatorFields
<1>4. SamePending(a, b)
  BY <1>2, <1>3 DEF SamePending, AggregatorShape, SoundState
<1> QED BY <1>4 DEF b

(* What createRemoteEvent leaves, and what it tells of a target.           *)
LEMMA CreateEventKeeps ==
  ASSUME NEW a, AggregatorShape(a), NEW md, NEW version
  PROVE  LET r == W!CreateRemoteEvent(a, md, version)
         IN  /\ SamePending(a, r.left)
             /\ DOMAIN r.event.changes \subseteq DOMAIN md
             /\ \A t \in DOMAIN r.event.changes : r.event.changes[t].current \in BOOLEAN
<1> DEFINE r == W!CreateRemoteEvent(a, md, version)
           lost == W!NeverSent(a, md)
           mark(t) == [k \in Keys |-> IF <<k, t>> \in lost THEN "none"
                                      ELSE a.states[t].changes[k]]
           told(t) == [a.states[t] EXCEPT !.dirty = TRUE,
                         !.changes = [k \in Keys |->
                            IF <<k, t>> \in lost THEN "none" ELSE @[k]]]
           states == [t \in DOMAIN a.states |->
                        IF \E key \in Keys : <<key, t>> \in lost
                          THEN told(t) ELSE a.states[t]]
           raised == {t \in DOMAIN states : W!IsActiveTarget(a, md, t) /\ states[t].dirty}
           after == [t \in DOMAIN states |->
                       IF t \in raised THEN W!ClearPendingChanges(states[t])
                       ELSE states[t]]
<1>1. /\ r.left = [W!FreshAggregator EXCEPT !.states = after]
      /\ r.event.changes = [t \in raised |-> W!ToTargetChange(states[t])]
  BY DEF W!CreateRemoteEvent
<1>2. DOMAIN states = DOMAIN a.states
      /\ \A t \in DOMAIN states :
           SoundState(states[t]) /\ states[t].pending = a.states[t].pending
  <2> SUFFICES ASSUME NEW t \in DOMAIN a.states
               PROVE  SoundState(states[t]) /\ states[t].pending = a.states[t].pending
    OBVIOUS
  <2>1. SoundState(a.states[t])
    BY DEF AggregatorShape, SoundState
  <2>2. SoundState(told(t)) /\ told(t).pending = a.states[t].pending
    <3> DEFINE changes == mark(t)
               ts == [[a.states[t] EXCEPT !.dirty = TRUE] EXCEPT !.changes = changes]
    <3>1. told(t) = ts
      BY <2>1 DEF SoundState, TargetStateFields
    <3> HIDE DEF changes, told
    <3>2. SoundState(ts) /\ ts.pending = a.states[t].pending
      BY <2>1 DEF SoundState, TargetStateFields
    <3> HIDE DEF ts
    <3> QED BY <3>1, <3>2
  <2>3. states[t] = told(t) \/ states[t] = a.states[t]
    <3> HIDE DEF told
    <3> QED OBVIOUS
  <2> HIDE DEF states, told
  <2> QED BY <2>1, <2>2, <2>3
<1> HIDE DEF states
<1>3. raised \subseteq DOMAIN a.states /\ raised \subseteq DOMAIN md
  BY <1>2, ActiveFacts
<1> HIDE DEF raised
<1>4. DOMAIN after = DOMAIN a.states
      /\ \A t \in DOMAIN after : SoundState(after[t]) /\ after[t].pending = a.states[t].pending
  <2>1. DOMAIN after = DOMAIN a.states
    BY <1>2
  <2>2. ASSUME NEW t \in DOMAIN a.states
        PROVE  SoundState(after[t]) /\ after[t].pending = a.states[t].pending
    <3> DEFINE ts == states[t]
               us == [ts EXCEPT !.dirty = FALSE, !.changes = [k \in Keys |-> "none"]]
    <3>1. SoundState(ts) /\ ts.pending = a.states[t].pending
      BY <1>2
    <3>2. SoundState(us) /\ us.pending = ts.pending
      <4> HIDE DEF ts
      <4> QED BY <3>1 DEF SoundState, TargetStateFields
    <3>3. after[t] = us \/ after[t] = ts
      BY <1>2 DEF W!ClearPendingChanges
    <3> HIDE DEF us, ts, after
    <3> QED BY <3>1, <3>2, <3>3
  <2> QED BY <2>1, <2>2
<1> HIDE DEF after
<1>5. DOMAIN r.left = AggregatorFields /\ r.left.states = after
  <2>1. DOMAIN W!FreshAggregator = AggregatorFields
    BY DEF W!FreshAggregator, AggregatorFields
  <2> HIDE DEF r
  <2> QED BY <1>1, <2>1 DEF AggregatorFields
<1> HIDE DEF r
<1>6. SamePending(a, r.left)
  BY <1>4, <1>5 DEF SamePending, AggregatorShape, SoundState
<1>7. DOMAIN r.event.changes = raised
  BY <1>1
<1>8. \A t \in raised : r.event.changes[t].current \in BOOLEAN
  <2> TAKE t \in raised
  <2>1. r.event.changes[t] = W!ToTargetChange(states[t])
    BY <1>1
  <2>2. W!ToTargetChange(states[t]).current = states[t].current
    BY DEF W!ToTargetChange
  <2> QED BY <1>2, <1>3, <2>1, <2>2 DEF SoundState
<1> QED BY <1>3, <1>6, <1>7, <1>8 DEF r

=============================================================================
