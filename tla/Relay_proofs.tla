----------------------------- MODULE Relay_proofs -----------------------------
(***************************************************************************)
(* Proofs about Relay, for any clients, sessions, pipe connections, sizes, *)
(* caps, faults and timeouts.                                              *)
(***************************************************************************)
EXTENDS Relay, FiniteSetTheorems, SequenceTheorems, WellFoundedInduction, TLAPS

(* The indexes are kept under every session and every client.  Nothing is  *)
(* assumed of the continuations: a registration under an id that is no     *)
(* session or no client would fall outside both directions at once.        *)
IndexesOK ==
    /\ DOMAIN sessionSubscribers = Sessions /\ DOMAIN clientSubscriptions = Clients
    /\ DOMAIN statusWatchers = Sessions /\ DOMAIN clientStatusWatches = Clients
    /\ IndexesAgree

(* Every client has an entry, perhaps 0, in every session's sizes. *)
SizesOK ==
    /\ DOMAIN clientDesiredSizes = Sessions /\ DOMAIN effectiveSizes = Sessions
    /\ \A s \in Sessions : DOMAIN clientDesiredSizes[s] = Clients
    /\ EffectiveIsMin

IInv == IndexesOK /\ SizesOK

-----------------------------------------------------------------------------
(* Leave keeps the indexes in step, for any sessions it is given. *)
LEMMA LeaveKeepsIndexes ==
    ASSUME IndexesOK, NEW c, NEW A, NEW W, Leave(c, A, W)
    PROVE  IndexesOK'
<1>1. /\ sessionSubscribers' = Without(sessionSubscribers, c, A)
      /\ statusWatchers' = Without(statusWatchers, c, W)
      /\ clientSubscriptions' = [clientSubscriptions EXCEPT ![c] = @ \ A]
      /\ clientStatusWatches' = [clientStatusWatches EXCEPT ![c] = @ \ W]
  BY DEF Leave
<1> QED
  BY <1>1 DEF IndexesOK, IndexesAgree, Without

(* A session whose sizes are recomputed has the smallest wanted, and a     *)
(* session that is not must have had no change of what is wanted.          *)
LEMMA RecomputedIsMin ==
    ASSUME SizesOK, NEW desired, NEW S,
           DOMAIN desired = Sessions,
           \A s \in Sessions : DOMAIN desired[s] = Clients,
           \A s \in Sessions \ S : Wanted(desired, s) = Wanted(clientDesiredSizes, s),
           clientDesiredSizes' = desired,
           effectiveSizes' = Recomputed(desired, S)
    PROVE  SizesOK'
<1>1. SUFFICES EffectiveIsMin'
  BY DEF SizesOK, Recomputed
<1>2. SUFFICES ASSUME NEW s \in Sessions
               PROVE  effectiveSizes'[s] = IF Wanted(desired, s) = {} THEN 0
                                           ELSE Min(Wanted(desired, s))
  BY DEF EffectiveIsMin
<1>3. CASE s \in S
  BY <1>3 DEF Recomputed
<1>4. CASE s \notin S
  <2>1. effectiveSizes'[s] = effectiveSizes[s]
    BY <1>4 DEF Recomputed
  <2> QED
    BY <1>4, <2>1 DEF SizesOK, EffectiveIsMin
<1> QED
  BY <1>3, <1>4

(* Leave recomputes only the sessions in which the client had a size; in   *)
(* the others forgetting it changes nothing.                               *)
LEMMA LeaveKeepsSizes ==
    ASSUME SizesOK, NEW c, NEW A, NEW W, c \in Clients \/ A = {}, Leave(c, A, W)
    PROVE  SizesOK'
<1> DEFINE desired == WithoutSize(c, A)
<1>1. clientDesiredSizes' = desired /\ effectiveSizes' = Recomputed(desired, HadSize(c, A))
  BY DEF Leave
<1>2. DOMAIN desired = Sessions /\ \A s \in Sessions : DOMAIN desired[s] = Clients
  BY DEF WithoutSize, SizesOK
<1>3. ASSUME NEW s \in Sessions \ HadSize(c, A)
      PROVE  /\ DOMAIN desired[s] = DOMAIN clientDesiredSizes[s]
             /\ \A d \in Clients : desired[s][d] = clientDesiredSizes[s][d]
  BY <1>3 DEF WithoutSize, HadSize, SizesOK
<1>4. ASSUME NEW s \in Sessions \ HadSize(c, A)
      PROVE  Wanted(desired, s) = Wanted(clientDesiredSizes, s)
  BY <1>3 DEF Wanted
<1> HIDE DEF desired
<1> QED
  BY <1>1, <1>2, <1>4, RecomputedIsMin

LEMMA IndexesUnchanged ==
    ASSUME IndexesOK, UNCHANGED relayVars
    PROVE  IndexesOK'
BY DEF relayVars, IndexesOK, IndexesAgree

LEMMA SizesUnchanged ==
    ASSUME SizesOK, UNCHANGED sizeVars
    PROVE  SizesOK'
BY DEF sizeVars, SizesOK, EffectiveIsMin, Wanted

LEMMA InitIInv == Init => IInv
BY DEF Init, GwInit, IInv, IndexesOK, IndexesAgree, SizesOK, EffectiveIsMin, Wanted

-----------------------------------------------------------------------------
(* Frames: only `removed' touches the indexes and the sizes. *)
LEMMA ReadFrameKeeps == IInv /\ ReadFrame => IInv'
<1> SUFFICES ASSUME IInv, ReadFrame
             PROVE  IndexesOK' /\ SizesOK'
  BY DEF IInv
<1> USE DEF IInv
<1>1. CASE GotRemoved
  <2> DEFINE s == Incoming.sid
  <2>1. IndexesOK'
    BY <1>1 DEF GotRemoved, IndexesOK, IndexesAgree
  <2>2. /\ clientDesiredSizes' = [clientDesiredSizes EXCEPT ![s] = [c \in Clients |-> 0]]
        /\ effectiveSizes' = [effectiveSizes EXCEPT ![s] = 0]
    BY <1>1 DEF GotRemoved
  <2> HIDE DEF s
  <2>3. ASSUME NEW t \in Sessions, t = s
        PROVE  Wanted(clientDesiredSizes', t) = {} /\ effectiveSizes'[t] = 0
    BY <2>2, <2>3 DEF Wanted, SizesOK
  <2>4. ASSUME NEW t \in Sessions, t # s
        PROVE  /\ Wanted(clientDesiredSizes', t) = Wanted(clientDesiredSizes, t)
               /\ effectiveSizes'[t] = effectiveSizes[t]
    BY <2>2, <2>4 DEF Wanted, SizesOK
  <2>5. EffectiveIsMin'
    BY <2>3, <2>4 DEF EffectiveIsMin, SizesOK
  <2>6. SizesOK'
    BY <2>2, <2>5 DEF SizesOK
  <2> QED
    BY <2>1, <2>6
<1>2. CASE \/ GotHello \/ GotSessions \/ GotCreated \/ GotSubscribed
           \/ GotUnsubscribed \/ GotError \/ GotOutput \/ GotExit
  <2>1. UNCHANGED relayVars /\ UNCHANGED sizeVars
    BY <1>2 DEF GotHello, GotSessions, GotCreated, GotSubscribed,
                GotUnsubscribed, GotError, GotOutput, GotExit, Ignored
  <2> QED
    BY <2>1, IndexesUnchanged, SizesUnchanged
<1> QED
  BY <1>1, <1>2 DEF ReadFrame

(* Continuations: a late attach, and a watch that is undone. *)
LEMMA ContinueKeeps == IInv /\ Continue => IInv'
<1> SUFFICES ASSUME IInv, Continue
             PROVE  IndexesOK' /\ SizesOK'
  BY DEF IInv
<1> USE DEF IInv
<1> DEFINE k == Head(micro)
<1>1. \/ UNCHANGED relayVars /\ UNCHANGED sizeVars
      \/ Attached(k) \/ Created(k) \/ Watched(k)
  BY DEF Continue
<1> HIDE DEF k
<1>2. CASE UNCHANGED relayVars /\ UNCHANGED sizeVars
  BY <1>2, IndexesUnchanged, SizesUnchanged
<1>3. CASE Attached(k)
  <2>1. SizesOK'
    BY <1>3, SizesUnchanged DEF Attached
  <2>2. IndexesOK'
    BY <1>3 DEF Attached, IndexesOK, IndexesAgree
  <2> QED
    BY <2>1, <2>2
<1>4. CASE Created(k)
  BY <1>4, IndexesUnchanged, SizesUnchanged DEF Created
<1>5. CASE Watched(k)
  <2>1. CASE k.ok
    BY <1>5, <2>1, IndexesUnchanged, SizesUnchanged DEF Watched
  <2>2. CASE ~k.ok
    <3>1. Leave(k.client, {}, {k.sid})
      BY <1>5, <2>2 DEF Watched
    <3> QED
      BY <3>1, LeaveKeepsIndexes, LeaveKeepsSizes
  <2> QED
    BY <2>1, <2>2
<1> QED
  BY <1>1, <1>2, <1>3, <1>4, <1>5

(* The rest of the gateway's own steps. *)
LEMMA GatewayKeeps == IInv /\ GatewayStep => IInv'
<1> SUFFICES ASSUME IInv, GatewayStep
             PROVE  IndexesOK' /\ SizesOK'
  BY DEF IInv
<1> USE DEF IInv
<1>1. CASE ReadFrame
  BY <1>1, ReadFrameKeeps
<1>2. CASE Continue
  BY <1>2, ContinueKeeps
<1>3. CASE Disconnected
  BY <1>3 DEF Disconnected, IndexesOK, IndexesAgree, SizesOK, EffectiveIsMin, Wanted
<1>4. CASE \/ CheckPhase \/ Connect \/ Connected \/ GotOversized
           \/ \E p \in pending : RequestTimeout(p)
  <2>1. UNCHANGED relayVars /\ UNCHANGED sizeVars
    BY <1>4 DEF CheckPhase, Connect, Connected, GotOversized, RequestTimeout, gwVars
  <2> QED
    BY <2>1, IndexesUnchanged, SizesUnchanged
<1> QED
  BY <1>1, <1>2, <1>3, <1>4 DEF GatewayStep

(* The messages and the close events of clients. *)
LEMMA ClientKeeps == IInv /\ ClientStep => IInv'
<1> SUFFICES ASSUME IInv, NEW c \in Clients,
                    \/ ClientConnect(c) \/ ClientMessageFrom(c)
                    \/ ClientClosed(c) \/ ClientTerminated(c)
             PROVE  IndexesOK' /\ SizesOK'
  BY DEF IInv, ClientStep
<1> USE DEF IInv
<1>1. CASE ClientConnect(c) \/ ClientTerminated(c)
  <2>1. UNCHANGED relayVars /\ UNCHANGED sizeVars
    BY <1>1 DEF ClientConnect, ClientTerminated
  <2> QED
    BY <2>1, IndexesUnchanged, SizesUnchanged
<1>2. CASE ClientClosed(c)
  <2>1. Leave(c, clientSubscriptions[c], clientStatusWatches[c])
    BY <1>2 DEF ClientClosed
  <2> QED
    BY <2>1, LeaveKeepsIndexes, LeaveKeepsSizes
<1>3. ASSUME NEW s \in Sessions, DetachMessage(c, s)
      PROVE  IndexesOK' /\ SizesOK'
  BY <1>3, LeaveKeepsIndexes, LeaveKeepsSizes DEF DetachMessage
<1>4. ASSUME NEW s \in Sessions, UnwatchMessage(c, s)
      PROVE  IndexesOK' /\ SizesOK'
  BY <1>4, LeaveKeepsIndexes, LeaveKeepsSizes DEF UnwatchMessage
<1>5. ASSUME NEW s \in Sessions, WatchMessage(c, s)
      PROVE  IndexesOK' /\ SizesOK'
  <2>1. SizesOK'
    BY <1>5, SizesUnchanged DEF WatchMessage
  <2>2. IndexesOK'
    BY <1>5 DEF WatchMessage, IndexesOK, IndexesAgree
  <2> QED
    BY <2>1, <2>2
<1>6. ASSUME NEW s \in Sessions, NEW size, ResizeMessage(c, s, size)
      PROVE  IndexesOK' /\ SizesOK'
  <2> DEFINE desired == [clientDesiredSizes EXCEPT ![s][c] = size]
  <2>1. IndexesOK'
    BY <1>6, IndexesUnchanged DEF ResizeMessage
  <2>2. clientDesiredSizes' = desired /\ effectiveSizes' = Recomputed(desired, {s})
    BY <1>6 DEF ResizeMessage
  <2>3. /\ DOMAIN desired = Sessions
        /\ \A t \in Sessions : DOMAIN desired[t] = Clients
        /\ \A t \in Sessions \ {s} : Wanted(desired, t) = Wanted(clientDesiredSizes, t)
    BY DEF SizesOK, Wanted
  <2> HIDE DEF desired
  <2>4. SizesOK'
    BY <2>2, <2>3, RecomputedIsMin
  <2> QED
    BY <2>1, <2>4
<1>7. ASSUME NEW s \in Sessions,
             \/ \E kind \in Creates, attach \in BOOLEAN : CreateMessage(c, s, kind, attach)
             \/ AttachMessage(c, s)
             \/ \E op \in {"input", "kill"} : ForwardMessage(c, s, op)
      PROVE  IndexesOK' /\ SizesOK'
  <2>1. UNCHANGED relayVars /\ UNCHANGED sizeVars
    BY <1>7 DEF CreateMessage, AttachMessage, ForwardMessage
  <2> QED
    BY <2>1, IndexesUnchanged, SizesUnchanged
<1> QED
  BY <1>1, <1>2, <1>3, <1>4, <1>5, <1>6, <1>7 DEF ClientMessageFrom

LEMMA NextIInv == IInv /\ [Next]_vars => IInv'
<1> SUFFICES ASSUME IInv, [Next]_vars
             PROVE  IInv'
  OBVIOUS
<1>1. CASE SupervisorStep \/ UNCHANGED vars
  <2>1. UNCHANGED relayVars /\ UNCHANGED sizeVars
    BY <1>1 DEF SupervisorStep, vars, gwVars
  <2> QED
    BY <2>1, IndexesUnchanged, SizesUnchanged DEF IInv
<1>2. CASE GatewayStep
  BY <1>2, GatewayKeeps
<1>3. CASE ClientStep
  BY <1>3, ClientKeeps
<1> QED
  BY <1>1, <1>2, <1>3 DEF Next

LEMMA Consistent == Spec => []IInv
BY InitIInv, NextIInv, PTL DEF Spec

(* The two indexes of the gateway stay inverses of each other, although    *)
(* they are updated by different callbacks and a continuation may register *)
(* a client that has gone (ws-server.ts, attachClientToSession).           *)
THEOREM IndexesAlwaysAgree == Spec => []IndexesAgree
<1>1. IInv => IndexesAgree
  BY DEF IInv, IndexesOK
<1> QED
  BY <1>1, Consistent, PTL

(* The size a terminal has been given is the smallest that any client      *)
(* wants, although it is recomputed for some sessions only                 *)
(* (ws-server.ts, recomputeEffectiveSize).                                 *)
THEOREM EffectiveAlwaysMin == Spec => []EffectiveIsMin
<1>1. IInv => EffectiveIsMin
  BY DEF IInv, SizesOK
<1> QED
  BY <1>1, Consistent, PTL



(* Induction over the naturals, stated of a set. *)

Below == {ss \in Nat \X Nat : ss[1] < ss[2]}

LEMMA BelowIsWellFounded == IsWellFoundedOn(Below, Nat)
  BY NatLessThanWellFounded DEF OpToRel, Below

LEMMA LeastNatural ==
    ASSUME NEW T, T \subseteq Nat, T # {}
    PROVE  \E n \in T : \A k \in T : n <= k
  <1>1. PICK n \in T : \A k \in T : ~(<<k, n>> \in Below)
    BY BelowIsWellFounded, WFMin
  <1>2. ASSUME NEW k \in T PROVE n <= k
    <2>1. <<k, n>> \in Nat \X Nat
      OBVIOUS
    <2>2. ~(k < n)
      BY <1>1, <2>1 DEF Below
    <2>3. QED
      BY <2>2
  <1>3. QED
    BY <1>2

LEMMA NaturalInduction ==
    ASSUME NEW S, 0 \in S, \A n \in Nat : n \in S => n + 1 \in S
    PROVE  Nat \subseteq S
  <1> DEFINE T == Nat \ S
  <1>1. SUFFICES ASSUME T # {} PROVE FALSE
    OBVIOUS
  <1>2. PICK n \in T : \A k \in T : n <= k
    BY <1>1, LeastNatural
  <1>3. n # 0 /\ n - 1 \in Nat
    OBVIOUS
  <1>4. n - 1 \in S
    BY <1>2, <1>3
  <1>5. QED
    BY <1>3, <1>4
-----------------------------------------------------------------------------
(* Sequences made from sets, and the smallest and largest of numbers. *)

LEMMA SetToSeqTyped ==
    ASSUME NEW S, IsFiniteSet(S)
    PROVE  /\ Cardinality(S) \in Nat
           /\ SetToSeq(S) \in [1 .. Cardinality(S) -> S]
           /\ \A x \in S : \E i \in 1 .. Cardinality(S) : SetToSeq(S)[i] = x
<1>1. Cardinality(S) \in Nat /\ ExistsBijection(1 .. Cardinality(S), S)
  BY FS_CardinalityType
<1>2. \E f \in [1 .. Cardinality(S) -> S] : IsInjective(f)
  BY <1>1 DEF ExistsBijection, Bijection, Injection, IsInjective
<1>3. SetToSeq(S) \in [1 .. Cardinality(S) -> S] /\ IsInjective(SetToSeq(S))
  BY <1>2 DEF SetToSeq
<1> DEFINE f == SetToSeq(S)
<1>4. f \in Injection(1 .. Cardinality(S), S)
  BY <1>3 DEF Injection, IsInjective
<1>5. IsFiniteSet(1 .. Cardinality(S)) /\ Cardinality(1 .. Cardinality(S)) = Cardinality(S)
  BY <1>1, FS_Interval
<1>6. f \in Surjection(1 .. Cardinality(S), S)
  <2> HIDE DEF f
  <2> QED
    BY <1>4, <1>5, FS_Injection
<1> QED
  BY <1>1, <1>3, <1>6 DEF Surjection

LEMMA MinIs ==
    ASSUME NEW S, S \subseteq Nat, S # {}
    PROVE  Min(S) \in S /\ \A x \in S : Min(S) <= x
<1>1. \E n \in S : \A k \in S : n <= k
  BY LeastNatural
<1> QED
  BY <1>1 DEF Min

LEMMA MaxIs ==
    ASSUME NEW n \in Nat, NEW S, S \subseteq 1 .. n, n \in S
    PROVE  Max(S) = n
<1>1. \A x \in S : n >= x
  OBVIOUS
<1>2. Max(S) \in S /\ \A x \in S : Max(S) >= x
  BY <1>1 DEF Max
<1>3. Max(S) \in 1 .. n /\ Max(S) >= n
  BY <1>2
<1> QED
  BY <1>3

-----------------------------------------------------------------------------
(* What is on a screen after one more piece. *)

(* f[s] is what the pieces with numbers in s make of `runs'. *)
IsFold(f, runs, pieces, n) ==
    f = [s \in SUBSET (1 .. n) |->
            IF s = {} THEN runs ELSE Extend(f[s \ {Max(s)}], pieces[Max(s)])]

LEMMA FoldExists ==
    ASSUME NEW runs, NEW pieces, NEW n \in Nat
    PROVE  \E f : IsFold(f, runs, pieces, n)
<1> DEFINE S == {m \in Nat : \E f : IsFold(f, runs, pieces, m)}
<1>1. 0 \in S
  <2> DEFINE f == [s \in SUBSET (1 .. 0) |-> runs]
  <2>1. \A s \in SUBSET (1 .. 0) : s = {}
    OBVIOUS
  <2>2. IsFold(f, runs, pieces, 0)
    BY <2>1 DEF IsFold
  <2> QED
    BY <2>2
<1>2. ASSUME NEW m \in Nat, m \in S
      PROVE  m + 1 \in S
  <2>1. PICK f : IsFold(f, runs, pieces, m)
    BY <1>2
  <2> DEFINE last == m + 1
             g == [s \in SUBSET (1 .. last) |->
                     IF last \in s THEN Extend(f[s \ {last}], pieces[last]) ELSE f[s]]
  <2>2. ASSUME NEW s \in SUBSET (1 .. last), last \in s
        PROVE  g[s] = IF s = {} THEN runs ELSE Extend(g[s \ {Max(s)}], pieces[Max(s)])
    <3>1. Max(s) = last
      <4>1. last \in Nat /\ s \subseteq 1 .. last
        OBVIOUS
      <4> HIDE DEF last
      <4> QED
        BY <2>2, <4>1, MaxIs
    <3>2. s \ {last} \in SUBSET (1 .. last) /\ last \notin s \ {last}
      OBVIOUS
    <3>3. g[s \ {last}] = f[s \ {last}]
      BY <3>2
    <3> QED
      BY <2>2, <3>1, <3>3
  <2>3. ASSUME NEW s \in SUBSET (1 .. last), last \notin s
        PROVE  g[s] = IF s = {} THEN runs ELSE Extend(g[s \ {Max(s)}], pieces[Max(s)])
    <3>1. s \in SUBSET (1 .. m)
      BY <2>3
    <3>2. f[s] = IF s = {} THEN runs ELSE Extend(f[s \ {Max(s)}], pieces[Max(s)])
      BY <2>1, <3>1 DEF IsFold
    <3>3. s \ {Max(s)} \in SUBSET (1 .. last) /\ last \notin s \ {Max(s)}
      BY <2>3
    <3>4. g[s \ {Max(s)}] = f[s \ {Max(s)}] /\ g[s] = f[s]
      BY <2>3, <3>3
    <3> QED
      BY <3>2, <3>4
  <2>4. IsFold(g, runs, pieces, last)
    <3>1. g = [s \in SUBSET (1 .. last) |-> g[s]]
      OBVIOUS
    <3> HIDE DEF g
    <3>2. \A s \in SUBSET (1 .. last) :
            g[s] = IF s = {} THEN runs ELSE Extend(g[s \ {Max(s)}], pieces[Max(s)])
      BY <2>2, <2>3
    <3> QED
      BY <3>1, <3>2 DEF IsFold
  <2> QED
    BY <2>4
<1> HIDE DEF S
<1>3. Nat \subseteq S
  BY <1>1, <1>2, NaturalInduction
<1> QED
  BY <1>3 DEF S

LEMMA FoldSteps ==
    ASSUME NEW f, NEW runs, NEW pieces, NEW n \in Nat, IsFold(f, runs, pieces, n)
    PROVE  /\ f[1 .. 0] = runs
           /\ \A m \in Nat : m < n => f[1 .. m + 1] = Extend(f[1 .. m], pieces[m + 1])
<1>1. 1 .. 0 = {} /\ {} \in SUBSET (1 .. n)
  OBVIOUS
<1>2. f[1 .. 0] = runs
  BY <1>1 DEF IsFold
<1>3. ASSUME NEW m \in Nat, m < n
      PROVE  f[1 .. m + 1] = Extend(f[1 .. m], pieces[m + 1])
  <2>1. /\ 1 .. m + 1 \in SUBSET (1 .. n) /\ 1 .. m + 1 # {}
        /\ (1 .. m + 1) \ {m + 1} = 1 .. m
    BY <1>3
  <2>2. Max(1 .. m + 1) = m + 1
    BY MaxIs
  <2> QED
    BY <2>1, <2>2 DEF IsFold
<1> QED
  BY <1>2, <1>3

LEMMA ShownIsFold ==
    ASSUME NEW runs, NEW pieces, NEW n \in Nat, DOMAIN pieces = 1 .. n
    PROVE  \E f : IsFold(f, runs, pieces, n) /\ Shown(runs, pieces) = f[1 .. n]
<1>1. \E f : IsFold(f, runs, pieces, n)
  BY FoldExists
<1> DEFINE g == CHOOSE f : IsFold(f, runs, pieces, n)
<1>2. Shown(runs, pieces) = g[1 .. n]
  BY DEF Shown, FoldLeft, MapThenFoldSet, IsFold
<1>3. IsFold(g, runs, pieces, n)
  BY <1>1
<1> QED
  BY <1>2, <1>3

LEMMA ExtendTyped ==
    ASSUME NEW runs \in Seq(Stretch), NEW p \in Stretch
    PROVE  Extend(runs, p) \in Seq(Stretch)
<1>1. CASE runs # <<>> /\ Last(runs).to + 1 = p.from
  <2>1. Len(runs) \in 1 .. Len(runs) /\ runs[Len(runs)] \in Stretch
    BY <1>1
  <2>2. [runs[Len(runs)] EXCEPT !.to = p.to] \in Stretch
    BY <2>1 DEF Stretch
  <2> QED
    BY <1>1, <2>1, <2>2, ExceptSeq DEF Extend
<1>2. CASE ~(runs # <<>> /\ Last(runs).to + 1 = p.from)
  BY <1>2 DEF Extend
<1> QED
  BY <1>1, <1>2

LEMMA ShownTyped ==
    ASSUME NEW runs \in Seq(Stretch), NEW pieces \in Seq(Stretch)
    PROVE  Shown(runs, pieces) \in Seq(Stretch)
<1> DEFINE n == Len(pieces)
<1>1. n \in Nat /\ DOMAIN pieces = 1 .. n /\ \A m \in 1 .. n : pieces[m] \in Stretch
  OBVIOUS
<1> HIDE DEF n
<1>2. PICK f : IsFold(f, runs, pieces, n) /\ Shown(runs, pieces) = f[1 .. n]
  BY <1>1, ShownIsFold
<1>3. /\ f[1 .. 0] = runs
      /\ \A m \in Nat : m < n => f[1 .. m + 1] = Extend(f[1 .. m], pieces[m + 1])
  BY <1>1, <1>2, FoldSteps
<1> DEFINE S == {m \in Nat : m <= n => f[1 .. m] \in Seq(Stretch)}
<1>4. 0 \in S
  BY <1>3
<1>5. ASSUME NEW m \in Nat, m \in S
      PROVE  m + 1 \in S
  <2>1. SUFFICES ASSUME m + 1 <= n
                 PROVE  f[1 .. m + 1] \in Seq(Stretch)
    OBVIOUS
  <2>2. m < n /\ m + 1 \in 1 .. n /\ m <= n
    BY <1>1, <2>1
  <2>3. f[1 .. m] \in Seq(Stretch) /\ pieces[m + 1] \in Stretch
    BY <1>1, <1>5, <2>2
  <2>4. Extend(f[1 .. m], pieces[m + 1]) \in Seq(Stretch)
    BY <2>3, ExtendTyped
  <2> QED
    BY <1>3, <2>2, <2>4
<1> HIDE DEF S
<1>6. Nat \subseteq S
  BY <1>4, <1>5, NaturalInduction
<1>7. n \in S
  BY <1>1, <1>6
<1> QED
  BY <1>1, <1>2, <1>7 DEF S

-----------------------------------------------------------------------------
(* What the supervisor writes. *)

(* A frame about a session names one. *)
AboutSession == {"created", "subscribed", "unsubscribed", "output", "exit", "removed"}

NamedFrame == {f \in ServerFrame : f.type \in AboutSession => f.sid \in Sessions}

FramesNamed == toGw \in [Conns -> Seq(NamedFrame)]

LEMMA NamedFrames ==
    /\ \A t \in ServerFrameTypes, s \in Sessions, id \in Nat : Frame(t, s, id) \in NamedFrame
    /\ \A t \in ServerFrameTypes, s \in Sessions, id, lo, hi \in Nat :
          OutputFrame(t, s, id, lo, hi) \in NamedFrame
    /\ \A id \in Nat : \A S \in SUBSET Sessions : SessionsFrame(id, S) \in NamedFrame
    /\ \A id \in Nat : Frame("error", NoSession, id) \in NamedFrame
    /\ Frame("hello", NoSession, 0) \in NamedFrame
  BY DEF NamedFrame, AboutSession, ServerFrame, ServerFrameTypes, Frame, OutputFrame, SessionsFrame

LEMMA WritesNamed ==
    ASSUME NEW q \in [Conns -> Seq(NamedFrame)], NEW f \in NamedFrame
    PROVE  /\ \A c \in Conns : Sent(q, c, f) \in [Conns -> Seq(NamedFrame)]
           /\ Broadcast(q, f) \in [Conns -> Seq(NamedFrame)]
           /\ \A s : FanOut(q, s, f) \in [Conns -> Seq(NamedFrame)]
<1>1. \A c \in Conns : q[c] \in Seq(NamedFrame) /\ Append(q[c], f) \in Seq(NamedFrame)
  OBVIOUS
<1> QED
  BY <1>1 DEF Sent, Broadcast, FanOut

(* The first line on a connection. *)
LEMMA LineTyped ==
    ASSUME IpcTypeOK, NEW c \in Conns, NEW t, Receive(c, t)
    PROVE  /\ toSup[c] # <<>>
           /\ Head(toSup[c]) \in ClientMessage
           /\ Head(toSup[c]).id \in Nat
           /\ Head(toSup[c]).type = t
           /\ Head(toSup[c]).sid \in Sessions \cup {NoSession}
           /\ t \notin {"hello", "list"} => Head(toSup[c]).sid \in Sessions
<1>1. toSup[c] \in Seq(ClientMessage) /\ toSup[c] # <<>> /\ Head(toSup[c]).type = t
  BY DEF IpcTypeOK, Receive
<1>2. Head(toSup[c]) \in ClientMessage
  BY <1>1
<1> QED
  BY <1>1, <1>2 DEF ClientMessage, ClientMessageTypes

LEMMA EmitNamed ==
    ASSUME FramesNamed, SupTypeOK, NEW s \in Sessions, Emit(s)
    PROVE  FramesNamed'
<1>1. produced[s] + 1 \in Nat
  BY DEF SupTypeOK
<1>2. OutputFrame("output", s, 0, produced[s] + 1, produced[s] + 1) \in NamedFrame
  BY <1>1, NamedFrames DEF ServerFrameTypes
<1> QED
  BY <1>2, WritesNamed DEF Emit, FramesNamed

LEMMA EmitExitNamed ==
    ASSUME FramesNamed, NEW s \in Sessions, NEW queued, EmitExit(s, queued)
    PROVE  FramesNamed'
<1>1. Frame("exit", s, 0) \in NamedFrame
  BY NamedFrames DEF ServerFrameTypes
<1> QED
  BY <1>1, WritesNamed DEF EmitExit, FramesNamed

(* The supervisor answers a line about a session with a frame about it. *)
LEMMA HandleNamed ==
    ASSUME FramesNamed, IpcTypeOK, SupTypeOK, NEW c \in Conns, HandleMessage(c)
    PROVE  FramesNamed'
<1> DEFINE m == Head(toSup[c])
<1> USE DEF FramesNamed
<1>1. CASE Hello(c)
  <2>1. m.id \in Nat
    BY <1>1, LineTyped DEF Hello
  <2> DEFINE f == Frame("hello", NoSession, 0)
             g == SessionsFrame(m.id, Listed)
             e == Frame("error", NoSession, m.id)
  <2>2. f \in NamedFrame /\ g \in NamedFrame /\ e \in NamedFrame
    BY <2>1, NamedFrames DEF Listed
  <2>3. toGw' = Sent(Sent(toGw, c, f), c, g) \/ toGw' = Sent(toGw, c, e)
    BY <1>1 DEF Hello, SendTo
  <2> HIDE DEF f, g, e
  <2>4. Sent(toGw, c, f) \in [Conns -> Seq(NamedFrame)]
    BY <2>2, WritesNamed
  <2>5. /\ Sent(Sent(toGw, c, f), c, g) \in [Conns -> Seq(NamedFrame)]
        /\ Sent(toGw, c, e) \in [Conns -> Seq(NamedFrame)]
    BY <2>2, <2>4, WritesNamed
  <2> QED
    BY <2>3, <2>5
<1>2. CASE SendTo(c, Reply(c, "error")) /\ \E t : Receive(c, t)
  <2>1. m.id \in Nat /\ m.sid \in Sessions \cup {NoSession}
    BY <1>2, LineTyped
  <2>2. Reply(c, "error") \in NamedFrame
    BY <2>1, NamedFrames DEF Reply, ServerFrameTypes
  <2> QED
    BY <1>2, <2>2, WritesNamed DEF SendTo
<1>3. CASE List(c)
  <2>1. m.id \in Nat
    BY <1>3, LineTyped DEF List
  <2>2. SessionsFrame(m.id, Listed) \in NamedFrame
    BY <2>1, NamedFrames DEF Listed
  <2> QED
    BY <1>3, <2>2, WritesNamed DEF List, SendTo
<1>4. ASSUME NEW p, Start(c, m, p), m.sid \in Sessions, m.id \in Nat
      PROVE  FramesNamed'
  <2> DEFINE f == Frame("created", m.sid, 0)
             g == Frame("created", m.sid, m.id)
  <2>1. f \in NamedFrame /\ g \in NamedFrame
    BY <1>4, NamedFrames DEF ServerFrameTypes
  <2>2. toGw' = Sent(Broadcast(toGw, f), c, g)
    BY <1>4 DEF Start
  <2> HIDE DEF f, g
  <2>3. Broadcast(toGw, f) \in [Conns -> Seq(NamedFrame)]
    BY <2>1, WritesNamed
  <2> QED
    BY <2>1, <2>2, <2>3, WritesNamed
<1>5. CASE Create(c) \/ CreateSsh(c)
  <2>1. m.sid \in Sessions /\ m.id \in Nat
    <3>1. Receive(c, "create") \/ Receive(c, "create_ssh")
      BY <1>5 DEF Create, CreateSsh
    <3> QED
      BY <3>1, LineTyped
  <2> QED
    BY <1>2, <1>4, <1>5, <2>1 DEF Create, CreateSsh
<1>6. CASE Subscribe(c)
  <2>1. m.sid \in Sessions /\ m.id \in Nat
    BY <1>6, LineTyped DEF Subscribe
  <2>2. scrollback[m.sid] \in Nat /\ produced[m.sid] \in Nat
    BY <2>1 DEF SupTypeOK
  <2>3. OutputFrame("subscribed", m.sid, m.id, scrollback[m.sid], produced[m.sid]) \in NamedFrame
    BY <2>1, <2>2, NamedFrames DEF ServerFrameTypes
  <2> QED
    BY <1>2, <1>6, <2>3, WritesNamed DEF Subscribe, SendTo
<1>7. CASE Unsubscribe(c)
  <2>1. m.sid \in Sessions /\ m.id \in Nat
    BY <1>7, LineTyped DEF Unsubscribe
  <2>2. Reply(c, "unsubscribed") \in NamedFrame
    BY <2>1, NamedFrames DEF Reply, ServerFrameTypes
  <2> QED
    BY <1>7, <2>2, WritesNamed DEF Unsubscribe, SendTo
<1>8. CASE Unauthorized(c) \/ Forward(c) \/ Resize(c)
  BY Zenon, <1>2, <1>8 DEF Unauthorized, Forward, Resize
<1> QED
  BY <1>1, <1>3, <1>5, <1>6, <1>7, <1>8 DEF HandleMessage

LEMMA SupervisorNames ==
    ASSUME FramesNamed, IpcTypeOK, SupTypeOK, SupervisorStep
    PROVE  FramesNamed'
<1>1. CASE \E c \in Conns : HandleMessage(c)
  BY <1>1, HandleNamed
<1>2. CASE \E c \in Conns : Accept(c) \/ Destroy(c) \/ Close(c)
  BY <1>2 DEF Accept, Destroy, Close, ipcVars, FramesNamed
<1>3. ASSUME NEW s \in Sessions, NEW i \in Incs,
             \/ Data(s, i) \/ PtyExit(s, i)
             \/ SshReady(s, i) \/ SshFatal(s, i) \/ SshStreamClose(s, i)
      PROVE  FramesNamed'
  <2>1. CASE Data(s, i) \/ SshFatal(s, i)
    BY <2>1, EmitNamed DEF Data, SshFatal
  <2>2. CASE PtyExit(s, i) \/ SshStreamClose(s, i)
    BY <2>2, EmitExitNamed DEF PtyExit, SshStreamClose
  <2>3. CASE SshReady(s, i)
    BY <2>3 DEF SshReady, ipcVars, FramesNamed
  <2> QED
    BY <1>3, <2>1, <2>2, <2>3
<1>4. CASE RunImmediate
  <2> DEFINE s == Head(immediates).sid
  <2>1. s \in Sessions
    <3>1. Head(immediates) \in Immediate
      BY <1>4 DEF RunImmediate, SupTypeOK
    <3> QED
      BY <3>1 DEF Immediate
  <2>2. RunExit(s) \/ RunRemoved(s)
    BY <1>4 DEF RunImmediate
  <2>3. CASE RunExit(s)
    BY <2>1, <2>3, EmitExitNamed DEF RunExit
  <2>4. CASE RunRemoved(s)
    <3>1. Frame("removed", s, 0) \in NamedFrame
      BY <2>1, NamedFrames DEF ServerFrameTypes
    <3> QED
      BY <2>4, <3>1, WritesNamed DEF RunRemoved, FramesNamed
  <2> QED
    BY <2>2, <2>3, <2>4
<1> QED
  BY <1>1, <1>2, <1>3, <1>4 DEF SupervisorStep

-----------------------------------------------------------------------------
(* What is written to the pipe, and what is kept of it. *)

(* The gateway's end of the pipe is the end of a connection, and requests  *)
(* are told apart by their ids.                                            *)
LinkOK == sock # "down" => gwConn \in Conns

PendingOK ==
    /\ IsFiniteSet(pending)
    /\ \A p \in pending : p.id < nextReqId
    /\ \A p, q \in pending : p.id = q.id => p = q

(* However many sessions there may be, few are in use at a time. *)
FewInUse ==
    /\ IsFiniteSet(subscribed)
    /\ \A c \in Clients : IsFiniteSet(clientSubscriptions[c])

Typed == TypeOK /\ LinkOK /\ PendingOK /\ FewInUse /\ FramesNamed

LEMMA RequestTyped ==
    /\ Request("hello", NoSession, 0) \in ClientMessage
    /\ \A t \in ClientMessageTypes \ {"hello", "list"}, s \in Sessions, id \in Nat :
          Request(t, s, id) \in ClientMessage
    /\ \A t \in ClientMessageTypes \ {"hello", "list"}, s \in Sessions, id \in Nat, n \in Sizes :
          [Request(t, s, id) EXCEPT !.size = n] \in ClientMessage
  BY DEF Request, ClientMessage, ClientMessageTypes

LEMMA PostTyped ==
    ASSUME Typed, NEW msgs \in Seq(ClientMessage), Post(msgs)
    PROVE  toSup' \in [Conns -> Seq(ClientMessage)]
<1>1. toSup \in [Conns -> Seq(ClientMessage)]
  BY DEF Typed, TypeOK, IpcTypeOK
<1>2. CASE Writable /\ msgs # <<>>
  <2>1. gwConn \in Conns
    BY <1>2 DEF Writable, Typed, LinkOK
  <2>2. toSup[gwConn] \o msgs \in Seq(ClientMessage)
    BY <1>1, <2>1
  <2> QED
    BY <1>1, <1>2, <2>1, <2>2 DEF Post
<1> QED
  BY <1>1, <1>2 DEF Post

LEMMA UnsubscribeLinesTyped ==
    ASSUME NEW U \in SUBSET Sessions, IsFiniteSet(U)
    PROVE  UnsubscribeLines(U) \in Seq(ClientMessage)
<1>1. /\ Cardinality(U) \in Nat
      /\ \A i \in 1 .. Cardinality(U) : SetToSeq(U)[i] \in Sessions
  BY SetToSeqTyped
<1>2. ASSUME NEW i \in 1 .. Cardinality(U)
      PROVE  Request("unsubscribe", SetToSeq(U)[i], 0) \in ClientMessage
  BY <1>1, RequestTyped DEF ClientMessageTypes
<1> QED
  BY <1>1, <1>2, SeqDef DEF UnsubscribeLines

LEMMA ResizeLinesTyped ==
    ASSUME NEW effective \in [Sessions -> Sizes \cup {0}], NEW S, IsFiniteSet(S),
           \A s \in Sessions : s \in S \/ effective[s] = effectiveSizes[s]
    PROVE  ResizeLines(effective) \in Seq(ClientMessage)
<1> DEFINE R == {s \in Sessions : effective[s] \notin {0, effectiveSizes[s]}}
           changed == SetToSeq(R)
           n == Cardinality(R)
<1>1. IsFiniteSet(R)
  <2>1. R \in SUBSET S
    OBVIOUS
  <2> HIDE DEF R
  <2> QED
    BY <2>1, FS_Subset
<1>2. n \in Nat /\ changed \in [1 .. n -> R]
  <2> HIDE DEF R
  <2> QED
    BY <1>1, SetToSeqTyped
<1>3. ASSUME NEW i \in 1 .. n
      PROVE  [Request("resize", changed[i], 0) EXCEPT !.size = effective[changed[i]]]
                \in ClientMessage
  <2>1. changed[i] \in Sessions /\ effective[changed[i]] \in Sizes
    <3> HIDE DEF changed, n
    <3> QED
      BY <1>2
  <2> HIDE DEF changed
  <2> QED
    BY <2>1, RequestTyped DEF ClientMessageTypes
<1>4. ResizeLines(effective) =
        [i \in DOMAIN changed |->
           [Request("resize", changed[i], 0) EXCEPT !.size = effective[changed[i]]]]
  BY DEF ResizeLines
<1> HIDE DEF changed, n
<1>5. ResizeLines(effective) \in [1 .. n -> ClientMessage]
  BY <1>2, <1>3, <1>4
<1> QED
  BY <1>2, <1>5, SeqDef

LEMMA RecomputedTyped ==
    ASSUME NEW desired \in [Sessions -> [Clients -> Sizes \cup {0}]], NEW S,
           effectiveSizes \in [Sessions -> Sizes \cup {0}]
    PROVE  Recomputed(desired, S) \in [Sessions -> Sizes \cup {0}]
<1>1. ASSUME NEW s \in Sessions, Wanted(desired, s) # {}
      PROVE  Min(Wanted(desired, s)) \in Sizes
  <2>1. Wanted(desired, s) \subseteq Sizes /\ Wanted(desired, s) \subseteq Nat
    BY IpcAssumption DEF Wanted
  <2> QED
    BY <1>1, <2>1, MinIs
<1> QED
  BY <1>1 DEF Recomputed

(* The oldest request first. *)
LEMMA OrderedByAge ==
    ASSUME NEW R \in SUBSET PendingRequest, IsFiniteSet(R),
           \A p, q \in R : p.id = q.id => p = q
    PROVE  /\ Cardinality(R) \in Nat
           /\ ByAge(R) \in [1 .. Cardinality(R) -> R]
<1> DEFINE Sorted(q) == \A i, j \in DOMAIN q : i < j => q[i].id < q[j].id
           S == {n \in Nat : \A T \in SUBSET R :
                   IsFiniteSet(T) /\ Cardinality(T) = n => \E q \in [1 .. n -> T] : Sorted(q)}
<1>0. \A p \in R : p.id \in Nat
  BY DEF PendingRequest
<1>1. 0 \in S
  <2> SUFFICES ASSUME NEW T \in SUBSET R
               PROVE  \E q \in [1 .. 0 -> T] : Sorted(q)
    OBVIOUS
  <2> DEFINE q == [i \in 1 .. 0 |-> 0]
  <2>1. q \in [1 .. 0 -> T] /\ Sorted(q)
    OBVIOUS
  <2> QED
    BY <2>1
<1>2. ASSUME NEW n \in Nat, n \in S
      PROVE  n + 1 \in S
  <2>1. SUFFICES ASSUME NEW T \in SUBSET R, IsFiniteSet(T), Cardinality(T) = n + 1
                 PROVE  \E q \in [1 .. n + 1 -> T] : Sorted(q)
    OBVIOUS
  <2>2. T # {}
    BY <2>1, FS_EmptySet
  <2> DEFINE ids == {p.id : p \in T}
  <2>3. ids \subseteq Nat /\ ids # {}
    BY <1>0, <2>2
  <2>4. PICK least \in ids : \A k \in ids : least <= k
    <3> HIDE DEF ids
    <3> QED
      BY <2>3, LeastNatural
  <2>5. PICK p \in T : p.id = least
    BY <2>4
  <2>6. \A r \in T \ {p} : p.id < r.id
    BY <1>0, <2>4, <2>5
  <2>7. IsFiniteSet(T \ {p}) /\ Cardinality(T \ {p}) = n
    <3>1. IsFiniteSet(T \ {p}) /\ Cardinality(T \ {p}) = Cardinality(T) - 1
      BY <2>1, <2>5, FS_RemoveElement
    <3> QED
      BY <2>1, <3>1
  <2>8. PICK q \in [1 .. n -> T \ {p}] : Sorted(q)
    BY <1>2, <2>7
  <2> DEFINE r == [i \in 1 .. n + 1 |-> IF i = 1 THEN p ELSE q[i - 1]]
  <2>9. r \in [1 .. n + 1 -> T]
    BY <2>5, <2>8
  <2>10. ASSUME NEW i \in 1 .. n + 1, NEW j \in 1 .. n + 1, i < j
         PROVE  r[i].id < r[j].id
    <3>1. j - 1 \in 1 .. n /\ r[j] = q[j - 1] /\ q[j - 1] \in T \ {p}
      BY <2>8, <2>10
    <3>2. CASE i = 1
      BY <2>6, <3>1, <3>2
    <3>3. CASE i # 1
      <4>1. i - 1 \in 1 .. n /\ r[i] = q[i - 1] /\ i - 1 < j - 1
        BY <2>10, <3>3
      <4> QED
        BY <2>8, <3>1, <4>1
    <3> QED
      BY <3>2, <3>3
  <2> QED
    BY <2>9, <2>10
<1> HIDE DEF S
<1>3. Nat \subseteq S
  BY <1>1, <1>2, NaturalInduction
<1>4. Cardinality(R) \in Nat
  BY FS_CardinalityType
<1>5. \E q \in [1 .. Cardinality(R) -> R] : Sorted(q)
  BY <1>3, <1>4 DEF S
<1> QED
  BY <1>4, <1>5 DEF ByAge

LEMMA ResumeTyped ==
    ASSUME NEW step \in {"reply", "caller"}, NEW p \in PendingRequest, NEW ok \in BOOLEAN,
           NEW output \in Seq(Stretch)
    PROVE  Resume(step, p, ok, output) \in Continuation
  BY DEF Resume, Continuation, PendingRequest

LEMMA RejectedTyped ==
    ASSUME NEW R \in SUBSET PendingRequest, IsFiniteSet(R),
           \A p, q \in R : p.id = q.id => p = q
    PROVE  Rejected(R) \in Seq(Continuation)
<1>1. /\ Cardinality(R) \in Nat
      /\ \A i \in 1 .. Cardinality(R) : ByAge(R)[i] \in PendingRequest
  BY OrderedByAge
<1>2. <<>> \in Seq(Stretch)
  OBVIOUS
<1>3. ASSUME NEW i \in 1 .. Cardinality(R)
      PROVE  Resume("reply", ByAge(R)[i], FALSE, <<>>) \in Continuation
  BY <1>1, <1>2, ResumeTyped
<1> DEFINE n == Cardinality(R)
<1>4. Rejected(R) \in [1 .. n -> Continuation]
  BY <1>3 DEF Rejected
<1> HIDE DEF n
<1> QED
  BY <1>1, <1>4, SeqDef DEF n

(* The local scrollback stays a sequence of pieces. *)
LEMMA RememberTyped ==
    ASSUME NEW pieces \in Seq(Stretch), pieces # <<>>
    PROVE  DropOldest(pieces) \in Seq(Stretch)
<1> DEFINE n == Len(pieces)
           fits(k) == k = n \/ Length(SubSeq(pieces, k, n)) <= LocalCap
           K == {k \in 1 .. n : fits(k)}
           first == CHOOSE k \in 1 .. n : fits(k) /\ \A j \in 1 .. k - 1 : ~fits(j)
<1>1. n \in Nat /\ n \in K /\ K \subseteq Nat
  OBVIOUS
<1>2. PICK k \in K : \A j \in K : k <= j
  <2> HIDE DEF K
  <2> QED
    BY <1>1, LeastNatural
<1>3. k \in 1 .. n /\ fits(k)
  BY <1>2
<1>4. \A j \in 1 .. k - 1 : j \in 1 .. n /\ ~(k <= j)
  BY <1>1, <1>3
<1>5. \A j \in 1 .. k - 1 : ~fits(j)
  BY <1>2, <1>4
<1>6. first \in 1 .. n
  <2> HIDE DEF fits
  <2> QED
    BY <1>3, <1>5
<1>7. DropOldest(pieces) = SubSeq(pieces, first, n)
  BY DEF DropOldest
<1> HIDE DEF first, n
<1> QED
  BY <1>1, <1>6, <1>7, SubSeqProperties DEF n

-----------------------------------------------------------------------------
(* What the gateway does keeps the types. *)

LEMMA IssueTyped ==
    ASSUME Typed, NEW p, NEW q \in Seq(Continuation),
           \A id \in Nat : [p EXCEPT !.id = id] \in PendingRequest,
           \A id \in Nat : [p EXCEPT !.id = id].id = id,
           p \in PendingRequest,
           IssueRequest(p, q)
    PROVE  /\ toSup' \in [Conns -> Seq(ClientMessage)]
           /\ pending' \subseteq PendingRequest
           /\ nextReqId' \in Nat
           /\ micro' \in Seq(Continuation)
           /\ PendingOK'
<1>1. /\ nextReqId \in Nat /\ pending \subseteq PendingRequest
      /\ \A r \in pending : r.id \in Nat
      /\ toSup \in [Conns -> Seq(ClientMessage)]
  BY DEF Typed, TypeOK, IpcTypeOK, ScTypeOK, PendingRequest
<1>2. nextReqId' = nextReqId + 1
  BY DEF IssueRequest
<1>3. CASE Writable
  <2> DEFINE r == [p EXCEPT !.id = nextReqId]
  <2>1. r \in PendingRequest /\ r.id = nextReqId
    BY <1>1
  <2>2. pending' = pending \cup {r} /\ micro' = q
    BY <1>3 DEF IssueRequest
  <2>3. RequestType(p.kind) \in ClientMessageTypes \ {"hello", "list"} /\ p.sid \in Sessions
    BY DEF RequestType, ClientMessageTypes, PendingRequest, Kinds, Creates
  <2>4. <<Request(RequestType(p.kind), p.sid, nextReqId)>> \in Seq(ClientMessage)
    BY <1>1, <2>3, RequestTyped
  <2>5. toSup' \in [Conns -> Seq(ClientMessage)]
    BY <1>3, <2>4, PostTyped DEF IssueRequest
  <2>6. IsFiniteSet(pending \cup {r})
    BY FS_AddElement DEF Typed, PendingOK
  <2> HIDE DEF r
  <2>7. PendingOK'
    BY <1>1, <1>2, <2>1, <2>2, <2>6 DEF Typed, PendingOK
  <2> QED
    BY <1>1, <1>2, <2>1, <2>2, <2>5, <2>7
<1>4. CASE ~Writable
  <2> DEFINE r == Resume("reply", p, FALSE, <<>>)
  <2>1. UNCHANGED <<pending, toSup>> /\ micro' = Append(q, r)
    BY <1>4 DEF IssueRequest
  <2>2. <<>> \in Seq(Stretch)
    OBVIOUS
  <2>3. r \in Continuation
    BY <2>2, ResumeTyped
  <2> HIDE DEF r
  <2>4. PendingOK'
    BY <1>1, <1>2, <2>1 DEF Typed, PendingOK
  <2>5. micro' \in Seq(Continuation)
    BY <2>1, <2>3
  <2> QED
    BY <1>1, <1>2, <2>1, <2>4, <2>5
<1> QED
  BY <1>3, <1>4

LEMMA AskTyped ==
    ASSUME NEW kind \in Kinds, NEW c \in Clients, NEW s \in Sessions, NEW attach \in BOOLEAN
    PROVE  /\ Ask(kind, c, s, attach) \in PendingRequest
           /\ \A id \in Nat : [Ask(kind, c, s, attach) EXCEPT !.id = id] \in PendingRequest
           /\ \A id \in Nat : [Ask(kind, c, s, attach) EXCEPT !.id = id].id = id
           /\ Ask(kind, c, s, attach).sid = s
  BY DEF Ask, PendingRequest

LEMMA EnsureTyped ==
    ASSUME Typed, NEW q \in Seq(Continuation), NEW kind \in Kinds, NEW c \in Clients,
           NEW s \in Sessions, NEW attach \in BOOLEAN,
           EnsureSubscribed(Ask(kind, c, s, attach), q)
    PROVE  /\ toSup' \in [Conns -> Seq(ClientMessage)]
           /\ pending' \subseteq PendingRequest
           /\ nextReqId' \in Nat
           /\ micro' \in Seq(Continuation)
           /\ PendingOK'
<1> DEFINE p == Ask(kind, c, s, attach)
<1>1. CASE s \in subscribed
  <2>1. p \in PendingRequest /\ p.sid = s
    BY AskTyped
  <2>2. /\ micro' = Append(q, Resume("caller", p, s \in sessionCache, localScrollback[s]))
        /\ UNCHANGED <<pending, nextReqId, toSup>>
    BY <1>1, <2>1 DEF EnsureSubscribed
  <2>3. localScrollback[s] \in Seq(Stretch) /\ (s \in sessionCache) \in BOOLEAN
    BY DEF Typed, TypeOK, ScTypeOK
  <2> HIDE DEF p
  <2>4. Resume("caller", p, s \in sessionCache, localScrollback[s]) \in Continuation
    BY <2>1, <2>3, ResumeTyped
  <2>5. PendingOK'
    BY <2>2 DEF Typed, PendingOK
  <2> QED
    BY <2>2, <2>4, <2>5 DEF Typed, TypeOK, IpcTypeOK, ScTypeOK
<1>2. CASE s \notin subscribed
  <2>1. /\ p \in PendingRequest /\ p.sid = s
        /\ \A id \in Nat : [p EXCEPT !.id = id] \in PendingRequest
        /\ \A id \in Nat : [p EXCEPT !.id = id].id = id
    BY AskTyped
  <2> HIDE DEF p
  <2>2. IssueRequest(p, q)
    BY <1>2, <2>1 DEF EnsureSubscribed, p
  <2> QED
    BY <2>1, <2>2, IssueTyped
<1> QED
  BY <1>1, <1>2

LEMMA SettleTyped ==
    ASSUME Typed, NEW f \in ServerFrame, Settle(f)
    PROVE  /\ pending' \subseteq pending
           /\ micro' \in Seq(Continuation)
           /\ UNCHANGED nextReqId => PendingOK'
<1> DEFINE matched == {p \in Awaiting(f) : Expects(p.kind, f.type)}
<1>1. CASE matched = {}
  <2>1. UNCHANGED <<pending, micro>>
    BY <1>1 DEF Settle
  <2> QED
    BY <2>1 DEF Typed, PendingOK, TypeOK, ScTypeOK
<1>2. CASE matched # {}
  <2> DEFINE p == CHOOSE q \in matched : TRUE
  <2>1. p \in pending
    BY <1>2 DEF Awaiting
  <2>2. /\ pending' = pending \ {p}
        /\ micro' = Append(micro, Resume("reply", p, f.type # "error", Snapshot(f)))
    BY <1>2 DEF Settle
  <2> HIDE DEF p
  <2>3. p \in PendingRequest /\ micro \in Seq(Continuation)
    BY <2>1 DEF Typed, TypeOK, ScTypeOK
  <2>4. Snapshot(f) \in Seq(Stretch) /\ (f.type # "error") \in BOOLEAN
    <3>1. Piece(f.from, f.to) \in Stretch
      BY DEF Piece, Stretch, ServerFrame
    <3>2. <<>> \in Seq(Stretch) /\ <<Piece(f.from, f.to)>> \in Seq(Stretch)
      BY <3>1
    <3>3. Snapshot(f) \in Seq(Stretch)
      BY <3>2 DEF Snapshot, Pieces
    <3>4. (f.type # "error") \in BOOLEAN
      OBVIOUS
    <3> QED
      BY <3>3, <3>4
  <2>5. Resume("reply", p, f.type # "error", Snapshot(f)) \in Continuation
    BY <2>3, <2>4, ResumeTyped
  <2>6. IsFiniteSet(pending \ {p})
    BY FS_RemoveElement DEF Typed, PendingOK
  <2>7. UNCHANGED nextReqId => PendingOK'
    BY <2>2, <2>6 DEF Typed, PendingOK
  <2> QED
    BY <2>2, <2>3, <2>5, <2>7
<1> QED
  BY <1>1, <1>2

(* The lines and the tables that one client leaves behind. *)
LEMMA LeaveTyped ==
    ASSUME Typed, NEW c \in Clients, NEW A, IsFiniteSet(A), NEW W, Leave(c, A, W)
    PROVE  /\ toSup' \in [Conns -> Seq(ClientMessage)]
           /\ subscribed' \subseteq subscribed
           /\ localScrollback' \in [Sessions -> Seq(Stretch)]
           /\ sessionSubscribers' \in [Sessions -> SUBSET Clients]
           /\ statusWatchers' \in [Sessions -> SUBSET Clients]
           /\ clientSubscriptions' \in [Clients -> SUBSET Sessions]
           /\ clientStatusWatches' \in [Clients -> SUBSET Sessions]
           /\ clientDesiredSizes' \in [Sessions -> [Clients -> Sizes \cup {0}]]
           /\ effectiveSizes' \in [Sessions -> Sizes \cup {0}]
           /\ FewInUse'
<1> USE DEF Typed, TypeOK, ScTypeOK, GwTypeOK
<1> DEFINE subs == Without(sessionSubscribers, c, A)
           watchers == Without(statusWatchers, c, W)
           emptied(old, new) == {s \in Sessions : old[s] # {} /\ new[s] = {}}
           dropped == {s \in subscribed :
                         /\ s \in emptied(sessionSubscribers, subs) \cup emptied(statusWatchers, watchers)
                         /\ ~Keep(subs, watchers, s)}
           desired == WithoutSize(c, A)
           effective == Recomputed(desired, HadSize(c, A))
<1>1. /\ sessionSubscribers' = subs /\ statusWatchers' = watchers
      /\ clientSubscriptions' = [clientSubscriptions EXCEPT ![c] = @ \ A]
      /\ clientStatusWatches' = [clientStatusWatches EXCEPT ![c] = @ \ W]
      /\ ForgetSubscribed(dropped)
      /\ clientDesiredSizes' = desired /\ effectiveSizes' = effective
      /\ Post(UnsubscribeLines(dropped) \o ResizeLines(effective))
  BY DEF Leave
<1>2. /\ sessionSubscribers' \in [Sessions -> SUBSET Clients]
      /\ statusWatchers' \in [Sessions -> SUBSET Clients]
  BY <1>1 DEF Without
<1>3. /\ clientSubscriptions' \in [Clients -> SUBSET Sessions]
      /\ clientStatusWatches' \in [Clients -> SUBSET Sessions]
  BY <1>1
<1>4. desired \in [Sessions -> [Clients -> Sizes \cup {0}]]
  BY DEF WithoutSize
<1>5. dropped \in SUBSET Sessions /\ dropped \subseteq subscribed
  OBVIOUS
<1> HIDE DEF dropped, desired, subs, watchers
<1>6. effective \in [Sessions -> Sizes \cup {0}]
  BY <1>4, RecomputedTyped
<1> HIDE DEF effective
<1>7. IsFiniteSet(dropped)
  BY <1>5, FS_Subset DEF FewInUse
<1>8. UnsubscribeLines(dropped) \in Seq(ClientMessage)
  BY <1>5, <1>7, UnsubscribeLinesTyped
<1>9. ResizeLines(effective) \in Seq(ClientMessage)
  <2>1. HadSize(c, A) \in SUBSET A
    BY DEF HadSize
  <2>2. IsFiniteSet(HadSize(c, A))
    BY <2>1, FS_Subset
  <2>3. \A s \in Sessions : s \in HadSize(c, A) \/ effective[s] = effectiveSizes[s]
    BY DEF effective, Recomputed
  <2> QED
    BY <1>6, <2>2, <2>3, ResizeLinesTyped
<1>10. toSup' \in [Conns -> Seq(ClientMessage)]
  <2> DEFINE lines == UnsubscribeLines(dropped) \o ResizeLines(effective)
  <2>1. lines \in Seq(ClientMessage)
    BY <1>8, <1>9
  <2> HIDE DEF lines
  <2> QED
    BY <1>1, <2>1, PostTyped DEF lines
<1>11. /\ subscribed' = subscribed \ dropped
       /\ localScrollback' \in [Sessions -> Seq(Stretch)]
  BY <1>1 DEF ForgetSubscribed
<1>12. FewInUse'
  <2>1. subscribed' \in SUBSET subscribed
    BY <1>11
  <2>2. IsFiniteSet(subscribed')
    BY <2>1, FS_Subset DEF FewInUse
  <2>3. ASSUME NEW d \in Clients
        PROVE  IsFiniteSet(clientSubscriptions'[d])
    <3>1. clientSubscriptions'[d] \in SUBSET clientSubscriptions[d]
      BY <1>1
    <3> QED
      BY <3>1, FS_Subset DEF FewInUse
  <2> QED
    BY <2>2, <2>3 DEF FewInUse
<1> QED
  BY <1>1, <1>2, <1>3, <1>4, <1>6, <1>10, <1>11, <1>12

LEMMA RememberedTyped ==
    ASSUME NEW old \in Seq(Stretch), NEW p \in Stretch
    PROVE  DropOldest(Append(old, p)) \in Seq(Stretch)
<1>1. Append(old, p) \in Seq(Stretch) /\ Append(old, p) # <<>>
  BY AppendProperties
<1> QED
  BY <1>1, RememberTyped

GatewayTyped ==
    IpcTypeOK /\ ScTypeOK /\ GwTypeOK /\ LinkOK /\ PendingOK /\ FewInUse /\ FramesNamed

LEMMA PipeTyped ==
    ASSUME Typed, NEW t, PipeTurn(t)
    PROVE  /\ gwConn \in Conns
           /\ Incoming \in ServerFrame /\ Incoming.type = t
           /\ Incoming.from \in Nat /\ Incoming.to \in Nat /\ Incoming.list \subseteq Sessions
           /\ t \in AboutSession => Incoming.sid \in Sessions
           /\ toGw' \in [Conns -> Seq(ServerFrame)]
           /\ FramesNamed'
           /\ UNCHANGED toSup => IpcTypeOK'
<1>1. /\ gwConn \in Conns /\ toGw[gwConn] # <<>>
      /\ toGw' = [toGw EXCEPT ![gwConn] = Tail(@)] /\ Incoming.type = t
  BY DEF PipeTurn, Typed, LinkOK, Incoming
<1>2. toGw \in [Conns -> Seq(NamedFrame)]
  BY DEF Typed, FramesNamed
<1>3. Incoming \in NamedFrame /\ Tail(toGw[gwConn]) \in Seq(NamedFrame)
  BY <1>1, <1>2 DEF Incoming
<1>4. toGw' \in [Conns -> Seq(NamedFrame)]
  BY <1>1, <1>2, <1>3
<1>5. toGw' \in [Conns -> Seq(ServerFrame)]
  <2>1. toGw \in [Conns -> Seq(ServerFrame)] /\ Tail(toGw[gwConn]) \in Seq(ServerFrame)
    BY <1>1 DEF Typed, TypeOK, IpcTypeOK
  <2> QED
    BY <1>1, <2>1
<1> QED
  BY <1>1, <1>3, <1>4, <1>5
     DEF NamedFrame, ServerFrame, FramesNamed, IpcTypeOK, Typed, TypeOK

(* What a client is shown is a screen again. *)
LEMMA FlushedTyped ==
    ASSUME NEW v \in [Clients -> [Sessions -> Screen]], NEW s \in Sessions,
           NEW pieces \in Seq(Stretch)
    PROVE  Flushed(v, s, pieces) \in [Clients -> [Sessions -> Screen]]
<1>1. ASSUME NEW c \in Clients
      PROVE  [v[c] EXCEPT ![s].runs = Shown(@, pieces)] \in [Sessions -> Screen]
  <2>1. v[c][s] \in Screen /\ v[c][s].runs \in Seq(Stretch)
    BY DEF Screen
  <2>2. Shown(v[c][s].runs, pieces) \in Seq(Stretch)
    BY <2>1, ShownTyped
  <2>3. [v[c][s] EXCEPT !.runs = Shown(@, pieces)] \in Screen
    BY <2>1, <2>2 DEF Screen
  <2> QED
    BY <2>3
<1> QED
  BY <1>1 DEF Flushed

LEMMA BlankTyped ==
    ASSUME NEW pieces \in Seq(Stretch)
    PROVE  [Blank EXCEPT !.runs = Shown(<<>>, pieces)] \in Screen
<1>1. <<>> \in Seq(Stretch)
  OBVIOUS
<1>2. Shown(<<>>, pieces) \in Seq(Stretch)
  BY <1>1, ShownTyped
<1> QED
  BY <1>2 DEF Blank, Screen

LEMMA OutputTyped ==
    ASSUME Typed, GotOutput
    PROVE  GatewayTyped'
<1> USE DEF Typed, TypeOK, ScTypeOK, GwTypeOK
<1> DEFINE s == Incoming.sid
           p == Piece(Incoming.from, Incoming.to)
           pieces == Append(pendingOutput[s], p)
<1>1. /\ PipeTurn("output") /\ UNCHANGED micro /\ EndLine(1)
      /\ IF s \in subscribed THEN Remember(s, p) ELSE UNCHANGED localScrollback
      /\ \/ view' = Flushed(view, s, pieces) /\ pendingOutput' = [pendingOutput EXCEPT ![s] = <<>>]
         \/ pendingOutput' = [pendingOutput EXCEPT ![s] = pieces] /\ UNCHANGED view
      /\ UNCHANGED <<toSup, sock, gwConn, sessionCache, subscribed, pending, nextReqId,
                     ws, relayVars, sizeVars, asked>>
  BY DEF GotOutput
<1>2. s \in Sessions /\ p \in Stretch /\ IpcTypeOK' /\ FramesNamed'
  BY <1>1, PipeTyped DEF AboutSession, Piece, Stretch
<1> HIDE DEF s, p
<1>3. pieces \in Seq(Stretch)
  BY <1>2
<1>4. localScrollback' \in [Sessions -> Seq(Stretch)]
  <2> DEFINE old == localScrollback[s]
  <2>0. old \in Seq(Stretch)
    BY <1>2
  <2> HIDE DEF old
  <2>2. DropOldest(Append(old, p)) \in Seq(Stretch)
    BY <1>2, <2>0, RememberedTyped
  <2> QED
    BY <1>1, <2>2 DEF Remember, old
<1> HIDE DEF pieces
<1>5. view' \in [Clients -> [Sessions -> Screen]] /\ pendingOutput' \in [Sessions -> Seq(Stretch)]
  <2>1. Flushed(view, s, pieces) \in [Clients -> [Sessions -> Screen]]
    BY <1>2, <1>3, FlushedTyped
  <2>2. view' \in [Clients -> [Sessions -> Screen]]
    BY <1>1, <2>1
  <2>3. <<>> \in Seq(Stretch)
    OBVIOUS
  <2>4. pendingOutput' = [pendingOutput EXCEPT ![s] = <<>>] \/ pendingOutput' = [pendingOutput EXCEPT ![s] = pieces]
    BY <1>1
  <2> QED
    BY <1>3, <2>2, <2>3, <2>4
<1>6. turn' \in {"idle", "pipe"} /\ burst' \in Nat /\ pipeServed' = pipeServed
  BY <1>1 DEF EndLine, PipeTurn
<1>7. ScTypeOK'
  BY <1>1, <1>4
<1>8. GwTypeOK'
  BY <1>1, <1>5, <1>6 DEF relayVars, sizeVars
<1> QED
  BY <1>1, <1>2, <1>7, <1>8
     DEF GatewayTyped, LinkOK, PendingOK, FewInUse, relayVars

LEMMA ExitTyped ==
    ASSUME Typed, GotExit
    PROVE  GatewayTyped'
<1> USE DEF Typed, TypeOK, ScTypeOK, GwTypeOK
<1> DEFINE s == Incoming.sid
           flushed == Flushed(view, s, pendingOutput[s])
<1>1. /\ PipeTurn("exit") /\ UNCHANGED micro /\ EndLine(0)
      /\ pendingOutput' = [pendingOutput EXCEPT ![s] = <<>>]
      /\ view' = [c \in Clients |->
                    IF c \in sessionSubscribers[s] /\ IsOpen(c)
                      THEN [flushed[c] EXCEPT ![s].exited = TRUE]
                      ELSE flushed[c]]
      /\ UNCHANGED <<toSup, sock, gwConn, sessionCache, subscribed, localScrollback, pending,
                     nextReqId, ws, relayVars, sizeVars, asked>>
  BY DEF GotExit
<1>2. s \in Sessions /\ IpcTypeOK' /\ FramesNamed'
  BY <1>1, PipeTyped DEF AboutSession
<1> HIDE DEF s
<1>3. flushed \in [Clients -> [Sessions -> Screen]]
  BY <1>2, FlushedTyped
<1> HIDE DEF flushed
<1>4. ASSUME NEW c \in Clients
      PROVE  [flushed[c] EXCEPT ![s].exited = TRUE] \in [Sessions -> Screen]
  <2>1. flushed[c] \in [Sessions -> Screen]
    BY <1>3
  <2>2. [flushed[c][s] EXCEPT !.exited = TRUE] \in Screen
    BY <1>2, <2>1 DEF Screen
  <2> QED
    BY <2>1, <2>2
<1>5. view' \in [Clients -> [Sessions -> Screen]] /\ pendingOutput' \in [Sessions -> Seq(Stretch)]
  <2>1. view' \in [Clients -> [Sessions -> Screen]]
    BY <1>1, <1>3, <1>4
  <2>2. <<>> \in Seq(Stretch)
    OBVIOUS
  <2> QED
    BY <1>1, <2>1, <2>2
<1>6. turn' \in {"idle", "pipe"} /\ burst' \in Nat /\ pipeServed' = pipeServed
  BY <1>1 DEF EndLine, PipeTurn
<1>7. ScTypeOK'
  BY <1>1
<1>8. GwTypeOK'
  BY <1>1, <1>5, <1>6 DEF relayVars, sizeVars
<1> QED
  BY <1>1, <1>2, <1>7, <1>8
     DEF GatewayTyped, LinkOK, PendingOK, FewInUse, relayVars

LEMMA RemovedTyped ==
    ASSUME Typed, GotRemoved
    PROVE  GatewayTyped'
<1> USE DEF Typed, TypeOK, ScTypeOK, GwTypeOK
<1> DEFINE s == Incoming.sid
<1>1. s \in Sessions /\ IpcTypeOK' /\ FramesNamed'
  BY PipeTyped DEF AboutSession, GotRemoved
<1>2. /\ UNCHANGED micro /\ EndLine(0) /\ UNCHANGED pipeServed
      /\ sessionCache' = sessionCache \ {s}
      /\ subscribed' = subscribed \ {s}
      /\ localScrollback' = [t \in Sessions |-> IF t \in {s} THEN <<>> ELSE localScrollback[t]]
      /\ pendingOutput' = [pendingOutput EXCEPT ![s] = <<>>]
      /\ sessionSubscribers' = [sessionSubscribers EXCEPT ![s] = {}]
      /\ statusWatchers' = [statusWatchers EXCEPT ![s] = {}]
      /\ clientSubscriptions' = [c \in Clients |-> clientSubscriptions[c] \ {s}]
      /\ clientStatusWatches' = [c \in Clients |-> clientStatusWatches[c] \ {s}]
      /\ clientDesiredSizes' = [clientDesiredSizes EXCEPT ![s] = [c \in Clients |-> 0]]
      /\ effectiveSizes' = [effectiveSizes EXCEPT ![s] = 0]
      /\ UNCHANGED <<toSup, sock, gwConn, pending, nextReqId, ws, view, asked>>
  BY DEF GotRemoved, ForgetSubscribed, PipeTurn
<1> HIDE DEF s
<1>3. turn' \in {"idle", "pipe"} /\ burst' \in Nat
  BY <1>2 DEF EndLine
<1>4. ScTypeOK'
  BY <1>1, <1>2
<1>5. GwTypeOK'
  <2>1. /\ sessionSubscribers' \in [Sessions -> SUBSET Clients]
        /\ statusWatchers' \in [Sessions -> SUBSET Clients]
        /\ clientSubscriptions' \in [Clients -> SUBSET Sessions]
        /\ clientStatusWatches' \in [Clients -> SUBSET Sessions]
    BY <1>2
  <2>2. /\ clientDesiredSizes' \in [Sessions -> [Clients -> Sizes \cup {0}]]
        /\ effectiveSizes' \in [Sessions -> Sizes \cup {0}]
    BY <1>2
  <2>3. <<>> \in Seq(Stretch)
    OBVIOUS
  <2>4. pendingOutput' \in [Sessions -> Seq(Stretch)]
    BY <1>2, <2>3
  <2> QED
    BY <1>2, <1>3, <2>1, <2>2, <2>4
<1>6. FewInUse'
  <2>1. IsFiniteSet(subscribed \ {s})
    BY FS_RemoveElement DEF FewInUse
  <2>2. \A c \in Clients : IsFiniteSet(clientSubscriptions[c] \ {s})
    BY FS_RemoveElement DEF FewInUse
  <2> QED
    BY <1>2, <2>1, <2>2 DEF FewInUse
<1> QED
  BY <1>1, <1>2, <1>4, <1>5, <1>6 DEF GatewayTyped, LinkOK, PendingOK

(* The other frames change the cache and the requests at most. *)
LEMMA ReplyFrameTyped ==
    ASSUME Typed, NEW t, PipeTurn(t), EndLine(0),
           UNCHANGED <<toSup, gwConn, subscribed, localScrollback, nextReqId,
                       ws, relayVars, sizeVars, pendingOutput, view, asked>>,
           sock' \in {sock, "dead"}, sessionCache' \subseteq Sessions,
           Settle(Incoming) \/ UNCHANGED <<pending, micro>>
    PROVE  GatewayTyped'
<1> USE DEF Typed, TypeOK, ScTypeOK, GwTypeOK
<1>1. IpcTypeOK' /\ FramesNamed' /\ gwConn \in Conns /\ Incoming \in ServerFrame
  BY PipeTyped
<1>2. /\ pending' \subseteq PendingRequest /\ micro' \in Seq(Continuation)
      /\ PendingOK'
  <2>1. CASE Settle(Incoming)
    BY <1>1, <2>1, SettleTyped
  <2>2. CASE UNCHANGED <<pending, micro>>
    BY <2>2 DEF PendingOK
  <2> QED
    BY <2>1, <2>2
<1>3. turn' \in {"idle", "pipe"} /\ burst' \in Nat /\ pipeServed' = pipeServed
  BY DEF EndLine, PipeTurn
<1>4. ScTypeOK'
  BY <1>2
<1>5. GwTypeOK'
  BY <1>3 DEF relayVars, sizeVars
<1> QED
  BY <1>1, <1>2, <1>4, <1>5 DEF GatewayTyped, LinkOK, FewInUse, relayVars

LEMMA ReadFrameTyped ==
    ASSUME Typed, ReadFrame
    PROVE  GatewayTyped'
<1>1. sessionCache \subseteq Sessions
  BY DEF Typed, TypeOK, ScTypeOK
<1>2. CASE GotHello
  BY <1>1, <1>2, ReplyFrameTyped DEF GotHello, Ignored
<1>3. CASE GotUnsubscribed
  BY <1>1, <1>3, ReplyFrameTyped DEF GotUnsubscribed, Ignored
<1>4. CASE GotSessions
  BY <1>4, PipeTyped, ReplyFrameTyped DEF GotSessions
<1>5. CASE GotCreated
  BY <1>1, <1>5, PipeTyped, ReplyFrameTyped DEF GotCreated, AboutSession
<1>6. CASE GotSubscribed
  BY <1>1, <1>6, PipeTyped, ReplyFrameTyped DEF GotSubscribed, AboutSession
<1>7. CASE GotError
  BY <1>1, <1>7, ReplyFrameTyped DEF GotError
<1> QED
  BY <1>2, <1>3, <1>4, <1>5, <1>6, <1>7, OutputTyped, ExitTyped, RemovedTyped DEF ReadFrame

(* A continuation is taken from the queue, and perhaps another one queued. *)
LEMMA MicroTyped ==
    ASSUME Typed, micro # <<>>
    PROVE  /\ Head(micro) \in Continuation
           /\ Tail(micro) \in Seq(Continuation)
           /\ \A k \in Continuation : Append(Tail(micro), k) \in Seq(Continuation)
<1>1. micro \in Seq(Continuation)
  BY DEF Typed, TypeOK, ScTypeOK
<1> QED
  BY <1>1

LEMMA ContinuationTyped ==
    ASSUME NEW k \in Continuation
    PROVE  /\ k.kind \in Kinds /\ k.client \in Clients /\ k.sid \in Sessions
           /\ k.attach \in BOOLEAN /\ k.ok \in BOOLEAN /\ k.output \in Seq(Stretch)
           /\ [k EXCEPT !.step = "caller"] \in Continuation
  BY DEF Continuation

LEMMA ReplyTyped ==
    ASSUME Typed, micro # <<>>, ResumeMethod(Head(micro)),
           UNCHANGED <<ipcVars, pending, nextReqId, relayVars, sizeVars, view>>,
           EndTurn("draining"),
           UNCHANGED <<sock, gwConn, ws, pendingOutput, pipeServed, asked>>
    PROVE  GatewayTyped'
<1> USE DEF Typed, TypeOK, ScTypeOK, GwTypeOK
<1> DEFINE k == Head(micro)
<1>1. /\ k \in Continuation
      /\ k.sid \in Sessions /\ k.output \in Seq(Stretch)
      /\ [k EXCEPT !.step = "caller"] \in Continuation
  BY MicroTyped, ContinuationTyped
<1>2. micro' \in Seq(Continuation)
  BY <1>1, MicroTyped DEF ResumeMethod
<1>3. \/ /\ sessionCache' \in {sessionCache, sessionCache \cup {k.sid}}
         /\ UNCHANGED <<subscribed, localScrollback>>
      \/ /\ subscribed' = subscribed \cup {k.sid}
         /\ sessionCache' = sessionCache \cup {k.sid}
         /\ localScrollback' = [localScrollback EXCEPT ![k.sid] = k.output]
  BY DEF ResumeMethod, ResumeCreate, ResumeEnsureSubscribed
<1> HIDE DEF k
<1>4. sessionCache' \subseteq Sessions /\ subscribed' \subseteq Sessions
  BY <1>1, <1>3
<1>5. localScrollback' \in [Sessions -> Seq(Stretch)]
  BY <1>1, <1>3
<1>6. FewInUse'
  <2>1. IsFiniteSet(subscribed \cup {k.sid})
    BY FS_AddElement DEF FewInUse
  <2> QED
    BY <1>3, <2>1 DEF FewInUse, relayVars
<1>7. turn' \in {"idle", "draining"} /\ burst' = 0
  BY DEF EndTurn
<1>8. ScTypeOK'
  BY <1>2, <1>4, <1>5
<1>9. GwTypeOK'
  BY <1>7 DEF relayVars, sizeVars
<1> QED
  BY <1>6, <1>8, <1>9 DEF GatewayTyped, LinkOK, PendingOK, FramesNamed, IpcTypeOK, ipcVars

LEMMA AttachedTyped ==
    ASSUME Typed, micro # <<>>, Attached(Head(micro)), UNCHANGED sessionCache,
           EndTurn("draining"),
           UNCHANGED <<sock, gwConn, ws, pendingOutput, pipeServed, asked>>
    PROVE  GatewayTyped'
<1> USE DEF Typed, TypeOK, ScTypeOK, GwTypeOK
<1> DEFINE k == Head(micro)
           screen == [Blank EXCEPT !.runs = Shown(<<>>, k.output)]
<1>1. /\ k \in Continuation
      /\ k.sid \in Sessions /\ k.client \in Clients /\ k.output \in Seq(Stretch)
  BY MicroTyped, ContinuationTyped
<1>2. micro' \in Seq(Continuation)
  BY MicroTyped DEF Attached
<1>3. \/ /\ sessionSubscribers' = [sessionSubscribers EXCEPT ![k.sid] = @ \cup {k.client}]
         /\ clientSubscriptions' = [clientSubscriptions EXCEPT ![k.client] = @ \cup {k.sid}]
         /\ view' \in {view, [view EXCEPT ![k.client][k.sid] = screen]}
      \/ UNCHANGED <<sessionSubscribers, clientSubscriptions, view>>
  BY DEF Attached
<1>4. UNCHANGED <<ipcVars, pending, nextReqId, subscribed, localScrollback,
                  statusWatchers, clientStatusWatches, sizeVars>>
  BY DEF Attached
<1> HIDE DEF k
<1>5. screen \in Screen
  BY <1>1, BlankTyped
<1> HIDE DEF screen
<1>6. view' \in [Clients -> [Sessions -> Screen]]
  <2>1. [view EXCEPT ![k.client][k.sid] = screen] \in [Clients -> [Sessions -> Screen]]
    BY <1>1, <1>5
  <2> QED
    BY <1>3, <2>1
<1>7. /\ sessionSubscribers' \in [Sessions -> SUBSET Clients]
      /\ clientSubscriptions' \in [Clients -> SUBSET Sessions]
  <2>1. /\ sessionSubscribers \in [Sessions -> SUBSET Clients]
        /\ clientSubscriptions \in [Clients -> SUBSET Sessions]
    OBVIOUS
  <2>2. sessionSubscribers' \in [Sessions -> SUBSET Clients]
    BY ONLY <1>1, <1>3, <2>1
  <2>3. clientSubscriptions' \in [Clients -> SUBSET Sessions]
    BY ONLY <1>1, <1>3, <2>1
  <2> QED
    BY <2>2, <2>3
<1>8. FewInUse'
  <2>1. ASSUME NEW d \in Clients
        PROVE  IsFiniteSet(clientSubscriptions'[d])
    <3>1. IsFiniteSet(clientSubscriptions[d]) /\ IsFiniteSet(clientSubscriptions[d] \cup {k.sid})
      BY FS_AddElement DEF FewInUse
    <3>2. clientSubscriptions \in [Clients -> SUBSET Sessions]
      OBVIOUS
    <3>3. \/ clientSubscriptions'[d] = clientSubscriptions[d]
          \/ clientSubscriptions'[d] = clientSubscriptions[d] \cup {k.sid}
      BY ONLY <1>3, <3>2
    <3> QED
      BY ONLY <3>1, <3>3
  <2> QED
    BY <1>4, <2>1 DEF FewInUse
<1>9. turn' \in {"idle", "draining"} /\ burst' = 0
  BY DEF EndTurn
<1>10. ScTypeOK'
  BY <1>2, <1>4
<1>11. GwTypeOK'
  BY <1>4, <1>6, <1>7, <1>9 DEF sizeVars
<1> QED
  BY <1>4, <1>8, <1>10, <1>11 DEF GatewayTyped, LinkOK, PendingOK, FramesNamed, IpcTypeOK, ipcVars

LEMMA CreatedTyped ==
    ASSUME Typed, micro # <<>>, Created(Head(micro)), UNCHANGED sessionCache,
           EndTurn("draining"),
           UNCHANGED <<sock, gwConn, ws, pendingOutput, pipeServed, asked>>
    PROVE  GatewayTyped'
<1> USE DEF Typed, TypeOK, ScTypeOK, GwTypeOK
<1> DEFINE k == Head(micro)
           rest == Tail(micro)
<1>1. k \in Continuation /\ k.sid \in Sessions /\ k.client \in Clients
  BY MicroTyped, ContinuationTyped
<1>2. rest \in Seq(Continuation)
  BY MicroTyped
<1>3. \/ EnsureSubscribed(Ask("attach", k.client, k.sid, TRUE), rest)
      \/ micro' = rest /\ UNCHANGED <<pending, nextReqId, toSup>>
  BY DEF Created
<1>4. UNCHANGED <<toGw, subscribed, localScrollback, relayVars, sizeVars, view>>
  BY DEF Created
<1> HIDE DEF k, rest
<1>5. /\ toSup' \in [Conns -> Seq(ClientMessage)] /\ pending' \subseteq PendingRequest
      /\ nextReqId' \in Nat /\ micro' \in Seq(Continuation) /\ PendingOK'
  <2>1. CASE EnsureSubscribed(Ask("attach", k.client, k.sid, TRUE), rest)
    <3>1. "attach" \in Kinds /\ TRUE \in BOOLEAN
      BY DEF Kinds
    <3> QED
      BY <1>1, <1>2, <2>1, <3>1, EnsureTyped
  <2>2. CASE micro' = rest /\ UNCHANGED <<pending, nextReqId, toSup>>
    BY <1>2, <2>2 DEF PendingOK, IpcTypeOK
  <2> QED
    BY <1>3, <2>1, <2>2
<1>6. turn' \in {"idle", "draining"} /\ burst' = 0
  BY DEF EndTurn
<1>7. ScTypeOK'
  BY <1>4, <1>5
<1>8. GwTypeOK'
  BY <1>4, <1>6 DEF relayVars, sizeVars
<1> QED
  BY <1>4, <1>5, <1>7, <1>8 DEF GatewayTyped, LinkOK, FewInUse, FramesNamed, IpcTypeOK, relayVars

LEMMA WatchedTyped ==
    ASSUME Typed, micro # <<>>, Watched(Head(micro)), UNCHANGED sessionCache,
           EndTurn("draining"),
           UNCHANGED <<sock, gwConn, ws, pendingOutput, pipeServed, asked>>
    PROVE  GatewayTyped'
<1> USE DEF Typed, TypeOK
<1> DEFINE k == Head(micro)
           rest == Tail(micro)
<1>1. k \in Continuation /\ k.sid \in Sessions /\ k.client \in Clients
  BY MicroTyped, ContinuationTyped
<1>2. rest \in Seq(Continuation) /\ micro' = rest
  BY MicroTyped DEF Watched
<1>3. \/ UNCHANGED <<relayVars, sizeVars, subscribed, localScrollback, toSup>>
      \/ Leave(k.client, {}, {k.sid})
  BY DEF Watched
<1>4. UNCHANGED <<toGw, pending, nextReqId, view>>
  BY DEF Watched
<1> HIDE DEF k, rest
<1>5. turn' \in {"idle", "draining"} /\ burst' = 0
  BY DEF EndTurn
<1>6. CASE UNCHANGED <<relayVars, sizeVars, subscribed, localScrollback, toSup>>
  <2>1. ScTypeOK'
    BY <1>2, <1>4, <1>6 DEF ScTypeOK
  <2>2. GwTypeOK'
    BY <1>4, <1>5, <1>6 DEF relayVars, sizeVars, GwTypeOK
  <2> QED
    BY <1>4, <1>6, <2>1, <2>2
       DEF GatewayTyped, LinkOK, PendingOK, FewInUse, FramesNamed, IpcTypeOK, relayVars
<1>7. CASE Leave(k.client, {}, {k.sid})
  <2>1. IsFiniteSet({})
    BY FS_EmptySet
  <2>2. /\ toSup' \in [Conns -> Seq(ClientMessage)]
        /\ subscribed' \subseteq subscribed
        /\ localScrollback' \in [Sessions -> Seq(Stretch)]
        /\ sessionSubscribers' \in [Sessions -> SUBSET Clients]
        /\ statusWatchers' \in [Sessions -> SUBSET Clients]
        /\ clientSubscriptions' \in [Clients -> SUBSET Sessions]
        /\ clientStatusWatches' \in [Clients -> SUBSET Sessions]
        /\ clientDesiredSizes' \in [Sessions -> [Clients -> Sizes \cup {0}]]
        /\ effectiveSizes' \in [Sessions -> Sizes \cup {0}]
        /\ FewInUse'
    BY <1>1, <1>7, <2>1, LeaveTyped
  <2>3. ScTypeOK'
    BY <1>2, <1>4, <2>2 DEF ScTypeOK
  <2>4. GwTypeOK'
    BY <1>4, <1>5, <2>2 DEF GwTypeOK
  <2> QED
    BY <1>4, <2>2, <2>3, <2>4 DEF GatewayTyped, LinkOK, PendingOK, FramesNamed, IpcTypeOK
<1> QED
  BY <1>3, <1>6, <1>7

LEMMA ContinueTyped ==
    ASSUME Typed, Continue
    PROVE  GatewayTyped'
  BY ReplyTyped, AttachedTyped, CreatedTyped, WatchedTyped DEF Continue

LEMMA CheckPhaseTyped ==
    ASSUME Typed, CheckPhase
    PROVE  GatewayTyped'
<1> USE DEF Typed, TypeOK, ScTypeOK, GwTypeOK
<1>1. /\ view' = [c \in Clients |-> [s \in Sessions |->
                    Flushed(view, s, pendingOutput[s])[c][s]]]
      /\ pendingOutput' = [s \in Sessions |-> <<>>]
      /\ pipeServed' = FALSE
      /\ UNCHANGED <<ipcVars, scVars, ws, relayVars, sizeVars, turn, burst, asked>>
  BY DEF CheckPhase
<1>2. ASSUME NEW c \in Clients, NEW s \in Sessions
      PROVE  Flushed(view, s, pendingOutput[s])[c][s] \in Screen
  <2>1. pendingOutput[s] \in Seq(Stretch) /\ view \in [Clients -> [Sessions -> Screen]]
    OBVIOUS
  <2>2. Flushed(view, s, pendingOutput[s]) \in [Clients -> [Sessions -> Screen]]
    BY <2>1, FlushedTyped
  <2> QED
    BY ONLY <2>2, c \in Clients, s \in Sessions
<1>3. view' \in [Clients -> [Sessions -> Screen]]
  BY <1>1, <1>2
<1>4. <<>> \in Seq(Stretch)
  OBVIOUS
<1>5. pendingOutput' \in [Sessions -> Seq(Stretch)]
  BY <1>1, <1>4
<1>6. ScTypeOK'
  BY <1>1 DEF scVars
<1>7. GwTypeOK'
  BY <1>1, <1>3, <1>5 DEF relayVars, sizeVars
<1> QED
  BY <1>1, <1>6, <1>7
     DEF GatewayTyped, LinkOK, PendingOK, FewInUse, FramesNamed, IpcTypeOK, ipcVars, scVars, relayVars

LEMMA ConnectTyped ==
    ASSUME Typed, Connect \/ Connected
    PROVE  GatewayTyped'
<1> USE DEF Typed, TypeOK
<1>1. /\ gwConn' \in Conns \cup {0} /\ sock' # "down" /\ sock' \in {"connecting", "up"}
      /\ gwConn' \in Conns
      /\ UNCHANGED <<toGw, sessionCache, subscribed, localScrollback, pending, nextReqId,
                     micro, gwVars>>
  BY DEF Connect, Connected, ipcVars, LinkOK, ScTypeOK
<1>2. toSup' \in [Conns -> Seq(ClientMessage)]
  <2>1. Request("hello", NoSession, 0) \in ClientMessage
    BY RequestTyped
  <2> DEFINE m == Request("hello", NoSession, 0)
  <2>2. UNCHANGED toSup \/ toSup' = [toSup EXCEPT ![gwConn] = Append(@, m)]
    BY DEF Connect, Connected, ipcVars
  <2> HIDE DEF m
  <2>3. toSup \in [Conns -> Seq(ClientMessage)] /\ m \in ClientMessage
    BY <2>1 DEF IpcTypeOK, m
  <2>4. \A c \in Conns : Append(toSup[c], m) \in Seq(ClientMessage)
    BY <2>3
  <2> QED
    BY <2>2, <2>3, <2>4
<1>3. ScTypeOK'
  BY <1>1 DEF ScTypeOK
<1>4. GwTypeOK'
  BY <1>1 DEF GwTypeOK, gwVars, relayVars, sizeVars, loopVars
<1> QED
  BY <1>1, <1>2, <1>3, <1>4
     DEF GatewayTyped, LinkOK, PendingOK, FewInUse, FramesNamed, IpcTypeOK, gwVars, relayVars

LEMMA OversizedTyped ==
    ASSUME Typed, GotOversized
    PROVE  GatewayTyped'
<1> USE DEF Typed, TypeOK
<1>1. /\ sock = "up" /\ sock' = "dead"
      /\ UNCHANGED <<toSup, toGw, gwConn, sessionCache, subscribed, localScrollback, pending,
                     nextReqId, micro, gwVars>>
  BY DEF GotOversized, ipcVars
<1>2. ScTypeOK'
  BY <1>1 DEF ScTypeOK
<1>3. GwTypeOK'
  BY <1>1 DEF GwTypeOK, gwVars, relayVars, sizeVars, loopVars
<1> QED
  BY <1>1, <1>2, <1>3
     DEF GatewayTyped, LinkOK, PendingOK, FewInUse, FramesNamed, IpcTypeOK, gwVars, relayVars

LEMMA DisconnectedTyped ==
    ASSUME Typed, Disconnected
    PROVE  GatewayTyped'
<1> USE DEF Typed, TypeOK
<1>1. /\ sock' = "down" /\ pending' = {} /\ micro' = Rejected(pending)
      /\ subscribed' = subscribed \ subscribed
      /\ localScrollback' = [s \in Sessions |-> IF s \in subscribed THEN <<>> ELSE localScrollback[s]]
      /\ UNCHANGED <<ipcVars, gwConn, sessionCache, nextReqId, pendingOutput,
                     pipeServed, view, asked>>
  BY DEF Disconnected, FailPending, ForgetSubscribed
<1>2. /\ ws' = [c \in Clients |-> IF IsOpen(c) THEN "closing" ELSE ws[c]]
      /\ sessionSubscribers' = [s \in Sessions |-> {}]
      /\ clientSubscriptions' = [c \in Clients |-> {}]
      /\ statusWatchers' = [s \in Sessions |-> {}]
      /\ clientStatusWatches' = [c \in Clients |-> {}]
      /\ clientDesiredSizes' = [s \in Sessions |-> [c \in Clients |-> 0]]
      /\ effectiveSizes' = [s \in Sessions |-> 0]
  BY DEF Disconnected
<1>3. turn' \in {"idle", "draining"} /\ burst' = 0
  BY DEF Disconnected, EndTurn
<1>4. micro' \in Seq(Continuation)
  <2>1. pending \in SUBSET PendingRequest
    BY DEF ScTypeOK
  <2> QED
    BY <1>1, <2>1, RejectedTyped DEF PendingOK
<1>5. localScrollback' \in [Sessions -> Seq(Stretch)]
  <2>1. <<>> \in Seq(Stretch)
    OBVIOUS
  <2> QED
    BY <1>1, <2>1 DEF ScTypeOK
<1>6. IsFiniteSet({}) /\ subscribed' = {}
  BY <1>1, FS_EmptySet
<1>7. ScTypeOK'
  BY <1>1, <1>4, <1>5 DEF ScTypeOK
<1>8. GwTypeOK'
  BY <1>1, <1>2, <1>3 DEF GwTypeOK
<1>9. FewInUse' /\ PendingOK'
  BY <1>1, <1>2, <1>6 DEF FewInUse, PendingOK
<1> QED
  BY <1>1, <1>7, <1>8, <1>9 DEF GatewayTyped, LinkOK, FramesNamed, IpcTypeOK, ipcVars

LEMMA TimeoutTyped ==
    ASSUME Typed, NEW p \in pending, RequestTimeout(p)
    PROVE  GatewayTyped'
<1> USE DEF Typed, TypeOK
<1>1. /\ pending' = pending \ {p} /\ micro' = Rejected({p}) /\ EndTurn("draining")
      /\ UNCHANGED <<ipcVars, sock, gwConn, sessionCache, subscribed, localScrollback,
                     nextReqId, ws, relayVars, sizeVars, pendingOutput, pipeServed, view, asked>>
  BY DEF RequestTimeout
<1>2. turn' \in {"idle", "draining"} /\ burst' = 0
  BY <1>1 DEF EndTurn
<1>3. micro' \in Seq(Continuation)
  <2>1. {p} \in SUBSET PendingRequest
    BY DEF ScTypeOK
  <2>2. IsFiniteSet({p})
    BY FS_Singleton
  <2> QED
    BY <1>1, <2>1, <2>2, RejectedTyped
<1>4. IsFiniteSet(pending \ {p})
  BY FS_RemoveElement DEF PendingOK
<1>5. PendingOK'
  BY <1>1, <1>4 DEF PendingOK
<1>6. ScTypeOK'
  BY <1>1, <1>3 DEF ScTypeOK
<1>7. GwTypeOK'
  BY <1>1, <1>2 DEF GwTypeOK, relayVars, sizeVars
<1> QED
  BY <1>1, <1>5, <1>6, <1>7
     DEF GatewayTyped, LinkOK, FewInUse, FramesNamed, IpcTypeOK, ipcVars, relayVars

LEMMA GatewayStepTyped ==
    ASSUME Typed, GatewayStep
    PROVE  GatewayTyped'
  BY ReadFrameTyped, ContinueTyped, CheckPhaseTyped, ConnectTyped, OversizedTyped,
     DisconnectedTyped, TimeoutTyped DEF GatewayStep

-----------------------------------------------------------------------------
(* What clients do keeps the types. *)

LEMMA TurnTyped ==
    ASSUME NEW c \in Clients, NEW op, ClientTurn(c, op)
    PROVE  /\ turn' \in {"idle"} \cup Clients /\ burst' = 0 /\ pipeServed' \in BOOLEAN
  BY DEF ClientTurn, EndTurn

LEMMA AskingTyped ==
    ASSUME Typed, NEW c \in Clients, NEW op, ClientTurn(c, op),
           /\ toSup' \in [Conns -> Seq(ClientMessage)] /\ pending' \subseteq PendingRequest
           /\ nextReqId' \in Nat /\ micro' \in Seq(Continuation) /\ PendingOK',
           statusWatchers' \in [Sessions -> SUBSET Clients],
           clientStatusWatches' \in [Clients -> SUBSET Sessions],
           asked' \in [Clients -> [Sessions -> BOOLEAN]],
           UNCHANGED <<toGw, sock, gwConn, sessionCache, subscribed, localScrollback,
                       ws, sessionSubscribers, clientSubscriptions, sizeVars,
                       pendingOutput, view>>
    PROVE  GatewayTyped'
<1> USE DEF Typed, TypeOK
<1>1. turn' \in {"idle"} \cup Clients /\ burst' = 0 /\ pipeServed' \in BOOLEAN
  BY TurnTyped
<1>2. ScTypeOK'
  BY DEF ScTypeOK
<1>3. GwTypeOK'
  BY <1>1 DEF GwTypeOK, sizeVars
<1> QED
  BY <1>2, <1>3 DEF GatewayTyped, LinkOK, FewInUse, FramesNamed, IpcTypeOK

LEMMA CreateTyped ==
    ASSUME Typed, NEW c \in Clients, NEW s \in Sessions, NEW kind \in Creates,
           NEW attach \in BOOLEAN, CreateMessage(c, s, kind, attach)
    PROVE  GatewayTyped'
<1> DEFINE p == Ask(kind, c, s, attach)
<1>1. kind \in Kinds
  BY DEF Kinds, Creates
<1>2. /\ p \in PendingRequest
      /\ \A id \in Nat : [p EXCEPT !.id = id] \in PendingRequest
      /\ \A id \in Nat : [p EXCEPT !.id = id].id = id
  BY <1>1, AskTyped
<1>3. IssueRequest(p, micro) /\ ClientTurn(c, kind)
  BY DEF CreateMessage
<1>4. micro \in Seq(Continuation)
  BY DEF Typed, TypeOK, ScTypeOK
<1> HIDE DEF p
<1>5. /\ toSup' \in [Conns -> Seq(ClientMessage)] /\ pending' \subseteq PendingRequest
      /\ nextReqId' \in Nat /\ micro' \in Seq(Continuation) /\ PendingOK'
  BY <1>2, <1>3, <1>4, IssueTyped
<1>6. /\ asked' = [asked EXCEPT ![c][s] = @ \/ attach]
      /\ UNCHANGED <<toGw, sock, gwConn, sessionCache, subscribed, localScrollback,
                     ws, relayVars, sizeVars, pendingOutput, view>>
  BY DEF CreateMessage
<1>7. asked' \in [Clients -> [Sessions -> BOOLEAN]]
  <2>1. asked \in [Clients -> [Sessions -> BOOLEAN]]
    BY DEF Typed, TypeOK, GwTypeOK
  <2>2. (asked[c][s] \/ attach) \in BOOLEAN
    BY <2>1
  <2> DEFINE b == asked[c][s] \/ attach
  <2> HIDE DEF b
  <2>3. asked' = [asked EXCEPT ![c][s] = b] /\ b \in BOOLEAN
    BY <1>6, <2>2 DEF b
  <2> QED
    BY <2>1, <2>3
<1>8. /\ statusWatchers' \in [Sessions -> SUBSET Clients]
      /\ clientStatusWatches' \in [Clients -> SUBSET Sessions]
      /\ UNCHANGED <<sessionSubscribers, clientSubscriptions>>
  BY <1>6 DEF relayVars, Typed, TypeOK, GwTypeOK
<1> QED
  BY <1>3, <1>5, <1>6, <1>7, <1>8, AskingTyped

LEMMA AttachTyped ==
    ASSUME Typed, NEW c \in Clients, NEW s \in Sessions, AttachMessage(c, s)
    PROVE  GatewayTyped'
<1>1. "attach" \in Kinds /\ TRUE \in BOOLEAN
  BY DEF Kinds
<1>2. EnsureSubscribed(Ask("attach", c, s, TRUE), micro) /\ ClientTurn(c, "attach")
  BY DEF AttachMessage
<1>3. micro \in Seq(Continuation)
  BY DEF Typed, TypeOK, ScTypeOK
<1>4. /\ toSup' \in [Conns -> Seq(ClientMessage)] /\ pending' \subseteq PendingRequest
      /\ nextReqId' \in Nat /\ micro' \in Seq(Continuation) /\ PendingOK'
  BY <1>1, <1>2, <1>3, EnsureTyped
<1>5. /\ asked' = [asked EXCEPT ![c][s] = TRUE]
      /\ UNCHANGED <<toGw, sock, gwConn, sessionCache, subscribed, localScrollback,
                     ws, relayVars, sizeVars, pendingOutput, view>>
  BY DEF AttachMessage
<1>6. asked' \in [Clients -> [Sessions -> BOOLEAN]]
  BY <1>5 DEF Typed, TypeOK, GwTypeOK
<1>7. /\ statusWatchers' \in [Sessions -> SUBSET Clients]
      /\ clientStatusWatches' \in [Clients -> SUBSET Sessions]
      /\ UNCHANGED <<sessionSubscribers, clientSubscriptions>>
  BY <1>5 DEF relayVars, Typed, TypeOK, GwTypeOK
<1> QED
  BY <1>2, <1>4, <1>5, <1>6, <1>7, AskingTyped

LEMMA WatchTyped ==
    ASSUME Typed, NEW c \in Clients, NEW s \in Sessions, WatchMessage(c, s)
    PROVE  GatewayTyped'
<1>1. "watch" \in Kinds /\ FALSE \in BOOLEAN
  BY DEF Kinds
<1>2. EnsureSubscribed(Ask("watch", c, s, FALSE), micro) /\ ClientTurn(c, "watch")
  BY DEF WatchMessage
<1>3. micro \in Seq(Continuation)
  BY DEF Typed, TypeOK, ScTypeOK
<1>4. /\ toSup' \in [Conns -> Seq(ClientMessage)] /\ pending' \subseteq PendingRequest
      /\ nextReqId' \in Nat /\ micro' \in Seq(Continuation) /\ PendingOK'
  BY <1>1, <1>2, <1>3, EnsureTyped
<1>5. /\ statusWatchers' = [statusWatchers EXCEPT ![s] = @ \cup {c}]
      /\ clientStatusWatches' = [clientStatusWatches EXCEPT ![c] = @ \cup {s}]
      /\ UNCHANGED <<toGw, sock, gwConn, sessionCache, subscribed, localScrollback,
                     ws, sessionSubscribers, clientSubscriptions, sizeVars,
                     pendingOutput, view, asked>>
  BY DEF WatchMessage
<1>6. asked' \in [Clients -> [Sessions -> BOOLEAN]]
  BY <1>5 DEF Typed, TypeOK, GwTypeOK
<1>7. /\ statusWatchers' \in [Sessions -> SUBSET Clients]
      /\ clientStatusWatches' \in [Clients -> SUBSET Sessions]
  BY <1>5 DEF Typed, TypeOK, GwTypeOK
<1> QED
  BY <1>2, <1>4, <1>5, <1>6, <1>7, AskingTyped

(* A client leaves some sessions: detach, unwatch, and its close event. *)
LEMMA LeavingTyped ==
    ASSUME Typed, NEW c \in Clients, NEW A, IsFiniteSet(A), NEW W, Leave(c, A, W),
           ws' \in [Clients -> {"new", "open", "closing", "terminated", "closed"}],
           turn' \in {turn, "idle"} \cup Clients, burst' \in Nat, pipeServed' \in BOOLEAN,
           asked' \in [Clients -> [Sessions -> BOOLEAN]],
           UNCHANGED <<toGw, sock, gwConn, sessionCache, pending, nextReqId, micro,
                       pendingOutput, view>>
    PROVE  GatewayTyped'
<1> USE DEF Typed, TypeOK
<1>1. /\ toSup' \in [Conns -> Seq(ClientMessage)]
      /\ subscribed' \subseteq subscribed
      /\ localScrollback' \in [Sessions -> Seq(Stretch)]
      /\ sessionSubscribers' \in [Sessions -> SUBSET Clients]
      /\ statusWatchers' \in [Sessions -> SUBSET Clients]
      /\ clientSubscriptions' \in [Clients -> SUBSET Sessions]
      /\ clientStatusWatches' \in [Clients -> SUBSET Sessions]
      /\ clientDesiredSizes' \in [Sessions -> [Clients -> Sizes \cup {0}]]
      /\ effectiveSizes' \in [Sessions -> Sizes \cup {0}]
      /\ FewInUse'
  BY LeaveTyped
<1>2. ScTypeOK'
  BY <1>1 DEF ScTypeOK
<1>3. GwTypeOK'
  BY <1>1 DEF GwTypeOK
<1> QED
  BY <1>1, <1>2, <1>3 DEF GatewayTyped, LinkOK, PendingOK, FramesNamed, IpcTypeOK

LEMMA DetachTyped ==
    ASSUME Typed, NEW c \in Clients, NEW s \in Sessions, DetachMessage(c, s)
    PROVE  GatewayTyped'
<1>1. IsFiniteSet({s})
  BY FS_Singleton
<1>2. Leave(c, {s}, {}) /\ ClientTurn(c, "detach")
  BY DEF DetachMessage
<1>3. turn' \in {turn, "idle"} \cup Clients /\ burst' \in Nat /\ pipeServed' \in BOOLEAN
  BY <1>2, TurnTyped
<1>4. UNCHANGED <<toGw, sock, gwConn, sessionCache, pending, nextReqId, micro,
                  ws, pendingOutput, view>>
  BY DEF DetachMessage
<1>5. asked' \in [Clients -> [Sessions -> BOOLEAN]]
  BY DEF DetachMessage, Typed, TypeOK, GwTypeOK
<1>6. ws' \in [Clients -> {"new", "open", "closing", "terminated", "closed"}]
  BY <1>4 DEF Typed, TypeOK, GwTypeOK
<1> QED
  BY <1>1, <1>2, <1>3, <1>4, <1>5, <1>6, LeavingTyped

LEMMA UnwatchTyped ==
    ASSUME Typed, NEW c \in Clients, NEW s \in Sessions, UnwatchMessage(c, s)
    PROVE  GatewayTyped'
<1>1. IsFiniteSet({})
  BY FS_EmptySet
<1>2. Leave(c, {}, {s}) /\ ClientTurn(c, "unwatch")
  BY DEF UnwatchMessage
<1>3. turn' \in {turn, "idle"} \cup Clients /\ burst' \in Nat /\ pipeServed' \in BOOLEAN
  BY <1>2, TurnTyped
<1>4. UNCHANGED <<toGw, sock, gwConn, sessionCache, pending, nextReqId, micro,
                  ws, pendingOutput, view, asked>>
  BY DEF UnwatchMessage
<1>5. /\ asked' \in [Clients -> [Sessions -> BOOLEAN]]
      /\ ws' \in [Clients -> {"new", "open", "closing", "terminated", "closed"}]
  BY <1>4 DEF Typed, TypeOK, GwTypeOK
<1> QED
  BY <1>1, <1>2, <1>3, <1>4, <1>5, LeavingTyped

LEMMA ClosedTyped ==
    ASSUME Typed, NEW c \in Clients, ClientClosed(c)
    PROVE  GatewayTyped'
<1>1. IsFiniteSet(clientSubscriptions[c])
  BY DEF Typed, FewInUse
<1>2. /\ Leave(c, clientSubscriptions[c], clientStatusWatches[c])
      /\ UNCHANGED <<toGw, sock, gwConn, sessionCache, pending, nextReqId, micro,
                     pendingOutput, loopVars, view, asked>>
      /\ ws' = [ws EXCEPT ![c] = "closed"]
  BY DEF ClientClosed
<1>3. turn' \in {turn, "idle"} \cup Clients /\ burst' \in Nat /\ pipeServed' \in BOOLEAN
  BY <1>2 DEF loopVars, Typed, TypeOK, GwTypeOK
<1>4. /\ asked' \in [Clients -> [Sessions -> BOOLEAN]]
      /\ ws' \in [Clients -> {"new", "open", "closing", "terminated", "closed"}]
  BY <1>2 DEF Typed, TypeOK, GwTypeOK
<1> DEFINE A == clientSubscriptions[c]
           W == clientStatusWatches[c]
<1>5. IsFiniteSet(A) /\ Leave(c, A, W)
  BY <1>1, <1>2
<1> HIDE DEF A, W
<1> QED
  BY <1>2, <1>3, <1>4, <1>5, LeavingTyped

LEMMA ResizeTyped ==
    ASSUME Typed, NEW c \in Clients, NEW s \in Sessions, NEW size \in Sizes,
           ResizeMessage(c, s, size)
    PROVE  GatewayTyped'
<1> USE DEF Typed, TypeOK
<1> DEFINE desired == [clientDesiredSizes EXCEPT ![s][c] = size]
           effective == Recomputed(desired, {s})
<1>1. /\ clientDesiredSizes' = desired /\ effectiveSizes' = effective
      /\ Post(ResizeLines(effective)) /\ ClientTurn(c, "resize")
      /\ UNCHANGED <<toGw, sock, gwConn, sessionCache, subscribed, localScrollback, micro,
                     pending, nextReqId, ws, relayVars, pendingOutput, view, asked>>
  BY DEF ResizeMessage
<1>2. desired \in [Sessions -> [Clients -> Sizes \cup {0}]]
  BY DEF GwTypeOK
<1>3. effectiveSizes \in [Sessions -> Sizes \cup {0}]
  BY DEF GwTypeOK
<1> HIDE DEF desired
<1>4. effective \in [Sessions -> Sizes \cup {0}]
  BY <1>2, <1>3, RecomputedTyped
<1>5. /\ IsFiniteSet({s})
      /\ \A t \in Sessions : t \in {s} \/ effective[t] = effectiveSizes[t]
  BY FS_Singleton DEF Recomputed
<1> HIDE DEF effective
<1>6. ResizeLines(effective) \in Seq(ClientMessage)
  BY <1>4, <1>5, ResizeLinesTyped
<1> DEFINE lines == ResizeLines(effective)
<1>7. lines \in Seq(ClientMessage) /\ Post(lines)
  BY <1>1, <1>6
<1> HIDE DEF lines
<1>8. toSup' \in [Conns -> Seq(ClientMessage)]
  BY <1>7, PostTyped
<1>9. turn' \in {"idle"} \cup Clients /\ burst' = 0 /\ pipeServed' \in BOOLEAN
  BY <1>1, TurnTyped
<1>10. ScTypeOK'
  BY <1>1 DEF ScTypeOK
<1>11. GwTypeOK'
  BY <1>1, <1>2, <1>4, <1>9 DEF GwTypeOK, relayVars
<1> QED
  BY <1>1, <1>8, <1>10, <1>11
     DEF GatewayTyped, LinkOK, PendingOK, FewInUse, FramesNamed, IpcTypeOK, relayVars

LEMMA ForwardTyped ==
    ASSUME Typed, NEW c \in Clients, NEW s \in Sessions, NEW op \in {"input", "kill"},
           ForwardMessage(c, s, op)
    PROVE  GatewayTyped'
<1> USE DEF Typed, TypeOK
<1> DEFINE lines == <<Request(op, s, 0)>>
<1>1. Request(op, s, 0) \in ClientMessage
  BY RequestTyped DEF ClientMessageTypes
<1>2. lines \in Seq(ClientMessage) /\ Post(lines)
  BY <1>1 DEF ForwardMessage
<1> HIDE DEF lines
<1>3. toSup' \in [Conns -> Seq(ClientMessage)]
  BY <1>2, PostTyped
<1>4. /\ ClientTurn(c, op)
      /\ UNCHANGED <<toGw, sock, gwConn, sessionCache, subscribed, localScrollback, micro,
                     pending, nextReqId, ws, relayVars, sizeVars, pendingOutput, view, asked>>
  BY DEF ForwardMessage
<1>5. turn' \in {"idle"} \cup Clients /\ burst' = 0 /\ pipeServed' \in BOOLEAN
  BY <1>4, TurnTyped
<1>6. ScTypeOK'
  BY <1>4 DEF ScTypeOK
<1>7. GwTypeOK'
  BY <1>4, <1>5 DEF GwTypeOK, relayVars, sizeVars
<1> QED
  BY <1>3, <1>4, <1>6, <1>7
     DEF GatewayTyped, LinkOK, PendingOK, FewInUse, FramesNamed, IpcTypeOK, relayVars

LEMMA OpenedTyped ==
    ASSUME Typed, NEW c \in Clients, ClientConnect(c) \/ ClientTerminated(c)
    PROVE  GatewayTyped'
<1> USE DEF Typed, TypeOK
<1>1. /\ ws' \in [Clients -> {"new", "open", "closing", "terminated", "closed"}]
      /\ UNCHANGED <<ipcVars, scVars, relayVars, sizeVars, pendingOutput, loopVars, view, asked>>
  BY DEF ClientConnect, ClientTerminated, GwTypeOK
<1>2. ScTypeOK'
  BY <1>1 DEF ScTypeOK, scVars
<1>3. GwTypeOK'
  BY <1>1 DEF GwTypeOK, relayVars, sizeVars, loopVars
<1> QED
  BY <1>1, <1>2, <1>3
     DEF GatewayTyped, LinkOK, PendingOK, FewInUse, FramesNamed, IpcTypeOK, relayVars, ipcVars,
         scVars

LEMMA ClientStepTyped ==
    ASSUME Typed, ClientStep
    PROVE  GatewayTyped'
<1>1. PICK c \in Clients :
         \/ ClientConnect(c) \/ ClientMessageFrom(c) \/ ClientClosed(c) \/ ClientTerminated(c)
  BY DEF ClientStep
<1>2. CASE ClientMessageFrom(c)
  <2>1. PICK s \in Sessions :
          \/ \E kind \in Creates, attach \in BOOLEAN : CreateMessage(c, s, kind, attach)
          \/ AttachMessage(c, s) \/ DetachMessage(c, s) \/ WatchMessage(c, s)
          \/ UnwatchMessage(c, s)
          \/ \E size \in Sizes : ResizeMessage(c, s, size)
          \/ \E op \in {"input", "kill"} : ForwardMessage(c, s, op)
    BY <1>2 DEF ClientMessageFrom
  <2> QED
    BY <2>1, CreateTyped, AttachTyped, DetachTyped, WatchTyped, UnwatchTyped, ResizeTyped,
       ForwardTyped
<1> QED
  BY <1>1, <1>2, OpenedTyped, ClosedTyped

-----------------------------------------------------------------------------
(* Detaching stops the output of clients that wait for their replies.      *)

(* A request, or its continuation, will attach its client. *)
Attaches(q) == q.kind = "attach" \/ (q.kind \in Creates /\ q.attach)

(* Every continuation that attaches is of a client that asked, by f. *)
Served(q, f) == \A i \in 1 .. Len(q) : Attaches(q[i]) => f[q[i].client][q[i].sid]

AskedFor ==
    /\ \A c \in Clients : \A s \in clientSubscriptions[c] : asked[c][s]
    /\ \A p \in pending : Attaches(p) => asked[p.client][p.sid]
    /\ Served(micro, asked)
    /\ turn = "idle" => micro = <<>>

DInv == Typed /\ IInv /\ AskedFor

LEMMA ServedQueues ==
    ASSUME NEW q \in Seq(Continuation), NEW f, Served(q, f)
    PROVE  /\ \A k \in Continuation : (Attaches(k) => f[k.client][k.sid]) => Served(Append(q, k), f)
           /\ q # <<>> => Served(Tail(q), f) /\ (Attaches(Head(q)) => f[Head(q).client][Head(q).sid])
<1>1. ASSUME NEW k \in Continuation, Attaches(k) => f[k.client][k.sid]
      PROVE  Served(Append(q, k), f)
  <2>1. /\ Len(Append(q, k)) = Len(q) + 1 /\ Len(q) \in Nat
        /\ Append(q, k)[Len(q) + 1] = k
        /\ \A i \in 1 .. Len(q) : Append(q, k)[i] = q[i]
    OBVIOUS
  <2> DEFINE r == Append(q, k)
  <2>2. ASSUME NEW i \in 1 .. Len(r), Attaches(r[i])
        PROVE  f[r[i].client][r[i].sid]
    <3>1. i \in 1 .. Len(q) \/ i = Len(q) + 1
      BY <2>1
    <3> HIDE DEF r
    <3>2. CASE i \in 1 .. Len(q)
      BY <2>1, <2>2, <3>2 DEF Served, r
    <3>3. CASE i = Len(q) + 1
      BY <1>1, <2>1, <2>2, <3>3 DEF r
    <3> QED
      BY <3>1, <3>2, <3>3
  <2> QED
    BY <2>2 DEF Served
<1>2. ASSUME q # <<>>
      PROVE  Served(Tail(q), f) /\ (Attaches(Head(q)) => f[Head(q).client][Head(q).sid])
  <2>1. /\ Len(Tail(q)) = Len(q) - 1 /\ Len(q) \in Nat /\ 1 \in 1 .. Len(q)
        /\ Head(q) = q[1]
        /\ \A i \in 1 .. Len(Tail(q)) : Tail(q)[i] = q[i + 1] /\ i + 1 \in 1 .. Len(q)
    BY <1>2
  <2> DEFINE r == Tail(q)
  <2>2. ASSUME NEW i \in 1 .. Len(r), Attaches(r[i])
        PROVE  f[r[i].client][r[i].sid]
    <3>1. r[i] = q[i + 1] /\ i + 1 \in 1 .. Len(q)
      BY <2>1
    <3> HIDE DEF r
    <3> QED
      BY <2>2, <3>1 DEF Served
  <2>3. Attaches(Head(q)) => f[Head(q).client][Head(q).sid]
    BY <2>1 DEF Served
  <2> QED
    BY <2>2, <2>3 DEF Served
<1> QED
  BY <1>1, <1>2

LEMMA RejectedServed ==
    ASSUME NEW R \in SUBSET PendingRequest, IsFiniteSet(R),
           \A p, q \in R : p.id = q.id => p = q,
           NEW f, \A p \in R : Attaches(p) => f[p.client][p.sid]
    PROVE  Served(Rejected(R), f)
<1> DEFINE n == Cardinality(R)
<1>1. n \in Nat /\ ByAge(R) \in [1 .. n -> R]
  BY OrderedByAge
<1>2. Rejected(R) = [i \in 1 .. n |-> Resume("reply", ByAge(R)[i], FALSE, <<>>)]
  BY DEF Rejected
<1> HIDE DEF n
<1>3. Len(Rejected(R)) = n
  BY <1>1, <1>2
<1>4. ASSUME NEW i \in 1 .. n
      PROVE  /\ Rejected(R)[i].kind = ByAge(R)[i].kind
             /\ Rejected(R)[i].client = ByAge(R)[i].client
             /\ Rejected(R)[i].sid = ByAge(R)[i].sid
             /\ Rejected(R)[i].attach = ByAge(R)[i].attach
  BY <1>2 DEF Resume
<1> QED
  BY <1>1, <1>3, <1>4 DEF Served, Attaches

(* One step of a queue of continuations: some are taken or queued. *)
LEMMA EnsureServed ==
    ASSUME DInv, NEW q \in Seq(Continuation), Served(q, asked'),
           NEW kind \in Kinds, NEW c \in Clients, NEW s \in Sessions, NEW attach \in BOOLEAN,
           kind = "attach" \/ (kind \in Creates /\ attach) => asked'[c][s],
           \A p \in pending : Attaches(p) => asked'[p.client][p.sid],
           \/ EnsureSubscribed(Ask(kind, c, s, attach), q)
           \/ IssueRequest(Ask(kind, c, s, attach), q)
    PROVE  /\ Served(micro', asked')
           /\ \A p \in pending' : Attaches(p) => asked'[p.client][p.sid]
<1> DEFINE p == Ask(kind, c, s, attach)
<1>0. /\ p.kind = kind /\ p.client = c /\ p.sid = s /\ p.attach = attach
      /\ \A id : /\ [p EXCEPT !.id = id].kind = kind /\ [p EXCEPT !.id = id].client = c
                 /\ [p EXCEPT !.id = id].sid = s /\ [p EXCEPT !.id = id].attach = attach
  BY DEF Ask
<1>1. p \in PendingRequest
  BY AskTyped
<1>2. localScrollback[s] \in Seq(Stretch) /\ (s \in sessionCache) \in BOOLEAN /\ <<>> \in Seq(Stretch)
  BY DEF DInv, Typed, TypeOK, ScTypeOK
<1> HIDE DEF p
<1>3. ASSUME NEW step \in {"reply", "caller"}, NEW ok \in BOOLEAN, NEW output \in Seq(Stretch)
      PROVE  Served(Append(q, Resume(step, p, ok, output)), asked')
  <2> DEFINE k == Resume(step, p, ok, output)
  <2>1. k.kind = kind /\ k.client = c /\ k.sid = s /\ k.attach = attach
    BY <1>0 DEF Resume
  <2>2. k \in Continuation
    BY <1>1, ResumeTyped
  <2> HIDE DEF k
  <2>3. Attaches(k) => asked'[k.client][k.sid]
    BY <2>1 DEF Attaches
  <2>4. Served(Append(q, k), asked')
    BY <2>2, <2>3, ServedQueues
  <2> QED
    BY <2>4 DEF k
<1>4. CASE EnsureSubscribed(p, q) /\ s \in subscribed
  <2> DEFINE ok == s \in sessionCache
             output == localScrollback[s]
  <2>1. micro' = Append(q, Resume("caller", p, ok, output)) /\ UNCHANGED pending
    BY <1>0, <1>4 DEF EnsureSubscribed
  <2>2. ok \in BOOLEAN /\ output \in Seq(Stretch)
    BY <1>2
  <2> HIDE DEF ok, output
  <2> QED
    BY <1>3, <2>1, <2>2
<1>5. CASE IssueRequest(p, q)
  <2>1. CASE Writable
    <3>1. micro' = q /\ pending' = pending \cup {[p EXCEPT !.id = nextReqId]}
      BY <1>5, <2>1 DEF IssueRequest
    <3> DEFINE r == [p EXCEPT !.id = nextReqId]
    <3>2. r.kind = kind /\ r.client = c /\ r.sid = s /\ r.attach = attach
      BY <1>0
    <3> HIDE DEF r
    <3>3. Attaches(r) => asked'[r.client][r.sid]
      BY <3>2 DEF Attaches
    <3> QED
      BY <3>1, <3>3 DEF r
  <2>2. CASE ~Writable
    <3> DEFINE ok == FALSE
               output == <<>>
    <3>1. micro' = Append(q, Resume("reply", p, ok, output)) /\ UNCHANGED pending
      BY <1>5, <2>2 DEF IssueRequest
    <3>2. ok \in BOOLEAN /\ output \in Seq(Stretch)
      BY <1>2
    <3> HIDE DEF ok, output
    <3> QED
      BY <1>3, <3>1, <3>2
  <2> QED
    BY <2>1, <2>2
<1>6. EnsureSubscribed(p, q) => IssueRequest(p, q) \/ s \in subscribed
  BY <1>0 DEF EnsureSubscribed
<1> QED
  BY <1>4, <1>5, <1>6 DEF p

LEMMA AskedTyped ==
    ASSUME DInv
    PROVE  /\ micro \in Seq(Continuation) /\ pending \in SUBSET PendingRequest
           /\ asked \in [Clients -> [Sessions -> BOOLEAN]]
           /\ clientSubscriptions \in [Clients -> SUBSET Sessions]
           /\ Served(micro, asked)
  BY DEF DInv, AskedFor, Typed, TypeOK, ScTypeOK, GwTypeOK

(* Nothing that AskedFor speaks of grows. *)
LEMMA AskedLess ==
    ASSUME DInv, \A c \in Clients : clientSubscriptions'[c] \subseteq clientSubscriptions[c],
           pending' \subseteq pending, UNCHANGED <<micro, asked>>,
           turn' = "idle" => turn = "idle" \/ micro = <<>>
    PROVE  AskedFor'
  BY DEF DInv, AskedFor

LEMMA FrameAsked ==
    ASSUME DInv, ReadFrame
    PROVE  AskedFor'
<1>1. CASE GotCreated \/ GotSubscribed \/ GotError
  <2>1. Settle(Incoming) /\ EndLine(0) /\ UNCHANGED <<relayVars, asked>>
    BY <1>1 DEF GotCreated, GotSubscribed, GotError
  <2>2. Incoming \in ServerFrame
    BY <1>1, PipeTyped DEF GotCreated, GotSubscribed, GotError, DInv
  <2> DEFINE matched == {p \in Awaiting(Incoming) : Expects(p.kind, Incoming.type)}
  <2>3. CASE matched = {}
    <3>1. UNCHANGED <<pending, micro>>
      BY <2>1, <2>3 DEF Settle
    <3> QED
      BY <2>1, <3>1, AskedLess DEF EndLine, relayVars
  <2>4. CASE matched # {}
    <3> DEFINE p == CHOOSE q \in matched : TRUE
               ok == Incoming.type # "error"
               output == Snapshot(Incoming)
    <3>1. p \in pending
      BY <2>4 DEF Awaiting
    <3>2. /\ pending' = pending \ {p}
          /\ micro' = Append(micro, Resume("reply", p, ok, output))
      BY <2>1, <2>4 DEF Settle
    <3> HIDE DEF p
    <3>3. ok \in BOOLEAN
      OBVIOUS
    <3>4. output \in Seq(Stretch)
      <4>1. Piece(Incoming.from, Incoming.to) \in Stretch
        BY <2>2 DEF Piece, Stretch, ServerFrame
      <4>2. <<>> \in Seq(Stretch) /\ <<Piece(Incoming.from, Incoming.to)>> \in Seq(Stretch)
        BY <4>1
      <4> QED
        BY <4>2 DEF Snapshot, Pieces
    <3> HIDE DEF ok, output
    <3> DEFINE k == Resume("reply", p, ok, output)
    <3>5. p \in PendingRequest /\ (Attaches(p) => asked[p.client][p.sid])
      BY <3>1, AskedTyped DEF DInv, AskedFor
    <3>6. /\ k.kind = p.kind /\ k.client = p.client /\ k.sid = p.sid /\ k.attach = p.attach
          /\ k \in Continuation
      BY <3>3, <3>4, <3>5, ResumeTyped DEF Resume
    <3>7. micro' = Append(micro, k)
      BY <3>2
    <3> HIDE DEF k
    <3>8. Served(Append(micro, k), asked)
      <4>1. Attaches(k) => asked[k.client][k.sid]
        BY <3>5, <3>6 DEF Attaches
      <4> QED
        BY <3>6, <4>1, AskedTyped, ServedQueues
    <3>9. Append(micro, k) # <<>>
      BY <3>6, AskedTyped, AppendProperties
    <3>10. turn' # "idle"
      BY <2>1, <3>7, <3>9 DEF EndLine
    <3> QED
      BY <2>1, <3>2, <3>7, <3>8, <3>10 DEF DInv, AskedFor, relayVars
  <2> QED
    BY <2>3, <2>4
<1>2. CASE \/ GotHello \/ GotUnsubscribed \/ GotSessions \/ GotOutput \/ GotExit
  <2>1. UNCHANGED <<relayVars, asked, micro, pending>> /\ \E n : EndLine(n)
    BY <1>2 DEF GotHello, GotUnsubscribed, GotSessions, GotOutput, GotExit, Ignored
  <2> QED
    BY <2>1, AskedLess DEF EndLine, relayVars
<1>3. CASE GotRemoved
  <2> DEFINE s == Incoming.sid
  <2>1. /\ UNCHANGED <<asked, micro, pending>> /\ EndLine(0)
        /\ clientSubscriptions' = [c \in Clients |-> clientSubscriptions[c] \ {s}]
    BY <1>3 DEF GotRemoved
  <2> HIDE DEF s
  <2> QED
    BY <2>1, AskedLess DEF EndLine
<1> QED
  BY <1>1, <1>2, <1>3 DEF ReadFrame

LEMMA ContinueAsked ==
    ASSUME DInv, Continue
    PROVE  AskedFor'
<1> DEFINE k == Head(micro)
           rest == Tail(micro)
<1>1. /\ micro # <<>> /\ k \in Continuation /\ rest \in Seq(Continuation)
      /\ Served(rest, asked) /\ (Attaches(k) => asked[k.client][k.sid])
      /\ UNCHANGED asked
      /\ turn' = "idle" => micro' = <<>>
  BY AskedTyped, ServedQueues, MicroTyped DEF Continue, DInv, EndTurn
<1>2. /\ k.kind \in Kinds /\ k.client \in Clients /\ k.sid \in Sessions
      /\ [k EXCEPT !.step = "caller"] \in Continuation
  BY <1>1, ContinuationTyped
<1>3. CASE ResumeMethod(k) /\ UNCHANGED <<pending, relayVars>>
  <2> DEFINE l == [k EXCEPT !.step = "caller"]
  <2>1. micro' = Append(rest, l)
    BY <1>3 DEF ResumeMethod
  <2>2. l.kind = k.kind /\ l.client = k.client /\ l.sid = k.sid /\ l.attach = k.attach
    BY <1>1 DEF Continuation
  <2>3. l \in Continuation
    BY <1>2
  <2> HIDE DEF l, k, rest
  <2>4. Served(Append(rest, l), asked)
    <3>1. Attaches(l) => asked[l.client][l.sid]
      BY <1>1, <2>2 DEF Attaches
    <3> QED
      BY <1>1, <2>3, <3>1, ServedQueues
  <2> QED
    BY <1>1, <1>3, <2>1, <2>4 DEF DInv, AskedFor, relayVars
<1>4. CASE Attached(k)
  <2>1. micro' = rest /\ UNCHANGED pending
    BY <1>4 DEF Attached
  <2>2. Attaches(k)
    BY <1>4 DEF Attached, Attaches
  <2>3. \/ UNCHANGED clientSubscriptions
        \/ clientSubscriptions' = [clientSubscriptions EXCEPT ![k.client] = @ \cup {k.sid}]
    BY <1>4 DEF Attached
  <2> HIDE DEF k, rest
  <2>4. \A c \in Clients : \A s \in clientSubscriptions'[c] : asked[c][s]
    BY <1>1, <2>2, <2>3, AskedTyped DEF DInv, AskedFor
  <2> QED
    BY <1>1, <2>1, <2>4 DEF DInv, AskedFor
<1>5. CASE Created(k)
  <2>1. \/ k.attach /\ EnsureSubscribed(Ask("attach", k.client, k.sid, TRUE), rest)
        \/ micro' = rest /\ UNCHANGED pending
    BY <1>5 DEF Created
  <2>2. k.kind \in Creates /\ UNCHANGED relayVars
    BY <1>5 DEF Created
  <2> HIDE DEF k, rest
  <2>3. CASE k.attach /\ EnsureSubscribed(Ask("attach", k.client, k.sid, TRUE), rest)
    <3>1. "attach" \in Kinds /\ TRUE \in BOOLEAN
      BY DEF Kinds
    <3>2. asked'[k.client][k.sid] /\ Served(rest, asked')
      BY <1>1, <2>2, <2>3 DEF Attaches
    <3>3. \A p \in pending : Attaches(p) => asked'[p.client][p.sid]
      BY <1>1 DEF DInv, AskedFor
    <3>4. /\ Served(micro', asked')
          /\ \A p \in pending' : Attaches(p) => asked'[p.client][p.sid]
      BY <1>1, <1>2, <2>3, <3>1, <3>2, <3>3, EnsureServed
    <3> QED
      BY <1>1, <2>2, <3>4 DEF DInv, AskedFor, relayVars
  <2>4. CASE micro' = rest /\ UNCHANGED pending
    BY <1>1, <2>2, <2>4 DEF DInv, AskedFor, relayVars
  <2> QED
    BY <2>1, <2>3, <2>4
<1>6. CASE Watched(k)
  <2>1. micro' = rest /\ UNCHANGED pending
    BY <1>6 DEF Watched
  <2>2. UNCHANGED relayVars \/ Leave(k.client, {}, {k.sid})
    BY <1>6 DEF Watched
  <2>3. \A c \in Clients : clientSubscriptions'[c] \subseteq clientSubscriptions[c]
    BY <1>2, <2>2, AskedTyped DEF Leave, relayVars
  <2> HIDE DEF k, rest
  <2> QED
    BY <1>1, <2>1, <2>3 DEF DInv, AskedFor
<1> QED
  BY <1>3, <1>4, <1>5, <1>6 DEF Continue

LEMMA GatewayAsked ==
    ASSUME DInv, GatewayStep
    PROVE  AskedFor'
<1>1. CASE CheckPhase \/ Connect \/ Connected \/ GotOversized
  <2>1. UNCHANGED <<pending, micro, asked, turn, clientSubscriptions>>
    BY <1>1 DEF CheckPhase, Connect, Connected, GotOversized, scVars, gwVars, relayVars, loopVars
  <2> QED
    BY <2>1, AskedLess
<1>2. CASE Disconnected
  <2>1. /\ pending' = {} /\ micro' = Rejected(pending) /\ UNCHANGED asked
        /\ clientSubscriptions' = [c \in Clients |-> {}] /\ EndTurn("draining")
    BY <1>2 DEF Disconnected, FailPending
  <2>2. Served(Rejected(pending), asked)
    BY AskedTyped, RejectedServed DEF DInv, AskedFor, Typed, PendingOK
  <2> QED
    BY <2>1, <2>2 DEF AskedFor, EndTurn
<1>3. ASSUME NEW p \in pending, RequestTimeout(p)
      PROVE  AskedFor'
  <2>1. /\ pending' = pending \ {p} /\ micro' = Rejected({p}) /\ UNCHANGED <<asked, relayVars>>
        /\ EndTurn("draining")
    BY <1>3 DEF RequestTimeout
  <2>2. {p} \in SUBSET PendingRequest /\ IsFiniteSet({p}) /\ (Attaches(p) => asked[p.client][p.sid])
    BY FS_Singleton, AskedTyped DEF DInv, AskedFor
  <2>3. Served(Rejected({p}), asked)
    BY <2>2, RejectedServed
  <2> QED
    BY <2>1, <2>3 DEF DInv, AskedFor, EndTurn, relayVars
<1> QED
  BY <1>1, <1>2, <1>3, FrameAsked, ContinueAsked DEF GatewayStep

LEMMA ClientAsked ==
    ASSUME ~Pipelined, DInv, ClientStep
    PROVE  AskedFor'
<1>1. PICK c \in Clients :
        \/ ClientConnect(c) \/ ClientMessageFrom(c) \/ ClientClosed(c) \/ ClientTerminated(c)
  BY DEF ClientStep
<1>2. CASE ClientConnect(c) \/ ClientTerminated(c)
  <2>1. UNCHANGED <<pending, micro, asked, turn, clientSubscriptions>>
    BY <1>2 DEF ClientConnect, ClientTerminated, scVars, relayVars, loopVars
  <2> QED
    BY <2>1, AskedLess
<1>3. CASE ClientClosed(c)
  <2>1. UNCHANGED <<pending, micro, asked, turn>>
    BY <1>3 DEF ClientClosed, loopVars
  <2>2. \A d \in Clients : clientSubscriptions'[d] \subseteq clientSubscriptions[d]
    BY <1>3, AskedTyped DEF ClientClosed, Leave
  <2> QED
    BY <2>1, <2>2, AskedLess
<1>4. ASSUME NEW s \in Sessions,
             \/ UnwatchMessage(c, s) \/ \E size \in Sizes : ResizeMessage(c, s, size)
             \/ \E op \in {"input", "kill"} : ForwardMessage(c, s, op)
      PROVE  AskedFor'
  <2>1. UNCHANGED <<pending, micro, asked>> /\ (turn' = "idle" => micro = <<>>)
    BY <1>4, GatewayAssumption
       DEF UnwatchMessage, ResizeMessage, ForwardMessage, ClientTurn, EndTurn
  <2>2. \A d \in Clients : clientSubscriptions'[d] \subseteq clientSubscriptions[d]
    BY <1>4, AskedTyped DEF UnwatchMessage, ResizeMessage, ForwardMessage, Leave, relayVars
  <2> QED
    BY <2>1, <2>2, AskedLess
<1>5. ASSUME NEW s \in Sessions, DetachMessage(c, s)
      PROVE  AskedFor'
  <2>1. /\ UNCHANGED <<pending, micro>> /\ micro = <<>> /\ \A p \in pending : p.client # c
        /\ asked' = [asked EXCEPT ![c][s] = FALSE]
        /\ clientSubscriptions' = [clientSubscriptions EXCEPT ![c] = @ \ {s}]
    BY <1>5 DEF DetachMessage, ClientTurn, DInv, AskedFor, Leave
  <2>2. \A d \in Clients : \A t \in clientSubscriptions'[d] : asked'[d][t]
    BY <2>1, AskedTyped DEF DInv, AskedFor
  <2>3. \A p \in pending : Attaches(p) => asked'[p.client][p.sid]
    BY <2>1, AskedTyped DEF DInv, AskedFor, PendingRequest
  <2>4. Served(micro', asked')
    BY <2>1 DEF Served
  <2> QED
    BY <2>1, <2>2, <2>3, <2>4 DEF AskedFor
<1>6. ASSUME NEW kind \in Kinds, NEW s \in Sessions, NEW attach \in BOOLEAN,
             asked' = asked \/ asked' = [asked EXCEPT ![c][s] = TRUE],
             kind = "attach" \/ (kind \in Creates /\ attach) => asked'[c][s],
             \/ EnsureSubscribed(Ask(kind, c, s, attach), micro)
             \/ IssueRequest(Ask(kind, c, s, attach), micro),
             UNCHANGED clientSubscriptions, EndTurn(c)
      PROVE  AskedFor'
  <2>1. \A d \in Clients, t \in Sessions : asked[d][t] => asked'[d][t]
    BY <1>6, AskedTyped
  <2>2. \A p \in pending : Attaches(p) => asked'[p.client][p.sid]
    BY <2>1, AskedTyped DEF DInv, AskedFor, PendingRequest
  <2>3. Served(micro, asked')
    <3>1. \A i \in 1 .. Len(micro) : micro[i].client \in Clients /\ micro[i].sid \in Sessions
      <4>1. \A i \in 1 .. Len(micro) : micro[i] \in Continuation
        BY AskedTyped
      <4> QED
        BY <4>1, ContinuationTyped
    <3> QED
      BY <2>1, <3>1, AskedTyped DEF Served
  <2>4. /\ Served(micro', asked')
        /\ \A p \in pending' : Attaches(p) => asked'[p.client][p.sid]
    BY <1>6, <2>2, <2>3, AskedTyped, EnsureServed
  <2>5. \A d \in Clients : \A t \in clientSubscriptions'[d] : asked'[d][t]
    BY <1>6, <2>1, AskedTyped DEF DInv, AskedFor
  <2> QED
    BY <1>6, <2>4, <2>5, GatewayAssumption DEF AskedFor, EndTurn
<1>7. ASSUME NEW s \in Sessions, AttachMessage(c, s)
      PROVE  AskedFor'
  <2>1. /\ EnsureSubscribed(Ask("attach", c, s, TRUE), micro) /\ UNCHANGED clientSubscriptions
        /\ asked' = [asked EXCEPT ![c][s] = TRUE] /\ EndTurn(c)
    BY <1>7 DEF AttachMessage, ClientTurn, relayVars
  <2>2. asked'[c][s]
    BY <2>1, AskedTyped
  <2>3. "attach" \in Kinds /\ TRUE \in BOOLEAN
    BY DEF Kinds
  <2> QED
    BY <1>6, <2>1, <2>2, <2>3
<1>8. ASSUME NEW s \in Sessions, WatchMessage(c, s)
      PROVE  AskedFor'
  <2>1. /\ EnsureSubscribed(Ask("watch", c, s, FALSE), micro)
        /\ UNCHANGED <<clientSubscriptions, asked>> /\ EndTurn(c)
    BY <1>8 DEF WatchMessage, ClientTurn
  <2>2. "watch" \in Kinds /\ "watch" \notin Creates /\ FALSE \in BOOLEAN /\ "watch" # "attach"
    BY DEF Kinds, Creates
  <2> QED
    BY <1>6, <2>1, <2>2
<1>9. ASSUME NEW s \in Sessions, NEW kind \in Creates, NEW attach \in BOOLEAN,
             CreateMessage(c, s, kind, attach)
      PROVE  AskedFor'
  <2>1. /\ IssueRequest(Ask(kind, c, s, attach), micro) /\ UNCHANGED clientSubscriptions
        /\ asked' = [asked EXCEPT ![c][s] = @ \/ attach] /\ EndTurn(c)
    BY <1>9 DEF CreateMessage, ClientTurn, relayVars
  <2>2. kind \in Kinds /\ kind # "attach"
    BY DEF Kinds, Creates
  <2>3. CASE attach
    <3>1. asked' = [asked EXCEPT ![c][s] = TRUE]
      <4>1. (asked[c][s] \/ attach) = TRUE
        BY <2>3
      <4> QED
        BY <2>1, <4>1
    <3>2. asked'[c][s]
      BY <3>1, AskedTyped
    <3> QED
      BY <1>6, <2>1, <2>2, <3>1, <3>2
  <2>4. CASE ~attach
    <3>1. asked' = asked
      <4>1. (asked[c][s] \/ attach) = asked[c][s]
        BY <2>4, AskedTyped
      <4>2. asked' = [asked EXCEPT ![c][s] = asked[c][s]]
        BY <2>1, <4>1
      <4> QED
        BY <4>2, AskedTyped
    <3> QED
      BY <1>6, <2>1, <2>2, <2>4, <3>1
  <2> QED
    BY <2>3, <2>4
<1> QED
  BY <1>1, <1>2, <1>3, <1>4, <1>5, <1>7, <1>8, <1>9 DEF ClientMessageFrom


(* Only clients that asked are shown anything. *)
LEMMA FlushedAsked ==
    ASSUME DInv, NEW s \in Sessions, NEW pieces, NEW c \in Clients, NEW t \in Sessions
    PROVE  (~asked[c][t] => Flushed(view, s, pieces)[c][t] = view[c][t])
<1>1. ASSUME ~asked[c][t]
      PROVE  Flushed(view, s, pieces)[c][t] = view[c][t]
  <2>1. c \notin sessionSubscribers[t]
    BY <1>1 DEF DInv, AskedFor, IInv, IndexesOK, IndexesAgree
  <2>2. view[c] \in [Sessions -> Screen]
    BY DEF DInv, Typed, TypeOK, GwTypeOK
  <2>3. CASE s = t
    BY <2>1, <2>3 DEF Flushed
  <2>4. CASE s # t
    BY <2>2, <2>4 DEF Flushed
  <2> QED
    BY <2>3, <2>4
<1> QED
  BY <1>1

LEMMA ShownOnlyAsked ==
    ASSUME DInv, [Next]_vars, NEW c \in Clients, NEW s \in Sessions, ~asked[c][s]
    PROVE  view'[c][s].runs = view[c][s].runs
<1>0. /\ view \in [Clients -> [Sessions -> Screen]]
      /\ c \notin sessionSubscribers[s]
  BY DEF DInv, AskedFor, IInv, IndexesOK, IndexesAgree, Typed, TypeOK, GwTypeOK
<1>1. CASE CheckPhase
  <2>1. view'[c][s] = Flushed(view, s, pendingOutput[s])[c][s]
    BY <1>1 DEF CheckPhase
  <2> QED
    BY <2>1, FlushedAsked
<1>2. CASE GotOutput
  <2> DEFINE t == Incoming.sid
             pieces == Append(pendingOutput[t], Piece(Incoming.from, Incoming.to))
  <2>1. UNCHANGED view \/ view' = Flushed(view, t, pieces)
    BY <1>2 DEF GotOutput
  <2>2. t \in Sessions
    BY <1>2, PipeTyped DEF GotOutput, DInv, AboutSession
  <2> HIDE DEF t, pieces
  <2>3. Flushed(view, t, pieces)[c][s] = view[c][s]
    BY <2>2, FlushedAsked
  <2> QED
    BY <2>1, <2>3
<1>3. CASE GotExit
  <2> DEFINE t == Incoming.sid
             flushed == Flushed(view, t, pendingOutput[t])
  <2>1. view' = [d \in Clients |->
                   IF d \in sessionSubscribers[t] /\ IsOpen(d)
                     THEN [flushed[d] EXCEPT ![t].exited = TRUE]
                     ELSE flushed[d]]
    BY <1>3 DEF GotExit
  <2>2. t \in Sessions /\ pendingOutput[t] \in Seq(Stretch)
    BY <1>3, PipeTyped DEF GotExit, DInv, AboutSession, Typed, TypeOK, GwTypeOK
  <2> HIDE DEF t
  <2>3. flushed[c][s] = view[c][s] /\ flushed \in [Clients -> [Sessions -> Screen]]
    BY <1>0, <2>2, FlushedAsked, FlushedTyped
  <2> HIDE DEF flushed
  <2>4. CASE s = t
    BY <1>0, <2>1, <2>3, <2>4
  <2>5. CASE s # t
    BY <1>0, <2>1, <2>2, <2>3, <2>5
  <2> QED
    BY <2>4, <2>5
<1>4. CASE Continue
  <2> DEFINE k == Head(micro)
  <2>1. /\ micro # <<>> /\ k \in Continuation
        /\ (Attaches(k) => asked[k.client][k.sid])
    BY <1>4, AskedTyped, ServedQueues, MicroTyped DEF Continue, DInv
  <2>2. k.client \in Clients /\ k.sid \in Sessions
    BY <2>1, ContinuationTyped
  <2>3. UNCHANGED view \/ Attached(k)
    BY <1>4 DEF Continue, Created, Watched
  <2> DEFINE screen == [Blank EXCEPT !.runs = Shown(<<>>, k.output)]
  <2>4. \/ UNCHANGED view
        \/ view' = [view EXCEPT ![k.client][k.sid] = screen] /\ asked[k.client][k.sid]
    BY <2>1, <2>3 DEF Attached, Attaches
  <2> HIDE DEF k, screen
  <2>5. CASE view' = [view EXCEPT ![k.client][k.sid] = screen] /\ asked[k.client][k.sid]
    <3>1. k.client # c \/ k.sid # s
      BY <2>5
    <3>2. view'[c][s] = view[c][s]
      BY <1>0, <2>2, <2>5, <3>1
    <3> QED
      BY <3>2
  <2> QED
    BY <2>4, <2>5
<1>5. CASE \/ SupervisorStep \/ ClientStep \/ UNCHANGED vars
           \/ GatewayStep /\ ~CheckPhase /\ ~Continue /\ ~GotOutput /\ ~GotExit
  <2>1. CASE SupervisorStep \/ UNCHANGED vars
    BY <2>1 DEF SupervisorStep, vars, gwVars
  <2>2. CASE GatewayStep /\ ~CheckPhase /\ ~Continue /\ ~GotOutput /\ ~GotExit
    <3>1. CASE ReadFrame
      BY <2>2, <3>1 DEF ReadFrame, GotHello, GotSessions, GotCreated, GotSubscribed,
         GotUnsubscribed, GotError, GotRemoved, Ignored
    <3>2. CASE ~ReadFrame
      BY <2>2, <3>2 DEF GatewayStep, GotOversized, Connect, Connected, Disconnected,
         RequestTimeout, gwVars
    <3> QED
      BY <3>1, <3>2
  <2>3. CASE ClientStep
    <3>1. PICK d \in Clients :
            \/ ClientConnect(d) \/ ClientMessageFrom(d) \/ ClientClosed(d) \/ ClientTerminated(d)
      BY <2>3 DEF ClientStep
    <3>2. CASE ClientMessageFrom(d)
      <4>1. PICK t \in Sessions :
              \/ \E kind \in Creates, attach \in BOOLEAN : CreateMessage(d, t, kind, attach)
              \/ AttachMessage(d, t) \/ DetachMessage(d, t) \/ WatchMessage(d, t)
              \/ UnwatchMessage(d, t)
              \/ \E size \in Sizes : ResizeMessage(d, t, size)
              \/ \E op \in {"input", "kill"} : ForwardMessage(d, t, op)
        BY <3>2 DEF ClientMessageFrom
      <4> QED
        BY <4>1 DEF CreateMessage, AttachMessage, DetachMessage, WatchMessage, UnwatchMessage,
                    ResizeMessage, ForwardMessage
    <3> QED
      BY <3>1, <3>2 DEF ClientConnect, ClientTerminated, ClientClosed
  <2> QED
    BY <1>5, <2>1, <2>2, <2>3
<1> QED
  <2>1. GotOutput \/ GotExit \/ CheckPhase \/ Continue
        \/ (GatewayStep /\ ~CheckPhase /\ ~Continue /\ ~GotOutput /\ ~GotExit)
        \/ SupervisorStep \/ ClientStep \/ UNCHANGED vars
    BY DEF Next
  <2> QED
    BY <1>1, <1>2, <1>3, <1>4, <1>5, <2>1

-----------------------------------------------------------------------------
(* One client that waits for its answers, and no session id used twice:    *)
(* then the gateway is never attached to a live session that the           *)
(* supervisor does not feed it.                                            *)

(* A terminal was once started under the id s. *)
Born(s) == \E i \in Incs : proc[s][i].kind # "none"

(* No line of q takes the subscription to s away. *)
Unasked(q, s) == \A j \in 1 .. Len(q) : ~(q[j].type = "unsubscribe" /\ q[j].sid = s)

(* The supervisor gives the gateway the output of s, and has not been told *)
(* to stop.                                                                *)
Fed(s) ==
    /\ Born(s)
    /\ (current[s] # 0 /\ gwConn \in Conns /\ ~Refused(gwConn)) =>
          (gwConn \in subscribers[s] /\ Unasked(toSup[gwConn], s))

(* In the lines q, the request n is one for s and nothing behind it undoes *)
(* what it asks.                                                           *)
Waiting(q, n, s) ==
    \A j \in 1 .. Len(q) :
        (q[j].type = "subscribe" /\ q[j].id = n) =>
            /\ q[j].sid = s
            /\ \A i \in 1 .. Len(q) : i > j => ~(q[i].type = "unsubscribe" /\ q[i].sid = s)

(* A frame of q says that the request n was granted. *)
Granted(q, n) == \E j \in 1 .. Len(q) : q[j].type = "subscribed" /\ q[j].id = n

Subscribing(p) == p.kind \in {"attach", "watch"}

(* The map of sessions holds ids that were used. *)
Used == \A s \in Sessions : current[s] # 0 => Born(s)

(* Requests and answers carry ids that were given out. *)
Fresh ==
    \A c \in Conns :
        /\ \A j \in 1 .. Len(toSup[c]) : toSup[c][j].type = "subscribe" => toSup[c][j].id < nextReqId
        /\ \A n \in Nat : Granted(toGw[c], n) => n < nextReqId

(* One request at a time, then one continuation; a continuation that finds *)
(* the pipe being read has not come to its caller.                         *)
Alone ==
    /\ \A p, q \in pending : p = q
    /\ turn = "idle" => micro = <<>>
    /\ micro # <<>> =>
          (pending = {} /\ Len(micro) = 1 /\ (turn = "pipe" => Head(micro).step = "reply"))

(* Without a pipe nothing is subscribed and nothing is waited for. *)
Down == sock = "down" => (subscribed = {} /\ pending = {})

Attended == \A s \in subscribed : Fed(s)

(* Who is attached is attached to a subscribed session; who watches one is *)
(* perhaps still waiting for it.                                           *)
Followed ==
    \A s \in Sessions :
        /\ sessionSubscribers[s] # {} => s \in subscribed
        /\ statusWatchers[s] # {} =>
              \/ s \in subscribed
              \/ \E p \in pending : p.kind = "watch" /\ p.sid = s
              \/ micro # <<>> /\ Head(micro).kind = "watch" /\ Head(micro).sid = s

(* A subscription that is asked for will be in force when it is granted. *)
Promised(p) ==
    /\ p.sid \notin subscribed
    /\ Waiting(toSup[gwConn], p.id, p.sid)
    /\ Granted(toGw[gwConn], p.id) => Fed(p.sid)

PendingFed == \A p \in pending : Subscribing(p) => Promised(p)

(* It is in force when its continuation runs. *)
Justified(k) ==
    (Subscribing(k) /\ k.ok) =>
        (Fed(k.sid) /\ sock # "down" /\ (k.step = "caller" => k.sid \in subscribed))

MicroFed == micro # <<>> => Justified(Head(micro))

FInv ==
    Used /\ Fresh /\ Alone /\ Down /\ Attended /\ Followed /\ PendingFed /\ MicroFed

(* What the queues of the pipe keep: a line fewer. *)
LEMMA FewerLines ==
    ASSUME NEW q \in Seq(ClientMessage), q # <<>>
    PROVE  /\ \A s : Unasked(q, s) => Unasked(Tail(q), s)
           /\ \A n, s : Waiting(q, n, s) => Waiting(Tail(q), n, s)
           /\ \A n, s : (Waiting(q, n, s) /\ Head(q).type = "subscribe" /\ Head(q).id = n) =>
                           (Head(q).sid = s /\ Unasked(Tail(q), s))
           /\ \A n : (\A j \in 1 .. Len(q) : q[j].type = "subscribe" => q[j].id < n) =>
                        \A j \in 1 .. Len(Tail(q)) : Tail(q)[j].type = "subscribe" => Tail(q)[j].id < n
<1>1. /\ Len(q) \in Nat /\ Len(Tail(q)) = Len(q) - 1 /\ Len(q) # 0
      /\ \A j \in 1 .. Len(Tail(q)) : Tail(q)[j] = q[j + 1]
      /\ Head(q) = q[1]
  BY HeadTailProperties, EmptySeq
<1>2. \A j \in 1 .. Len(Tail(q)) : j + 1 \in 1 .. Len(q) /\ j + 1 > 1 /\ Tail(q)[j] = q[j + 1]
  BY <1>1
<1>3. ASSUME NEW s, Unasked(q, s)
      PROVE  Unasked(Tail(q), s)
  BY <1>2, <1>3 DEF Unasked
<1>4. ASSUME NEW n, NEW s, Waiting(q, n, s)
      PROVE  Waiting(Tail(q), n, s)
  <2>1. SUFFICES ASSUME NEW j \in 1 .. Len(Tail(q)), NEW i \in 1 .. Len(Tail(q)),
                        Tail(q)[j].type = "subscribe" /\ Tail(q)[j].id = n
                 PROVE  /\ Tail(q)[j].sid = s
                        /\ i > j => ~(Tail(q)[i].type = "unsubscribe" /\ Tail(q)[i].sid = s)
    BY <1>1 DEF Waiting
  <2>2. j + 1 \in 1 .. Len(q) /\ i + 1 \in 1 .. Len(q) /\ (i > j => i + 1 > j + 1)
    BY <1>1, <1>2
  <2> QED
    BY <1>2, <1>4, <2>1, <2>2 DEF Waiting
<1>5. ASSUME NEW n, NEW s, Waiting(q, n, s), Head(q).type = "subscribe", Head(q).id = n
      PROVE  Head(q).sid = s /\ Unasked(Tail(q), s)
  <2>1. 1 \in 1 .. Len(q)
    BY <1>1
  <2> QED
    BY <1>1, <1>2, <1>5, <2>1 DEF Waiting, Unasked
<1>6. ASSUME NEW n, \A j \in 1 .. Len(q) : q[j].type = "subscribe" => q[j].id < n
      PROVE  \A j \in 1 .. Len(Tail(q)) : Tail(q)[j].type = "subscribe" => Tail(q)[j].id < n
  BY <1>2, <1>6
<1> QED
  BY <1>3, <1>4, <1>5, <1>6

(* Lines more, none of which asks for a subscription to end. *)
LEMMA MoreLines ==
    ASSUME NEW q \in Seq(ClientMessage), NEW lines \in Seq(ClientMessage)
    PROVE  /\ \A s : (Unasked(q, s) /\ Unasked(lines, s)) => Unasked(q \o lines, s)
           /\ \A n, s :
                 (Waiting(q, n, s) /\ Unasked(lines, s)
                    /\ \A j \in 1 .. Len(lines) : lines[j].type # "subscribe") =>
                       Waiting(q \o lines, n, s)
           /\ \A n :
                 (/\ \A j \in 1 .. Len(q) : q[j].type = "subscribe" => q[j].id < n
                  /\ \A j \in 1 .. Len(lines) : lines[j].type = "subscribe" => lines[j].id < n) =>
                     \A j \in 1 .. Len(q \o lines) :
                         (q \o lines)[j].type = "subscribe" => (q \o lines)[j].id < n
<1> DEFINE r == q \o lines
<1>1. Len(q) \in Nat /\ Len(lines) \in Nat
  OBVIOUS
<1>2. /\ Len(r) = Len(q) + Len(lines)
      /\ \A j \in 1 .. Len(r) : r[j] = IF j <= Len(q) THEN q[j] ELSE lines[j - Len(q)]
  BY ConcatProperties
<1> HIDE DEF r
<1>3. \A j \in 1 .. Len(r) : \/ j \in 1 .. Len(q) /\ r[j] = q[j]
                             \/ j > Len(q) /\ j - Len(q) \in 1 .. Len(lines) /\ r[j] = lines[j - Len(q)]
  BY <1>1, <1>2
<1>4. ASSUME NEW s, Unasked(q, s), Unasked(lines, s)
      PROVE  Unasked(r, s)
  BY <1>3, <1>4 DEF Unasked
<1>5. ASSUME NEW n, NEW s, Waiting(q, n, s), Unasked(lines, s),
             \A j \in 1 .. Len(lines) : lines[j].type # "subscribe"
      PROVE  Waiting(r, n, s)
  BY <1>3, <1>5 DEF Unasked, Waiting
<1>6. ASSUME NEW n, \A j \in 1 .. Len(q) : q[j].type = "subscribe" => q[j].id < n,
             \A j \in 1 .. Len(lines) : lines[j].type = "subscribe" => lines[j].id < n
      PROVE  \A j \in 1 .. Len(r) : r[j].type = "subscribe" => r[j].id < n
  BY <1>3, <1>6
<1> QED
  BY <1>4, <1>5, <1>6 DEF r

(* A request with a new id, in the last line. *)
LEMMA NewRequest ==
    ASSUME NEW q \in Seq(ClientMessage), NEW m \in ClientMessage,
           \A j \in 1 .. Len(q) : q[j].type = "subscribe" => q[j].id # m.id
    PROVE  Waiting(q \o <<m>>, m.id, m.sid)
<1> DEFINE r == q \o <<m>>
<1>1. Len(q) \in Nat /\ <<m>> \in Seq(ClientMessage) /\ Len(<<m>>) = 1 /\ <<m>>[1] = m
  OBVIOUS
<1>2. /\ Len(r) = Len(q) + 1
      /\ \A j \in 1 .. Len(r) : r[j] = IF j <= Len(q) THEN q[j] ELSE <<m>>[j - Len(q)]
  BY <1>1, ConcatProperties
<1>3. r[Len(q) + 1] = m /\ \A j \in 1 .. Len(q) : r[j] = q[j]
  BY <1>1, <1>2
<1> HIDE DEF r
<1> QED
  BY <1>1, <1>2, <1>3 DEF Waiting, r

(* Frames that grant nothing. *)
Silently(q, r) == \A c \in Conns : \A n \in Nat : Granted(r[c], n) => Granted(q[c], n)

LEMMA SilentFrames ==
    ASSUME NEW q \in [Conns -> Seq(NamedFrame)], NEW f \in NamedFrame, f.type # "subscribed"
    PROVE  /\ \A c \in Conns : Silently(q, Sent(q, c, f))
           /\ Silently(q, Broadcast(q, f))
           /\ \A s : Silently(q, FanOut(q, s, f))
<1>1. ASSUME NEW c \in Conns, NEW n \in Nat, Granted(Append(q[c], f), n)
      PROVE  Granted(q[c], n)
  <2>1. q[c] \in Seq(NamedFrame) /\ Len(q[c]) \in Nat
    OBVIOUS
  <2>2. /\ Len(Append(q[c], f)) = Len(q[c]) + 1
        /\ \A j \in 1 .. Len(q[c]) : Append(q[c], f)[j] = q[c][j]
        /\ Append(q[c], f)[Len(q[c]) + 1] = f
    BY <2>1, AppendProperties
  <2>3. PICK j \in 1 .. Len(Append(q[c], f)) :
           Append(q[c], f)[j].type = "subscribed" /\ Append(q[c], f)[j].id = n
    BY <1>1 DEF Granted
  <2>4. j \in 1 .. Len(q[c]) /\ Append(q[c], f)[j] = q[c][j]
    BY <2>1, <2>2, <2>3
  <2> QED
    BY <2>3, <2>4 DEF Granted
<1> QED
  BY <1>1 DEF Silently, Sent, Broadcast, FanOut

LEMMA ReadQuietly ==
    ASSUME Typed, NEW t, PipeTurn(t)
    PROVE  Silently(toGw, toGw')
<1>1. /\ gwConn \in Conns /\ toGw[gwConn] # <<>>
      /\ toGw' = [toGw EXCEPT ![gwConn] = Tail(@)]
      /\ toGw \in [Conns -> Seq(ServerFrame)]
  BY DEF PipeTurn, Typed, LinkOK, TypeOK, IpcTypeOK
<1>2. ASSUME NEW n \in Nat, Granted(Tail(toGw[gwConn]), n)
      PROVE  Granted(toGw[gwConn], n)
  <2> DEFINE q == toGw[gwConn]
  <2>1. q \in Seq(ServerFrame) /\ q # <<>>
    BY <1>1
  <2>2. Granted(Tail(q), n)
    BY <1>2
  <2> HIDE DEF q
  <2>3. /\ Len(q) \in Nat /\ Len(Tail(q)) = Len(q) - 1
        /\ \A j \in 1 .. Len(Tail(q)) : Tail(q)[j] = q[j + 1]
    BY <2>1, HeadTailProperties
  <2>4. \A j \in 1 .. Len(Tail(q)) : j + 1 \in 1 .. Len(q) /\ Tail(q)[j] = q[j + 1]
    BY <2>3
  <2>5. Granted(q, n)
    BY <2>2, <2>4 DEF Granted
  <2> QED
    BY <2>5 DEF q
<1> QED
  BY <1>1, <1>2 DEF Silently

(* Lines were read, or nothing was: what waits is as it was. *)
Fewer(q, r) ==
    \A d \in Conns :
        /\ \A s : Unasked(q[d], s) => Unasked(r[d], s)
        /\ \A n, s : Waiting(q[d], n, s) => Waiting(r[d], n, s)
        /\ \A n : (\A j \in 1 .. Len(q[d]) : q[d][j].type = "subscribe" => q[d][j].id < n) =>
                     \A j \in 1 .. Len(r[d]) : r[d][j].type = "subscribe" => r[d][j].id < n

LEMMA LineRead ==
    ASSUME Typed, NEW c \in Conns, NEW t, Receive(c, t)
    PROVE  Fewer(toSup, toSup')
<1>1. /\ toSup \in [Conns -> Seq(ClientMessage)] /\ toSup[c] # <<>>
      /\ toSup' = [toSup EXCEPT ![c] = Tail(@)]
  BY DEF Typed, TypeOK, IpcTypeOK, Receive
<1>2. toSup'[c] = Tail(toSup[c]) /\ \A d \in Conns : d # c => toSup'[d] = toSup[d]
  BY <1>1
<1>3. toSup[c] \in Seq(ClientMessage)
  BY <1>1
<1>4. ASSUME NEW d \in Conns
      PROVE  /\ \A s : Unasked(toSup[d], s) => Unasked(toSup'[d], s)
             /\ \A n, s : Waiting(toSup[d], n, s) => Waiting(toSup'[d], n, s)
             /\ \A n : (\A j \in 1 .. Len(toSup[d]) : toSup[d][j].type = "subscribe" => toSup[d][j].id < n) =>
                     \A j \in 1 .. Len(toSup'[d]) : toSup'[d][j].type = "subscribe" => toSup'[d][j].id < n
  <2>1. CASE d = c
    BY Zenon, <1>1, <1>2, <1>3, <2>1, FewerLines
  <2>2. CASE d # c
    BY Zenon, <1>2, <2>2
  <2> QED
    BY <2>1, <2>2
<1> QED
  BY Zenon, <1>4 DEF Fewer

(* What keeps a session fed. *)
LEMMA FedKept ==
    ASSUME NEW s \in Sessions, Fed(s), UNCHANGED gwConn, Born(s) => Born(s)',
           current'[s] # 0 => current[s] # 0,
           gwConn \in Conns => (Refused(gwConn) => Refused(gwConn)'),
           current'[s] # 0 /\ gwConn \in Conns /\ ~Refused(gwConn)' /\ gwConn \in subscribers[s] =>
               gwConn \in subscribers'[s],
           current'[s] # 0 /\ gwConn \in Conns /\ Unasked(toSup[gwConn], s) =>
               Unasked(toSup'[gwConn], s)
    PROVE  Fed(s)'
BY Zenon DEF Fed

LEMMA SilentTwice ==
    ASSUME NEW q, NEW r, NEW u, Silently(q, r), Silently(r, u)
    PROVE  Silently(q, u)
BY DEF Silently

LEMMA EmitSilent ==
    ASSUME FramesNamed, SupTypeOK, NEW s \in Sessions, Emit(s)
    PROVE  Silently(toGw, toGw')
<1> DEFINE f == OutputFrame("output", s, 0, produced[s] + 1, produced[s] + 1)
<1>1. produced[s] + 1 \in Nat
  BY DEF SupTypeOK
<1>2. f \in NamedFrame /\ f.type # "subscribed"
  BY <1>1, NamedFrames DEF ServerFrameTypes, OutputFrame
<1>3. toGw' = FanOut(toGw, s, f)
  BY DEF Emit
<1> HIDE DEF f
<1> QED
  BY <1>2, <1>3, SilentFrames DEF FramesNamed

LEMMA EmitExitSilent ==
    ASSUME FramesNamed, NEW s \in Sessions, NEW queued, EmitExit(s, queued)
    PROVE  Silently(toGw, toGw')
<1> DEFINE f == Frame("exit", s, 0)
<1>1. f \in NamedFrame /\ f.type # "subscribed"
  BY NamedFrames DEF ServerFrameTypes, Frame
<1>2. toGw' = FanOut(toGw, s, f)
  BY DEF EmitExit
<1> HIDE DEF f
<1> QED
  BY <1>1, <1>2, SilentFrames DEF FramesNamed

(* Only a subscription that is made is granted. *)
LEMMA HandleSilent ==
    ASSUME Typed, NEW c \in Conns, HandleMessage(c), ~Subscribe(c)
    PROVE  Silently(toGw, toGw')
<1> DEFINE m == Head(toSup[c])
<1>0. toGw \in [Conns -> Seq(NamedFrame)] /\ IpcTypeOK
  BY DEF Typed, TypeOK, FramesNamed
<1>1. CASE Hello(c)
  <2>1. m.id \in Nat
    BY <1>0, <1>1, LineTyped DEF Hello
  <2> DEFINE f == Frame("hello", NoSession, 0)
             g == SessionsFrame(m.id, Listed)
             e == Frame("error", NoSession, m.id)
  <2>2. f \in NamedFrame /\ g \in NamedFrame /\ e \in NamedFrame
    BY <2>1, NamedFrames DEF Listed
  <2>3. toGw' = Sent(Sent(toGw, c, f), c, g) \/ toGw' = Sent(toGw, c, e)
    BY <1>1 DEF Hello, SendTo
  <2>4. f.type # "subscribed" /\ g.type # "subscribed" /\ e.type # "subscribed"
    BY DEF Frame, SessionsFrame
  <2> HIDE DEF f, g, e
  <2>5. Sent(toGw, c, f) \in [Conns -> Seq(NamedFrame)]
    BY <1>0, <2>2, WritesNamed
  <2>6. /\ Silently(toGw, Sent(toGw, c, f)) /\ Silently(toGw, Sent(toGw, c, e))
        /\ Silently(Sent(toGw, c, f), Sent(Sent(toGw, c, f), c, g))
    BY <1>0, <2>2, <2>4, <2>5, SilentFrames
  <2> QED
    BY <2>3, <2>6, SilentTwice
<1>2. ASSUME NEW u \in {"error", "unsubscribed"}, SendTo(c, Reply(c, u)), \E t : Receive(c, t),
             u = "error" \/ m.sid \in Sessions
      PROVE  Silently(toGw, toGw')
  <2>1. m.id \in Nat /\ m.sid \in Sessions \cup {NoSession}
    BY <1>0, <1>2, LineTyped
  <2> DEFINE f == Reply(c, u)
  <2>2. f \in NamedFrame /\ f.type # "subscribed"
    BY <1>2, <2>1, NamedFrames DEF Reply, ServerFrameTypes, Frame
  <2>3. toGw' = Sent(toGw, c, f)
    BY <1>2 DEF SendTo
  <2> HIDE DEF f
  <2> QED
    BY <1>0, <2>2, <2>3, SilentFrames
<1>3. CASE List(c)
  <2>1. m.id \in Nat
    BY <1>0, <1>3, LineTyped DEF List
  <2> DEFINE f == SessionsFrame(m.id, Listed)
  <2>2. f \in NamedFrame /\ f.type # "subscribed"
    BY <2>1, NamedFrames DEF Listed, SessionsFrame
  <2>3. toGw' = Sent(toGw, c, f)
    BY <1>3 DEF List, SendTo
  <2> HIDE DEF f
  <2> QED
    BY <1>0, <2>2, <2>3, SilentFrames
<1>4. ASSUME NEW p, Start(c, m, p), m.sid \in Sessions, m.id \in Nat
      PROVE  Silently(toGw, toGw')
  <2> DEFINE f == Frame("created", m.sid, 0)
             g == Frame("created", m.sid, m.id)
  <2>1. f \in NamedFrame /\ g \in NamedFrame /\ f.type # "subscribed" /\ g.type # "subscribed"
    BY <1>4, NamedFrames DEF ServerFrameTypes, Frame
  <2>2. toGw' = Sent(Broadcast(toGw, f), c, g)
    BY <1>4 DEF Start
  <2> HIDE DEF f, g
  <2>3. Broadcast(toGw, f) \in [Conns -> Seq(NamedFrame)]
    BY <1>0, <2>1, WritesNamed
  <2>4. Silently(toGw, Broadcast(toGw, f)) /\ Silently(Broadcast(toGw, f), toGw')
    BY <1>0, <2>1, <2>2, <2>3, SilentFrames
  <2> QED
    BY <2>4, SilentTwice
<1>5. CASE Create(c) \/ CreateSsh(c)
  <2>1. m.sid \in Sessions /\ m.id \in Nat /\ \E t : Receive(c, t)
    <3>1. Receive(c, "create") \/ Receive(c, "create_ssh")
      BY <1>5 DEF Create, CreateSsh
    <3> QED
      BY <1>0, <3>1, LineTyped
  <2> QED
    BY <1>2, <1>4, <1>5, <2>1 DEF Create, CreateSsh
<1>6. CASE Unsubscribe(c)
  <2>1. m.sid \in Sessions /\ \E t : Receive(c, t)
    BY <1>0, <1>6, LineTyped DEF Unsubscribe
  <2> QED
    BY <1>2, <1>6, <2>1 DEF Unsubscribe
<1>7. CASE Unauthorized(c) \/ Forward(c) \/ Resize(c)
  <2>1. UNCHANGED toGw => Silently(toGw, toGw')
    BY DEF Silently
  <2>2. (SendTo(c, Reply(c, "error")) /\ \E t : Receive(c, t)) => Silently(toGw, toGw')
    BY <1>2
  <2> QED
    BY Zenon, <1>7, <2>1, <2>2 DEF Unauthorized, Forward, Resize
<1> QED
  BY <1>1, <1>3, <1>5, <1>6, <1>7 DEF HandleMessage

(* What a line does to the sessions: it may start one whose id is new, and *)
(* it may take the gateway from the subscribers it asked to be taken from. *)
LEMMA HandleFeeds ==
    ASSUME MaxIncs = 1, Typed, Used, UNCHANGED gwConn, NEW c \in Conns, HandleMessage(c)
    PROVE  /\ Fewer(toSup, toSup') /\ Used'
           /\ \A s \in Sessions : Fed(s) => Fed(s)'
<1> DEFINE m == Head(toSup[c])
<1> USE DEF Typed, TypeOK
<1>1. PICK t \in ClientMessageTypes : Receive(c, t)
  BY Zenon DEF HandleMessage, Hello, Unauthorized, List, Create, CreateSsh, Subscribe, Unsubscribe,
            Forward, Resize, ClientMessageTypes
<1>2. Fewer(toSup, toSup')
  BY <1>1, LineRead
<1>3. gwConn \in Conns => \A s : Unasked(toSup[gwConn], s) => Unasked(toSup'[gwConn], s)
  BY <1>2 DEF Fewer
<1>4. /\ proc \in [Sessions -> [Incs -> Process]] /\ current \in [Sessions -> 0 .. MaxIncs]
      /\ subscribers \in [Sessions -> SUBSET Conns]
  BY DEF SupTypeOK
<1>5. UNCHANGED conn
  BY Zenon DEF HandleMessage, Hello, Unauthorized, List, Create, CreateSsh, Subscribe, Unsubscribe,
            Forward, Resize, connVars, supVars
<1>6. ASSUME UNCHANGED <<current, proc>>,
             \A s \in Sessions : subscribers[s] \subseteq subscribers'[s]
      PROVE  Used' /\ \A s \in Sessions : Fed(s) => Fed(s)'
  <2>1. Used' /\ \A s : Born(s) => Born(s)'
    BY <1>6 DEF Used, Born
  <2>2. gwConn \in Conns => (Refused(gwConn) => Refused(gwConn)')
    BY <1>5 DEF Refused
  <2> QED
    BY <1>3, <1>6, <2>1, <2>2, FedKept
<1>7. ASSUME NEW p, p.kind # "none", CanStart(m), Start(c, m, p), m.sid \in Sessions,
             UNCHANGED subscribers
      PROVE  Used' /\ \A s \in Sessions : Fed(s) => Fed(s)'
  <2> DEFINE i == NextInc(m.sid)
  <2>1. Incs = {1} /\ ~Born(m.sid) /\ i \in Incs
    <3>1. Incs = {1} /\ FreeIncs(m.sid) # {}
      BY <1>7 DEF Incs, CanStart
    <3>2. FreeIncs(m.sid) = {1}
      BY <3>1 DEF FreeIncs
    <3> QED
      BY <3>1, <3>2 DEF FreeIncs, NextInc, Born
  <2>2. /\ current' = [current EXCEPT ![m.sid] = i]
        /\ proc' = [proc EXCEPT ![m.sid][i] = p]
    BY <1>7 DEF Start
  <2> HIDE DEF i
  <2>3. /\ proc'[m.sid][i] = p
        /\ \A s \in Sessions : s # m.sid => proc'[s] = proc[s] /\ current'[s] = current[s]
    <3>1. proc[m.sid] \in [Incs -> Process]
      BY <1>4, <1>7
    <3>2. proc'[m.sid] = [proc[m.sid] EXCEPT ![i] = p]
      BY <1>4, <1>7, <2>2
    <3> QED
      BY <1>4, <2>1, <2>2, <3>1, <3>2
  <2>4. \A s \in Sessions : s # m.sid => (Born(s)' <=> Born(s))
    BY <2>3 DEF Born, Incs
  <2>5. \A s : s = m.sid => Born(s)'
    <3>1. proc'[m.sid][i].kind # "none"
      BY <1>7, <2>3
    <3> QED
      BY Zenon, <2>1, <3>1 DEF Born
  <2>6. Used'
    BY Zenon, <2>3, <2>4, <2>5 DEF Used
  <2>7. gwConn \in Conns => (Refused(gwConn) => Refused(gwConn)')
    BY <1>5 DEF Refused
  <2>8. \A s \in Sessions : Fed(s) => s # m.sid
    BY <2>1 DEF Fed
  <2>9. \A s \in Sessions : Fed(s) => Fed(s)'
    BY Zenon, <1>3, <1>7, <2>3, <2>4, <2>7, <2>8, FedKept
  <2> QED
    BY <2>6, <2>9
<1>8. CASE Create(c) \/ CreateSsh(c)
  <2>1. m.sid \in Sessions
    <3>1. Receive(c, "create") \/ Receive(c, "create_ssh")
      BY <1>8 DEF Create, CreateSsh
    <3> QED
      BY <3>1, LineTyped
  <2>2. CASE CanStart(m)
    <3>1. \E p : p.kind # "none" /\ Start(c, m, p) /\ UNCHANGED subscribers
      <4> DEFINE pty == [kind |-> "pty", alive |-> TRUE, stream |-> "open", size |-> m.size]
                 ssh == [kind |-> "ssh", alive |-> TRUE, stream |-> "none", size |-> m.size]
      <4>1. pty.kind # "none" /\ ssh.kind # "none"
        OBVIOUS
      <4>2. (Start(c, m, pty) \/ Start(c, m, ssh)) /\ UNCHANGED subscribers
        BY Zenon, <1>8, <2>2 DEF Create, CreateSsh
      <4> HIDE DEF pty, ssh
      <4> QED
        BY <4>1, <4>2
    <3> QED
      BY <1>2, <1>7, <2>1, <2>2, <3>1
  <2>3. CASE ~CanStart(m)
    <3>1. UNCHANGED <<current, proc, subscribers>>
      BY Zenon, <1>8, <2>3 DEF Create, CreateSsh
    <3> QED
      BY <1>2, <1>6, <3>1
  <2> QED
    BY <2>2, <2>3
<1>9. CASE Unsubscribe(c)
  <2>1. /\ m.sid \in Sessions /\ m.type = "unsubscribe" /\ toSup[c] # <<>>
        /\ UNCHANGED <<current, proc>>
        /\ subscribers' = [subscribers EXCEPT ![m.sid] = @ \ {c}]
    BY <1>9, LineTyped DEF Unsubscribe
  <2>2. Used' /\ \A s : Born(s) => Born(s)'
    BY <2>1 DEF Used, Born
  <2>3. gwConn \in Conns => (Refused(gwConn) => Refused(gwConn)')
    BY <1>5 DEF Refused
  <2>4. c = gwConn => \A s : Unasked(toSup[gwConn], s) => s # m.sid
    <3>1. toSup[c] \in Seq(ClientMessage) /\ 1 \in 1 .. Len(toSup[c]) /\ m = toSup[c][1]
      BY <2>1 DEF IpcTypeOK
    <3> HIDE DEF m
    <3> QED
      BY <2>1, <3>1 DEF Unasked
  <2>5. ASSUME NEW s \in Sessions, Fed(s)
        PROVE  Fed(s)'
    <3>1. CASE ~(current[s] # 0 /\ gwConn \in Conns /\ ~Refused(gwConn))
      BY <2>1, <2>2, <2>3, <2>5, <3>1 DEF Fed
    <3>2. CASE current[s] # 0 /\ gwConn \in Conns /\ ~Refused(gwConn)
      <4>1. c # gwConn \/ s # m.sid
        BY <2>4, <2>5, <3>2 DEF Fed
      <4>2. gwConn \in subscribers[s] => gwConn \in subscribers'[s]
        BY <1>4, <2>1, <4>1
      <4> QED
        BY <1>3, <2>1, <2>2, <2>3, <2>5, <4>2, FedKept
    <3> QED
      BY <3>1, <3>2
  <2> QED
    BY <1>2, <2>2, <2>5
<1>10. CASE Resize(c)
  <2>1. m.sid \in Sessions
    BY <1>10, LineTyped DEF Resize
  <2>2. UNCHANGED <<current, subscribers>>
    BY <1>10 DEF Resize
  <2>3. \A s \in Sessions : \A i \in Incs : proc'[s][i].kind = proc[s][i].kind
    <3> DEFINE i == current[m.sid]
    <3>1. proc' = proc \/ proc' = [proc EXCEPT ![m.sid][i].size = m.size]
      BY Zenon, <1>10 DEF Resize
    <3> HIDE DEF i, m
    <3>2. ASSUME NEW s \in Sessions, NEW j \in Incs, proc' = [proc EXCEPT ![m.sid][i].size = m.size]
          PROVE  proc'[s][j].kind = proc[s][j].kind
      <4>1. proc[s] \in [Incs -> Process] /\ proc[s][j] \in Process
        BY <1>4
      <4>2. proc'[s][j] = proc[s][j] \/ proc'[s][j] = [proc[s][j] EXCEPT !.size = m.size]
        BY <1>4, <2>1, <3>2, <4>1
      <4> QED
        BY <4>1, <4>2 DEF Process
    <3> QED
      BY <3>1, <3>2
  <2>4. Used' /\ \A s \in Sessions : Born(s) => Born(s)'
    BY <2>2, <2>3 DEF Used, Born, Incs
  <2>5. gwConn \in Conns => (Refused(gwConn) => Refused(gwConn)')
    BY <1>5 DEF Refused
  <2> QED
    BY <1>2, <1>3, <2>2, <2>4, <2>5, FedKept
<1>11. CASE Subscribe(c)
  <2>1. m.sid \in Sessions
    BY <1>11, LineTyped DEF Subscribe
  <2>2. UNCHANGED <<current, proc>>
    BY <1>11 DEF Subscribe
  <2>3. \A s \in Sessions : subscribers[s] \subseteq subscribers'[s]
    BY <1>4, <1>11, <2>1 DEF Subscribe
  <2> QED
    BY <1>2, <1>6, <2>2, <2>3
<1>12. CASE Hello(c) \/ Unauthorized(c) \/ List(c) \/ Forward(c)
  <2>1. UNCHANGED <<current, proc, subscribers>>
    BY Zenon, <1>12 DEF Hello, Unauthorized, List, Forward, supVars
  <2> QED
    BY <1>2, <1>6, <2>1
<1> QED
  BY <1>2, <1>8, <1>9, <1>10, <1>11, <1>12 DEF HandleMessage

(* The answer to a subscription that is made is that the session is fed.   *)
LEMMA SubscribeFeeds ==
    ASSUME Typed, Used, UNCHANGED gwConn, NEW c \in Conns, Subscribe(c),
           NEW d \in Conns, NEW n \in Nat, Granted(toGw'[d], n), ~Granted(toGw[d], n)
    PROVE  /\ \E j \in 1 .. Len(toSup[d]) : toSup[d][j].type = "subscribe" /\ toSup[d][j].id = n
           /\ d = gwConn => \A s : Waiting(toSup[d], n, s) => Fed(s)'
<1> DEFINE m == Head(toSup[c])
           f == OutputFrame("subscribed", m.sid, m.id, scrollback[m.sid], produced[m.sid])
           e == Reply(c, "error")
<1> USE DEF Typed, TypeOK
<1>1. /\ m.sid \in Sessions /\ m.type = "subscribe" /\ toSup[c] # <<>> /\ m.id \in Nat
      /\ UNCHANGED <<current, proc>>
      /\ toSup' = [toSup EXCEPT ![c] = Tail(@)]
  BY LineTyped DEF Subscribe, Receive
<1>2. toGw \in [Conns -> Seq(NamedFrame)]
  BY DEF FramesNamed
<1>3. \/ current[m.sid] # 0 /\ toGw' = Sent(toGw, c, f) /\ subscribers' = [subscribers EXCEPT ![m.sid] = @ \cup {c}]
      \/ toGw' = Sent(toGw, c, e)
  BY DEF Subscribe, SendTo
<1>4. e \in NamedFrame /\ e.type # "subscribed"
  BY <1>1, NamedFrames DEF Reply, Frame, ServerFrameTypes
<1>5. f \in NamedFrame /\ f.id = m.id
  <2>1. scrollback[m.sid] \in Nat /\ produced[m.sid] \in Nat
    BY <1>1 DEF SupTypeOK
  <2> QED
    BY <1>1, <2>1, NamedFrames DEF ServerFrameTypes, OutputFrame
<1>6. toSup[c] \in Seq(ClientMessage) /\ 1 \in 1 .. Len(toSup[c]) /\ m = toSup[c][1]
  BY <1>1 DEF IpcTypeOK
<1> HIDE DEF e, f
<1>7. toGw' = Sent(toGw, c, f) /\ current[m.sid] # 0 /\ subscribers' = [subscribers EXCEPT ![m.sid] = @ \cup {c}]
  <2>1. toGw' # Sent(toGw, c, e)
    BY <1>2, <1>4, SilentFrames DEF Silently
  <2> QED
    BY <1>3, <2>1
<1>8. d = c /\ n = m.id
  <2>1. \/ toGw'[d] = toGw[d]
        \/ d = c /\ toGw'[d] = Append(toGw[d], f)
    BY <1>2, <1>7 DEF Sent
  <2>2. d = c /\ toGw'[d] = Append(toGw[d], f)
    BY <2>1
  <2>3. toGw[d] \in Seq(NamedFrame)
    BY <1>2
  <2>4. /\ Len(Append(toGw[d], f)) = Len(toGw[d]) + 1 /\ Len(toGw[d]) \in Nat
        /\ \A j \in 1 .. Len(toGw[d]) : Append(toGw[d], f)[j] = toGw[d][j]
        /\ Append(toGw[d], f)[Len(toGw[d]) + 1] = f
    BY <1>5, <2>3, AppendProperties
  <2>5. PICK j \in 1 .. Len(Append(toGw[d], f)) : Append(toGw[d], f)[j].id = n
                  /\ Append(toGw[d], f)[j].type = "subscribed"
    BY <2>2 DEF Granted
  <2>6. j \notin 1 .. Len(toGw[d])
    BY <2>4, <2>5 DEF Granted
  <2>7. j = Len(toGw[d]) + 1
    BY <2>4, <2>5, <2>6
  <2> QED
    BY <1>5, <2>2, <2>4, <2>5, <2>7
<1> HIDE DEF m
<1>9. ASSUME d = gwConn, NEW s, Waiting(toSup[d], n, s)
      PROVE  Fed(s)'
  <2>1. s = m.sid /\ Unasked(Tail(toSup[c]), s)
    BY <1>1, <1>6, <1>8, <1>9, FewerLines DEF m
  <2>2. toSup'[c] = Tail(toSup[c])
    BY <1>1 DEF IpcTypeOK
  <2>3. c \in subscribers'[s]
    BY <1>1, <1>7, <2>1 DEF SupTypeOK
  <2>4. Born(s)'
    BY <1>1, <1>7, <2>1 DEF Used, Born
  <2> QED
    BY <1>8, <1>9, <2>1, <2>2, <2>3, <2>4 DEF Fed
<1> QED
  BY <1>1, <1>6, <1>8, <1>9

(* Everything else that happens to the supervisor leaves the lines alone,  *)
(* grants nothing, starts nothing, and takes the gateway from a session's  *)
(* subscribers only when the session or the connection is gone.            *)
LEMMA EventFeeds ==
    ASSUME Typed, Used, SupervisorStep, ~\E c \in Conns : HandleMessage(c)
    PROVE  /\ UNCHANGED toSup /\ Silently(toGw, toGw') /\ Used'
           /\ \A s \in Sessions : Fed(s) => Fed(s)'
<1> USE DEF Typed, TypeOK
<1>0. /\ proc \in [Sessions -> [Incs -> Process]] /\ current \in [Sessions -> 0 .. MaxIncs]
      /\ subscribers \in [Sessions -> SUBSET Conns] /\ UNCHANGED gwConn
      /\ conn \in [Conns -> {"none", "open", "destroyed", "closed"}]
  BY DEF SupTypeOK, SupervisorStep, scVars
<1>1. ASSUME UNCHANGED <<toSup, conn>>, \A s \in Sessions : Born(s) => Born(s)',
             \A s \in Sessions : current'[s] = 0
                                   \/ (current'[s] = current[s] /\ subscribers'[s] = subscribers[s])
      PROVE  Used' /\ \A s \in Sessions : Fed(s) => Fed(s)'
  <2>1. Used'
    BY Zenon, <1>1 DEF Used
  <2>2. gwConn \in Conns => (Refused(gwConn) => Refused(gwConn)')
    BY <1>0, <1>1 DEF Refused
  <2>3. \A s \in Sessions : Fed(s) => Fed(s)'
    BY Zenon, <1>0, <1>1, <2>2, FedKept
  <2> QED
    BY <2>1, <2>3
<1>2. CASE \E c \in Conns : (sock = "connecting" /\ gwConn = c /\ Accept(c)) \/ Destroy(c) \/ Close(c)
  <2>1. PICK c \in Conns : Accept(c) \/ Destroy(c) \/ Close(c)
    BY <1>2
  <2>2. UNCHANGED <<toSup, toGw, current, proc>>
    BY <2>1 DEF Accept, Destroy, Close, ipcVars
  <2>3. Used' /\ \A s : Born(s) => Born(s)'
    BY <2>2 DEF Used, Born
  <2>4. gwConn \in Conns => (Refused(gwConn) => Refused(gwConn)')
    BY <1>0, <2>1 DEF Accept, Destroy, Close, Refused
  <2>5. ASSUME NEW s \in Sessions, gwConn \in Conns, ~Refused(gwConn)', gwConn \in subscribers[s]
        PROVE  gwConn \in subscribers'[s]
    <3>1. CASE Close(c)
      <4>1. c # gwConn
        BY <1>0, <2>5, <3>1 DEF Close, Refused
      <4> QED
        BY <2>5, <3>1, <4>1 DEF Close
    <3> QED
      BY <2>1, <2>5, <3>1 DEF Accept, Destroy
  <2>6. \A s \in Sessions : Fed(s) => Fed(s)'
    BY Zenon, <1>0, <2>2, <2>3, <2>4, <2>5, FedKept
  <2>7. Silently(toGw, toGw')
    BY <2>2 DEF Silently
  <2> QED
    BY <2>2, <2>3, <2>6, <2>7
<1>3. ASSUME NEW s \in Sessions, NEW i \in Incs,
             \/ Data(s, i) \/ PtyExit(s, i)
             \/ SshReady(s, i) \/ SshFatal(s, i) \/ SshStreamClose(s, i)
      PROVE  /\ UNCHANGED toSup /\ Silently(toGw, toGw') /\ Used'
             /\ \A z \in Sessions : Fed(z) => Fed(z)'
  <2>1. UNCHANGED <<toSup, conn, current, subscribers>>
    BY Zenon, <1>3 DEF Data, PtyExit, SshReady, SshFatal, SshStreamClose, ipcVars
  <2>2. \A z \in Sessions : \A j \in Incs : proc'[z][j].kind = proc[z][j].kind
    <3>1. \/ proc' = proc
          \/ proc' = [proc EXCEPT ![s][i].alive = FALSE, ![s][i].stream = "closed"]
          \/ proc' = [proc EXCEPT ![s][i].stream = "open"]
          \/ proc' = [proc EXCEPT ![s][i].alive = FALSE]
      BY Zenon, <1>3 DEF Data, PtyExit, SshReady, SshFatal, SshStreamClose
    <3>2. ASSUME NEW z \in Sessions, NEW j \in Incs
          PROVE  proc'[z][j].kind = proc[z][j].kind
      <4>1. proc[z] \in [Incs -> Process] /\ proc[z][j] \in Process
        BY <1>0
      <4>2. \/ proc'[z][j] = proc[z][j]
            \/ proc'[z][j] = [proc[z][j] EXCEPT !.alive = FALSE, !.stream = "closed"]
            \/ proc'[z][j] = [proc[z][j] EXCEPT !.stream = "open"]
            \/ proc'[z][j] = [proc[z][j] EXCEPT !.alive = FALSE]
        <5> DEFINE exit == [proc[s][i] EXCEPT !.alive = FALSE, !.stream = "closed"]
                   open == [proc[s][i] EXCEPT !.stream = "open"]
                   dead == [proc[s][i] EXCEPT !.alive = FALSE]
        <5>1. \E w \in {proc[s][i], exit, open, dead} : proc' = [proc EXCEPT ![s][i] = w]
          BY <1>0, <1>3, <3>1
        <5>2. PICK w : w \in {proc[s][i], exit, open, dead} /\ proc' = [proc EXCEPT ![s][i] = w]
          BY <5>1
        <5> HIDE DEF exit, open, dead
        <5>3. proc'[z][j] = IF z = s /\ j = i THEN w ELSE proc[z][j]
          BY <1>0, <4>1, <5>2
        <5> QED
          BY <5>2, <5>3 DEF exit, open, dead
      <4> QED
        BY <4>1, <4>2 DEF Process
    <3> QED
      BY <3>2
  <2>3. \A z \in Sessions : Born(z) => Born(z)'
    BY Zenon, <2>2 DEF Born
  <2>4. Silently(toGw, toGw')
    <3>1. UNCHANGED toGw => Silently(toGw, toGw')
      BY DEF Silently
    <3> QED
      BY Zenon, <1>3, <3>1, EmitSilent, EmitExitSilent
         DEF Data, PtyExit, SshReady, SshFatal, SshStreamClose, ipcVars, Typed, TypeOK
  <2> QED
    BY <1>1, <2>1, <2>3, <2>4
<1>4. CASE RunImmediate
  <2> DEFINE s == Head(immediates).sid
  <2>1. s \in Sessions
    <3>1. Head(immediates) \in Immediate
      BY <1>4 DEF RunImmediate, SupTypeOK
    <3> QED
      BY <3>1 DEF Immediate
  <2>2. (RunExit(s) \/ RunRemoved(s)) /\ UNCHANGED <<toSup, conn, proc>>
    BY <1>4 DEF RunImmediate, connVars
  <2> HIDE DEF s
  <2>3. \A z \in Sessions : Born(z) => Born(z)'
    BY <2>2 DEF Born
  <2>4. Silently(toGw, toGw')
    <3>1. CASE RunExit(s)
      BY <2>1, <3>1, EmitExitSilent DEF RunExit
    <3>2. CASE RunRemoved(s)
      <4> DEFINE f == Frame("removed", s, 0)
      <4>1. f \in NamedFrame /\ f.type # "subscribed"
        BY <2>1, NamedFrames DEF ServerFrameTypes, Frame
      <4>2. toGw' = Broadcast(toGw, f)
        BY <3>2 DEF RunRemoved
      <4> HIDE DEF f
      <4> QED
        BY <4>1, <4>2, SilentFrames DEF FramesNamed
    <3> QED
      BY <2>2, <3>1, <3>2
  <2>5. \A z \in Sessions : current'[z] = 0
                              \/ (current'[z] = current[z] /\ subscribers'[z] = subscribers[z])
    BY <1>0, <2>1, <2>2 DEF RunExit, RunRemoved
  <2> QED
    BY <1>1, <2>2, <2>3, <2>4, <2>5
<1> QED
  BY <1>2, <1>3, <1>4 DEF SupervisorStep

LEMMA SupervisorFeeds ==
    ASSUME MaxIncs = 1, Typed, FInv, SupervisorStep
    PROVE  FInv'
<1>1. UNCHANGED <<scVars, gwVars>>
  BY DEF SupervisorStep
<1>2. UNCHANGED <<sock, gwConn, subscribed, pending, nextReqId, micro, turn, sessionSubscribers, statusWatchers>>
  BY <1>1 DEF scVars, gwVars, relayVars, loopVars
<1>3. Used /\ Fresh /\ Alone /\ Down /\ Attended /\ Followed /\ PendingFed /\ MicroFed
  BY DEF FInv
<1>4. /\ Fewer(toSup, toSup') /\ Used'
      /\ \A s \in Sessions : Fed(s) => Fed(s)'
      /\ \/ Silently(toGw, toGw')
         \/ \E c \in Conns : Subscribe(c)
  <2>1. CASE \E c \in Conns : HandleMessage(c)
    BY Zenon, <1>2, <1>3, <2>1, HandleFeeds, HandleSilent
  <2>2. CASE ~\E c \in Conns : HandleMessage(c)
    <3>1. UNCHANGED toSup => Fewer(toSup, toSup')
      BY DEF Fewer
    <3> QED
      BY Zenon, <1>3, <2>2, <3>1, EventFeeds
  <2> QED
    BY <2>1, <2>2
<1>5. ASSUME NEW d \in Conns, NEW n \in Nat, Granted(toGw'[d], n)
      PROVE  \/ Granted(toGw[d], n)
             \/ /\ \E j \in 1 .. Len(toSup[d]) : toSup[d][j].type = "subscribe" /\ toSup[d][j].id = n
                /\ d = gwConn => \A s : Waiting(toSup[d], n, s) => Fed(s)'
  BY Zenon, <1>2, <1>3, <1>4, <1>5, SubscribeFeeds DEF Silently
<1>6. Fresh'
  <2>1. nextReqId' = nextReqId
    BY <1>2
  <2>2. ASSUME NEW c \in Conns
        PROVE  \A j \in 1 .. Len(toSup'[c]) : toSup'[c][j].type = "subscribe" => toSup'[c][j].id < nextReqId
    BY <1>3, <1>4 DEF Fresh, Fewer
  <2>3. ASSUME NEW c \in Conns, NEW n \in Nat, Granted(toGw'[c], n)
        PROVE  n < nextReqId
    BY <1>3, <1>5, <2>3 DEF Fresh
  <2> QED
    BY <2>1, <2>2, <2>3 DEF Fresh
<1>7. Alone' /\ Down' /\ Followed'
  BY <1>2, <1>3 DEF Alone, Down, Followed
<1>8. Attended'
  <2>1. subscribed \subseteq Sessions
    BY DEF Typed, TypeOK, ScTypeOK
  <2> QED
    BY <1>2, <1>3, <1>4, <2>1 DEF Attended
<1>9. PendingFed'
  <2> SUFFICES ASSUME NEW p \in pending, Subscribing(p)
               PROVE  Promised(p)'
    BY <1>2 DEF PendingFed, Subscribing
  <2>1. p.sid \in Sessions /\ p.id \in Nat /\ gwConn \in Conns
    BY <1>3 DEF Typed, TypeOK, ScTypeOK, PendingRequest, Down, LinkOK
  <2>2. Promised(p)
    BY <1>3 DEF PendingFed
  <2>3. Waiting(toSup'[gwConn], p.id, p.sid)
    BY <1>4, <2>1, <2>2 DEF Promised, Fewer
  <2>4. ASSUME Granted(toGw'[gwConn], p.id)
        PROVE  Fed(p.sid)'
    BY <1>4, <1>5, <2>1, <2>2, <2>4 DEF Promised
  <2> QED
    BY <1>2, <2>2, <2>3, <2>4 DEF Promised
<1>10. MicroFed'
  <2> SUFFICES ASSUME micro # <<>>
               PROVE  Justified(Head(micro))'
    BY <1>2 DEF MicroFed
  <2>1. Head(micro).sid \in Sessions
    BY MicroTyped, ContinuationTyped
  <2>2. Justified(Head(micro))
    BY <1>3 DEF MicroFed
  <2> QED
    BY <1>2, <1>4, <2>1, <2>2 DEF Justified, Subscribing
<1> QED
  BY <1>4, <1>6, <1>7, <1>8, <1>9, <1>10 DEF FInv

(* A step of the gateway leaves the supervisor alone. *)
LEMMA FedStill ==
    ASSUME NEW s, Fed(s), UNCHANGED supVars, UNCHANGED gwConn,
           gwConn \in Conns /\ Unasked(toSup[gwConn], s) => Unasked(toSup'[gwConn], s)
    PROVE  Fed(s)'
<1>1. Born(s)' <=> Born(s)
  BY DEF Born, supVars
<1>2. UNCHANGED <<conn, current, subscribers>>
  BY DEF supVars
<1> QED
  BY <1>1, <1>2 DEF Fed, Refused

LEMMA UsedStill ==
    ASSUME Used, UNCHANGED supVars
    PROVE  Used'
BY DEF Used, Born, supVars

(* Lines that ask for no subscription, and end none of the sessions in S. *)
LEMMA PostFeeds ==
    ASSUME Typed, Fresh, NEW lines \in Seq(ClientMessage), Post(lines),
           \A j \in 1 .. Len(lines) : lines[j].type # "subscribe",
           UNCHANGED supVars, UNCHANGED <<toGw, gwConn, nextReqId>>
    PROVE  /\ \A s : (Unasked(lines, s) /\ Fed(s)) => Fed(s)'
           /\ gwConn \in Conns =>
                 \A n, s : (Unasked(lines, s) /\ Waiting(toSup[gwConn], n, s)) =>
                              Waiting(toSup'[gwConn], n, s)
           /\ Fresh'
<1>1. toSup \in [Conns -> Seq(ClientMessage)]
  BY DEF Typed, TypeOK, IpcTypeOK
<1>2. CASE toSup' = toSup
  <2>1. Fresh'
    BY <1>2 DEF Fresh
  <2> QED
    BY Zenon, <1>2, <2>1, FedStill
<1>3. CASE toSup' # toSup
  <2>1. gwConn \in Conns /\ toSup' = [toSup EXCEPT ![gwConn] = @ \o lines]
    BY <1>3 DEF Post, Writable, Typed, LinkOK
  <2>2. /\ toSup[gwConn] \in Seq(ClientMessage) /\ toSup'[gwConn] = toSup[gwConn] \o lines
        /\ \A c \in Conns : c # gwConn => toSup'[c] = toSup[c]
    BY <1>1, <2>1
  <2>3. /\ \A s : (Unasked(lines, s) /\ Unasked(toSup[gwConn], s)) => Unasked(toSup'[gwConn], s)
        /\ \A n, s : (Unasked(lines, s) /\ Waiting(toSup[gwConn], n, s)) =>
                        Waiting(toSup'[gwConn], n, s)
        /\ \A n : (\A j \in 1 .. Len(toSup[gwConn]) :
                      toSup[gwConn][j].type = "subscribe" => toSup[gwConn][j].id < n) =>
                  \A j \in 1 .. Len(toSup'[gwConn]) :
                      toSup'[gwConn][j].type = "subscribe" => toSup'[gwConn][j].id < n
    BY Zenon, <2>2, MoreLines
  <2>4. \A s : (Unasked(lines, s) /\ Fed(s)) => Fed(s)'
    BY Zenon, <2>3, FedStill
  <2>5. Fresh'
    BY <2>1, <2>2, <2>3 DEF Fresh
  <2> QED
    BY <2>3, <2>4, <2>5
<1> QED
  BY <1>2, <1>3

LEMMA ResizesOnly ==
    ASSUME NEW effective, ResizeLines(effective) \in Seq(ClientMessage)
    PROVE  \A j \in 1 .. Len(ResizeLines(effective)) : ResizeLines(effective)[j].type = "resize"
<1> DEFINE changed == SetToSeq({s \in Sessions : effective[s] \notin {0, effectiveSizes[s]}})
<1>1. ResizeLines(effective) =
        [i \in DOMAIN changed |->
           [Request("resize", changed[i], 0) EXCEPT !.size = effective[changed[i]]]]
  BY DEF ResizeLines
<1>2. DOMAIN ResizeLines(effective) = 1 .. Len(ResizeLines(effective))
  BY LenProperties
<1> HIDE DEF changed
<1> QED
  BY <1>1, <1>2 DEF Request

(* The lines of a client that leaves end subscriptions that nobody uses. *)
LEMMA LeaveLines ==
    ASSUME Typed, NEW c \in Clients, NEW A, IsFiniteSet(A), NEW W, Leave(c, A, W)
    PROVE  /\ \E lines \in Seq(ClientMessage) :
                 /\ Post(lines)
                 /\ \A j \in 1 .. Len(lines) : lines[j].type \in {"unsubscribe", "resize"}
                 /\ \A s : (s \in subscribed => s \in subscribed') => Unasked(lines, s)
           /\ subscribed' \subseteq subscribed
           /\ \A s \in subscribed : s \notin subscribed' =>
                 sessionSubscribers'[s] = {} /\ statusWatchers'[s] = {}
           /\ \A s \in Sessions : sessionSubscribers'[s] \subseteq sessionSubscribers[s]
           /\ \A s \in Sessions : statusWatchers'[s] \subseteq statusWatchers[s]
           /\ \A s \in Sessions \cap W : statusWatchers'[s] = statusWatchers[s] \ {c}
<1> USE DEF Typed, TypeOK, ScTypeOK, GwTypeOK
<1> DEFINE subs == Without(sessionSubscribers, c, A)
           watchers == Without(statusWatchers, c, W)
           emptied(old, new) == {s \in Sessions : old[s] # {} /\ new[s] = {}}
           dropped == {s \in subscribed :
                         /\ s \in emptied(sessionSubscribers, subs) \cup emptied(statusWatchers, watchers)
                         /\ ~Keep(subs, watchers, s)}
           desired == WithoutSize(c, A)
           effective == Recomputed(desired, HadSize(c, A))
<1>1. /\ sessionSubscribers' = subs /\ statusWatchers' = watchers
      /\ ForgetSubscribed(dropped)
      /\ Post(UnsubscribeLines(dropped) \o ResizeLines(effective))
  BY DEF Leave
<1>2. \A s \in dropped : subs[s] = {} /\ watchers[s] = {}
  BY DEF Keep
<1>3. /\ \A s \in Sessions : subs[s] \subseteq sessionSubscribers[s]
      /\ \A s \in Sessions : watchers[s] \subseteq statusWatchers[s]
      /\ \A s \in Sessions \cap W : watchers[s] = statusWatchers[s] \ {c}
  BY DEF Without
<1>4. desired \in [Sessions -> [Clients -> Sizes \cup {0}]]
  BY DEF WithoutSize
<1>5. dropped \in SUBSET Sessions /\ dropped \subseteq subscribed
  OBVIOUS
<1> HIDE DEF dropped, desired, subs, watchers
<1>6. effective \in [Sessions -> Sizes \cup {0}]
  BY <1>4, RecomputedTyped
<1> HIDE DEF effective
<1>7. IsFiniteSet(dropped)
  BY <1>5, FS_Subset DEF FewInUse
<1>8. UnsubscribeLines(dropped) \in Seq(ClientMessage)
  BY <1>5, <1>7, UnsubscribeLinesTyped
<1>9. ResizeLines(effective) \in Seq(ClientMessage)
  <2>1. HadSize(c, A) \in SUBSET A
    BY DEF HadSize
  <2>2. IsFiniteSet(HadSize(c, A))
    BY <2>1, FS_Subset
  <2>3. \A s \in Sessions : s \in HadSize(c, A) \/ effective[s] = effectiveSizes[s]
    BY DEF effective, Recomputed
  <2> QED
    BY <1>6, <2>2, <2>3, ResizeLinesTyped
<1>10. subscribed' = subscribed \ dropped
  BY <1>1 DEF ForgetSubscribed
<1>11. \A j \in 1 .. Len(UnsubscribeLines(dropped)) :
          /\ UnsubscribeLines(dropped)[j].type = "unsubscribe"
          /\ UnsubscribeLines(dropped)[j].sid \in dropped
  <2>1. /\ Cardinality(dropped) \in Nat
        /\ SetToSeq(dropped) \in [1 .. Cardinality(dropped) -> dropped]
    BY <1>7, SetToSeqTyped
  <2>2. Len(UnsubscribeLines(dropped)) = Cardinality(dropped)
    BY <2>1 DEF UnsubscribeLines
  <2> QED
    BY <2>1, <2>2 DEF UnsubscribeLines, Request
<1>12. \A j \in 1 .. Len(ResizeLines(effective)) : ResizeLines(effective)[j].type = "resize"
  BY <1>9, ResizesOnly
<1> DEFINE u == UnsubscribeLines(dropped)
           r == ResizeLines(effective)
           lines == u \o r
<1> HIDE DEF u, r
<1>13. /\ u \in Seq(ClientMessage) /\ r \in Seq(ClientMessage) /\ lines \in Seq(ClientMessage)
       /\ \A j \in 1 .. Len(lines) :
             \/ lines[j].type = "unsubscribe" /\ lines[j].sid \in dropped
             \/ lines[j].type = "resize"
  <2>1. u \in Seq(ClientMessage) /\ r \in Seq(ClientMessage)
    BY <1>8, <1>9 DEF u, r
  <2>2. /\ lines \in Seq(ClientMessage) /\ Len(lines) = Len(u) + Len(r)
        /\ Len(u) \in Nat /\ Len(r) \in Nat
        /\ \A j \in 1 .. Len(lines) : lines[j] = IF j <= Len(u) THEN u[j] ELSE r[j - Len(u)]
    BY <2>1, ConcatProperties
  <2> HIDE DEF lines
  <2>3. \A j \in 1 .. Len(lines) : \/ j \in 1 .. Len(u) /\ lines[j] = u[j]
                                   \/ j - Len(u) \in 1 .. Len(r) /\ lines[j] = r[j - Len(u)]
    BY <2>2
  <2> QED
    BY <1>11, <1>12, <2>1, <2>2, <2>3 DEF u, r
<1> HIDE DEF lines
<1>14. \A s : (s \in subscribed => s \in subscribed') => Unasked(lines, s)
  BY <1>5, <1>10, <1>13 DEF Unasked
<1>15. Post(lines)
  BY <1>1 DEF lines, u, r
<1> QED
  BY <1>1, <1>2, <1>3, <1>10, <1>13, <1>14, <1>15

(* Between requests and answers, lines are sent that end no subscription   *)
(* still wanted.                                                           *)
LEMMA PostingFeeds ==
    ASSUME Typed, FInv, NEW lines \in Seq(ClientMessage), Post(lines),
           \A j \in 1 .. Len(lines) : lines[j].type # "subscribe",
           \A s : (s \in subscribed => s \in subscribed') => Unasked(lines, s),
           subscribed' \subseteq subscribed,
           \A s \in subscribed : s \notin subscribed' =>
               sessionSubscribers'[s] = {} /\ statusWatchers'[s] = {},
           \A s \in Sessions : sessionSubscribers'[s] # {} => s \in subscribed,
           \A s \in Sessions : statusWatchers'[s] # {} =>
               \/ s \in subscribed
               \/ \E p \in pending : p.kind = "watch" /\ p.sid = s,
           UNCHANGED supVars, UNCHANGED <<toGw, gwConn, pending, nextReqId>>,
           sock' \in {sock, "up"}, micro' = <<>>
    PROVE  FInv'
<1>1. Used /\ Fresh /\ Alone /\ Down /\ Attended /\ Followed /\ PendingFed /\ MicroFed
  BY DEF FInv
<1>4. /\ \A s : (Unasked(lines, s) /\ Fed(s)) => Fed(s)'
      /\ gwConn \in Conns =>
            \A n, s : (Unasked(lines, s) /\ Waiting(toSup[gwConn], n, s)) =>
                         Waiting(toSup'[gwConn], n, s)
      /\ Fresh'
  BY <1>1, PostFeeds
<1>5. Used'
  BY <1>1, UsedStill
<1>6. Alone' /\ Down'
  BY <1>1 DEF Alone, Down
<1>7. Attended'
  BY <1>1, <1>4 DEF Attended
<1>8. Followed'
  BY <1>1 DEF Followed
<1>9. PendingFed'
  <2> SUFFICES ASSUME NEW p \in pending, Subscribing(p)
               PROVE  Promised(p)'
    BY DEF PendingFed, Subscribing
  <2>1. Promised(p) /\ gwConn \in Conns
    BY <1>1 DEF PendingFed, Down, Typed, LinkOK
  <2>2. Unasked(lines, p.sid) /\ p.sid \notin subscribed'
    BY <2>1 DEF Promised
  <2> QED
    BY <1>4, <2>1, <2>2 DEF Promised
<1>10. MicroFed'
  BY DEF MicroFed
<1> QED
  BY <1>4, <1>5, <1>6, <1>7, <1>8, <1>9, <1>10 DEF FInv

LEMMA LeaveFeeds ==
    ASSUME Typed, FInv, NEW c \in Clients, NEW A, IsFiniteSet(A), NEW W, Leave(c, A, W),
           UNCHANGED supVars, UNCHANGED <<toGw, sock, gwConn, pending, nextReqId>>, micro' = <<>>,
           \A s \in Sessions : statusWatchers'[s] # {} =>
               \/ s \in subscribed
               \/ \E p \in pending : p.kind = "watch" /\ p.sid = s
    PROVE  FInv'
<1>1. PICK lines \in Seq(ClientMessage) :
        /\ Post(lines)
        /\ \A j \in 1 .. Len(lines) : lines[j].type # "subscribe"
        /\ \A s : (s \in subscribed => s \in subscribed') => Unasked(lines, s)
  BY LeaveLines
<1>2. /\ subscribed' \subseteq subscribed
      /\ \A s \in subscribed : s \notin subscribed' =>
                 sessionSubscribers'[s] = {} /\ statusWatchers'[s] = {}
  BY LeaveLines
<1>3. \A s \in Sessions : sessionSubscribers'[s] # {} => s \in subscribed
  <2>1. \A s \in Sessions : sessionSubscribers'[s] \subseteq sessionSubscribers[s]
    BY LeaveLines
  <2> QED
    BY <2>1 DEF FInv, Followed
<1> QED
  BY <1>1, <1>2, <1>3, PostingFeeds

(* Nothing happens but that a continuation ends. *)
LEMMA CalmFeeds ==
    ASSUME Typed, FInv, UNCHANGED supVars,
           UNCHANGED <<ipcVars, sock, gwConn, subscribed, pending, nextReqId>>, micro' = <<>>,
           \A s \in Sessions : sessionSubscribers'[s] # {} => s \in subscribed,
           \A s \in Sessions : statusWatchers'[s] # {} =>
               \/ s \in subscribed
               \/ \E p \in pending : p.kind = "watch" /\ p.sid = s
    PROVE  FInv'
<1> DEFINE lines == <<>>
<1>1. lines \in Seq(ClientMessage) /\ Len(lines) = 0 /\ Post(lines)
  BY DEF Post, ipcVars
<1>2. \A s : Unasked(lines, s)
  BY <1>1 DEF Unasked
<1> HIDE DEF lines
<1>3. \A j \in 1 .. Len(lines) : lines[j].type # "subscribe"
  BY <1>1
<1> QED
  BY <1>1, <1>2, <1>3, PostingFeeds DEF ipcVars

(* The one continuation of a queue that was empty. *)
LEMMA OneContinuation ==
    ASSUME NEW k \in Continuation
    PROVE  /\ Append(<<>>, k) # <<>> /\ Len(Append(<<>>, k)) = 1
           /\ Head(Append(<<>>, k)) = k
<1>1. Append(<<>>, k) = <<k>>
  OBVIOUS
<1> QED
  BY <1>1

(* A request that is made when nothing is under way. *)
LEMMA AskFeeds ==
    ASSUME Typed, FInv, pending = {}, NEW kind \in Kinds, NEW c \in Clients, NEW s \in Sessions,
           NEW attach \in BOOLEAN, IssueRequest(Ask(kind, c, s, attach), <<>>),
           kind \in {"attach", "watch"} => s \notin subscribed,
           UNCHANGED supVars,
           UNCHANGED <<toGw, sock, gwConn, subscribed, sessionSubscribers>>,
           turn' # "pipe", turn' = "idle" => micro' = <<>>,
           \A z \in Sessions : statusWatchers'[z] # {} => z \in subscribed \/ (kind = "watch" /\ z = s)
    PROVE  FInv'
<1> DEFINE p == Ask(kind, c, s, attach)
           n == nextReqId
           pn == [p EXCEPT !.id = n]
           m == Request(RequestType(kind), s, n)
           k == Resume("reply", p, FALSE, <<>>)
<1>1. Used /\ Fresh /\ Alone /\ Down /\ Attended /\ Followed /\ PendingFed /\ MicroFed
  BY DEF FInv
<1>2. /\ n \in Nat /\ toSup \in [Conns -> Seq(ClientMessage)] /\ subscribed \subseteq Sessions
  BY DEF Typed, TypeOK, ScTypeOK, IpcTypeOK
<1>3. /\ p.sid = s /\ p.kind = kind /\ pn.id = n /\ pn.sid = s /\ pn.kind = kind
      /\ p \in PendingRequest
  BY <1>2 DEF Ask, PendingRequest
<1>4. m \in ClientMessage /\ m.id = n /\ m.sid = s /\ m.type # "unsubscribe"
  <2>1. RequestType(kind) \in {"create", "create_ssh", "subscribe"}
    BY DEF RequestType, Creates, Kinds
  <2>2. RequestType(kind) \in ClientMessageTypes \ {"hello", "list"}
    BY <2>1 DEF ClientMessageTypes
  <2>3. m \in ClientMessage
    BY <1>2, <2>2, RequestTyped
  <2> QED
    BY <2>1, <2>3 DEF Request
<1>5. k \in Continuation /\ k.kind = kind /\ k.sid = s /\ k.ok = FALSE
  <2>1. <<>> \in Seq(Stretch)
    OBVIOUS
  <2> QED
    BY <1>3, <2>1, ResumeTyped DEF Resume
<1>6. /\ nextReqId' = n + 1
      /\ IF Writable
           THEN pending' = {pn} /\ micro' = <<>> /\ Post(<<m>>)
           ELSE micro' = Append(<<>>, k) /\ pending' = {} /\ toSup' = toSup
  BY <1>3 DEF IssueRequest
<1>7. Used'
  BY <1>1, UsedStill
<1> HIDE DEF p, pn, m, k
<1>8. CASE ~Writable
  <2>1. /\ micro' # <<>> /\ Len(micro') = 1 /\ Head(micro') = k
        /\ pending' = {} /\ toSup' = toSup /\ nextReqId' = n + 1
    BY <1>5, <1>6, <1>8, OneContinuation
  <2>2. Fresh'
    <3>1. \A q \in Nat : q < n => q < n + 1
      BY <1>2
    <3>2. \A d \in Conns : \A j \in 1 .. Len(toSup[d]) : toSup[d][j].id \in Nat
      BY <1>2 DEF ClientMessage
    <3> QED
      BY <1>1, <2>1, <3>1, <3>2 DEF Fresh
  <2>3. Alone' /\ Down' /\ PendingFed'
    BY <1>1, <2>1 DEF Alone, Down, PendingFed
  <2>4. Attended'
    BY <1>1, <2>1, FedStill DEF Attended
  <2>5. Followed'
    BY <1>1, <1>5, <2>1 DEF Followed
  <2>6. MicroFed'
    BY <1>5, <2>1 DEF MicroFed, Justified
  <2> QED
    BY <1>7, <2>2, <2>3, <2>4, <2>5, <2>6 DEF FInv
<1>9. CASE Writable
  <2>1. /\ micro' = <<>> /\ pending' = {pn} /\ nextReqId' = n + 1
        /\ gwConn \in Conns /\ sock # "down" /\ toSup' = [toSup EXCEPT ![gwConn] = @ \o <<m>>]
    <3>1. <<m>> # <<>>
      OBVIOUS
    <3> QED
      BY <1>6, <1>9, <3>1 DEF Post, Writable, Typed, LinkOK
  <2> DEFINE q == toSup[gwConn]
             lines == <<m>>
  <2>2. /\ q \in Seq(ClientMessage) /\ toSup'[gwConn] = q \o lines
        /\ \A d \in Conns : d # gwConn => toSup'[d] = toSup[d]
        /\ lines \in Seq(ClientMessage) /\ Len(lines) = 1 /\ lines[1] = m
    BY <1>2, <1>4, <2>1
  <2>3. \A j \in 1 .. Len(q) : q[j].id \in Nat /\ (q[j].type = "subscribe" => q[j].id < n)
    BY <1>1, <1>2, <2>1, <2>2 DEF Fresh, ClientMessage
  <2>4. Waiting(toSup'[gwConn], n, s)
    <3>1. \A j \in 1 .. Len(q) : q[j].type = "subscribe" => q[j].id # m.id
      BY <1>2, <1>4, <2>3
    <3> QED
      BY <1>4, <2>2, <3>1, NewRequest
  <2>5. \A z : Unasked(q, z) => Unasked(toSup'[gwConn], z)
    <3>1. \A z : Unasked(lines, z)
      BY <1>4, <2>2 DEF Unasked
    <3> HIDE DEF q, lines
    <3> QED
      BY <2>2, <3>1, MoreLines
  <2>6. \A z : Fed(z) => Fed(z)'
    BY <2>5, FedStill
  <2>7. Fresh'
    <3>1. \A i \in Nat : i < n => i < n + 1
      BY <1>2
    <3>2. \A d \in Conns : \A j \in 1 .. Len(toSup[d]) : toSup[d][j].id \in Nat
      BY <1>2 DEF ClientMessage
    <3>3. \A j \in 1 .. Len(q \o lines) :
             (q \o lines)[j].type = "subscribe" => (q \o lines)[j].id < n + 1
      <4>1. \A j \in 1 .. Len(q) : q[j].type = "subscribe" => q[j].id < n + 1
        BY <2>3, <3>1
      <4>2. \A j \in 1 .. Len(lines) : lines[j].type = "subscribe" => lines[j].id < n + 1
        BY <1>2, <1>4, <2>2
      <4> HIDE DEF q, lines
      <4> QED
        BY <2>2, <4>1, <4>2, MoreLines
    <3> HIDE DEF q, lines
    <3>4. ASSUME NEW d \in Conns
          PROVE  \A j \in 1 .. Len(toSup'[d]) : toSup'[d][j].type = "subscribe" => toSup'[d][j].id < n + 1
      <4>1. CASE d = gwConn
        BY <2>2, <3>3, <4>1
      <4>2. CASE d # gwConn
        BY <1>1, <2>2, <3>1, <3>2, <4>2 DEF Fresh
      <4> QED
        BY <4>1, <4>2
    <3> QED
      BY <1>1, <2>1, <3>1, <3>4 DEF Fresh
  <2>8. Alone' /\ Down' /\ MicroFed'
    BY <1>1, <2>1 DEF Alone, Down, MicroFed
  <2>9. Attended'
    BY <1>1, <2>6 DEF Attended
  <2>10. Followed'
    BY <1>1, <1>3, <2>1 DEF Followed, pn
  <2>11. PendingFed'
    <3> SUFFICES ASSUME NEW z, z = pn, Subscribing(z)
                 PROVE  Promised(z)'
      BY <2>1 DEF PendingFed, Subscribing
    <3>1. z.id = n /\ z.sid = s /\ s \notin subscribed
      BY <1>3 DEF Subscribing, pn
    <3>2. ~Granted(toGw[gwConn], n)
      BY <1>1, <1>2, <2>1 DEF Fresh
    <3> QED
      BY <2>4, <3>1, <3>2 DEF Promised
  <2> QED
    BY <1>7, <2>7, <2>8, <2>9, <2>10, <2>11 DEF FInv
<1> QED
  BY <1>8, <1>9

(* ensureSubscribed when nothing is under way. *)
LEMMA EnsureFeeds ==
    ASSUME Typed, FInv, pending = {}, NEW kind \in {"attach", "watch"}, NEW c \in Clients,
           NEW s \in Sessions, NEW attach \in BOOLEAN,
           EnsureSubscribed(Ask(kind, c, s, attach), <<>>),
           UNCHANGED supVars,
           UNCHANGED <<toGw, sock, gwConn, subscribed, sessionSubscribers>>,
           turn' # "pipe", turn' = "idle" => micro' = <<>>,
           \A z \in Sessions : statusWatchers'[z] # {} => z \in subscribed \/ (kind = "watch" /\ z = s)
    PROVE  FInv'
<1> DEFINE p == Ask(kind, c, s, attach)
           k == Resume("caller", p, s \in sessionCache, localScrollback[s])
<1>1. Used /\ Fresh /\ Alone /\ Down /\ Attended /\ Followed /\ PendingFed /\ MicroFed
  BY DEF FInv
<1>2. kind \in Kinds
  BY DEF Kinds
<1>3. p.sid = s /\ p.kind = kind /\ p \in PendingRequest
  BY <1>2, AskTyped DEF Ask
<1>4. CASE s \notin subscribed
  <2>1. IssueRequest(p, <<>>)
    BY <1>3, <1>4 DEF EnsureSubscribed
  <2> QED
    BY <1>2, <1>4, <2>1, AskFeeds
<1>5. CASE s \in subscribed
  <2>1. micro' = Append(<<>>, k) /\ UNCHANGED <<pending, nextReqId, toSup>>
    BY <1>3, <1>5 DEF EnsureSubscribed
  <2>2. k \in Continuation /\ k.sid = s /\ k.kind = kind /\ k.step = "caller"
    <3>1. localScrollback[s] \in Seq(Stretch) /\ (s \in sessionCache) \in BOOLEAN
      BY DEF Typed, TypeOK, ScTypeOK
    <3> QED
      BY <1>3, <3>1, ResumeTyped DEF Resume
  <2> HIDE DEF k, p
  <2>3. micro' # <<>> /\ Len(micro') = 1 /\ Head(micro') = k
    BY <2>1, <2>2, OneContinuation
  <2>4. Used' /\ Fresh' /\ Alone' /\ Down' /\ PendingFed'
    <3>1. Fresh'
      BY <1>1, <2>1 DEF Fresh
    <3>2. Alone' /\ Down' /\ PendingFed'
      BY <1>1, <2>1, <2>3 DEF Alone, Down, PendingFed
    <3> QED
      BY <1>1, <3>1, <3>2, UsedStill
  <2>5. \A z : Fed(z) => Fed(z)'
    BY <2>1, FedStill
  <2>6. Attended'
    BY <1>1, <2>5 DEF Attended
  <2>7. Followed'
    BY <1>1, <1>5 DEF Followed
  <2>8. MicroFed'
    <3>1. Fed(s)' /\ sock # "down"
      BY <1>1, <1>5, <2>5 DEF Attended, Down
    <3> QED
      BY <1>5, <2>2, <2>3, <3>1 DEF MicroFed, Justified
  <2> QED
    BY <2>4, <2>6, <2>7, <2>8 DEF FInv
<1> QED
  BY <1>4, <1>5

(* A frame that settles nothing. *)
LEMMA FrameFeeds ==
    ASSUME Typed, FInv, NEW t, PipeTurn(t), NEW n, EndLine(n),
           UNCHANGED supVars, UNCHANGED <<toSup, gwConn, nextReqId, pending, micro>>,
           sock' \in {sock, "dead"}, subscribed' \subseteq subscribed,
           \A s \in Sessions : /\ sessionSubscribers'[s] \subseteq sessionSubscribers[s]
                               /\ statusWatchers'[s] \subseteq statusWatchers[s],
           \A s \in subscribed : s \in subscribed' \/ (sessionSubscribers'[s] = {} /\ statusWatchers'[s] = {})
    PROVE  FInv'
<1>1. Used /\ Fresh /\ Alone /\ Down /\ Attended /\ Followed /\ PendingFed /\ MicroFed
  BY DEF FInv
<1>2. Silently(toGw, toGw') /\ gwConn \in Conns /\ sock = "up" /\ turn \in {"idle", "pipe"}
  BY ReadQuietly, PipeTyped DEF PipeTurn
<1>3. \A s : Fed(s) => Fed(s)'
  BY FedStill
<1>4. Used' /\ Fresh'
  <2>1. Fresh'
    BY <1>1, <1>2 DEF Fresh, Silently
  <2> QED
    BY <1>1, <2>1, UsedStill
<1>5. micro # <<>> => Head(micro).step = "reply"
  BY <1>1, <1>2 DEF Alone
<1>6. Alone' /\ Down'
  <2>1. turn' = "idle" => micro' = <<>>
    BY DEF EndLine
  <2> QED
    BY <1>1, <1>2, <1>5, <2>1 DEF Alone, Down
<1>7. Attended' /\ Followed'
  BY <1>1, <1>3 DEF Attended, Followed
<1>8. PendingFed'
  <2> SUFFICES ASSUME NEW p \in pending, Subscribing(p)
               PROVE  Promised(p)'
    BY DEF PendingFed, Subscribing
  <2>1. Promised(p) /\ p.id \in Nat
    BY <1>1 DEF PendingFed, Typed, TypeOK, ScTypeOK, PendingRequest
  <2> QED
    BY <1>2, <1>3, <2>1 DEF Promised, Silently
<1>9. MicroFed'
  BY <1>1, <1>2, <1>3, <1>5 DEF MicroFed, Justified, Subscribing
<1> QED
  BY <1>4, <1>6, <1>7, <1>8, <1>9 DEF FInv

(* An answer: the session it grants is fed when its continuation runs. *)
LEMMA SettleFeeds ==
    ASSUME Typed, FInv, NEW t \in {"created", "subscribed", "error"}, PipeTurn(t),
           Settle(Incoming), EndLine(0), UNCHANGED supVars,
           UNCHANGED <<toSup, sock, gwConn, nextReqId, subscribed, sessionSubscribers, statusWatchers>>
    PROVE  FInv'
<1> DEFINE matched == {p \in Awaiting(Incoming) : Expects(p.kind, Incoming.type)}
<1>1. Used /\ Fresh /\ Alone /\ Down /\ Attended /\ Followed /\ PendingFed /\ MicroFed
  BY DEF FInv
<1>2. CASE matched = {}
  <2>1. UNCHANGED <<pending, micro>>
    BY <1>2 DEF Settle
  <2> QED
    BY <2>1, FrameFeeds
<1>3. CASE matched # {}
  <2>1. PICK p \in matched :
           /\ pending' = pending \ {p}
           /\ micro' = Append(micro, Resume("reply", p, Incoming.type # "error", Snapshot(Incoming)))
    <3> DEFINE z == CHOOSE p \in matched : TRUE
    <3>1. z \in matched
      BY <1>3
    <3>2. /\ pending' = pending \ {z}
          /\ micro' = Append(micro, Resume("reply", z, Incoming.type # "error", Snapshot(Incoming)))
      BY <1>3 DEF Settle
    <3> QED
      BY <3>1, <3>2
  <2> DEFINE k == Resume("reply", p, Incoming.type # "error", Snapshot(Incoming))
  <2>2. /\ p \in pending /\ p.id = Incoming.id /\ Expects(p.kind, t) /\ Incoming.type = t
        /\ Incoming \in ServerFrame /\ gwConn \in Conns
    BY PipeTyped DEF Awaiting
  <2>3. pending' = {} /\ micro = <<>>
    BY <1>1, <2>1, <2>2 DEF Alone
  <2>4. p \in PendingRequest
    BY <2>2 DEF Typed, TypeOK, ScTypeOK
  <2>5. k \in Continuation
    <3>1. Piece(Incoming.from, Incoming.to) \in Stretch
      BY PipeTyped DEF Piece, Stretch
    <3>2. <<>> \in Seq(Stretch) /\ <<Piece(Incoming.from, Incoming.to)>> \in Seq(Stretch)
      BY <3>1
    <3>3. Snapshot(Incoming) \in Seq(Stretch) /\ (Incoming.type # "error") \in BOOLEAN
      BY <3>2 DEF Snapshot, Pieces
    <3> HIDE DEF matched
    <3> QED
      BY <2>4, <3>3, ResumeTyped
  <2>6. /\ k.step = "reply" /\ k.kind = p.kind /\ k.sid = p.sid /\ k.ok = (Incoming.type # "error")
    BY DEF Resume
  <2>7. micro' # <<>> /\ Len(micro') = 1 /\ Head(micro') = k
    BY <2>1, <2>3, <2>5, OneContinuation
  <2> HIDE DEF k, matched
  <2>8. Silently(toGw, toGw') /\ sock = "up"
    BY ReadQuietly DEF PipeTurn
  <2>9. \A s : Fed(s) => Fed(s)'
    BY FedStill
  <2>10. Used' /\ Fresh'
    <3>1. Fresh'
      BY <1>1, <2>8 DEF Fresh, Silently
    <3> QED
      BY <1>1, <3>1, UsedStill
  <2>11. Alone' /\ Down' /\ PendingFed'
    BY <1>1, <2>3, <2>6, <2>7, <2>8 DEF Alone, Down, PendingFed, EndLine
  <2>12. Attended'
    BY <1>1, <2>9 DEF Attended
  <2>13. Followed'
    <3>1. \A q \in pending : q = p
      BY <1>1, <2>2 DEF Alone
    <3> QED
      BY <1>1, <2>3, <2>6, <2>7, <3>1 DEF Followed
  <2>14. MicroFed'
    <3>1. ASSUME Subscribing(p), t # "error"
          PROVE  Fed(p.sid)'
      <4>1. t = "subscribed"
        BY <2>2, <3>1 DEF Expects, Subscribing, Creates
      <4>2. Granted(toGw[gwConn], p.id)
        <5> DEFINE q == toGw[gwConn]
        <5>1. q \in Seq(ServerFrame) /\ q # <<>>
          BY <2>2 DEF Typed, TypeOK, IpcTypeOK, PipeTurn
        <5>2. 1 \in 1 .. Len(q) /\ Head(q) = q[1]
          BY <5>1
        <5> QED
          BY <2>2, <4>1, <5>2 DEF Granted, Incoming
      <4> QED
        BY <1>1, <2>2, <2>9, <3>1, <4>2 DEF PendingFed, Promised
    <3>2. \A z : z = k => Justified(z)'
      BY <2>2, <2>6, <2>8, <3>1 DEF Justified, Subscribing
    <3> QED
      BY <2>7, <3>2 DEF MicroFed
  <2> QED
    BY <2>10, <2>11, <2>12, <2>13, <2>14 DEF FInv
<1> QED
  BY <1>2, <1>3

LEMMA ReadFrameFeeds ==
    ASSUME Typed, FInv, UNCHANGED supVars, ReadFrame
    PROVE  FInv'
<1>1. CASE GotCreated \/ GotSubscribed \/ GotError
  <2>1. \E t \in {"created", "subscribed", "error"} :
           /\ PipeTurn(t) /\ Settle(Incoming) /\ EndLine(0)
           /\ UNCHANGED <<toSup, sock, gwConn, nextReqId, subscribed, sessionSubscribers, statusWatchers>>
    BY Zenon, <1>1 DEF GotCreated, GotSubscribed, GotError, relayVars
  <2> QED
    BY <2>1, SettleFeeds
<1>2. CASE GotHello \/ GotUnsubscribed \/ GotSessions \/ GotOutput \/ GotExit
  <2>1. /\ \E t, n : PipeTurn(t) /\ EndLine(n)
        /\ UNCHANGED <<toSup, gwConn, nextReqId, pending, micro, subscribed, sessionSubscribers, statusWatchers>>
        /\ sock' = sock \/ sock' = "dead"
    BY Zenon, <1>2 DEF GotHello, GotUnsubscribed, GotSessions, GotOutput, GotExit,
                       Ignored, relayVars
  <2> QED
    BY <2>1, FrameFeeds
<1>3. CASE GotRemoved
  <2>1. /\ PipeTurn("removed") /\ EndLine(0)
        /\ UNCHANGED <<toSup, sock, gwConn, nextReqId, pending, micro>>
        /\ subscribed' = subscribed \ {Incoming.sid}
        /\ sessionSubscribers' = [sessionSubscribers EXCEPT ![Incoming.sid] = {}]
        /\ statusWatchers' = [statusWatchers EXCEPT ![Incoming.sid] = {}]
    BY <1>3 DEF GotRemoved, ForgetSubscribed
  <2>2. /\ \A s \in Sessions : /\ sessionSubscribers'[s] \subseteq sessionSubscribers[s]
                               /\ statusWatchers'[s] \subseteq statusWatchers[s]
        /\ \A s \in subscribed :
              s \in subscribed' \/ (sessionSubscribers'[s] = {} /\ statusWatchers'[s] = {})
    BY <2>1 DEF Typed, TypeOK, ScTypeOK, GwTypeOK
  <2> QED
    BY <2>1, <2>2, FrameFeeds
<1> QED
  BY <1>1, <1>2, <1>3 DEF ReadFrame

LEMMA ContinueFeeds ==
    ASSUME \A c, d \in Clients : c = d, Typed, FInv, UNCHANGED supVars, Continue
    PROVE  FInv'
<1> DEFINE k == Head(micro)
<1>1. Used /\ Fresh /\ Alone /\ Down /\ Attended /\ Followed /\ PendingFed /\ MicroFed
  BY DEF FInv
<1>2. /\ micro # <<>> /\ EndTurn("draining")
      /\ UNCHANGED <<sock, gwConn>>
      /\ \/ /\ k.step = "reply" /\ ResumeMethod(k)
            /\ UNCHANGED <<ipcVars, pending, nextReqId, relayVars>>
         \/ k.step = "caller" /\ (Attached(k) \/ Created(k) \/ Watched(k))
  BY DEF Continue
<1>3. pending = {} /\ Tail(micro) = <<>> /\ Justified(k)
  <2>1. pending = {} /\ Len(micro) = 1 /\ Justified(k)
    BY <1>1, <1>2 DEF Alone, MicroFed
  <2>2. micro \in Seq(Continuation)
    BY DEF Typed, TypeOK, ScTypeOK
  <2>3. Tail(micro) = <<>>
    <3>1. Tail(micro) \in Seq(Continuation) /\ Len(Tail(micro)) = 0
      BY <1>2, <2>1, <2>2, HeadTailProperties
    <3> QED
      BY <3>1, EmptySeq
  <2> QED
    BY <2>1, <2>3
<1>4. /\ k \in Continuation /\ k.kind \in Kinds /\ k.client \in Clients /\ k.sid \in Sessions
      /\ k.attach \in BOOLEAN /\ k.ok \in BOOLEAN /\ [k EXCEPT !.step = "caller"] \in Continuation
  BY <1>2, MicroTyped, ContinuationTyped
<1>5. turn' # "pipe" /\ (turn' = "idle" => micro' = <<>>)
  BY <1>2 DEF EndTurn
<1>6. \A s \in Sessions : statusWatchers[s] # {} => s \in subscribed \/ (k.kind = "watch" /\ k.sid = s)
  BY <1>1, <1>3 DEF Followed
<1> HIDE DEF k
<1>7. CASE ResumeMethod(k) /\ k.step = "reply" /\ UNCHANGED <<ipcVars, pending, nextReqId, relayVars>>
  <2> DEFINE z == [k EXCEPT !.step = "caller"]
  <2>1. /\ z \in Continuation /\ z.kind = k.kind /\ z.sid = k.sid /\ z.ok = k.ok
        /\ micro' = Append(<<>>, z)
    BY <1>3, <1>4, <1>7 DEF ResumeMethod, Continuation
  <2> HIDE DEF z
  <2>2. micro' # <<>> /\ Len(micro') = 1 /\ Head(micro') = z
    BY <2>1, OneContinuation
  <2>3. UNCHANGED <<toSup, toGw, gwConn, sock, sessionSubscribers, statusWatchers>>
    BY <1>2, <1>7 DEF ipcVars, relayVars
  <2>4. \A s : Fed(s) => Fed(s)'
    BY <2>3, FedStill
  <2>5. \/ subscribed' = subscribed
        \/ k.ok /\ Subscribing(k) /\ subscribed' = subscribed \cup {k.sid}
    BY <1>4, <1>7 DEF ResumeMethod, ResumeCreate, ResumeEnsureSubscribed, Subscribing, Kinds, Creates
  <2>6. Subscribing(k) /\ k.ok => Fed(k.sid) /\ sock # "down" /\ k.sid \in subscribed'
    BY <1>3, <1>4, <1>7 DEF Justified, Subscribing, ResumeMethod, ResumeCreate,
                            ResumeEnsureSubscribed, Creates
  <2>7. Used' /\ Fresh'
    <3>1. Fresh'
      BY <1>1, <1>7, <2>3 DEF Fresh
    <3> QED
      BY <1>1, <3>1, UsedStill
  <2>8. Alone' /\ Down' /\ PendingFed'
    BY <1>1, <1>3, <1>5, <1>7, <2>2, <2>3, <2>5, <2>6 DEF Alone, Down, PendingFed
  <2>9. Attended'
    BY <1>1, <2>4, <2>5, <2>6 DEF Attended
  <2>10. Followed'
    BY <1>1, <1>6, <2>1, <2>2, <2>3, <2>5 DEF Followed
  <2>11. MicroFed'
    <3>1. \A y : y = z => Justified(y)'
      BY <2>1, <2>3, <2>4, <2>6 DEF Justified, Subscribing
    <3> QED
      BY <2>2, <3>1 DEF MicroFed
  <2> QED
    BY <2>7, <2>8, <2>9, <2>10, <2>11 DEF FInv
<1>8. CASE Attached(k) /\ k.step = "caller"
  <2>1. /\ micro' = <<>> /\ k.kind = "attach"
        /\ UNCHANGED <<ipcVars, pending, nextReqId, subscribed, statusWatchers>>
    BY <1>3, <1>8 DEF Attached
  <2>2. \A s \in Sessions : sessionSubscribers'[s] # {} => s \in subscribed
    <3>1. \/ sessionSubscribers' = sessionSubscribers
          \/ k.ok /\ sessionSubscribers' = [sessionSubscribers EXCEPT ![k.sid] = @ \cup {k.client}]
      BY <1>8 DEF Attached
    <3>2. k.ok => k.sid \in subscribed
      BY <1>3, <1>8, <2>1 DEF Justified, Subscribing
    <3>3. sessionSubscribers \in [Sessions -> SUBSET Clients]
      BY DEF Typed, TypeOK, GwTypeOK
    <3> QED
      BY <1>1, <3>1, <3>2, <3>3 DEF Followed
  <2>3. \A s \in Sessions : statusWatchers'[s] # {} => s \in subscribed
    BY <1>6, <2>1
  <2> QED
    BY <1>2, <2>1, <2>2, <2>3, CalmFeeds
<1>9. CASE Created(k) /\ k.step = "caller"
  <2>1. /\ k.kind \in Creates
        /\ UNCHANGED <<toGw, subscribed, sessionSubscribers, statusWatchers>>
    BY <1>9 DEF Created, relayVars
  <2>2. \A s \in Sessions : statusWatchers'[s] # {} => s \in subscribed
    BY <1>6, <2>1 DEF Creates
  <2>3. CASE k.ok /\ k.attach
    <3>1. EnsureSubscribed(Ask("attach", k.client, k.sid, TRUE), <<>>)
      BY <1>3, <1>9, <2>3 DEF Created
    <3> QED
      BY <1>2, <1>3, <1>4, <1>5, <2>1, <2>2, <3>1, EnsureFeeds
  <2>4. CASE ~(k.ok /\ k.attach)
    <3>1. micro' = <<>> /\ UNCHANGED <<ipcVars, pending, nextReqId>>
      BY <1>3, <1>9, <2>1, <2>4 DEF Created, ipcVars
    <3>2. \A s \in Sessions : sessionSubscribers'[s] # {} => s \in subscribed
      BY <1>1, <2>1 DEF Followed
    <3> QED
      BY <1>2, <2>1, <2>2, <3>1, <3>2, CalmFeeds
  <2> QED
    BY <2>3, <2>4
<1>10. CASE Watched(k) /\ k.step = "caller"
  <2>1. micro' = <<>> /\ k.kind = "watch" /\ UNCHANGED <<toGw, pending, nextReqId>>
    BY <1>3, <1>10 DEF Watched
  <2>2. CASE k.ok
    <3>1. UNCHANGED <<sessionSubscribers, statusWatchers, subscribed, toSup>>
      BY <1>10, <2>2 DEF Watched, relayVars
    <3>2. k.sid \in subscribed
      BY <1>3, <1>10, <2>1, <2>2 DEF Justified, Subscribing
    <3>3. /\ \A s \in Sessions : sessionSubscribers'[s] # {} => s \in subscribed
          /\ \A s \in Sessions : statusWatchers'[s] # {} => s \in subscribed
      BY <1>1, <1>6, <3>1, <3>2 DEF Followed
    <3> QED
      BY <1>2, <2>1, <3>1, <3>3, CalmFeeds DEF ipcVars
  <2>3. CASE ~k.ok
    <3> DEFINE A == {}
               W == {k.sid}
    <3>1. Leave(k.client, A, W) /\ IsFiniteSet(A)
      BY <1>10, <2>3, FS_EmptySet DEF Watched
    <3>2. k.sid \in Sessions \cap W
      BY <1>4
    <3> HIDE DEF A, W
    <3>3. /\ \A s \in Sessions : statusWatchers'[s] \subseteq statusWatchers[s]
          /\ statusWatchers'[k.sid] = statusWatchers[k.sid] \ {k.client}
      BY <1>4, <3>1, <3>2, LeaveLines
    <3>4. statusWatchers'[k.sid] = {}
      BY <1>4, <3>3 DEF Typed, TypeOK, GwTypeOK
    <3>5. \A s \in Sessions : statusWatchers'[s] # {} => s \in subscribed
      BY <1>6, <3>3, <3>4
    <3> QED
      BY <1>2, <1>4, <2>1, <3>1, <3>5, LeaveFeeds
  <2> QED
    BY <2>2, <2>3
<1> QED
  BY <1>2, <1>7, <1>8, <1>9, <1>10

(* A promise that is rejected: there is one at most. *)
LEMMA RejectedOne ==
    ASSUME NEW R \in SUBSET PendingRequest, IsFiniteSet(R), \A p, q \in R : p = q
    PROVE  \/ R = {} /\ Rejected(R) = <<>>
           \/ \E p \in R : /\ Rejected(R) # <<>> /\ Len(Rejected(R)) = 1
                           /\ Head(Rejected(R)) = Resume("reply", p, FALSE, <<>>)
<1> DEFINE n == Cardinality(R)
<1>1. n \in Nat /\ ByAge(R) \in [1 .. n -> R]
  BY OrderedByAge
<1>2. Rejected(R) = [i \in 1 .. n |-> Resume("reply", ByAge(R)[i], FALSE, <<>>)]
  BY DEF Rejected
<1>3. Rejected(R) \in Seq(Continuation) /\ Len(Rejected(R)) = n
  <2>1. \A p, q \in R : p.id = q.id => p = q
    OBVIOUS
  <2>2. Rejected(R) \in Seq(Continuation)
    BY <2>1, RejectedTyped
  <2> HIDE DEF n
  <2>3. DOMAIN Rejected(R) = 1 .. n
    BY <1>2
  <2>4. DOMAIN Rejected(R) = 1 .. Len(Rejected(R)) /\ Len(Rejected(R)) \in Nat
    BY <2>2, LenProperties
  <2> QED
    BY <1>1, <2>2, <2>3, <2>4
<1>4. CASE R = {}
  <2>1. Len(Rejected(R)) = 0
    BY <1>3, <1>4, FS_EmptySet
  <2> QED
    BY <1>3, <1>4, <2>1, EmptySeq
<1>5. CASE R # {}
  <2>1. PICK p \in R : R = {p}
    BY <1>5
  <2>2. n = 1
    BY <2>1, FS_Singleton
  <2>3. ByAge(R)[1] = p
    BY <1>1, <2>1, <2>2
  <2> HIDE DEF n
  <2>4. Rejected(R)[1] = Resume("reply", ByAge(R)[1], FALSE, <<>>)
    BY <1>2, <2>2
  <2>5. Rejected(R) # <<>> /\ Head(Rejected(R)) = Rejected(R)[1]
    BY <1>3, <2>2, EmptySeq
  <2> QED
    BY <1>3, <2>2, <2>3, <2>4, <2>5
<1> QED
  BY <1>4, <1>5

(* The pipe comes, and goes with all that was asked of it. *)
LEMMA PipeEventFeeds ==
    ASSUME Typed, FInv, UNCHANGED supVars,
           \/ Connect \/ Connected \/ Disconnected \/ \E p \in pending : RequestTimeout(p)
    PROVE  FInv'
<1>1. Used /\ Fresh /\ Alone /\ Down /\ Attended /\ Followed /\ PendingFed /\ MicroFed
  BY DEF FInv
<1>2. turn = "idle" /\ micro = <<>>
  BY <1>1 DEF Connect, Connected, Disconnected, RequestTimeout, Between, Alone
<1>3. Used'
  BY <1>1, UsedStill
<1>4. CASE Connect
  <2>1. /\ UNCHANGED <<toSup, toGw, subscribed, pending, nextReqId, micro, turn,
                       sessionSubscribers, statusWatchers>>
        /\ sock = "down" /\ sock' = "connecting"
    BY <1>4 DEF Connect, ipcVars, gwVars, relayVars, loopVars
  <2>2. subscribed = {} /\ pending = {}
    BY <1>1, <2>1 DEF Down
  <2>3. Fresh'
    BY <1>1, <2>1 DEF Fresh
  <2>4. Alone' /\ Down' /\ Attended' /\ Followed' /\ PendingFed' /\ MicroFed'
    BY <1>1, <1>2, <2>1, <2>2 DEF Alone, Down, Attended, Followed, PendingFed, MicroFed
  <2> QED
    BY <1>3, <2>3, <2>4 DEF FInv
<1>5. CASE Connected
  <2> DEFINE hello == Request("hello", NoSession, 0)
             lines == <<hello>>
  <2>1. hello \in ClientMessage /\ hello.type = "hello"
    BY RequestTyped DEF Request
  <2>2. /\ sock = "connecting" /\ sock' = "up"
        /\ toSup' = [toSup EXCEPT ![gwConn] = Append(@, hello)]
        /\ UNCHANGED <<toGw, gwConn, subscribed, pending, nextReqId, micro,
                       sessionSubscribers, statusWatchers>>
    BY <1>5 DEF Connected, gwVars, relayVars
  <2> HIDE DEF hello
  <2>3. lines \in Seq(ClientMessage) /\ Len(lines) = 1 /\ lines[1] = hello /\ lines # <<>>
    BY <2>1
  <2>4. Post(lines)
    <3>1. gwConn \in Conns /\ toSup[gwConn] \in Seq(ClientMessage)
      BY <2>2 DEF Typed, TypeOK, IpcTypeOK, LinkOK
    <3>2. Append(toSup[gwConn], hello) = toSup[gwConn] \o lines
      BY <2>1, <3>1, AppendIsConcat
    <3> HIDE DEF lines
    <3> QED
      BY <2>2, <2>3, <3>2 DEF Post, Writable
  <2>5. /\ \A s : Unasked(lines, s)
        /\ \A j \in 1 .. Len(lines) : lines[j].type # "subscribe"
    BY <2>1, <2>3 DEF Unasked
  <2>6. /\ \A s \in Sessions : sessionSubscribers'[s] # {} => s \in subscribed
        /\ \A s \in Sessions : statusWatchers'[s] # {} =>
               \/ s \in subscribed
               \/ \E p \in pending : p.kind = "watch" /\ p.sid = s
    BY <1>1, <1>2, <2>2 DEF Followed
  <2> HIDE DEF lines
  <2> QED
    BY <1>2, <2>2, <2>3, <2>4, <2>5, <2>6, PostingFeeds
<1>6. CASE Disconnected
  <2>1. /\ UNCHANGED <<toSup, toGw, gwConn, nextReqId>>
        /\ subscribed' = {} /\ pending' = {} /\ micro' = Rejected(pending)
        /\ sessionSubscribers' = [s \in Sessions |-> {}]
        /\ statusWatchers' = [s \in Sessions |-> {}]
        /\ EndTurn("draining")
    BY <1>6 DEF Disconnected, ipcVars, FailPending, ForgetSubscribed
  <2>2. \/ micro' = <<>>
        \/ \E p \in pending : /\ micro' # <<>> /\ Len(micro') = 1
                              /\ Head(micro') = Resume("reply", p, FALSE, <<>>)
    <3>1. pending \in SUBSET PendingRequest /\ IsFiniteSet(pending)
      BY DEF Typed, TypeOK, ScTypeOK, PendingOK
    <3> QED
      BY <1>1, <2>1, <3>1, RejectedOne DEF Alone
  <2>3. Fresh'
    BY <1>1, <2>1 DEF Fresh
  <2>4. Alone'
    BY <2>1, <2>2 DEF Alone, EndTurn
  <2>5. Down' /\ Attended' /\ Followed' /\ PendingFed'
    BY <2>1 DEF Down, Attended, Followed, PendingFed
  <2>6. MicroFed'
    BY <2>2 DEF MicroFed, Justified, Resume
  <2> QED
    BY <1>3, <2>3, <2>4, <2>5, <2>6 DEF FInv
<1>7. CASE \E p \in pending : RequestTimeout(p)
  <2>1. PICK p \in pending : RequestTimeout(p)
    BY <1>7
  <2>2. /\ UNCHANGED <<toSup, toGw, gwConn, sock, nextReqId, subscribed,
                       sessionSubscribers, statusWatchers>>
        /\ pending' = pending \ {p} /\ micro' = Rejected({p}) /\ EndTurn("draining")
    BY <2>1 DEF RequestTimeout, ipcVars, relayVars
  <2>3. pending' = {} /\ p \in PendingRequest
    BY <1>1, <2>2 DEF Alone, Typed, TypeOK, ScTypeOK
  <2> DEFINE k == Resume("reply", p, FALSE, <<>>)
  <2>4. micro' # <<>> /\ Len(micro') = 1 /\ Head(micro') = k
    <3> DEFINE R == {p}
    <3>1. R \in SUBSET PendingRequest /\ IsFiniteSet(R) /\ (\A y, z \in R : y = z)
      BY <2>3, FS_Singleton
    <3>2. R # {} /\ \A y \in R : y = p
      OBVIOUS
    <3>3. micro' = Rejected(R)
      BY <2>2
    <3> HIDE DEF R
    <3> QED
      BY <3>1, <3>2, <3>3, RejectedOne
  <2>5. k.step = "reply" /\ k.kind = p.kind /\ k.sid = p.sid /\ k.ok = FALSE
    BY DEF Resume
  <2> HIDE DEF k
  <2>6. Fresh'
    BY <1>1, <2>2 DEF Fresh
  <2>7. Alone' /\ Down' /\ PendingFed'
    BY <1>1, <2>2, <2>3, <2>4, <2>5 DEF Alone, Down, PendingFed, EndTurn
  <2>8. Attended'
    BY <1>1, <2>2, FedStill DEF Attended
  <2>9. Followed'
    <3>1. \A q \in pending : q = p
      BY <1>1 DEF Alone
    <3> QED
      BY <1>1, <1>2, <2>2, <2>4, <2>5, <3>1 DEF Followed
  <2>10. MicroFed'
    BY <2>4, <2>5 DEF MicroFed, Justified
  <2> QED
    BY <1>3, <2>6, <2>7, <2>8, <2>9, <2>10 DEF FInv
<1> QED
  BY <1>4, <1>5, <1>6, <1>7

(* Nothing that is spoken of here changes. *)
LEMMA StillFeeds ==
    ASSUME FInv, UNCHANGED <<ipcVars, scVars, sessionSubscribers, statusWatchers, turn>>,
           UNCHANGED supVars
    PROVE  FInv'
<1>1. Used /\ Fresh /\ Alone /\ Down /\ Attended /\ Followed /\ PendingFed /\ MicroFed
  BY DEF FInv
<1>2. UNCHANGED <<toSup, toGw, sock, gwConn, subscribed, pending, nextReqId, micro,
                  sessionSubscribers, statusWatchers, turn>>
  BY DEF ipcVars, scVars
<1>3. \A s : Fed(s) => Fed(s)'
  BY <1>2, FedStill
<1>4. Used' /\ Fresh'
  <2>1. Fresh'
    BY <1>1, <1>2 DEF Fresh
  <2> QED
    BY <1>1, <2>1, UsedStill
<1>5. Alone' /\ Down' /\ Followed'
  BY <1>1, <1>2 DEF Alone, Down, Followed
<1>6. Attended'
  BY <1>1, <1>2, <1>3 DEF Attended
<1>7. PendingFed'
  BY <1>1, <1>2, <1>3 DEF PendingFed, Promised, Subscribing
<1>8. MicroFed'
  BY <1>1, <1>2, <1>3 DEF MicroFed, Justified, Subscribing
<1> QED
  BY <1>4, <1>5, <1>6, <1>7, <1>8 DEF FInv

(* The connection is given up: nothing else has changed yet. *)
LEMMA OversizedFeeds ==
    ASSUME Typed, FInv, UNCHANGED supVars, GotOversized
    PROVE  FInv'
<1>1. Used /\ Fresh /\ Alone /\ Down /\ Attended /\ Followed /\ PendingFed /\ MicroFed
  BY DEF FInv
<1>2. /\ sock' = "dead"
      /\ UNCHANGED <<toSup, toGw, gwConn, subscribed, pending, nextReqId, micro,
                     sessionSubscribers, statusWatchers, turn>>
  BY DEF GotOversized, ipcVars, gwVars, relayVars, loopVars
<1>3. \A s : Fed(s) => Fed(s)'
  BY <1>2, FedStill
<1>4. Used'
  BY <1>1, UsedStill
<1>5. Fresh' /\ Alone' /\ Down' /\ Followed'
  BY <1>1, <1>2 DEF Fresh, Alone, Down, Followed
<1>6. Attended'
  BY <1>1, <1>2, <1>3 DEF Attended
<1>7. PendingFed'
  BY <1>1, <1>2, <1>3 DEF PendingFed, Promised, Subscribing
<1>8. MicroFed'
  BY <1>1, <1>2, <1>3 DEF MicroFed, Justified, Subscribing
<1> QED
  BY <1>4, <1>5, <1>6, <1>7, <1>8 DEF FInv

LEMMA GatewayFeeds ==
    ASSUME \A c, d \in Clients : c = d, Typed, FInv, GatewayStep
    PROVE  FInv'
<1>1. UNCHANGED supVars
  BY DEF GatewayStep
<1>2. CASE CheckPhase
  <2>1. UNCHANGED <<ipcVars, scVars, sessionSubscribers, statusWatchers, turn>>
    BY <1>2 DEF CheckPhase, relayVars
  <2> QED
    BY <1>1, <2>1, StillFeeds
<1>3. CASE ReadFrame
  BY <1>1, <1>3, ReadFrameFeeds
<1>4. CASE Continue
  BY <1>1, <1>4, ContinueFeeds
<1>5. CASE Connect \/ Connected \/ Disconnected \/ \E p \in pending : RequestTimeout(p)
  BY <1>1, <1>5, PipeEventFeeds
<1>6. CASE GotOversized
  BY <1>1, <1>6, OversizedFeeds
<1> QED
  BY <1>2, <1>3, <1>4, <1>5, <1>6 DEF GatewayStep

LEMMA ClientFeeds ==
    ASSUME \A c, d \in Clients : c = d, ~Pipelined, Typed, FInv, ClientStep
    PROVE  FInv'
<1>1. Used /\ Fresh /\ Alone /\ Down /\ Attended /\ Followed /\ PendingFed /\ MicroFed
  BY DEF FInv
<1>2. UNCHANGED supVars
  BY DEF ClientStep
<1>3. PICK c \in Clients :
         ClientConnect(c) \/ ClientMessageFrom(c) \/ ClientClosed(c) \/ ClientTerminated(c)
  BY DEF ClientStep
<1>4. CASE ClientConnect(c) \/ ClientTerminated(c)
  <2>1. UNCHANGED <<ipcVars, scVars, sessionSubscribers, statusWatchers, turn>>
    BY <1>4 DEF ClientConnect, ClientTerminated, relayVars, loopVars
  <2> QED
    BY <1>2, <2>1, StillFeeds
<1>5. ASSUME turn = "idle"
      PROVE  /\ micro = <<>>
             /\ \A s \in Sessions :
                   /\ sessionSubscribers[s] # {} => s \in subscribed
                   /\ statusWatchers[s] # {} =>
                         s \in subscribed \/ \E p \in pending : p.kind = "watch" /\ p.sid = s
  BY <1>1, <1>5 DEF Alone, Followed
<1>6. ASSUME NEW A, IsFiniteSet(A), NEW W, Leave(c, A, W), turn = "idle", UNCHANGED micro,
             UNCHANGED <<toGw, sock, gwConn, pending, nextReqId>>
      PROVE  FInv'
  <2>1. \A s \in Sessions : statusWatchers'[s] \subseteq statusWatchers[s]
    BY <1>6, LeaveLines
  <2>2. micro' = <<>>
    BY <1>5, <1>6
  <2>3. \A s \in Sessions : statusWatchers'[s] # {} =>
            s \in subscribed \/ \E p \in pending : p.kind = "watch" /\ p.sid = s
    BY <1>5, <1>6, <2>1
  <2> QED
    BY <1>2, <1>6, <2>2, <2>3, LeaveFeeds
<1>7. CASE ClientClosed(c)
  <2> DEFINE A == clientSubscriptions[c]
             W == clientStatusWatches[c]
  <2>1. /\ IsFiniteSet(A) /\ Leave(c, A, W) /\ turn = "idle"
        /\ UNCHANGED <<micro, toGw, sock, gwConn, pending, nextReqId>>
    BY <1>7 DEF ClientClosed, Between, Typed, FewInUse
  <2> HIDE DEF A, W
  <2> QED
    BY <1>6, <2>1
<1>8. ASSUME NEW op, ClientTurn(c, op)
      PROVE  /\ turn = "idle" /\ pending = {} /\ turn' # "pipe" /\ (turn' = "idle" => micro' = <<>>)
  <2>1. turn = "idle" /\ \A p \in pending : p.client # c
    BY <1>8 DEF ClientTurn
  <2>2. pending = {}
    BY <2>1 DEF Typed, TypeOK, ScTypeOK, PendingRequest
  <2>3. c \notin {"idle", "pipe"}
    BY GatewayAssumption
  <2>4. turn' = IF micro' = <<>> THEN "idle" ELSE c
    BY <1>8 DEF ClientTurn, EndTurn
  <2> QED
    BY <2>1, <2>2, <2>3, <2>4
<1>9. CASE ClientMessageFrom(c)
  <2>1. PICK s \in Sessions :
           \/ \E kind \in Creates, attach \in BOOLEAN : CreateMessage(c, s, kind, attach)
           \/ AttachMessage(c, s) \/ DetachMessage(c, s)
           \/ WatchMessage(c, s) \/ UnwatchMessage(c, s)
           \/ \E size \in Sizes : ResizeMessage(c, s, size)
           \/ \E op \in {"input", "kill"} : ForwardMessage(c, s, op)
    BY <1>9 DEF ClientMessageFrom
  <2>2. ASSUME NEW lines \in Seq(ClientMessage), Post(lines), turn = "idle", UNCHANGED micro,
               \A j \in 1 .. Len(lines) : lines[j].type \in {"resize", "input", "kill"},
               UNCHANGED <<toGw, sock, gwConn, pending, nextReqId, subscribed,
                           sessionSubscribers, statusWatchers>>
        PROVE  FInv'
    <3>1. /\ \A z : Unasked(lines, z)
          /\ \A j \in 1 .. Len(lines) : lines[j].type # "subscribe"
      BY <2>2 DEF Unasked
    <3> QED
      BY <1>2, <1>5, <2>2, <3>1, PostingFeeds
  <2>3. CASE \E kind \in Creates, attach \in BOOLEAN : CreateMessage(c, s, kind, attach)
    <3>1. PICK kind \in Creates, attach \in BOOLEAN : CreateMessage(c, s, kind, attach)
      BY <2>3
    <3>2. /\ IssueRequest(Ask(kind, c, s, attach), micro) /\ ClientTurn(c, kind)
          /\ UNCHANGED <<toGw, sock, gwConn, subscribed, sessionSubscribers, statusWatchers>>
      BY <3>1 DEF CreateMessage, relayVars
    <3>3. /\ micro = <<>> /\ pending = {} /\ turn' # "pipe" /\ (turn' = "idle" => micro' = <<>>)
          /\ \A z \in Sessions : statusWatchers'[z] # {} => z \in subscribed
      BY <1>5, <1>8, <3>2
    <3>4. kind \in Kinds /\ kind \notin {"attach", "watch"}
      BY DEF Creates, Kinds
    <3>5. IssueRequest(Ask(kind, c, s, attach), <<>>)
      BY <3>2, <3>3
    <3> QED
      BY <1>2, <3>2, <3>3, <3>4, <3>5, AskFeeds
  <2>4. CASE AttachMessage(c, s)
    <3>1. /\ EnsureSubscribed(Ask("attach", c, s, TRUE), micro) /\ ClientTurn(c, "attach")
          /\ UNCHANGED <<toGw, sock, gwConn, subscribed, sessionSubscribers, statusWatchers>>
      BY <2>4 DEF AttachMessage, relayVars
    <3>2. /\ micro = <<>> /\ pending = {} /\ turn' # "pipe" /\ (turn' = "idle" => micro' = <<>>)
          /\ \A z \in Sessions : statusWatchers'[z] # {} => z \in subscribed
      BY <1>5, <1>8, <3>1
    <3>3. EnsureSubscribed(Ask("attach", c, s, TRUE), <<>>)
      BY <3>1, <3>2
    <3> QED
      BY <1>2, <3>1, <3>2, <3>3, EnsureFeeds
  <2>5. CASE WatchMessage(c, s)
    <3>1. /\ EnsureSubscribed(Ask("watch", c, s, FALSE), micro) /\ ClientTurn(c, "watch")
          /\ UNCHANGED <<toGw, sock, gwConn, subscribed, sessionSubscribers>>
          /\ statusWatchers' = [statusWatchers EXCEPT ![s] = @ \cup {c}]
      BY <2>5 DEF WatchMessage
    <3>2. /\ micro = <<>> /\ pending = {} /\ turn' # "pipe" /\ (turn' = "idle" => micro' = <<>>)
          /\ \A z \in Sessions : statusWatchers[z] # {} => z \in subscribed
      BY <1>5, <1>8, <3>1
    <3>3. EnsureSubscribed(Ask("watch", c, s, FALSE), <<>>)
      BY <3>1, <3>2
    <3>4. \A z \in Sessions : statusWatchers'[z] # {} => z \in subscribed \/ z = s
      BY <3>1, <3>2 DEF Typed, TypeOK, GwTypeOK
    <3> QED
      BY <1>2, <3>1, <3>2, <3>3, <3>4, EnsureFeeds
  <2>6. CASE DetachMessage(c, s)
    <3>1. /\ Leave(c, {s}, {}) /\ ClientTurn(c, "detach")
          /\ UNCHANGED <<micro, toGw, sock, gwConn, pending, nextReqId>>
      BY <2>6 DEF DetachMessage
    <3> QED
      BY <1>6, <1>8, <3>1, FS_Singleton
  <2>7. CASE UnwatchMessage(c, s)
    <3>1. /\ Leave(c, {}, {s}) /\ ClientTurn(c, "unwatch")
          /\ UNCHANGED <<micro, toGw, sock, gwConn, pending, nextReqId>>
      BY <2>7 DEF UnwatchMessage
    <3> QED
      BY <1>6, <1>8, <3>1, FS_EmptySet
  <2>8. CASE \E size \in Sizes : ResizeMessage(c, s, size)
    <3>1. PICK size \in Sizes : ResizeMessage(c, s, size)
      BY <2>8
    <3> DEFINE desired == [clientDesiredSizes EXCEPT ![s][c] = size]
               effective == Recomputed(desired, {s})
    <3>2. /\ Post(ResizeLines(effective)) /\ ClientTurn(c, "resize")
          /\ UNCHANGED <<micro, toGw, sock, gwConn, pending, nextReqId, subscribed,
                         sessionSubscribers, statusWatchers>>
      BY <3>1 DEF ResizeMessage, relayVars
    <3>3. /\ desired \in [Sessions -> [Clients -> Sizes \cup {0}]]
          /\ effectiveSizes \in [Sessions -> Sizes \cup {0}]
      BY DEF Typed, TypeOK, GwTypeOK
    <3> HIDE DEF desired
    <3>4. effective \in [Sessions -> Sizes \cup {0}]
      BY <3>3, RecomputedTyped
    <3>5. /\ IsFiniteSet({s})
          /\ \A t \in Sessions : t \in {s} \/ effective[t] = effectiveSizes[t]
      BY FS_Singleton DEF Recomputed
    <3> HIDE DEF effective
    <3>6. ResizeLines(effective) \in Seq(ClientMessage)
      BY <3>4, <3>5, ResizeLinesTyped
    <3>7. \A j \in 1 .. Len(ResizeLines(effective)) : ResizeLines(effective)[j].type = "resize"
      BY <3>6, ResizesOnly
    <3> QED
      BY <1>8, <2>2, <3>2, <3>6, <3>7
  <2>9. CASE \E op \in {"input", "kill"} : ForwardMessage(c, s, op)
    <3>1. PICK op \in {"input", "kill"} : ForwardMessage(c, s, op)
      BY <2>9
    <3> DEFINE lines == <<Request(op, s, 0)>>
    <3>2. /\ Post(lines) /\ ClientTurn(c, op)
          /\ UNCHANGED <<micro, toGw, sock, gwConn, pending, nextReqId, subscribed,
                         sessionSubscribers, statusWatchers>>
      BY <3>1 DEF ForwardMessage, relayVars
    <3>3. Request(op, s, 0) \in ClientMessage /\ Request(op, s, 0).type = op
      BY RequestTyped DEF ClientMessageTypes, Request
    <3>4. lines \in Seq(ClientMessage) /\ \A j \in 1 .. Len(lines) : lines[j].type = op
      BY <3>3
    <3> HIDE DEF lines
    <3> QED
      BY <1>8, <2>2, <3>2, <3>4
  <2> QED
    BY <2>1, <2>3, <2>4, <2>5, <2>6, <2>7, <2>8, <2>9
<1> QED
  BY <1>3, <1>4, <1>7, <1>9

LEMMA FedStep ==
    ASSUME \A c, d \in Clients : c = d, ~Pipelined, MaxIncs = 1, Typed, FInv, [Next]_vars
    PROVE  FInv'
<1>1. CASE UNCHANGED vars
  <2>1. UNCHANGED <<ipcVars, supVars, scVars, sessionSubscribers, statusWatchers, turn>>
    BY <1>1 DEF vars, gwVars, relayVars, loopVars
  <2> QED
    BY <2>1, StillFeeds
<1> QED
  BY <1>1, SupervisorFeeds, GatewayFeeds, ClientFeeds DEF Next

LEMMA FedInit == Init => FInv
<1> SUFFICES ASSUME Init
             PROVE  FInv
  OBVIOUS
<1>1. /\ \A c \in Conns : toSup[c] = <<>> /\ toGw[c] = <<>>
      /\ \A s \in Sessions : /\ current[s] = 0 /\ sessionSubscribers[s] = {}
                             /\ statusWatchers[s] = {}
      /\ subscribed = {} /\ pending = {} /\ micro = <<>>
  BY DEF Init, IpcInit, SupInit, ScInit, GwInit
<1>2. Used /\ Fresh
  BY <1>1 DEF Used, Fresh, Granted
<1> QED
  BY <1>1, <1>2 DEF FInv, Alone, Down, Attended, Followed, PendingFed, MicroFed

LEMMA FedMeansAttachedIsFed == Typed /\ FInv => AttachedIsFed
<1> SUFFICES ASSUME Typed, FInv, Quiet, NEW s \in Sessions,
                    sessionSubscribers[s] \cup statusWatchers[s] # {}, current[s] # 0
             PROVE  gwConn \in subscribers[s]
  BY DEF AttachedIsFed
<1>1. s \in subscribed
  BY DEF FInv, Followed, Quiet
<1>2. Fed(s) /\ gwConn \in Conns /\ ~Refused(gwConn)
  BY <1>1 DEF FInv, Attended, Quiet, Typed, LinkOK, Refused
<1> QED
  BY <1>2 DEF Fed

-----------------------------------------------------------------------------
(* The supervisor among gateways that send any message at any time: all    *)
(* that is proved of it there is used here, `Open!Lemma'.                  *)
Open == INSTANCE OpenSupervisor_proofs WITH Requests <- ClientMessage, MaxInFlight <- 0

(* The supervisor of the relay is the one of OpenSupervisor: every step of *)
(* it is a step that a supervisor among arbitrary gateways can take.       *)
LEMMA WritesAreOpen ==
    /\ \A q, c, f : Sent(q, c, f) = Open!Sent(q, c, f)
    /\ \A q, f : Broadcast(q, f) = Open!Broadcast(q, f)
    /\ \A q, s, f : FanOut(q, s, f) = Open!FanOut(q, s, f)
    /\ \A t, s, id : Frame(t, s, id) = Open!Frame(t, s, id)
    /\ \A t, s, id, lo, hi : OutputFrame(t, s, id, lo, hi) = Open!OutputFrame(t, s, id, lo, hi)
    /\ \A id, S : SessionsFrame(id, S) = Open!SessionsFrame(id, S)
    /\ Listed = Open!Listed
    /\ \A a, b : Trimmed(a, b) = Open!Trimmed(a, b)
  BY DEF Sent, Open!Sent, Live, Open!Live, Broadcast, Open!Broadcast, FanOut, Open!FanOut,
         Frame, Open!Frame, OutputFrame, Open!OutputFrame, SessionsFrame, Open!SessionsFrame,
         Listed, Open!Listed, Trimmed, Open!Trimmed, LargerOf, Open!LargerOf

LEMMA LinesAreOpen ==
    /\ \A c, t : Receive(c, t) => Open!Receive(c, t)
    /\ \A c, t : Reply(c, t) = Open!Reply(c, t)
    /\ \A c, f : SendTo(c, f) => Open!SendTo(c, f)
    /\ \A s : Emit(s) => Open!Emit(s)
    /\ \A s, q : EmitExit(s, q) => Open!EmitExit(s, q)
    /\ UNCHANGED supVars => UNCHANGED Open!supVars
    /\ UNCHANGED connVars => UNCHANGED Open!connVars
    /\ UNCHANGED ipcVars => UNCHANGED Open!ipcVars
    /\ ClientMessageTypes = Open!ClientMessageTypes
  BY WritesAreOpen
     DEF Receive, Open!Receive, Reply, Open!Reply, SendTo, Open!SendTo, Emit, Open!Emit,
         EmitExit, Open!EmitExit, supVars, Open!supVars, connVars, Open!connVars, ipcVars,
         Open!ipcVars, ClientMessageTypes, Open!ClientMessageTypes

LEMMA StartIsOpen ==
    /\ \A m : CanStart(m) <=> Open!CanStart(m)
    /\ \A c, m, p : Start(c, m, p) => Open!Start(c, m, p)
<1>1. \A s : FreeIncs(s) = Open!FreeIncs(s)
  BY DEF FreeIncs, Open!FreeIncs, Incs, Open!Incs
<1>2. \A s : NextInc(s) = Open!NextInc(s)
  BY <1>1 DEF NextInc, Open!NextInc
<1>3. \A m : CanStart(m) <=> Open!CanStart(m)
  BY <1>1 DEF CanStart, Open!CanStart
<1> QED
  BY <1>2, <1>3, WritesAreOpen DEF Start, Open!Start

LEMMA HandlersAreOpen == \A c : HandleMessage(c) => Open!HandleMessage(c)
<1> SUFFICES ASSUME NEW c, HandleMessage(c)
             PROVE  Open!HandleMessage(c)
  OBVIOUS
<1>1. Hello(c) => Open!Hello(c)
  BY WritesAreOpen, LinesAreOpen DEF Hello, Open!Hello
<1>2. Unauthorized(c) => Open!Unauthorized(c)
  BY LinesAreOpen DEF Unauthorized, Open!Unauthorized
<1>3. List(c) => Open!List(c)
  BY WritesAreOpen, LinesAreOpen DEF List, Open!List
<1>4. Create(c) => Open!Create(c)
  BY StartIsOpen, LinesAreOpen DEF Create, Open!Create
<1>5. CreateSsh(c) => Open!CreateSsh(c)
  BY StartIsOpen, LinesAreOpen DEF CreateSsh, Open!CreateSsh
<1>6. Subscribe(c) => Open!Subscribe(c)
  BY WritesAreOpen, LinesAreOpen DEF Subscribe, Open!Subscribe
<1>7. Unsubscribe(c) => Open!Unsubscribe(c)
  BY LinesAreOpen DEF Unsubscribe, Open!Unsubscribe
<1>8. Forward(c) => Open!Forward(c)
  BY LinesAreOpen DEF Forward, Open!Forward
<1>9. Resize(c) => Open!Resize(c)
  BY Zenon, LinesAreOpen DEF Resize, Open!Resize
<1> QED
  BY ONLY HandleMessage(c), <1>1, <1>2, <1>3, <1>4, <1>5, <1>6, <1>7, <1>8, <1>9
     DEF HandleMessage, Open!HandleMessage

LEMMA SupervisorIsOpen == SupervisorStep => Open!Next
<1> SUFFICES ASSUME SupervisorStep
             PROVE  Open!Next
  OBVIOUS
<1>1. \A c : HandleMessage(c) => Open!HandleMessage(c)
  BY HandlersAreOpen
<1>2. \A c : Accept(c) => Open!Accept(c)
  BY LinesAreOpen DEF Accept, Open!Accept
<1>3. \A c : Destroy(c) => Open!Destroy(c)
  BY LinesAreOpen DEF Destroy, Open!Destroy
<1>4. \A c : Close(c) => Open!Close(c)
  BY LinesAreOpen DEF Close, Open!Close
<1>5. \A s, i : Data(s, i) => Open!Data(s, i)
  BY LinesAreOpen DEF Data, Open!Data
<1>6. \A s, i : PtyExit(s, i) => Open!PtyExit(s, i)
  BY LinesAreOpen DEF PtyExit, Open!PtyExit
<1>7. \A s, i : SshReady(s, i) => Open!SshReady(s, i)
  BY LinesAreOpen DEF SshReady, Open!SshReady
<1>8. \A s, i : SshFatal(s, i) => Open!SshFatal(s, i)
  BY LinesAreOpen DEF SshFatal, Open!SshFatal
<1>9. \A s, i : SshStreamClose(s, i) => Open!SshStreamClose(s, i)
  BY LinesAreOpen DEF SshStreamClose, Open!SshStreamClose
<1>10. RunImmediate => Open!RunImmediate
  BY WritesAreOpen, LinesAreOpen
     DEF RunImmediate, Open!RunImmediate, RunExit, Open!RunExit, RunRemoved, Open!RunRemoved
<1> QED
  BY ONLY SupervisorStep, <1>1, <1>2, <1>3, <1>4, <1>5, <1>6, <1>7, <1>8, <1>9, <1>10
     DEF SupervisorStep, Incs, Open!Incs, Open!Next, Open!SupervisorNext

-----------------------------------------------------------------------------
(* The types are kept by the steps of all three kinds. *)

LEMMA OpenTypes == Open!TypeOK <=> IpcTypeOK /\ SupTypeOK
<1>1. Open!IpcTypeOK <=> IpcTypeOK
  BY DEF IpcTypeOK, Open!IpcTypeOK, ClientMessage, Open!ClientMessage, ClientMessageTypes,
         Open!ClientMessageTypes, ServerFrame, Open!ServerFrame, ServerFrameTypes,
         Open!ServerFrameTypes
<1>2. Open!SupTypeOK <=> SupTypeOK
  BY DEF SupTypeOK, Open!SupTypeOK, Incs, Open!Incs, Process, Open!Process, Immediate,
         Open!Immediate
<1> QED
  BY <1>1, <1>2 DEF Open!TypeOK

LEMMA OpenTypesNext == Open!TypeOK' <=> IpcTypeOK' /\ SupTypeOK'
  BY OpenTypes, PTL

LEMMA SupervisorTyped == IpcTypeOK /\ SupTypeOK /\ SupervisorStep => IpcTypeOK' /\ SupTypeOK'
<1> SUFFICES ASSUME IpcTypeOK, SupTypeOK, SupervisorStep
             PROVE  IpcTypeOK' /\ SupTypeOK'
  OBVIOUS
<1>1. Open!TypeOK /\ [Open!Next]_Open!vars
  BY OpenTypes, SupervisorIsOpen
<1>2. ClientMessage \subseteq Open!ClientMessage /\ 0 \in Nat
  BY DEF ClientMessage, Open!ClientMessage, ClientMessageTypes, Open!ClientMessageTypes
<1>3. Open!TypeOK'
  BY <1>1, <1>2, Open!TypeStep, IpcAssumption, SupervisorAssumption
<1> QED
  BY <1>3, OpenTypesNext

LEMMA TypedStep == Typed /\ [Next]_vars => Typed'
<1> SUFFICES ASSUME Typed, [Next]_vars
             PROVE  Typed'
  OBVIOUS
<1>1. CASE SupervisorStep
  <2>1. IpcTypeOK' /\ SupTypeOK'
    BY <1>1, SupervisorTyped DEF Typed, TypeOK
  <2>2. FramesNamed'
    BY <1>1, SupervisorNames DEF Typed, TypeOK
  <2>3. UNCHANGED <<scVars, gwVars>>
    BY <1>1 DEF SupervisorStep
  <2>4. ScTypeOK'
    BY <2>3 DEF Typed, TypeOK, ScTypeOK, scVars
  <2>5. GwTypeOK'
    BY <2>3 DEF Typed, TypeOK, GwTypeOK, gwVars, relayVars, sizeVars, loopVars
  <2> QED
    BY <2>1, <2>2, <2>3, <2>4, <2>5
       DEF Typed, TypeOK, LinkOK, PendingOK, FewInUse, scVars, gwVars, relayVars
<1>2. CASE GatewayStep \/ ClientStep
  <2>1. GatewayTyped' /\ UNCHANGED supVars
    BY <1>2, GatewayStepTyped, ClientStepTyped DEF GatewayStep, ClientStep
  <2>2. SupTypeOK'
    BY <2>1 DEF Typed, TypeOK, SupTypeOK, supVars
  <2> QED
    BY <2>1, <2>2 DEF GatewayTyped, Typed, TypeOK
<1>3. CASE UNCHANGED vars
  BY <1>3 DEF vars, ipcVars, supVars, scVars, gwVars, relayVars, sizeVars, loopVars, Typed, TypeOK,
       IpcTypeOK, SupTypeOK, ScTypeOK, GwTypeOK, LinkOK, PendingOK, FewInUse, FramesNamed
<1> QED
  BY <1>1, <1>2, <1>3 DEF Next

LEMMA TypedInit == Init => Typed
<1> SUFFICES ASSUME Init
             PROVE  Typed
  OBVIOUS
<1>1. <<>> \in Seq(ClientMessage) /\ <<>> \in Seq(ServerFrame) /\ <<>> \in Seq(NamedFrame)
      /\ <<>> \in Seq(Stretch) /\ <<>> \in Seq(Continuation) /\ <<>> \in Seq(Immediate)
  OBVIOUS
<1>2. IpcTypeOK /\ FramesNamed
  BY <1>1 DEF Init, IpcInit, IpcTypeOK, FramesNamed
<1>3. SupTypeOK
  BY <1>1, SupervisorAssumption DEF Init, SupInit, SupTypeOK, Process, Unborn
<1>4. ScTypeOK
  BY <1>1 DEF Init, ScInit, ScTypeOK
<1>5. Blank \in Screen
  BY <1>1 DEF Blank, Screen
<1>6. GwTypeOK
  BY <1>1, <1>5 DEF Init, GwInit, GwTypeOK
<1>7. IsFiniteSet({})
  BY FS_EmptySet
<1>8. LinkOK /\ PendingOK /\ FewInUse
  BY <1>7 DEF Init, ScInit, GwInit, LinkOK, PendingOK, FewInUse
<1> QED
  BY <1>2, <1>3, <1>4, <1>6, <1>8 DEF Typed, TypeOK

LEMMA AlwaysTyped == Spec => []Typed
  BY TypedInit, TypedStep, PTL DEF Spec

(* All three processes keep the types of their state, and of what is in    *)
(* the pipe, whatever is sent, lost, timed out or re-created.              *)
THEOREM RelayTypeCorrect == Spec => []TypeOK
<1>1. Typed => TypeOK
  BY DEF Typed
<1> QED
  BY <1>1, AlwaysTyped, PTL

-----------------------------------------------------------------------------
(* What the supervisor promises among arbitrary gateways it keeps in the   *)
(* relay: reading a frame is the only thing the gateway does that the      *)
(* promises could notice, and an arbitrary gateway does it too.            *)

PromisesKept ==
    /\ Open!NoStaleSubscriber /\ Open!RingIffListed
    /\ Open!SnapshotThenLive /\ Open!CaughtUp
    /\ Open!SilentUntilHello
    /\ Open!RingsFit /\ Open!SnapshotBounded

LEMMA FrameIsRead ==
    ASSUME Typed, ReadFrame, UNCHANGED supVars
    PROVE  Open!Next
<1>1. \E t : PipeTurn(t) /\ UNCHANGED toSup
  BY DEF ReadFrame, GotHello, GotSessions, GotCreated, GotSubscribed,
         GotUnsubscribed, GotError, GotOutput, GotExit, GotRemoved, Ignored
<1>2. /\ gwConn \in Conns /\ toGw[gwConn] # <<>> /\ UNCHANGED toSup
      /\ toGw' = [toGw EXCEPT ![gwConn] = Tail(@)]
  BY <1>1 DEF PipeTurn, Typed, LinkOK
<1>3. Open!GatewayRead(gwConn)
  BY <1>2 DEF Open!GatewayRead, Open!supVars, supVars
<1> QED
  BY <1>2, <1>3 DEF Open!Next

(* The other steps of the gateway and of clients write to the pipe only. *)
LEMMA OnlyWrites ==
    ASSUME \/ GatewayStep /\ ~ReadFrame
           \/ ClientStep
           \/ UNCHANGED vars
    PROVE  UNCHANGED <<toGw, supVars>>
<1>1. CASE GatewayStep /\ ~ReadFrame
  <2>1. CASE Continue
    BY <1>1, <2>1 DEF GatewayStep, Continue, Attached, Created, Watched, ipcVars
  <2>2. CASE \/ GotOversized \/ CheckPhase \/ Connect \/ Connected \/ Disconnected
             \/ \E p \in pending : RequestTimeout(p)
    BY <1>1, <2>2 DEF GatewayStep, GotOversized, CheckPhase, Connect, Connected, Disconnected,
                      RequestTimeout, ipcVars
  <2> QED
    BY <1>1, <2>1, <2>2 DEF GatewayStep
<1>2. CASE ClientStep
  <2>1. UNCHANGED supVars
    BY <1>2 DEF ClientStep
  <2>2. PICK c \in Clients :
          \/ ClientConnect(c) \/ ClientMessageFrom(c) \/ ClientClosed(c) \/ ClientTerminated(c)
    BY <1>2 DEF ClientStep
  <2>3. CASE ClientConnect(c) \/ ClientClosed(c) \/ ClientTerminated(c)
    BY <2>1, <2>3 DEF ClientConnect, ClientTerminated, ClientClosed, ipcVars
  <2>4. CASE ClientMessageFrom(c)
    <3>1. PICK s \in Sessions :
            \/ \E kind \in Creates, attach \in BOOLEAN : CreateMessage(c, s, kind, attach)
            \/ AttachMessage(c, s) \/ DetachMessage(c, s) \/ WatchMessage(c, s)
            \/ UnwatchMessage(c, s)
            \/ \E size \in Sizes : ResizeMessage(c, s, size)
            \/ \E op \in {"input", "kill"} : ForwardMessage(c, s, op)
      BY <2>4 DEF ClientMessageFrom
    <3>2. UNCHANGED toGw
      BY <3>1 DEF CreateMessage, AttachMessage, DetachMessage, WatchMessage, UnwatchMessage,
                  ResizeMessage, ForwardMessage
    <3> QED
      BY <2>1, <3>2
  <2> QED
    BY <2>2, <2>3, <2>4
<1>3. CASE UNCHANGED vars
  BY <1>3 DEF vars, ipcVars
<1> QED
  BY <1>1, <1>2, <1>3

LEMMA PromisesUnread ==
    ASSUME PromisesKept, UNCHANGED <<toGw, supVars>>
    PROVE  PromisesKept'
<1>1. UNCHANGED <<toGw, conn, authenticated, subscriptions, subscribers, scrollback, current,
                  produced>>
  BY DEF supVars
<1>2. (Open!NoStaleSubscriber /\ Open!RingIffListed)'
  BY <1>1 DEF PromisesKept, Open!NoStaleSubscriber, Open!RingIffListed
<1>3. (Open!SnapshotThenLive /\ Open!CaughtUp)'
  BY <1>1 DEF PromisesKept, Open!SnapshotThenLive, Open!CaughtUp
<1>4. (Open!SilentUntilHello)'
  BY <1>1 DEF PromisesKept, Open!SilentUntilHello
<1>5. (Open!RingsFit /\ Open!SnapshotBounded)'
  BY <1>1 DEF PromisesKept, Open!RingsFit, Open!RingFits, Open!SnapshotBounded
<1> QED
  BY <1>2, <1>3, <1>4, <1>5 DEF PromisesKept

LEMMA PromisesStep == Typed /\ PromisesKept /\ [Next]_vars => PromisesKept'
<1> SUFFICES ASSUME Typed, PromisesKept, [Next]_vars
             PROVE  PromisesKept'
  OBVIOUS
<1>1. CASE Open!Next
  <2>1. Open!TypeOK
    BY OpenTypes DEF Typed, TypeOK
  <2>2. /\ Open!Registered /\ Open!Ordered /\ Open!Gated /\ Open!Fitting
    BY <2>1 DEF PromisesKept, Open!Registered, Open!Ordered, Open!Gated, Open!Fitting
  <2>3. [Open!Next]_Open!vars
    BY <1>1
  <2>4. ClientMessage \subseteq Open!ClientMessage /\ 0 \in Nat
    BY DEF ClientMessage, Open!ClientMessage, ClientMessageTypes, Open!ClientMessageTypes
  <2>5. (Open!NoStaleSubscriber /\ Open!RingIffListed)'
    BY <2>2, <2>3, <2>4, Open!RegisteredStep, IpcAssumption, SupervisorAssumption
  <2>6. (Open!SnapshotThenLive /\ Open!CaughtUp)'
    BY <2>2, <2>3, <2>4, Open!OrderedStep, IpcAssumption, SupervisorAssumption
  <2>7. (Open!SilentUntilHello)'
    BY <2>2, <2>3, <2>4, Open!GatedStep, IpcAssumption, SupervisorAssumption
  <2>8. (Open!RingsFit)'
    BY <2>2, <2>3, <2>4, Open!RingsStep, IpcAssumption, SupervisorAssumption
  <2>9. (Open!SnapshotBounded)'
    BY <2>2, <2>3, <2>4, Open!SnapshotStep, IpcAssumption, SupervisorAssumption
  <2> QED
    BY <2>5, <2>6, <2>7, <2>8, <2>9 DEF PromisesKept
<1>2. CASE UNCHANGED <<toGw, supVars>>
  BY <1>2, PromisesUnread
<1> QED
  <2>1. SupervisorStep => Open!Next
    BY SupervisorIsOpen
  <2>2. GatewayStep /\ ReadFrame => Open!Next
    BY FrameIsRead DEF GatewayStep
  <2>3. (GatewayStep /\ ~ReadFrame) \/ ClientStep \/ UNCHANGED vars => UNCHANGED <<toGw, supVars>>
    BY OnlyWrites
  <2> QED
    BY <1>1, <1>2, <2>1, <2>2, <2>3 DEF Next

LEMMA PromisesInit == Init => PromisesKept
<1> SUFFICES ASSUME Init
             PROVE  PromisesKept
  OBVIOUS
<1> USE DEF Init, IpcInit, SupInit
<1>1. Open!NoStaleSubscriber /\ Open!RingIffListed
  BY DEF Open!NoStaleSubscriber, Open!RingIffListed
<1>2. Open!SnapshotThenLive /\ Open!CaughtUp
  BY DEF Open!SnapshotThenLive, Open!CaughtUp, Open!Continues, Open!EndsAt
<1>3. Open!SilentUntilHello
  BY DEF Open!SilentUntilHello
<1>4. Open!RingsFit /\ Open!SnapshotBounded
  BY DEF Open!RingsFit, Open!RingFits, Open!SnapshotBounded
<1> QED
  BY <1>1, <1>2, <1>3, <1>4 DEF PromisesKept

(* The composed system, whose gateway is the real one, keeps all that the  *)
(* supervisor keeps among gateways that do anything at any time: no stale  *)
(* subscriber, the order of snapshots and live output, their bounds.       *)
THEOREM RelayKeepsPromises == Spec => []PromisesKept
<1>1. Init => Typed /\ PromisesKept
  BY TypedInit, PromisesInit
<1>2. (Typed /\ PromisesKept) /\ [Next]_vars => (Typed /\ PromisesKept)'
  BY TypedStep, PromisesStep
<1> QED
  BY <1>1, <1>2, PTL DEF Spec

(* A connection of the gateway that has not been told hello is told nothing *)
(* but errors (ipc-server.ts:461-468), reconnections included.              *)
THEOREM RelayHelloGate == Spec => []SilentUntilHello
<1>1. PromisesKept => SilentUntilHello
  BY DEF PromisesKept, SilentUntilHello, Open!SilentUntilHello
<1> QED
  BY <1>1, RelayKeepsPromises, PTL

LEMMA DInvStep ==
    ASSUME ~Pipelined, DInv, [Next]_vars
    PROVE  DInv'
<1>1. Typed' /\ IInv'
  BY TypedStep, NextIInv DEF DInv
<1>2. CASE SupervisorStep \/ UNCHANGED vars
  <2>1. UNCHANGED <<pending, micro, asked, turn, clientSubscriptions>>
    BY <1>2 DEF SupervisorStep, vars, scVars, gwVars, relayVars, loopVars
  <2>2. AskedFor'
    BY <2>1, AskedLess
  <2> QED
    BY <1>1, <2>2 DEF DInv
<1>3. AskedFor'
  BY <1>2, GatewayAsked, ClientAsked DEF Next, DInv
<1> QED
  BY <1>1, <1>3 DEF DInv

LEMMA DInvInit == Init => DInv
  BY TypedInit, InitIInv DEF Init, ScInit, GwInit, DInv, AskedFor, Served

(* shell/README.md:47, "Stop receiving output for a session": a client     *)
(* that waits for the reply to what it asked is shown nothing more of a    *)
(* session it detached from, though attaches end in late continuations.    *)
(* (One that does not wait may be: DetachRace.cfg.)                        *)
THEOREM DetachIsFinal ==
    ASSUME ~Pipelined
    PROVE  Spec => DetachStopsOutput
<1>1. Init => DInv
  BY DInvInit
<1>2. DInv /\ [Next]_vars => DInv'
  BY DInvStep
<1>3. DInv /\ [Next]_vars =>
        [\A c \in Clients, s \in Sessions :
            view'[c][s].runs # view[c][s].runs => asked[c][s]]_vars
  BY ShownOnlyAsked
<1> QED
  BY <1>1, <1>2, <1>3, PTL DEF Spec, DetachStopsOutput

(* shell/README.md:46, "Subscribe to a session's output stream": with one  *)
(* client that waits for its answers, and ids that are not used twice, the *)
(* supervisor feeds the gateway every live session somebody is attached to *)
(* or watches, once nothing is under way: whatever is lost, times out or   *)
(* is answered late.  (With two clients it may not: UnsubscribeRace.cfg.)  *)
THEOREM AttachedAlwaysFed ==
    ASSUME ~Pipelined, MaxIncs = 1, \A c, d \in Clients : c = d
    PROVE  Spec => []AttachedIsFed
<1>1. Init => Typed /\ FInv
  BY TypedInit, FedInit
<1>2. Typed /\ FInv /\ [Next]_vars => (Typed /\ FInv)'
  BY TypedStep, FedStep
<1>3. Typed /\ FInv => AttachedIsFed
  BY FedMeansAttachedIsFed
<1> QED
  BY <1>1, <1>2, <1>3, PTL DEF Spec

-----------------------------------------------------------------------------
(* One process for each session id, and none of them SSH: then a process   *)
(* exits once, and nothing of its session comes after.                     *)

(* The process of s has been running and is no more. *)
Over(s) == proc[s][1].stream = "closed"

Lives(s) ==
    LET p == proc[s][1] IN
    \/ p.kind = "none" /\ p.stream = "none" /\ produced[s] = 0 /\ current[s] = 0
    \/ p.kind = "pty" /\ p.stream = "open" /\ p.alive
    \/ p.kind = "pty" /\ p.stream = "closed" /\ ~p.alive

Terminals == \A s \in Sessions : Lives(s)

NoSshAsked == \A c \in Conns : \A j \in 1 .. Len(toSup[c]) : toSup[c][j].type # "create_ssh"

LEMMA OneProcess ==
    ASSUME MaxIncs = 1, SupTypeOK
    PROVE  /\ Incs = {1}
           /\ \A s \in Sessions : proc[s] \in [{1} -> Process] /\ proc[s][1] \in Process
BY DEF Incs, SupTypeOK

LEMMA NoSshLine ==
    ASSUME Typed, NoSshAsked, NEW c \in Conns
    PROVE  ~CreateSsh(c)
<1> SUFFICES ASSUME CreateSsh(c)
             PROVE  FALSE
  OBVIOUS
<1>1. toSup[c] \in Seq(ClientMessage) /\ toSup[c] # <<>> /\ Head(toSup[c]).type = "create_ssh"
  BY DEF CreateSsh, Receive, Typed, TypeOK, IpcTypeOK
<1>2. 1 \in 1 .. Len(toSup[c]) /\ Head(toSup[c]) = toSup[c][1]
  BY <1>1
<1> QED
  BY <1>1, <1>2 DEF NoSshAsked

(* A process starts, is resized, exits. *)
LEMMA TerminalsKept ==
    ASSUME MaxIncs = 1, Typed, Terminals, NoSshAsked, SupervisorStep
    PROVE  Terminals' /\ \A s \in Sessions : Over(s) => Over(s)'
<1> USE DEF Typed, TypeOK
<1>0. /\ proc \in [Sessions -> [{1} -> Process]] /\ current \in [Sessions -> 0 .. MaxIncs]
      /\ produced \in [Sessions -> Nat] /\ Incs = {1}
  BY OneProcess DEF SupTypeOK, Incs
<1>1. ASSUME \A s \in Sessions : current'[s] = current[s] \/ current'[s] = 0,
             UNCHANGED <<proc, produced>>
      PROVE  Terminals' /\ \A s \in Sessions : Over(s) => Over(s)'
  BY <1>1 DEF Terminals, Lives, Over
<1>2. ASSUME NEW c \in Conns, HandleMessage(c)
      PROVE  Terminals' /\ \A s \in Sessions : Over(s) => Over(s)'
  <2> DEFINE m == Head(toSup[c])
  <2>1. CASE Create(c)
    <3>1. m.sid \in Sessions /\ UNCHANGED produced
      BY <2>1, LineTyped DEF Create
    <3>2. CASE CanStart(m)
      <4> DEFINE p == [kind |-> "pty", alive |-> TRUE, stream |-> "open", size |-> m.size]
      <4>1. Start(c, m, p) /\ FreeIncs(m.sid) = {1} /\ NextInc(m.sid) = 1
        <5>1. Start(c, m, p) /\ FreeIncs(m.sid) # {}
          BY <2>1, <3>2 DEF Create, CanStart
        <5>2. FreeIncs(m.sid) = {1}
          BY <1>0, <5>1 DEF FreeIncs
        <5> QED
          BY <5>1, <5>2 DEF NextInc
      <4>2. proc[m.sid][1].kind = "none"
        BY <4>1 DEF FreeIncs
      <4>3. p.kind = "pty" /\ p.stream = "open" /\ p.alive
        OBVIOUS
      <4> HIDE DEF p, m
      <4>4. /\ proc'[m.sid][1] = p
            /\ \A s \in Sessions : s # m.sid => proc'[s] = proc[s] /\ current'[s] = current[s]
        <5>1. /\ proc' = [proc EXCEPT ![m.sid] = [@ EXCEPT ![1] = p]]
              /\ current' = [current EXCEPT ![m.sid] = 1]
          BY <4>1 DEF Start
        <5>2. proc[m.sid] \in [{1} -> Process]
          BY <1>0, <3>1
        <5>3. proc'[m.sid] = [proc[m.sid] EXCEPT ![1] = p]
          BY <1>0, <3>1, <5>1
        <5>4. proc'[m.sid][1] = p
          BY <5>2, <5>3
        <5>5. \A s \in Sessions : s # m.sid => proc'[s] = proc[s] /\ current'[s] = current[s]
          BY <1>0, <3>1, <5>1
        <5> QED
          BY <5>4, <5>5
      <4>5. ASSUME NEW s \in Sessions, s # m.sid
            PROVE  proc'[s][1] = proc[s][1] /\ current'[s] = current[s] /\ produced'[s] = produced[s]
        BY <3>1, <4>4, <4>5
      <4>6. Terminals'
        <5>1. ASSUME NEW s \in Sessions
              PROVE  Lives(s)'
          <6>1. CASE s = m.sid
            BY <4>3, <4>4, <6>1 DEF Lives
          <6>2. CASE s # m.sid
            BY <4>5, <6>2 DEF Lives, Terminals
          <6> QED
            BY <6>1, <6>2
        <5> QED
          BY <5>1 DEF Terminals
      <4>7. proc[m.sid][1].stream = "none"
        BY <3>1, <4>2 DEF Terminals, Lives
      <4> QED
        BY <4>5, <4>6, <4>7 DEF Over
    <3>3. CASE ~CanStart(m)
      BY <1>1, <2>1, <3>3 DEF Create
    <3> QED
      BY <3>2, <3>3
  <2>2. CASE Resize(c)
    <3>1. m.sid \in Sessions /\ UNCHANGED <<current, produced>>
      BY <2>2, LineTyped DEF Resize
    <3>2. \A s \in Sessions :
             /\ proc'[s][1].kind = proc[s][1].kind /\ proc'[s][1].stream = proc[s][1].stream
             /\ proc'[s][1].alive = proc[s][1].alive
      <4>1. proc' = proc \/ proc' = [proc EXCEPT ![m.sid][1].size = m.size]
        <5>1. current[m.sid] = 0 \/ current[m.sid] = 1
          BY <1>0, <3>1
        <5> QED
          BY <2>2, <5>1 DEF Resize
      <4> HIDE DEF m
      <4>2. ASSUME NEW s \in Sessions, proc' = [proc EXCEPT ![m.sid][1].size = m.size]
            PROVE  proc'[s][1] = proc[s][1] \/ proc'[s][1] = [proc[s][1] EXCEPT !.size = m.size]
        BY <1>0, <3>1, <4>2
      <4>3. \A s \in Sessions : proc[s][1] \in Process
        BY <1>0
      <4> QED
        BY <4>1, <4>2, <4>3 DEF Process
    <3> QED
      BY <3>1, <3>2 DEF Terminals, Lives, Over
  <2>3. CASE ~Create(c) /\ ~Resize(c)
    <3>1. UNCHANGED <<proc, produced, current>>
      BY Zenon, <1>2, <2>3, NoSshLine
         DEF HandleMessage, Hello, Unauthorized, List, Subscribe, Unsubscribe, Forward, supVars
    <3> QED
      BY <1>1, <3>1
  <2> QED
    BY <2>1, <2>2, <2>3
<1>3. ASSUME NEW c \in Conns, Accept(c) \/ Destroy(c) \/ Close(c)
      PROVE  Terminals' /\ \A s \in Sessions : Over(s) => Over(s)'
  BY <1>1, <1>3 DEF Accept, Destroy, Close
<1>4. ASSUME NEW s \in Sessions, NEW i \in Incs,
             \/ Data(s, i) \/ PtyExit(s, i)
             \/ SshReady(s, i) \/ SshFatal(s, i) \/ SshStreamClose(s, i)
      PROVE  Terminals' /\ \A z \in Sessions : Over(z) => Over(z)'
  <2>1. i = 1 /\ proc[s][1].kind # "ssh"
    BY <1>0, <1>4 DEF Terminals, Lives
  <2>2. CASE Data(s, i)
    <3>1. /\ proc[s][1].stream = "open" /\ UNCHANGED <<proc, current>>
          /\ \A z \in Sessions : z # s => produced'[z] = produced[z]
      BY <1>0, <2>1, <2>2 DEF Data, Emit
    <3> QED
      BY Zenon, <3>1 DEF Terminals, Lives, Over
  <2>3. CASE PtyExit(s, i)
    <3> DEFINE p == [proc[s][1] EXCEPT !.alive = FALSE, !.stream = "closed"]
    <3>1. /\ UNCHANGED <<produced, current>> /\ proc[s][1].kind = "pty"
          /\ proc' = [proc EXCEPT ![s][1] = p]
      BY <1>0, <2>1, <2>3 DEF PtyExit
    <3>2. p.kind = "pty" /\ p.stream = "closed" /\ ~p.alive
      <4>1. proc[s][1] \in Process
        BY <1>0
      <4> QED
        BY <3>1, <4>1 DEF Process
    <3> HIDE DEF p
    <3>3. \A z \in Sessions : proc'[z][1] = IF z = s THEN p ELSE proc[z][1]
      BY <1>0, <3>1
    <3> QED
      BY Zenon, <3>1, <3>2, <3>3 DEF Terminals, Lives, Over
  <2> QED
    BY <1>4, <2>1, <2>2, <2>3 DEF SshReady, SshFatal, SshStreamClose
<1>5. CASE RunImmediate
  <2>1. UNCHANGED <<proc, produced>> /\ \A s \in Sessions : current'[s] = current[s] \/ current'[s] = 0
    BY <1>0, <1>5 DEF RunImmediate, RunExit, RunRemoved
  <2> QED
    BY <1>1, <2>1
<1> QED
  BY <1>2, <1>3, <1>4, <1>5 DEF SupervisorStep

(* What can be heard of s, and what is heard of it at the end. *)
Word(f, s) == f.sid = s /\ f.type \in {"output", "exit"}
Final(f, s) == f.sid = s /\ f.type \in {"exit", "removed"}

LastWords(q) ==
    \A s \in Sessions : \A i, j \in 1 .. Len(q) : i < j /\ Final(q[i], s) => ~Word(q[j], s)

(* Only what is over is said to be. *)
Finals(q) == \A s \in Sessions : \A i \in 1 .. Len(q) : Final(q[i], s) => Over(s)

Endings == \A c \in Conns : LastWords(toGw[c]) /\ Finals(toGw[c])

Removals ==
    \A i \in 1 .. Len(immediates) : immediates[i].run = "removed" /\ Over(immediates[i].sid)

(* The connections the gateway has not opened yet. *)
Unopened ==
    \A c \in Conns : c > gwConn => toGw[c] = <<>> /\ toSup[c] = <<>> /\ conn[c] = "none"

(* Nothing more of s is under way to clients. *)
Hushed(s) ==
    /\ Over(s)
    /\ gwConn \in Conns
    /\ pendingOutput[s] = <<>>
    /\ \A i \in 1 .. Len(toGw[gwConn]) : ~Word(toGw[gwConn][i], s)

AfterExit == \A c \in Clients, s \in Sessions : view[c][s].exited => Hushed(s)

(* The queue r is q with frames of W behind it. *)
Grown(q, r, W) ==
    /\ Len(q) <= Len(r)
    /\ \A i \in 1 .. Len(q) : r[i] = q[i]
    /\ \A i \in 1 .. Len(r) : i <= Len(q) \/ r[i] \in W

LEMMA GrownMore ==
    ASSUME NEW S, NEW q \in Seq(S), NEW W
    PROVE  /\ Grown(q, q, W)
           /\ \A f \in W : Grown(q, Append(q, f), W) /\ Len(Append(q, f)) <= Len(q) + 1
<1>1. Grown(q, q, W)
  BY DEF Grown
<1>2. ASSUME NEW f \in W
      PROVE  Grown(q, Append(q, f), W) /\ Len(Append(q, f)) <= Len(q) + 1
  <2>1. /\ Len(Append(q, f)) = Len(q) + 1 /\ Len(q) \in Nat
        /\ \A i \in 1 .. Len(q) : Append(q, f)[i] = q[i]
        /\ Append(q, f)[Len(q) + 1] = f
    BY AppendProperties
  <2> QED
    BY <2>1 DEF Grown
<1> QED
  BY <1>1, <1>2

LEMMA GrownTwice ==
    ASSUME NEW S, NEW q \in Seq(S), NEW r \in Seq(S), NEW z \in Seq(S), NEW W,
           Grown(q, r, W), Grown(r, z, W)
    PROVE  Grown(q, z, W)
<1>1. Len(q) \in Nat /\ Len(r) \in Nat /\ Len(z) \in Nat
  OBVIOUS
<1>2. Len(q) <= Len(z) /\ \A i \in 1 .. Len(q) : i \in 1 .. Len(r) /\ z[i] = q[i]
  BY <1>1 DEF Grown
<1>3. ASSUME NEW i \in 1 .. Len(z), ~(i <= Len(q))
      PROVE  z[i] \in W
  <2>1. CASE i <= Len(r)
    <3>1. i \in 1 .. Len(r) /\ z[i] = r[i]
      BY <1>1, <2>1 DEF Grown
    <3> QED
      BY <1>3, <3>1 DEF Grown
  <2>2. CASE ~(i <= Len(r))
    BY <2>2 DEF Grown
  <2> QED
    BY <2>1, <2>2
<1> QED
  BY <1>2, <1>3 DEF Grown

(* Every queue grows by frames of W, or not at all. *)
Written(q, r, W) ==
    \A d \in Conns : Grown(q[d], r[d], W) /\ (conn[d] = "none" => r[d] = q[d])

LEMMA OneFrame ==
    ASSUME NEW S, NEW q \in [Conns -> Seq(S)], NEW W, NEW f \in W
    PROVE  /\ \A c \in Conns : Written(q, Sent(q, c, f), W)
           /\ Written(q, Broadcast(q, f), W)
           /\ \A s : Written(q, FanOut(q, s, f), W)
           /\ \A d \in Conns :
                /\ Len(Broadcast(q, f)[d]) <= Len(q[d]) + 1
                /\ \A s : Len(FanOut(q, s, f)[d]) <= Len(q[d]) + 1
<1>1. \A d \in Conns :
         /\ Grown(q[d], q[d], W) /\ Grown(q[d], Append(q[d], f), W)
         /\ Len(Append(q[d], f)) <= Len(q[d]) + 1 /\ Len(q[d]) <= Len(q[d]) + 1
  <2> TAKE d \in Conns
  <2>1. q[d] \in Seq(S) /\ Len(q[d]) <= Len(q[d]) + 1
    OBVIOUS
  <2>2. Grown(q[d], q[d], W) /\ Grown(q[d], Append(q[d], f), W)
        /\ Len(Append(q[d], f)) <= Len(q[d]) + 1
    BY <2>1, GrownMore
  <2> QED
    BY <2>1, <2>2
<1>2. \A c, d \in Conns :
         \/ Sent(q, c, f)[d] = q[d]
         \/ conn[d] # "none" /\ Sent(q, c, f)[d] = Append(q[d], f)
  BY DEF Sent, Live
<1>3. \A d \in Conns :
         \/ Broadcast(q, f)[d] = q[d]
         \/ conn[d] # "none" /\ Broadcast(q, f)[d] = Append(q[d], f)
  BY DEF Broadcast, Live
<1>4. \A s : \A d \in Conns :
         \/ FanOut(q, s, f)[d] = q[d]
         \/ conn[d] # "none" /\ FanOut(q, s, f)[d] = Append(q[d], f)
  BY DEF FanOut, Live
<1>5. \A c \in Conns : Written(q, Sent(q, c, f), W)
  BY Zenon, <1>1, <1>2 DEF Written
<1>6. Written(q, Broadcast(q, f), W)
  BY Zenon, <1>1, <1>3 DEF Written
<1>7. \A s : Written(q, FanOut(q, s, f), W)
  BY Zenon, <1>1, <1>4 DEF Written
<1>8. \A d \in Conns : Len(Broadcast(q, f)[d]) <= Len(q[d]) + 1
  BY Zenon, <1>1, <1>3
<1>9. \A s : \A d \in Conns : Len(FanOut(q, s, f)[d]) <= Len(q[d]) + 1
  BY Zenon, <1>1, <1>4
<1> QED
  BY <1>5, <1>6, <1>7, <1>8, <1>9

LEMMA TwoFrames ==
    ASSUME NEW S, NEW q \in [Conns -> Seq(S)], NEW r \in [Conns -> Seq(S)],
           NEW z \in [Conns -> Seq(S)], NEW W, Written(q, r, W), Written(r, z, W)
    PROVE  Written(q, z, W)
<1>1. \A d \in Conns : q[d] \in Seq(S) /\ r[d] \in Seq(S) /\ z[d] \in Seq(S)
  OBVIOUS
<1> QED
  BY Zenon, <1>1, GrownTwice DEF Written

(* The supervisor's answers are no terminal's words. *)
Plain(W) == \A f \in W : f.type \notin {"output", "exit", "removed"}

Mute(W) == \A f \in W : f.type # "subscribed"

LEMMA HandleWrites ==
    ASSUME Typed, NEW c \in Conns, HandleMessage(c)
    PROVE  \E W : Plain(W) /\ Written(toGw, toGw', W) /\ (Mute(W) \/ Subscribe(c))
<1> DEFINE m == Head(toSup[c])
<1>0. toGw \in [Conns -> Seq(NamedFrame)] /\ IpcTypeOK /\ SupTypeOK
  BY DEF Typed, FramesNamed, TypeOK
<1>1. ASSUME NEW f, toGw' = Sent(toGw, c, f), f.type \notin {"output", "exit", "removed"},
             f.type # "subscribed" \/ Subscribe(c)
      PROVE  \E W : Plain(W) /\ Written(toGw, toGw', W) /\ (Mute(W) \/ Subscribe(c))
  <2>1. f \in {f} /\ Plain({f}) /\ (Mute({f}) \/ Subscribe(c))
    BY <1>1 DEF Plain, Mute
  <2>2. Written(toGw, Sent(toGw, c, f), {f})
    BY <1>0, <2>1, OneFrame
  <2> QED
    BY <1>1, <2>1, <2>2
<1>2. ASSUME UNCHANGED toGw
      PROVE  \E W : Plain(W) /\ Written(toGw, toGw', W) /\ (Mute(W) \/ Subscribe(c))
  <2>1. \A d \in Conns : Grown(toGw[d], toGw[d], {})
    BY <1>0, GrownMore
  <2> QED
    BY <1>2, <2>1 DEF Plain, Mute, Written
<1>3. CASE Hello(c)
  <2>1. Receive(c, "hello") /\ Head(toSup[c]).id \in Nat
    BY <1>0, <1>3, LineTyped DEF Hello
  <2>2. CASE toGw' = Sent(Sent(toGw, c, Frame("hello", NoSession, 0)), c, SessionsFrame(m.id, Listed))
    <3> DEFINE f == Frame("hello", NoSession, 0)
               g == SessionsFrame(m.id, Listed)
               r == Sent(toGw, c, f)
               z == Sent(r, c, g)
    <3>1. f \in NamedFrame /\ g \in NamedFrame
      BY <2>1, NamedFrames DEF Listed
    <3>2. Plain({f, g}) /\ Mute({f, g})
      BY DEF Plain, Mute, Frame, SessionsFrame
    <3> HIDE DEF f, g
    <3>3. r \in [Conns -> Seq(NamedFrame)]
      BY <1>0, <3>1, WritesNamed
    <3>4. Written(toGw, r, {f, g})
      BY <1>0, OneFrame
    <3> HIDE DEF r
    <3>5. z \in [Conns -> Seq(NamedFrame)]
      BY <3>1, <3>3, WritesNamed
    <3>6. Written(r, z, {f, g})
      BY <3>3, OneFrame
    <3> HIDE DEF z
    <3>7. Written(toGw, z, {f, g})
      BY <1>0, <3>3, <3>4, <3>5, <3>6, TwoFrames
    <3>8. toGw' = z
      BY <2>2 DEF f, g, r, z
    <3> QED
      BY <3>2, <3>7, <3>8
  <2>3. CASE toGw' = Sent(toGw, c, Frame("error", NoSession, m.id))
    BY <1>1, <2>3 DEF Frame
  <2> QED
    BY <1>3, <2>2, <2>3 DEF Hello, SendTo
<1>4. ASSUME NEW p, Start(c, m, p), m.id \in Nat, m.sid \in Sessions
      PROVE  \E W : Plain(W) /\ Written(toGw, toGw', W) /\ (Mute(W) \/ Subscribe(c))
  <2> DEFINE f == Frame("created", m.sid, 0)
             g == Frame("created", m.sid, m.id)
             r == Broadcast(toGw, f)
             z == Sent(r, c, g)
  <2>1. f \in NamedFrame /\ g \in NamedFrame
    BY <1>4, NamedFrames DEF ServerFrameTypes
  <2>2. Plain({f, g}) /\ Mute({f, g})
    BY DEF Plain, Mute, Frame
  <2>0. toGw' = z
    BY <1>4 DEF Start
  <2> HIDE DEF f, g
  <2>3. r \in [Conns -> Seq(NamedFrame)]
    BY <1>0, <2>1, WritesNamed
  <2>4. Written(toGw, r, {f, g})
    BY <1>0, OneFrame
  <2> HIDE DEF r
  <2>5. z \in [Conns -> Seq(NamedFrame)]
    BY <2>1, <2>3, WritesNamed
  <2>6. Written(r, z, {f, g})
    BY <2>3, OneFrame
  <2> HIDE DEF z
  <2>7. Written(toGw, z, {f, g})
    BY <1>0, <2>3, <2>4, <2>5, <2>6, TwoFrames
  <2> QED
    BY <2>0, <2>2, <2>7
<1>5. CASE Create(c) \/ CreateSsh(c)
  <2>4. Receive(c, "create") \/ Receive(c, "create_ssh")
    BY <1>5 DEF Create, CreateSsh
  <2>5. IpcTypeOK
    BY DEF Typed, TypeOK
  <2>1. m.id \in Nat /\ m.sid \in Sessions
    BY <2>4, <2>5, LineTyped
  <2>2. \/ \E p : Start(c, m, p)
        \/ toGw' = Sent(toGw, c, Reply(c, "error"))
    BY <1>5 DEF Create, CreateSsh, SendTo
  <2>3. Reply(c, "error").type = "error"
    BY DEF Reply, Frame
  <2> HIDE DEF m
  <2> QED
    BY <1>1, <1>4, <2>1, <2>2, <2>3
<1>6. CASE Unauthorized(c) \/ List(c) \/ Subscribe(c) \/ Unsubscribe(c) \/ Forward(c) \/ Resize(c)
  <2>1. \A s, id : Frame("error", s, id).type = "error"
    BY DEF Frame
  <2>2. CASE Unauthorized(c) \/ Forward(c) \/ Resize(c)
    <3>1. UNCHANGED toGw \/ toGw' = Sent(toGw, c, Frame("error", m.sid, m.id))
      BY <2>2 DEF Unauthorized, Forward, Resize, SendTo, Reply
    <3> QED
      BY <1>1, <1>2, <2>1, <3>1
  <2>3. CASE List(c)
    <3>1. toGw' = Sent(toGw, c, SessionsFrame(m.id, Listed))
      BY <2>3 DEF List, SendTo
    <3>2. SessionsFrame(m.id, Listed).type = "sessions"
      BY DEF SessionsFrame
    <3> QED
      BY <1>1, <3>1, <3>2
  <2>4. CASE Subscribe(c)
    <3>1. \/ toGw' = Sent(toGw, c, OutputFrame("subscribed", m.sid, m.id, scrollback[m.sid], produced[m.sid]))
          \/ toGw' = Sent(toGw, c, Frame("error", m.sid, m.id))
      BY <2>4 DEF Subscribe, SendTo, Reply
    <3>2. OutputFrame("subscribed", m.sid, m.id, scrollback[m.sid], produced[m.sid]).type = "subscribed"
      BY DEF OutputFrame
    <3> QED
      BY <1>1, <2>1, <2>4, <3>1, <3>2
  <2>5. CASE Unsubscribe(c)
    <3>1. toGw' = Sent(toGw, c, Frame("unsubscribed", m.sid, m.id))
      BY <2>5 DEF Unsubscribe, SendTo, Reply
    <3>2. Frame("unsubscribed", m.sid, m.id).type = "unsubscribed"
      BY DEF Frame
    <3> QED
      BY <1>1, <3>1, <3>2
  <2> QED
    BY <1>6, <2>2, <2>3, <2>4, <2>5
<1> QED
  BY <1>3, <1>5, <1>6 DEF HandleMessage

EInv == Terminals /\ NoSshAsked /\ Endings /\ Removals /\ Unopened /\ AfterExit

(* Frames of W say nothing of what is over, and that only of what then is. *)
Decent(W) ==
    /\ \A f \in W, s \in Sessions : (Word(f, s) => ~Over(s)) /\ (Final(f, s) => Over(s)')
    /\ Plain(W) \/ \A d \in Conns : Len(toGw'[d]) <= Len(toGw[d]) + 1

LEMMA FramesEnd ==
    ASSUME Typed, Typed', Endings, NEW W, Written(toGw, toGw', W), Decent(W),
           \A s \in Sessions : Over(s) => Over(s)', UNCHANGED <<gwConn, pendingOutput>>
    PROVE  Endings' /\ \A s \in Sessions : Hushed(s) => Hushed(s)'
<1>0. /\ \A d \in Conns : Len(toGw[d]) \in Nat /\ Len(toGw'[d]) \in Nat
  <2>1. toGw \in [Conns -> Seq(ServerFrame)] /\ toGw' \in [Conns -> Seq(ServerFrame)]
    BY DEF Typed, TypeOK, IpcTypeOK
  <2> QED
    BY <2>1
<1>1. ASSUME NEW d \in Conns, NEW s \in Sessions, NEW j \in 1 .. Len(toGw'[d]), Word(toGw'[d][j], s)
      PROVE  \/ j \in 1 .. Len(toGw[d]) /\ Word(toGw[d][j], s)
             \/ j > Len(toGw[d]) /\ ~Over(s)
  <2>1. CASE j <= Len(toGw[d])
    BY <1>0, <1>1, <2>1 DEF Written, Grown
  <2>2. CASE ~(j <= Len(toGw[d]))
    BY <1>0, <1>1, <2>2 DEF Written, Grown, Decent
  <2> QED
    BY <2>1, <2>2
<1>2. ASSUME NEW d \in Conns, NEW s \in Sessions, NEW i \in 1 .. Len(toGw'[d]), Final(toGw'[d][i], s)
      PROVE  \/ i \in 1 .. Len(toGw[d]) /\ Final(toGw[d][i], s)
             \/ /\ i > Len(toGw[d]) /\ Over(s)'
                /\ Len(toGw'[d]) <= Len(toGw[d]) + 1
  <2>1. CASE i <= Len(toGw[d])
    BY <1>0, <1>2, <2>1 DEF Written, Grown
  <2>2. CASE ~(i <= Len(toGw[d]))
    <3>1. toGw'[d][i] \in W
      BY <2>2 DEF Written, Grown
    <3>2. ~Plain(W)
      BY <1>2, <3>1 DEF Plain, Final
    <3> QED
      BY <1>0, <1>2, <2>2, <3>1, <3>2 DEF Decent
  <2> QED
    BY <2>1, <2>2
<1>3. ASSUME NEW d \in Conns
      PROVE  LastWords(toGw'[d])
  <2> SUFFICES ASSUME NEW s \in Sessions, NEW i \in 1 .. Len(toGw'[d]), NEW j \in 1 .. Len(toGw'[d]),
                      i < j, Final(toGw'[d][i], s), Word(toGw'[d][j], s)
               PROVE  FALSE
    BY DEF LastWords
  <2>1. i \in 1 .. Len(toGw[d]) /\ Final(toGw[d][i], s)
    BY <1>0, <1>2
  <2>2. Over(s)
    BY <2>1 DEF Endings, Finals
  <2>3. j \in 1 .. Len(toGw[d]) /\ Word(toGw[d][j], s)
    BY <1>1, <2>2
  <2> QED
    BY <2>1, <2>3 DEF Endings, LastWords
<1>4. ASSUME NEW d \in Conns, NEW s \in Sessions, NEW i \in 1 .. Len(toGw'[d]), Final(toGw'[d][i], s)
      PROVE  Over(s)'
  BY <1>2, <1>4 DEF Endings, Finals
<1>5. Endings'
  BY <1>3, <1>4 DEF Endings, Finals
<1>6. ASSUME NEW s \in Sessions, Hushed(s)
      PROVE  Hushed(s)'
  BY <1>1, <1>6 DEF Hushed
<1> QED
  BY <1>5, <1>6

LEMMA EventWrites ==
    ASSUME Typed, MaxIncs = 1, Terminals, Endings, Removals, SupervisorStep,
           \A c \in Conns : ~HandleMessage(c)
    PROVE  Removals' /\ \E W : Written(toGw, toGw', W) /\ Decent(W) /\ Mute(W)
<1>0. /\ toGw \in [Conns -> Seq(NamedFrame)] /\ Incs = {1}
      /\ proc \in [Sessions -> [{1} -> Process]] /\ immediates \in Seq(Immediate)
  BY OneProcess DEF Typed, FramesNamed, TypeOK, SupTypeOK, Incs
<1>5. \A k \in 1 .. Len(immediates) : immediates[k].sid \in Sessions
  <2>1. \A k \in 1 .. Len(immediates) : immediates[k] \in Immediate
    BY <1>0
  <2>2. \A r \in Immediate : r.sid \in Sessions
    BY DEF Immediate
  <2> QED
    BY <2>1, <2>2
<1>1. ASSUME UNCHANGED <<toGw, proc, immediates>>
      PROVE  Removals' /\ \E W : Written(toGw, toGw', W) /\ Decent(W) /\ Mute(W)
  <2>1. \A d \in Conns : Grown(toGw[d], toGw[d], {})
    BY <1>0, GrownMore
  <2>2. Written(toGw, toGw', {}) /\ Decent({}) /\ Mute({})
    BY <1>1, <2>1 DEF Written, Decent, Plain, Mute
  <2>3. Removals'
    BY <1>1 DEF Removals, Over
  <2> QED
    BY <2>2, <2>3
<1>2. ASSUME NEW s \in Sessions, NEW i \in Incs,
             \/ Data(s, i) \/ PtyExit(s, i)
             \/ SshReady(s, i) \/ SshFatal(s, i) \/ SshStreamClose(s, i)
      PROVE  Removals' /\ \E W : Written(toGw, toGw', W) /\ Decent(W) /\ Mute(W)
  <2>1. i = 1 /\ proc[s][1].kind # "ssh"
    BY <1>0, <1>2 DEF Terminals, Lives
  <2>2. CASE Data(s, i)
    <3> DEFINE n == produced[s] + 1
               f == OutputFrame("output", s, 0, n, n)
    <3>1. toGw' = FanOut(toGw, s, f) /\ UNCHANGED <<proc, immediates>> /\ ~Over(s)
      BY <2>1, <2>2 DEF Data, Emit, Over
    <3>2. f.sid = s /\ f.type = "output"
      BY DEF OutputFrame
    <3> HIDE DEF f
    <3>3. /\ Written(toGw, toGw', {f})
          /\ \A d \in Conns : Len(toGw'[d]) <= Len(toGw[d]) + 1
      <4>1. f \in {f}
        OBVIOUS
      <4> QED
        BY <1>0, <3>1, <4>1, OneFrame
    <3>4. Decent({f}) /\ Mute({f})
      BY <3>1, <3>2, <3>3 DEF Decent, Word, Final, Mute
    <3>5. Removals'
      BY <3>1 DEF Removals, Over
    <3> QED
      BY <3>3, <3>4, <3>5
  <2>3. CASE PtyExit(s, i)
    <3> DEFINE f == Frame("exit", s, 0)
               r == [run |-> "removed", sid |-> s]
    <3>1. /\ toGw' = FanOut(toGw, s, f) /\ ~Over(s)
          /\ immediates' = Append(immediates, r)
      <4>1. proc[s][1].alive
        BY <2>1, <2>3 DEF PtyExit
      <4> QED
        BY <2>3, <4>1 DEF PtyExit, EmitExit, Over, Terminals, Lives
    <3>2. f.sid = s /\ f.type = "exit" /\ r.run = "removed" /\ r.sid = s
      BY DEF Frame
    <3> HIDE DEF f, r
    <3>3. Over(s)' /\ \A z \in Sessions : Over(z) => Over(z)'
      <4> DEFINE p == [proc[s][1] EXCEPT !.alive = FALSE, !.stream = "closed"]
      <4>1. proc[s][1] \in Process /\ proc' = [proc EXCEPT ![s][1] = p]
        BY <1>0, <2>1, <2>3 DEF PtyExit
      <4>2. p.stream = "closed"
        BY <4>1 DEF Process
      <4> HIDE DEF p
      <4>3. \A z \in Sessions : proc'[z][1] = IF z = s THEN p ELSE proc[z][1]
        BY <1>0, <4>1
      <4> QED
        BY <4>2, <4>3 DEF Over
    <3>4. /\ Written(toGw, toGw', {f})
          /\ \A d \in Conns : Len(toGw'[d]) <= Len(toGw[d]) + 1
      <4>1. f \in {f}
        OBVIOUS
      <4> QED
        BY <1>0, <3>1, <4>1, OneFrame
    <3>5. Decent({f}) /\ Mute({f})
      BY <3>1, <3>2, <3>3, <3>4 DEF Decent, Word, Final, Mute
    <3>6. Removals'
      <4>1. /\ Len(immediates') = Len(immediates) + 1 /\ Len(immediates) \in Nat
            /\ \A k \in 1 .. Len(immediates) : immediates'[k] = immediates[k]
            /\ immediates'[Len(immediates) + 1] = r
        BY <1>0, <3>1, AppendProperties
      <4>2. \A k \in 1 .. Len(immediates') : \/ k \in 1 .. Len(immediates)
                                             \/ immediates'[k] = r
        BY <4>1
      <4>3. \A k \in 1 .. Len(immediates) : immediates[k].sid \in Sessions
        BY <1>5
      <4> QED
        BY <3>2, <3>3, <4>1, <4>2, <4>3 DEF Removals
    <3> QED
      BY <3>4, <3>5, <3>6
  <2> QED
    BY <1>2, <2>1, <2>2, <2>3 DEF SshReady, SshFatal, SshStreamClose
<1>3. CASE RunImmediate
  <2>1. PICK s \in Sessions :
          /\ s = Head(immediates).sid
          /\ immediates # <<>> /\ Head(immediates) = immediates[1] /\ 1 \in 1 .. Len(immediates)
    <3>1. immediates # <<>>
      BY <1>3 DEF RunImmediate
    <3>2. Head(immediates) = immediates[1] /\ 1 \in 1 .. Len(immediates)
      BY <1>0, <3>1
    <3> QED
      BY <1>5, <3>1, <3>2
  <2> DEFINE f == Frame("removed", s, 0)
  <2>2. Head(immediates).run = "removed" /\ Over(s)
    BY <2>1 DEF Removals
  <2>3. toGw' = Broadcast(toGw, f) /\ immediates' = Tail(immediates) /\ UNCHANGED proc
    BY <1>3, <2>1, <2>2 DEF RunImmediate, RunRemoved
  <2>4. f.sid = s /\ f.type = "removed"
    BY DEF Frame
  <2> HIDE DEF f
  <2>5. /\ Written(toGw, toGw', {f})
        /\ \A d \in Conns : Len(toGw'[d]) <= Len(toGw[d]) + 1
    <3>1. f \in {f}
      OBVIOUS
    <3> QED
      BY <1>0, <2>3, <3>1, OneFrame
  <2>6. Over(s)'
    BY <2>2, <2>3 DEF Over
  <2>7. Decent({f}) /\ Mute({f})
    BY <2>4, <2>5, <2>6 DEF Decent, Word, Final, Mute
  <2>8. Removals'
    <3>1. /\ Len(immediates') = Len(immediates) - 1 /\ Len(immediates) \in Nat
          /\ \A k \in 1 .. Len(immediates') : immediates'[k] = immediates[k + 1]
      BY <1>0, <2>1, <2>3
    <3>2. \A k \in 1 .. Len(immediates') : k + 1 \in 1 .. Len(immediates)
      BY <3>1
    <3> QED
      BY <2>3, <3>1, <3>2 DEF Removals, Over
  <2> QED
    BY <2>5, <2>7, <2>8
<1>4. ASSUME NEW c \in Conns, Accept(c) \/ Destroy(c) \/ Close(c)
      PROVE  Removals' /\ \E W : Written(toGw, toGw', W) /\ Decent(W) /\ Mute(W)
  BY <1>1, <1>4 DEF Accept, Destroy, Close, ipcVars
<1> QED
  BY <1>2, <1>3, <1>4 DEF SupervisorStep

(* A line is read from a connection that has been opened, or none is. *)
LEMMA LinesRead ==
    ASSUME Typed, SupervisorStep, NEW d \in Conns
    PROVE  \/ toSup'[d] = toSup[d]
           \/ conn[d] # "none" /\ toSup[d] # <<>> /\ toSup'[d] = Tail(toSup[d])
<1>1. CASE \E c \in Conns : HandleMessage(c)
  <2>1. PICK c \in Conns : HandleMessage(c)
    BY <1>1
  <2>2. \E t : Receive(c, t)
    BY <2>1 DEF HandleMessage, Hello, Unauthorized, List, Create, CreateSsh, Subscribe,
                Unsubscribe, Forward, Resize
  <2>3. conn[c] # "none" /\ toSup[c] # <<>> /\ toSup' = [toSup EXCEPT ![c] = Tail(@)]
    BY <2>2 DEF Receive
  <2>4. toSup'[d] = IF d = c THEN Tail(toSup[c]) ELSE toSup[d]
    BY <2>3 DEF Typed, TypeOK, IpcTypeOK
  <2> QED
    BY <2>3, <2>4
<1>2. CASE ~\E c \in Conns : HandleMessage(c)
  <2>1. ASSUME NEW c \in Conns, Accept(c) \/ Destroy(c) \/ Close(c)
        PROVE  UNCHANGED toSup
    BY <2>1 DEF Accept, Destroy, Close, ipcVars
  <2>2. ASSUME NEW s \in Sessions, NEW i \in Incs, Data(s, i) \/ PtyExit(s, i)
        PROVE  UNCHANGED toSup
    BY <2>2 DEF Data, PtyExit, ipcVars
  <2>3. ASSUME NEW s \in Sessions, NEW i \in Incs,
               SshReady(s, i) \/ SshFatal(s, i) \/ SshStreamClose(s, i)
        PROVE  UNCHANGED toSup
    BY <2>3 DEF SshReady, SshFatal, SshStreamClose, ipcVars
  <2>4. RunImmediate => UNCHANGED toSup
    BY DEF RunImmediate, ipcVars
  <2> QED
    BY <1>2, <2>1, <2>2, <2>3, <2>4 DEF SupervisorStep
<1> QED
  BY <1>1, <1>2

LEMMA SupervisorEnds ==
    ASSUME MaxIncs = 1, Typed, Typed', EInv, SupervisorStep
    PROVE  EInv' /\ \A s \in Sessions : Hushed(s) => Hushed(s)'
<1>0. /\ Terminals /\ NoSshAsked /\ Endings /\ Removals /\ Unopened /\ AfterExit
      /\ UNCHANGED <<gwConn, pendingOutput, view>>
  BY DEF EInv, SupervisorStep, scVars, gwVars
<1>1. Terminals' /\ \A s \in Sessions : Over(s) => Over(s)'
  BY <1>0, TerminalsKept
<1>2. Removals' /\ \E W : Written(toGw, toGw', W) /\ Decent(W)
  <2>1. CASE \E c \in Conns : HandleMessage(c)
    <3>1. PICK c \in Conns : HandleMessage(c)
      BY <2>1
    <3>2. PICK W : Plain(W) /\ Written(toGw, toGw', W)
      BY <3>1, HandleWrites
    <3>3. Decent(W)
      BY <3>2 DEF Decent, Plain, Word, Final
    <3>4. UNCHANGED immediates
      BY <3>1 DEF HandleMessage, Hello, Unauthorized, List, Create, CreateSsh, Subscribe,
                  Unsubscribe, Forward, Resize, supVars
    <3>5. \A i \in 1 .. Len(immediates) : immediates[i].sid \in Sessions
      <4>1. immediates \in Seq(Immediate)
        BY DEF Typed, TypeOK, SupTypeOK
      <4>2. \A i \in 1 .. Len(immediates) : immediates[i] \in Immediate
        BY <4>1
      <4>3. \A r \in Immediate : r.sid \in Sessions
        BY DEF Immediate
      <4> QED
        BY <4>2, <4>3
    <3>6. Removals'
      BY <1>0, <1>1, <3>4, <3>5 DEF Removals
    <3> QED
      BY <3>2, <3>3, <3>6
  <2>2. CASE ~\E c \in Conns : HandleMessage(c)
    BY <1>0, <2>2, EventWrites
  <2> QED
    BY <2>1, <2>2
<1>3. PICK W : Written(toGw, toGw', W) /\ Decent(W)
  BY <1>2
<1>4. Endings' /\ \A s \in Sessions : Hushed(s) => Hushed(s)'
  BY <1>0, <1>1, <1>3, FramesEnd
<1>5. AfterExit'
  BY <1>0, <1>4 DEF AfterExit
<1>6. NoSshAsked'
  <2> SUFFICES ASSUME NEW d \in Conns, NEW j \in 1 .. Len(toSup'[d])
               PROVE  toSup'[d][j].type # "create_ssh"
    BY DEF NoSshAsked
  <2>1. toSup[d] \in Seq(ClientMessage)
    BY DEF Typed, TypeOK, IpcTypeOK
  <2>2. CASE toSup'[d] = toSup[d]
    BY <1>0, <2>2 DEF NoSshAsked
  <2>3. CASE toSup[d] # <<>> /\ toSup'[d] = Tail(toSup[d])
    <3>1. j + 1 \in 1 .. Len(toSup[d]) /\ toSup'[d][j] = toSup[d][j + 1]
      BY <2>1, <2>3
    <3> QED
      BY <1>0, <3>1 DEF NoSshAsked
  <2> QED
    BY <2>2, <2>3, LinesRead
<1>7. Unopened'
  <2> SUFFICES ASSUME NEW d \in Conns, d > gwConn
               PROVE  toGw'[d] = <<>> /\ toSup'[d] = <<>> /\ conn'[d] = "none"
    BY <1>0 DEF Unopened
  <2>1. toGw[d] = <<>> /\ toSup[d] = <<>> /\ conn[d] = "none"
    BY <1>0 DEF Unopened
  <2>2. toGw'[d] = <<>>
    BY <1>3, <2>1 DEF Written
  <2>3. toSup'[d] = <<>>
    BY <2>1, LinesRead
  <2>4. conn'[d] = "none"
    <3>0. conn \in [Conns -> {"none", "open", "destroyed", "closed"}] /\ d # gwConn
      BY GatewayAssumption DEF Typed, TypeOK, SupTypeOK, ScTypeOK
    <3>1. ASSUME NEW c \in Conns, Accept(c) /\ gwConn = c
          PROVE  conn'[d] = "none"
      BY <2>1, <3>0, <3>1 DEF Accept
    <3>2. ASSUME NEW c \in Conns, Destroy(c) \/ Close(c)
          PROVE  conn'[d] = "none"
      BY <2>1, <3>0, <3>2 DEF Destroy, Close
    <3>3. UNCHANGED conn \/ \E c \in Conns : (Accept(c) /\ gwConn = c) \/ Destroy(c) \/ Close(c)
      <4>1. ASSUME NEW c \in Conns, HandleMessage(c)
            PROVE  UNCHANGED conn
        BY <4>1 DEF HandleMessage, Hello, Unauthorized, List, Create, CreateSsh, Subscribe,
                    Unsubscribe, Forward, Resize, supVars, connVars
      <4>2. ASSUME NEW s \in Sessions, NEW i \in Incs,
                   \/ Data(s, i) \/ PtyExit(s, i)
                   \/ SshReady(s, i) \/ SshFatal(s, i) \/ SshStreamClose(s, i)
            PROVE  UNCHANGED conn
        BY <4>2 DEF Data, PtyExit, SshReady, SshFatal, SshStreamClose
      <4>3. RunImmediate => UNCHANGED conn
        BY DEF RunImmediate, connVars
      <4> QED
        BY <4>1, <4>2, <4>3 DEF SupervisorStep
    <3> QED
      BY <2>1, <3>1, <3>2, <3>3
  <2> QED
    BY <2>2, <2>3, <2>4
<1> QED
  BY <1>1, <1>2, <1>4, <1>5, <1>6, <1>7 DEF EInv

(* What the gateway writes goes to its own connection. *)
LEMMA LinesPosted ==
    ASSUME Typed, NoSshAsked, NEW lines \in Seq(ClientMessage), Post(lines),
           \A j \in 1 .. Len(lines) : lines[j].type # "create_ssh"
    PROVE  NoSshAsked' /\ \A d \in Conns : d # gwConn => toSup'[d] = toSup[d]
<1>1. CASE toSup' = toSup
  BY <1>1 DEF NoSshAsked
<1>2. CASE toSup' # toSup
  <2>1. gwConn \in Conns /\ toSup' = [toSup EXCEPT ![gwConn] = @ \o lines]
    BY <1>2 DEF Post, Writable, Typed, LinkOK
  <2>2. /\ toSup[gwConn] \in Seq(ClientMessage) /\ toSup'[gwConn] = toSup[gwConn] \o lines
        /\ \A c \in Conns : c # gwConn => toSup'[c] = toSup[c]
    BY <2>1 DEF Typed, TypeOK, IpcTypeOK
  <2> DEFINE q == toSup[gwConn]
  <2>3. \A j \in 1 .. Len(q \o lines) : \/ j \in 1 .. Len(q) /\ (q \o lines)[j] = q[j]
                                       \/ /\ j - Len(q) \in 1 .. Len(lines)
                                          /\ (q \o lines)[j] = lines[j - Len(q)]
    BY <2>2, ConcatProperties
  <2>4. \A j \in 1 .. Len(q) : q[j].type # "create_ssh"
    BY <2>1 DEF NoSshAsked
  <2> HIDE DEF q
  <2>5. \A j \in 1 .. Len(q \o lines) : (q \o lines)[j].type # "create_ssh"
    BY <2>3, <2>4
  <2>6. ASSUME NEW d \in Conns
        PROVE  \A j \in 1 .. Len(toSup'[d]) : toSup'[d][j].type # "create_ssh"
    BY <2>2, <2>5 DEF q, NoSshAsked
  <2> QED
    BY <2>2, <2>6 DEF NoSshAsked
<1> QED
  BY <1>1, <1>2

LEMMA RequestPosted ==
    ASSUME Typed, NoSshAsked, NEW p, NEW queue, p.sid \in Sessions, p.kind # "create_ssh",
           IssueRequest(p, queue) \/ EnsureSubscribed(p, queue)
    PROVE  NoSshAsked' /\ \A d \in Conns : d # gwConn => toSup'[d] = toSup[d]
<1> DEFINE m == Request(RequestType(p.kind), p.sid, nextReqId)
<1>1. UNCHANGED toSup \/ Post(<<m>>)
  BY DEF IssueRequest, EnsureSubscribed
<1>2. m \in ClientMessage /\ m.type # "create_ssh"
  <2>1. RequestType(p.kind) \in {"create", "subscribe"}
    BY DEF RequestType, Creates
  <2>2. nextReqId \in Nat
    BY DEF Typed, TypeOK, ScTypeOK
  <2> QED
    BY <2>1, <2>2, RequestTyped DEF ClientMessageTypes, Request
<1> HIDE DEF m
<1>3. /\ <<m>> \in Seq(ClientMessage)
      /\ \A j \in 1 .. Len(<<m>>) : <<m>>[j].type # "create_ssh"
  BY <1>2
<1>4. CASE UNCHANGED toSup
  BY <1>4 DEF NoSshAsked
<1> QED
  BY <1>1, <1>3, <1>4, LinesPosted

LEMMA LeavePosted ==
    ASSUME Typed, NoSshAsked, NEW c \in Clients, NEW A, IsFiniteSet(A), NEW W, Leave(c, A, W)
    PROVE  NoSshAsked' /\ \A d \in Conns : d # gwConn => toSup'[d] = toSup[d]
<1>1. PICK lines \in Seq(ClientMessage) :
        Post(lines) /\ \A j \in 1 .. Len(lines) : lines[j].type \in {"unsubscribe", "resize"}
  BY LeaveLines
<1>2. \A j \in 1 .. Len(lines) : lines[j].type # "create_ssh"
  BY <1>1
<1> QED
  BY <1>1, <1>2, LinesPosted

(* Nobody asks for an SSH session when no client does. *)
LEMMA NobodyAsks ==
    ASSUME "create_ssh" \notin ClientOps, Typed, NoSshAsked, GatewayStep \/ ClientStep
    PROVE  NoSshAsked' /\ \A d \in Conns : d # gwConn => toSup'[d] = toSup[d]
<1>0. IsFiniteSet({}) /\ \A s : IsFiniteSet({s})
  BY FS_EmptySet, FS_Singleton
<1>1. ASSUME UNCHANGED toSup
      PROVE  NoSshAsked' /\ \A d \in Conns : d # gwConn => toSup'[d] = toSup[d]
  BY <1>1 DEF NoSshAsked
<1>2. CASE GatewayStep
  <2>1. CASE Continue
    <3> DEFINE k == Head(micro)
    <3>1. k.client \in Clients /\ k.sid \in Sessions
      BY <2>1, MicroTyped, ContinuationTyped DEF Continue
    <3>2. UNCHANGED toSup \/ Created(k) \/ Watched(k)
      BY <2>1 DEF Continue, Attached, ipcVars
    <3>3. CASE Created(k)
      <4> DEFINE p == Ask("attach", k.client, k.sid, TRUE)
      <4>1. UNCHANGED toSup \/ EnsureSubscribed(p, Tail(micro))
        BY <3>3 DEF Created
      <4>2. p.sid \in Sessions /\ p.kind # "create_ssh"
        BY <3>1 DEF Ask
      <4> HIDE DEF p
      <4> QED
        BY <1>1, <4>1, <4>2, RequestPosted
    <3>4. CASE Watched(k)
      <4> DEFINE A == {}
                 W == {k.sid}
      <4>1. UNCHANGED toSup \/ (Leave(k.client, A, W) /\ IsFiniteSet(A))
        BY <1>0, <3>4 DEF Watched
      <4> HIDE DEF A, W
      <4> QED
        BY <1>1, <3>1, <4>1, LeavePosted
    <3> QED
      BY <1>1, <3>2, <3>3, <3>4
  <2>2. CASE gwConn # 0 /\ Connected
    <3>1. gwConn \in Conns /\ Request("hello", NoSession, 0).type # "create_ssh"
      BY <2>2 DEF Connected, Typed, LinkOK, Request
    <3>2. toSup[gwConn] \in Seq(ClientMessage) /\ toSup \in [Conns -> Seq(ClientMessage)]
      BY <3>1 DEF Typed, TypeOK, IpcTypeOK
    <3> DEFINE m == Request("hello", NoSession, 0)
    <3>3. m \in ClientMessage /\ toSup' = [toSup EXCEPT ![gwConn] = Append(@, m)]
      BY <2>2, RequestTyped DEF Connected
    <3> HIDE DEF m
    <3>4. <<m>> \in Seq(ClientMessage) /\ \A j \in 1 .. Len(<<m>>) : <<m>>[j].type # "create_ssh"
      BY <3>1, <3>3 DEF m
    <3>5. toSup' = [toSup EXCEPT ![gwConn] = @ \o <<m>>] /\ <<m>> # <<>>
      <4>1. Append(toSup[gwConn], m) = toSup[gwConn] \o <<m>>
        BY <3>2, <3>3
      <4> QED
        BY <3>2, <3>3, <4>1
    <3>6. Writable
      BY <2>2 DEF Writable, Connected
    <3>7. Post(<<m>>)
      BY <3>5, <3>6 DEF Post
    <3> QED
      BY <3>4, <3>7, LinesPosted
  <2>3. CASE ReadFrame
    <3>1. UNCHANGED toSup
      BY <2>3 DEF ReadFrame, GotHello, GotSessions, GotCreated, GotSubscribed,
         GotUnsubscribed, GotError, GotOutput, GotExit, GotRemoved, Ignored
    <3> QED
      BY <1>1, <3>1
  <2>4. CASE \/ GotOversized \/ CheckPhase \/ Connect \/ Disconnected
             \/ \E p \in pending : RequestTimeout(p)
    <3>1. UNCHANGED toSup
      BY <2>4 DEF GotOversized, CheckPhase, Connect, Disconnected, RequestTimeout, ipcVars
    <3> QED
      BY <1>1, <3>1
  <2> QED
    BY <1>2, <2>1, <2>2, <2>3, <2>4 DEF GatewayStep
<1>3. CASE ClientStep
  <2>1. PICK c \in Clients :
          ClientConnect(c) \/ ClientMessageFrom(c) \/ ClientClosed(c) \/ ClientTerminated(c)
    BY <1>3 DEF ClientStep
  <2>2. CASE ClientConnect(c) \/ ClientTerminated(c)
    <3>1. UNCHANGED toSup
      BY <2>2 DEF ClientConnect, ClientTerminated, ipcVars
    <3> QED
      BY <1>1, <3>1
  <2>3. CASE ClientClosed(c)
    <3> DEFINE A == clientSubscriptions[c]
               W == clientStatusWatches[c]
    <3>1. IsFiniteSet(A) /\ Leave(c, A, W)
      BY <2>3 DEF ClientClosed, Typed, FewInUse
    <3> HIDE DEF A, W
    <3> QED
      BY <3>1, LeavePosted
  <2>4. CASE ClientMessageFrom(c)
    <3>1. PICK s \in Sessions :
            \/ \E kind \in Creates, attach \in BOOLEAN : CreateMessage(c, s, kind, attach)
            \/ AttachMessage(c, s) \/ DetachMessage(c, s) \/ WatchMessage(c, s)
            \/ UnwatchMessage(c, s)
            \/ \E size \in Sizes : ResizeMessage(c, s, size)
            \/ \E op \in {"input", "kill"} : ForwardMessage(c, s, op)
      BY <2>4 DEF ClientMessageFrom
    <3>2. ASSUME NEW kind \in Creates, NEW attach \in BOOLEAN, CreateMessage(c, s, kind, attach)
          PROVE  NoSshAsked' /\ \A d \in Conns : d # gwConn => toSup'[d] = toSup[d]
      <4> DEFINE p == Ask(kind, c, s, attach)
      <4>1. kind # "create_ssh" /\ IssueRequest(p, micro)
        BY <3>2 DEF CreateMessage, ClientTurn
      <4>2. p.sid \in Sessions /\ p.kind # "create_ssh"
        BY <4>1 DEF Ask
      <4> HIDE DEF p
      <4> QED
        BY <4>1, <4>2, RequestPosted
    <3>3. ASSUME NEW kind \in {"attach", "watch"}, NEW attach,
                 EnsureSubscribed(Ask(kind, c, s, attach), micro)
          PROVE  NoSshAsked' /\ \A d \in Conns : d # gwConn => toSup'[d] = toSup[d]
      <4> DEFINE p == Ask(kind, c, s, attach)
      <4>1. p.sid \in Sessions /\ p.kind # "create_ssh"
        BY DEF Ask
      <4>2. EnsureSubscribed(p, micro)
        BY <3>3
      <4> HIDE DEF p
      <4> QED
        BY <4>1, <4>2, RequestPosted
    <3>4. CASE AttachMessage(c, s)
      BY <3>3, <3>4 DEF AttachMessage
    <3>5. CASE WatchMessage(c, s)
      BY <3>3, <3>5 DEF WatchMessage
    <3>6. CASE DetachMessage(c, s)
      <4> DEFINE A == {s}
                 W == {}
      <4>1. Leave(c, A, W) /\ IsFiniteSet(A)
        BY <1>0, <3>6 DEF DetachMessage
      <4> HIDE DEF A, W
      <4> QED
        BY <4>1, LeavePosted
    <3>7. CASE UnwatchMessage(c, s)
      <4> DEFINE A == {}
                 W == {s}
      <4>1. Leave(c, A, W) /\ IsFiniteSet(A)
        BY <1>0, <3>7 DEF UnwatchMessage
      <4> HIDE DEF A, W
      <4> QED
        BY <4>1, LeavePosted
    <3>8. ASSUME NEW size \in Sizes, ResizeMessage(c, s, size)
          PROVE  NoSshAsked' /\ \A d \in Conns : d # gwConn => toSup'[d] = toSup[d]
      <4> DEFINE desired == [clientDesiredSizes EXCEPT ![s][c] = size]
                 effective == Recomputed(desired, {s})
                 lines == ResizeLines(effective)
      <4>1. Post(lines)
        BY <3>8 DEF ResizeMessage
      <4>2. desired \in [Sessions -> [Clients -> Sizes \cup {0}]]
        BY DEF Typed, TypeOK, GwTypeOK
      <4>3. effective \in [Sessions -> Sizes \cup {0}]
        <5> HIDE DEF desired
        <5> QED
          BY <4>2, RecomputedTyped DEF Typed, TypeOK, GwTypeOK
      <4>4. \A z \in Sessions : z \in {s} \/ effective[z] = effectiveSizes[z]
        BY DEF Recomputed
      <4> HIDE DEF effective
      <4>5. lines \in Seq(ClientMessage)
        BY <1>0, <4>3, <4>4, ResizeLinesTyped
      <4>6. \A j \in 1 .. Len(lines) : lines[j].type = "resize"
        BY <4>5, ResizesOnly
      <4> HIDE DEF lines
      <4>7. \A j \in 1 .. Len(lines) : lines[j].type # "create_ssh"
        BY <4>6
      <4> QED
        BY <4>1, <4>5, <4>7, LinesPosted
    <3>9. ASSUME NEW op \in {"input", "kill"}, ForwardMessage(c, s, op)
          PROVE  NoSshAsked' /\ \A d \in Conns : d # gwConn => toSup'[d] = toSup[d]
      <4> DEFINE m == Request(op, s, 0)
      <4>1. Post(<<m>>) /\ m \in ClientMessage /\ m.type # "create_ssh"
        BY <3>9, RequestTyped DEF ForwardMessage, ClientMessageTypes, Request
      <4> HIDE DEF m
      <4>2. <<m>> \in Seq(ClientMessage) /\ \A j \in 1 .. Len(<<m>>) : <<m>>[j].type # "create_ssh"
        BY <4>1
      <4> QED
        BY <4>1, <4>2, LinesPosted
    <3> QED
      BY <3>1, <3>2, <3>4, <3>5, <3>6, <3>7, <3>8, <3>9
  <2> QED
    BY <2>1, <2>2, <2>3, <2>4
<1> QED
  BY <1>2, <1>3

(* Flushing adds to one session's run and changes nothing else. *)
LEMMA FlushedOnly ==
    ASSUME NEW v \in [Clients -> [Sessions -> Screen]], NEW s \in Sessions, NEW pieces,
           NEW c \in Clients, NEW z \in Sessions
    PROVE  /\ Flushed(v, s, pieces)[c][z].exited = v[c][z].exited
           /\ z # s \/ pieces = <<>> => Flushed(v, s, pieces)[c][z].runs = v[c][z].runs
           /\ z # s => Flushed(v, s, pieces)[c][z] = v[c][z]
           /\ Flushed(v, s, pieces)[c][s].runs =
                 IF c \in sessionSubscribers[s] /\ IsOpen(c)
                   THEN Shown(v[c][s].runs, pieces) ELSE v[c][s].runs
<1>1. v[c] \in [Sessions -> Screen] /\ v[c][z] \in Screen /\ v[c][s] \in Screen
  OBVIOUS
<1>2. Shown(v[c][s].runs, <<>>) = v[c][s].runs
  <2>1. DOMAIN <<>> = 1 .. 0 /\ 0 \in Nat
    OBVIOUS
  <2> QED
    BY <2>1, ShownIsFold, FoldSteps
<1>3. CASE c \in sessionSubscribers[s] /\ IsOpen(c)
  <2> DEFINE r == Shown(v[c][s].runs, pieces)
  <2>1. Flushed(v, s, pieces)[c] = [v[c] EXCEPT ![s].runs = r]
    BY <1>3 DEF Flushed
  <2>2. pieces = <<>> => r = v[c][s].runs
    BY <1>2
  <2> HIDE DEF r
  <2>3. Flushed(v, s, pieces)[c] = [v[c] EXCEPT ![s] = [v[c][s] EXCEPT !.runs = r]]
    BY <2>1
  <2>4. /\ [v[c][s] EXCEPT !.runs = r].runs = r
        /\ [v[c][s] EXCEPT !.runs = r].exited = v[c][s].exited
    BY <1>1 DEF Screen
  <2>5. /\ Flushed(v, s, pieces)[c][s] = [v[c][s] EXCEPT !.runs = r]
        /\ z # s => Flushed(v, s, pieces)[c][z] = v[c][z]
    BY <1>1, <2>3
  <2> QED
    BY <1>3, <2>2, <2>4, <2>5 DEF r
<1>4. CASE ~(c \in sessionSubscribers[s] /\ IsOpen(c))
  <2>1. Flushed(v, s, pieces)[c] = v[c]
    BY <1>4 DEF Flushed
  <2> QED
    BY <1>4, <2>1
<1> QED
  BY <1>3, <1>4

(* What a step of the gateway does to a screen and to its waiting output.  *)
LEMMA ScreenChanges ==
    ASSUME Typed, GatewayStep \/ ClientStep, NEW c \in Clients, NEW s \in Sessions
    PROVE  /\ \/ view'[c][s] = view[c][s]
              \/ ~view'[c][s].exited
              \/ /\ view'[c][s].exited = view[c][s].exited
                 /\ pendingOutput[s] = <<>> => view'[c][s].runs = view[c][s].runs
              \/ PipeTurn("output") /\ Incoming.sid = s /\ view'[c][s].exited = view[c][s].exited
              \/ PipeTurn("exit") /\ Incoming.sid = s /\ pendingOutput'[s] = <<>>
           /\ \/ pendingOutput'[s] \in {pendingOutput[s], <<>>}
              \/ PipeTurn("output") /\ Incoming.sid = s
<1>0. /\ view \in [Clients -> [Sessions -> Screen]]
      /\ pendingOutput \in [Sessions -> Seq(Stretch)]
  BY DEF Typed, TypeOK, GwTypeOK
<1>1. CASE CheckPhase
  <2>1. view'[c][s] = Flushed(view, s, pendingOutput[s])[c][s] /\ pendingOutput'[s] = <<>>
    BY <1>1 DEF CheckPhase
  <2> QED
    BY <1>0, <2>1, FlushedOnly
<1>2. CASE GotOutput
  <2> DEFINE t == Incoming.sid
             pieces == Append(pendingOutput[t], Piece(Incoming.from, Incoming.to))
  <2>1. /\ PipeTurn("output")
        /\ \/ UNCHANGED view /\ pendingOutput' = [pendingOutput EXCEPT ![t] = pieces]
           \/ view' = Flushed(view, t, pieces) /\ pendingOutput' = [pendingOutput EXCEPT ![t] = <<>>]
    BY <1>2 DEF GotOutput
  <2>2. t \in Sessions
    BY <2>1, PipeTyped DEF AboutSession
  <2>3. PipeTurn("output") /\ Incoming.sid = t
    BY <2>1
  <2> HIDE DEF t, pieces
  <2>4. /\ Flushed(view, t, pieces)[c][s].exited = view[c][s].exited
        /\ s # t => Flushed(view, t, pieces)[c][s] = view[c][s]
    BY <1>0, <2>2, FlushedOnly
  <2>5. s # t => pendingOutput'[s] = pendingOutput[s]
    BY <1>0, <2>1
  <2> QED
    BY <2>1, <2>3, <2>4, <2>5
<1>3. CASE GotExit
  <2> DEFINE t == Incoming.sid
             flushed == Flushed(view, t, pendingOutput[t])
  <2>1. /\ PipeTurn("exit")
        /\ pendingOutput' = [pendingOutput EXCEPT ![t] = <<>>]
        /\ view' = [d \in Clients |->
                     IF d \in sessionSubscribers[t] /\ IsOpen(d)
                       THEN [flushed[d] EXCEPT ![t].exited = TRUE]
                       ELSE flushed[d]]
    BY <1>3 DEF GotExit
  <2>2. t \in Sessions /\ pendingOutput[t] \in Seq(Stretch)
    BY <1>0, <2>1, PipeTyped DEF AboutSession
  <2>3. PipeTurn("exit") /\ Incoming.sid = t
    BY <2>1
  <2> HIDE DEF t
  <2>4. flushed \in [Clients -> [Sessions -> Screen]]
    BY <1>0, <2>2, FlushedTyped
  <2>5. s # t => flushed[c][s] = view[c][s]
    <3>1. PICK p : p = pendingOutput[t]
      OBVIOUS
    <3>2. view \in [Clients -> [Sessions -> Screen]] /\ t \in Sessions
      BY <1>0, <2>2
    <3>3. s # t => Flushed(view, t, p)[c][s] = view[c][s]
      BY <3>2, FlushedOnly
    <3> QED
      BY <3>1, <3>3
  <2> HIDE DEF flushed
  <2>6. s # t => view'[c][s] = flushed[c][s] /\ pendingOutput'[s] = pendingOutput[s]
    BY <1>0, <2>1, <2>2, <2>4
  <2>7. pendingOutput'[t] = <<>>
    BY <1>0, <2>1, <2>2
  <2> QED
    BY <2>3, <2>5, <2>6, <2>7
<1>4. CASE Continue
  <2> DEFINE k == Head(micro)
  <2>1. k.client \in Clients /\ k.sid \in Sessions
    BY <1>4, MicroTyped, ContinuationTyped DEF Continue
  <2>2. UNCHANGED pendingOutput /\ (UNCHANGED view \/ Attached(k))
    BY <1>4 DEF Continue, Created, Watched
  <2> DEFINE screen == [Blank EXCEPT !.runs = Shown(<<>>, k.output)]
  <2>3. \/ UNCHANGED view
        \/ view' = [view EXCEPT ![k.client][k.sid] = screen]
    BY <2>1, <2>2 DEF Attached
  <2>4. ~screen.exited
    BY DEF Blank
  <2> HIDE DEF k, screen
  <2>5. CASE view' = [view EXCEPT ![k.client][k.sid] = screen]
    <3>1. view'[c][s] = view[c][s] \/ view'[c][s] = screen
      BY <1>0, <2>1, <2>5
    <3> QED
      BY <2>2, <2>4, <3>1
  <2> QED
    BY <2>2, <2>3, <2>5
<1>5. CASE GotRemoved
  <2>1. /\ PipeTurn("removed") /\ UNCHANGED view
        /\ pendingOutput' = [pendingOutput EXCEPT ![Incoming.sid] = <<>>]
    BY <1>5 DEF GotRemoved
  <2>2. pendingOutput'[s] \in {pendingOutput[s], <<>>}
    BY <1>0, <2>1
  <2> QED
    BY <2>1, <2>2
<1>6. CASE \/ ClientStep
           \/ GatewayStep /\ ~CheckPhase /\ ~Continue /\ ~GotOutput /\ ~GotExit /\ ~GotRemoved
  <2>2. CASE GatewayStep /\ ~CheckPhase /\ ~Continue /\ ~GotOutput /\ ~GotExit /\ ~GotRemoved
    <3>1. CASE ReadFrame
      BY <2>2, <3>1 DEF ReadFrame, GotHello, GotSessions, GotCreated, GotSubscribed,
         GotUnsubscribed, GotError, Ignored
    <3>2. CASE ~ReadFrame
      BY <2>2, <3>2 DEF GatewayStep, GotOversized, Connect, Connected, Disconnected,
         RequestTimeout, gwVars
    <3> QED
      BY <3>1, <3>2
  <2>3. CASE ClientStep
    <3>1. PICK d \in Clients :
            \/ ClientConnect(d) \/ ClientMessageFrom(d) \/ ClientClosed(d) \/ ClientTerminated(d)
      BY <2>3 DEF ClientStep
    <3>2. CASE ClientMessageFrom(d)
      <4>1. PICK t \in Sessions :
              \/ \E kind \in Creates, attach \in BOOLEAN : CreateMessage(d, t, kind, attach)
              \/ AttachMessage(d, t) \/ DetachMessage(d, t) \/ WatchMessage(d, t)
              \/ UnwatchMessage(d, t)
              \/ \E size \in Sizes : ResizeMessage(d, t, size)
              \/ \E op \in {"input", "kill"} : ForwardMessage(d, t, op)
        BY <3>2 DEF ClientMessageFrom
      <4> QED
        BY <4>1 DEF CreateMessage, AttachMessage, DetachMessage, WatchMessage, UnwatchMessage,
                    ResizeMessage, ForwardMessage
    <3> QED
      BY <3>1, <3>2 DEF ClientConnect, ClientTerminated, ClientClosed
  <2> QED
    BY <1>6, <2>2, <2>3
<1> QED
  <2>1. GotOutput \/ GotExit \/ GotRemoved \/ CheckPhase \/ Continue
        \/ (GatewayStep /\ ~CheckPhase /\ ~Continue /\ ~GotOutput /\ ~GotExit /\ ~GotRemoved)
        \/ ClientStep
    OBVIOUS
  <2> QED
    BY <1>1, <1>2, <1>3, <1>4, <1>5, <1>6, <2>1

(* A frame is read from the gateway's connection, or none is. *)
LEMMA FrameRead ==
    ASSUME Typed, GatewayStep \/ ClientStep
    PROVE  /\ UNCHANGED supVars
           /\ \/ UNCHANGED toGw /\ UNCHANGED gwConn
              \/ /\ UNCHANGED toGw /\ Connect
              \/ /\ UNCHANGED gwConn /\ gwConn \in Conns /\ toGw[gwConn] # <<>>
                 /\ toGw' = [toGw EXCEPT ![gwConn] = Tail(@)]
<1>1. UNCHANGED supVars
  BY DEF GatewayStep, ClientStep
<1>2. CASE GatewayStep /\ ReadFrame
  <2>1. \E t : PipeTurn(t)
    BY <1>2 DEF ReadFrame, GotHello, GotSessions, GotCreated, GotSubscribed,
           GotUnsubscribed, GotError, GotOutput, GotExit, GotRemoved
  <2>2. UNCHANGED gwConn
    BY <1>2 DEF ReadFrame, GotHello, GotSessions, GotCreated, GotSubscribed,
           GotUnsubscribed, GotError, GotOutput, GotExit, GotRemoved, Ignored
  <2> QED
    BY <1>1, <2>1, <2>2 DEF PipeTurn, Typed, LinkOK
<1>3. CASE (GatewayStep /\ ~ReadFrame) \/ ClientStep
  <2>1. UNCHANGED toGw
    BY <1>3, OnlyWrites
  <2>2. UNCHANGED gwConn \/ Connect
    <3>1. CASE GatewayStep /\ ~ReadFrame
      BY <3>1 DEF GatewayStep, GotOversized, Continue, CheckPhase, Connected, Disconnected, RequestTimeout,
                  scVars
    <3>2. CASE ClientStep
      <4>1. PICK d \in Clients :
              \/ ClientConnect(d) \/ ClientMessageFrom(d) \/ ClientClosed(d) \/ ClientTerminated(d)
        BY <3>2 DEF ClientStep
      <4>2. CASE ClientMessageFrom(d)
        <5>1. PICK t \in Sessions :
              \/ \E kind \in Creates, attach \in BOOLEAN : CreateMessage(d, t, kind, attach)
              \/ AttachMessage(d, t) \/ DetachMessage(d, t) \/ WatchMessage(d, t)
              \/ UnwatchMessage(d, t)
              \/ \E size \in Sizes : ResizeMessage(d, t, size)
              \/ \E op \in {"input", "kill"} : ForwardMessage(d, t, op)
          BY <4>2 DEF ClientMessageFrom
        <5> QED
          BY <5>1 DEF CreateMessage, AttachMessage, DetachMessage, WatchMessage, UnwatchMessage,
                    ResizeMessage, ForwardMessage
      <4> QED
        BY <4>1, <4>2 DEF ClientConnect, ClientTerminated, ClientClosed, scVars
    <3> QED
      BY <1>3, <3>1, <3>2
  <2> QED
    BY <1>1, <2>1, <2>2
<1> QED
  BY <1>2, <1>3

LEMMA HushKept ==
    ASSUME Typed, Endings, Unopened, GatewayStep \/ ClientStep, NEW c \in Clients,
           NEW s \in Sessions, Hushed(s)
    PROVE  Hushed(s)'
<1>0. toGw \in [Conns -> Seq(ServerFrame)] /\ gwConn \in Conns /\ gwConn \in Nat
  BY GatewayAssumption DEF Typed, TypeOK, IpcTypeOK, Hushed
<1>1. Over(s)'
  BY FrameRead DEF Over, Hushed, supVars
<1>2. ASSUME PipeTurn("output"), Incoming.sid = s
      PROVE  FALSE
  <2>1. toGw[gwConn] # <<>> /\ Head(toGw[gwConn]).type = "output" /\ Head(toGw[gwConn]).sid = s
    BY <1>2 DEF PipeTurn, Incoming
  <2>2. 1 \in 1 .. Len(toGw[gwConn]) /\ Head(toGw[gwConn]) = toGw[gwConn][1]
    BY <1>0, <2>1
  <2> QED
    BY <2>1, <2>2 DEF Hushed, Word
<1>3. pendingOutput'[s] = <<>>
  <2>1. \/ pendingOutput'[s] \in {pendingOutput[s], <<>>}
        \/ PipeTurn("output") /\ Incoming.sid = s
    BY ScreenChanges
  <2> QED
    BY <1>2, <2>1 DEF Hushed
<1>4. gwConn' \in Conns /\ \A i \in 1 .. Len(toGw'[gwConn']) : ~Word(toGw'[gwConn'][i], s)
  <2>1. CASE UNCHANGED toGw /\ UNCHANGED gwConn
    BY <2>1 DEF Hushed
  <2>2. CASE UNCHANGED toGw /\ Connect
    <3>1. gwConn' = gwConn + 1 /\ gwConn' \in Conns
      BY <2>2 DEF Connect
    <3>2. toGw'[gwConn'] = <<>>
      BY <1>0, <2>2, <3>1 DEF Unopened
    <3> QED
      BY <3>1, <3>2
  <2>3. CASE /\ UNCHANGED gwConn /\ gwConn \in Conns /\ toGw[gwConn] # <<>>
             /\ toGw' = [toGw EXCEPT ![gwConn] = Tail(@)]
    <3>1. toGw'[gwConn] = Tail(toGw[gwConn])
      BY <1>0, <2>3
    <3>2. \A i \in 1 .. Len(Tail(toGw[gwConn])) :
             i + 1 \in 1 .. Len(toGw[gwConn]) /\ Tail(toGw[gwConn])[i] = toGw[gwConn][i + 1]
      BY <1>0, <2>3
    <3> QED
      BY <2>3, <3>1, <3>2 DEF Hushed
  <2> QED
    BY <2>1, <2>2, <2>3, FrameRead
<1> QED
  BY <1>1, <1>3, <1>4 DEF Hushed

LEMMA GatewayEnds ==
    ASSUME "create_ssh" \notin ClientOps, Typed, EInv, GatewayStep \/ ClientStep
    PROVE  EInv'
<1>0. Terminals /\ NoSshAsked /\ Endings /\ Removals /\ Unopened /\ AfterExit
  BY DEF EInv
<1>1. NoSshAsked' /\ \A d \in Conns : d # gwConn => toSup'[d] = toSup[d]
  BY <1>0, NobodyAsks
<1>2. UNCHANGED supVars
  BY FrameRead
<1>3. Terminals' /\ Removals'
  BY <1>0, <1>2 DEF Terminals, Lives, Removals, Over, supVars
<1>4. /\ toGw \in [Conns -> Seq(ServerFrame)] /\ gwConn \in Conns \cup {0}
      /\ \A d \in Conns \cup {0} : d \in Nat
  BY GatewayAssumption DEF Typed, TypeOK, IpcTypeOK, ScTypeOK
<1>5. ASSUME NEW d \in Conns
      PROVE  \/ toGw'[d] = toGw[d]
             \/ /\ d = gwConn /\ toGw[d] # <<>> /\ toGw'[d] = Tail(toGw[d])
  BY <1>4, FrameRead
<1>6. Endings'
  <2> SUFFICES ASSUME NEW d \in Conns
               PROVE  LastWords(toGw'[d]) /\ Finals(toGw[d])'
    BY DEF Endings
  <2>1. LastWords(toGw[d]) /\ Finals(toGw[d])
    BY <1>0 DEF Endings
  <2>2. \A s : Over(s)' <=> Over(s)
    BY <1>2 DEF Over, supVars
  <2>3. CASE toGw'[d] = toGw[d]
    BY <2>1, <2>2, <2>3 DEF Finals
  <2>4. CASE toGw[d] # <<>> /\ toGw'[d] = Tail(toGw[d])
    <3>1. /\ Len(toGw[d]) \in Nat
          /\ \A i \in 1 .. Len(toGw'[d]) :
                i + 1 \in 1 .. Len(toGw[d]) /\ toGw'[d][i] = toGw[d][i + 1]
      BY <1>4, <2>4
    <3>2. \A i, j \in 1 .. Len(toGw'[d]) : i < j => i + 1 < j + 1
      BY <1>4, <2>4
    <3>3. LastWords(toGw'[d])
      BY <2>1, <3>1, <3>2 DEF LastWords
    <3>4. Finals(toGw[d])'
      BY <2>1, <2>2, <3>1 DEF Finals
    <3> QED
      BY <3>3, <3>4
  <2> QED
    BY <1>5, <2>3, <2>4
<1>7. Unopened'
  <2>1. gwConn' \in Nat /\ gwConn <= gwConn'
    BY <1>4, FrameRead DEF Connect
  <2> SUFFICES ASSUME NEW d \in Conns, d > gwConn'
               PROVE  toGw'[d] = <<>> /\ toSup'[d] = <<>> /\ conn'[d] = "none"
    BY DEF Unopened
  <2>2. d > gwConn /\ d # gwConn
    BY <1>4, <2>1
  <2>3. toGw[d] = <<>> /\ toSup[d] = <<>> /\ conn[d] = "none"
    BY <1>0, <2>2 DEF Unopened
  <2> QED
    BY <1>1, <1>2, <1>5, <2>2, <2>3 DEF supVars
<1>8. AfterExit'
  <2> SUFFICES ASSUME NEW c \in Clients, NEW s \in Sessions, view'[c][s].exited
               PROVE  Hushed(s)'
    BY DEF AfterExit
  <2>1. CASE view[c][s].exited
    <3>1. Hushed(s)
      BY <1>0, <2>1 DEF AfterExit
    <3> QED
      BY <1>0, <3>1, HushKept
  <2>2. CASE ~view[c][s].exited
    <3>1. PipeTurn("exit") /\ Incoming.sid = s /\ pendingOutput'[s] = <<>>
      BY <2>2, ScreenChanges
    <3> DEFINE q == toGw[gwConn]
    <3>2. gwConn \in Conns /\ q # <<>> /\ q \in Seq(ServerFrame) /\ Head(q) = q[1] /\ 1 \in 1 .. Len(q)
      BY <1>4, <3>1 DEF PipeTurn, Typed, LinkOK
    <3>3. Final(q[1], s)
      BY <3>1, <3>2 DEF PipeTurn, Incoming, Final
    <3>4. Over(s)
      BY <1>0, <3>2, <3>3 DEF Endings, Finals
    <3>5. UNCHANGED gwConn /\ toGw'[gwConn] = Tail(q)
      <4>1. ~Connect
        BY <3>1 DEF PipeTurn, Connect
      <4>2. toGw' = [toGw EXCEPT ![gwConn] = Tail(@)]
        BY <3>1 DEF PipeTurn
      <4>3. toGw'[gwConn] = Tail(q)
        BY <1>4, <3>2, <4>2
      <4> QED
        BY <4>1, <4>3, FrameRead
    <3>6. LastWords(q)
      BY <1>0, <3>2 DEF Endings
    <3> HIDE DEF q
    <3>7. ASSUME NEW i \in 1 .. Len(Tail(q))
          PROVE  ~Word(Tail(q)[i], s)
      <4>1. i + 1 \in 1 .. Len(q) /\ Tail(q)[i] = q[i + 1] /\ 1 < i + 1
        BY <3>2
      <4> QED
        BY <3>2, <3>3, <3>6, <4>1 DEF LastWords
    <3>8. Over(s)'
      BY <1>2, <3>4 DEF Over, supVars
    <3> QED
      BY <3>1, <3>2, <3>5, <3>7, <3>8 DEF Hushed
  <2> QED
    BY <2>1, <2>2
<1> QED
  BY <1>1, <1>3, <1>6, <1>7, <1>8 DEF EInv

LEMMA EInvStep ==
    ASSUME MaxIncs = 1, "create_ssh" \notin ClientOps, Typed, EInv, [Next]_vars
    PROVE  EInv'
<1>1. Typed'
  BY TypedStep
<1>2. CASE UNCHANGED vars
  <2>1. UNCHANGED <<toGw, toSup, proc, produced, current, immediates, conn, gwConn,
                    pendingOutput, view>>
    BY <1>2 DEF vars, ipcVars, supVars, scVars, gwVars
  <2>2. (Terminals /\ NoSshAsked)' /\ \A s : Over(s)' <=> Over(s)
    BY <2>1 DEF EInv, Terminals, Lives, NoSshAsked, Over
  <2>3. (Endings /\ Removals)'
    BY <2>1, <2>2 DEF EInv, Endings, Removals, Finals, LastWords
  <2>4. (Unopened /\ AfterExit)'
    BY <2>1, <2>2 DEF EInv, Unopened, AfterExit, Hushed
  <2> QED
    BY <2>2, <2>3, <2>4 DEF EInv
<1> QED
  BY <1>1, <1>2, SupervisorEnds, GatewayEnds DEF Next

LEMMA EInvInit == MaxIncs = 1 /\ Init => EInv
<1> SUFFICES ASSUME MaxIncs = 1, Init
             PROVE  EInv
  OBVIOUS
<1>1. \A s \in Sessions : proc[s][1] = Unborn /\ produced[s] = 0 /\ current[s] = 0
  BY DEF Init, SupInit, Incs
<1>2. Terminals
  <2>1. Unborn.kind = "none" /\ Unborn.stream = "none"
    BY DEF Unborn
  <2> QED
    BY <1>1, <2>1 DEF Terminals, Lives
<1>3. NoSshAsked /\ Unopened /\ Removals
  BY DEF NoSshAsked, Unopened, Removals, Init, IpcInit, SupInit
<1>4. Endings /\ AfterExit
  BY DEF Endings, LastWords, Finals, AfterExit, Init, IpcInit, GwInit, Blank
<1> QED
  BY <1>2, <1>3, <1>4 DEF EInv

(* What was shown of a session that exited stays as it is. *)
LEMMA ShownIsKept ==
    ASSUME Typed, EInv, [Next]_vars, NEW c \in Clients, NEW s \in Sessions,
           view[c][s].exited, view'[c][s].exited
    PROVE  view'[c][s].runs = view[c][s].runs
<1>0. Hushed(s) /\ toGw \in [Conns -> Seq(ServerFrame)]
  BY DEF EInv, AfterExit, Typed, TypeOK, IpcTypeOK
<1>1. CASE SupervisorStep \/ UNCHANGED vars
  BY <1>1 DEF SupervisorStep, vars, gwVars
<1>2. CASE GatewayStep \/ ClientStep
  <2>1. ASSUME NEW t \in {"output", "exit"}, PipeTurn(t), Incoming.sid = s
        PROVE  FALSE
    <3>1. toGw[gwConn] # <<>> /\ Head(toGw[gwConn]).type = t /\ Head(toGw[gwConn]).sid = s
      BY <2>1 DEF PipeTurn, Incoming
    <3>2. 1 \in 1 .. Len(toGw[gwConn]) /\ Head(toGw[gwConn]) = toGw[gwConn][1]
      BY <1>0, <3>1 DEF Hushed
    <3> QED
      BY <1>0, <3>1, <3>2 DEF Hushed, Word
  <2> QED
    BY <1>0, <1>2, <2>1, ScreenChanges DEF Hushed
<1> QED
  BY <1>1, <1>2 DEF Next

(* Once a client was told that a session exited, nothing of it is added to *)
(* what the client shows (ws-server.ts:607-631): the exit listener sends   *)
(* the coalesced output before the exit, and no frame overtakes another,   *)
(* whatever clients there are and whatever is lost, times out or           *)
(* reconnects.  (An SSH session may say more after its first exit.)        *)
THEOREM NothingMoreAfterExit ==
    ASSUME MaxIncs = 1, "create_ssh" \notin ClientOps
    PROVE  Spec => NothingAfterExit
<1>1. Init => Typed /\ EInv
  BY TypedInit, EInvInit
<1>2. Typed /\ EInv /\ [Next]_vars => (Typed /\ EInv)'
  BY TypedStep, EInvStep
<1>3. Typed /\ EInv /\ [Next]_vars =>
        [\A c \in Clients, s \in Sessions :
            view[c][s].exited /\ view'[c][s].exited => view'[c][s].runs = view[c][s].runs]_vars
  BY ShownIsKept
<1> QED
  BY <1>1, <1>2, <1>3, PTL DEF Spec, NothingAfterExit

=============================================================================
