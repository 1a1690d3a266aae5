--------------------------- MODULE RelayFeed_proofs --------------------------
(***************************************************************************)
(* Relay implements TerminalFeed (Spec => FeedSpec): what a client is sent *)
(* of a session's output is one snapshot of the screen and then, without a *)
(* gap or a repetition, everything the session printed after it, for any   *)
(* sessions, clients, sizes and numbers of restarts, with requests that    *)
(* time out and connections that are lost.  The proof strengthens the      *)
(* invariant of Relay_proofs, which places every request and answer, with  *)
(* one that places every chunk of output.                                  *)
(***************************************************************************)
EXTENDS Relay_proofs

-----------------------------------------------------------------------------
(* The relay keeps the promise of TerminalFeed.                            *)

IsSnap(f, s) == f.type = "subscribed" /\ f.sid = s
IsOut(f, s) == f.type = "output" /\ f.sid = s
IsExit(f, s) == f.type = "exit" /\ f.sid = s

Snaps(q, s) == \E j \in 1 .. Len(q) : IsSnap(q[j], s)
Exits(q, s) == \E j \in 1 .. Len(q) : IsExit(q[j], s)
Words(q, s) == \E j \in 1 .. Len(q) : Word(q[j], s)

(* The chunks of s in the queue q are n + 1, n + 2, ..., m, in this order. *)
Chain(q, s, n, m) ==
    /\ \A j \in 1 .. Len(q) : IsOut(q[j], s) => q[j].from = q[j].to /\ n < q[j].to /\ q[j].to <= m
    /\ \A i, j \in 1 .. Len(q) : i < j /\ IsOut(q[i], s) /\ IsOut(q[j], s) => q[i].to < q[j].to
    /\ \A k \in n + 1 .. m : \E j \in 1 .. Len(q) : IsOut(q[j], s) /\ q[j].to = k

(* The i-th frame of q is the one snapshot of s in it, answers request n,  *)
(* and is in front of all output of s.                                     *)
Opening(q, i, s, n) ==
    /\ IsSnap(q[i], s) /\ q[i].id = n
    /\ \A j \in 1 .. Len(q) : IsSnap(q[j], s) => j = i
    /\ \A j \in 1 .. Len(q) : Word(q[j], s) => i < j
    /\ 1 <= q[i].from /\ (q[i].from <= q[i].to \/ q[i].to = 0)

(* The queue r says of s what q says. *)
QueueKept(q, r, s) ==
    /\ \A n, m \in Nat : Chain(q, s, n, m) => Chain(r, s, n, m)
    /\ Exits(r, s) => Exits(q, s)
    /\ Snaps(r, s) => Snaps(q, s)
    /\ Words(r, s) => Words(q, s)
    /\ \A i \in 1 .. Len(q), n \in Nat :
          Opening(q, i, s, n) =>
              \E j \in 1 .. Len(r) : Opening(r, j, s, n) /\ r[j].to = q[i].to

LEMMA QueueShifted ==
    ASSUME NEW q \in Seq(ServerFrame), NEW r \in Seq(ServerFrame), NEW s, NEW d \in Nat,
           \A j \in 1 .. Len(r) : Word(r[j], s) \/ IsSnap(r[j], s) =>
               j + d \in 1 .. Len(q) /\ q[j + d] = r[j],
           \A j \in 1 .. Len(q) : Word(q[j], s) \/ IsSnap(q[j], s) =>
               j - d \in 1 .. Len(r) /\ r[j - d] = q[j]
    PROVE  QueueKept(q, r, s)
<1>0. /\ \A f : IsOut(f, s) => Word(f, s)
      /\ \A f : IsExit(f, s) => Word(f, s)
  BY DEF IsOut, IsExit, Word
<1>1. /\ Exits(r, s) => Exits(q, s)
      /\ Snaps(r, s) => Snaps(q, s)
      /\ Words(r, s) => Words(q, s)
  BY <1>0 DEF Exits, Snaps, Words
<1>2. ASSUME NEW n \in Nat, NEW m \in Nat, Chain(q, s, n, m)
      PROVE  Chain(r, s, n, m)
  <2>1. \A j \in 1 .. Len(r) : IsOut(r[j], s) => r[j].from = r[j].to /\ n < r[j].to /\ r[j].to <= m
    BY <1>0, <1>2 DEF Chain
  <2>2. ASSUME NEW i \in 1 .. Len(r), NEW j \in 1 .. Len(r), i < j, IsOut(r[i], s), IsOut(r[j], s)
        PROVE  r[i].to < r[j].to
    <3>1. /\ i + d \in 1 .. Len(q) /\ q[i + d] = r[i] /\ j + d \in 1 .. Len(q) /\ q[j + d] = r[j]
          /\ i + d < j + d
      BY <1>0, <2>2
    <3> QED
      BY <1>2, <2>2, <3>1 DEF Chain
  <2>3. ASSUME NEW k \in n + 1 .. m
        PROVE  \E j \in 1 .. Len(r) : IsOut(r[j], s) /\ r[j].to = k
    <3>1. PICK j \in 1 .. Len(q) : IsOut(q[j], s) /\ q[j].to = k
      BY <1>2 DEF Chain
    <3>2. j - d \in 1 .. Len(r) /\ r[j - d] = q[j]
      BY <1>0, <3>1
    <3> QED
      BY <3>1, <3>2
  <2> QED
    BY <2>1, <2>2, <2>3 DEF Chain
<1>3. ASSUME NEW i \in 1 .. Len(q), NEW n \in Nat, Opening(q, i, s, n)
      PROVE  \E j \in 1 .. Len(r) : Opening(r, j, s, n) /\ r[j].to = q[i].to
  <2>1. i - d \in 1 .. Len(r) /\ r[i - d] = q[i]
    BY <1>3 DEF Opening
  <2>2. ASSUME NEW j \in 1 .. Len(r), IsSnap(r[j], s)
        PROVE  j = i - d
    <3>1. j + d \in 1 .. Len(q) /\ q[j + d] = r[j]
      BY <2>2
    <3>2. j + d = i
      BY <1>3, <2>2, <3>1 DEF Opening
    <3> QED
      BY <3>2
  <2>3. ASSUME NEW j \in 1 .. Len(r), Word(r[j], s)
        PROVE  i - d < j
    <3>1. j + d \in 1 .. Len(q) /\ q[j + d] = r[j]
      BY <2>3
    <3>2. i < j + d
      BY <1>3, <2>3, <3>1 DEF Opening
    <3> QED
      BY <3>2
  <2>4. Opening(r, i - d, s, n)
    BY <1>3, <2>1, <2>2, <2>3 DEF Opening
  <2> QED
    BY <2>1, <2>4
<1> QED
  BY <1>1, <1>2, <1>3 DEF QueueKept

LEMMA QueueGrown ==
    ASSUME NEW q \in Seq(ServerFrame), NEW r \in Seq(ServerFrame), NEW s, NEW W, Grown(q, r, W),
           \A f \in W : ~Word(f, s) /\ ~IsSnap(f, s)
    PROVE  QueueKept(q, r, s)
<1>1. \A j \in 1 .. Len(r) : Word(r[j], s) \/ IsSnap(r[j], s) => j + 0 \in 1 .. Len(q) /\ q[j + 0] = r[j]
  BY DEF Grown
<1>2. \A j \in 1 .. Len(q) : j - 0 \in 1 .. Len(r) /\ r[j - 0] = q[j]
  BY DEF Grown
<1> QED
  BY <1>1, <1>2, QueueShifted

LEMMA QueueRead ==
    ASSUME NEW q \in Seq(ServerFrame), NEW s, q # <<>>, ~Word(Head(q), s), ~IsSnap(Head(q), s)
    PROVE  QueueKept(q, Tail(q), s)
<1>1. /\ Tail(q) \in Seq(ServerFrame) /\ Head(q) = q[1]
      /\ \A j \in 1 .. Len(Tail(q)) : j + 1 \in 1 .. Len(q) /\ q[j + 1] = Tail(q)[j]
      /\ \A j \in 1 .. Len(q) : j = 1 \/ (j - 1 \in 1 .. Len(Tail(q)) /\ Tail(q)[j - 1] = q[j])
  OBVIOUS
<1>2. \A j \in 1 .. Len(q) : Word(q[j], s) \/ IsSnap(q[j], s) => j # 1
  BY <1>1
<1> QED
  BY <1>1, <1>2, QueueShifted

LEMMA FrameEnds == \A f \in ServerFrame : f.from \in Nat /\ f.to \in Nat /\ f.id \in Nat
BY DEF ServerFrame

(* A chunk is produced; the session exits. *)
LEMMA ChainGrows ==
    ASSUME NEW q \in Seq(ServerFrame), NEW s, NEW n \in Nat, NEW m \in Nat, Chain(q, s, n, m), n <= m,
           NEW f \in ServerFrame
    PROVE  /\ IsOut(f, s) /\ f.from = m + 1 /\ f.to = m + 1 => Chain(Append(q, f), s, n, m + 1)
           /\ IsExit(f, s) => Chain(Append(q, f), s, n, m)
<1> DEFINE r == Append(q, f)
<1>1. /\ Len(r) = Len(q) + 1 /\ r[Len(q) + 1] = f /\ Len(q) \in Nat
      /\ \A j \in 1 .. Len(q) : r[j] = q[j] /\ q[j].to \in Nat
      /\ \A j \in 1 .. Len(r) : j = Len(q) + 1 \/ j \in 1 .. Len(q)
  <2>1. /\ Len(r) = Len(q) + 1 /\ r[Len(q) + 1] = f /\ Len(q) \in Nat
        /\ \A j \in 1 .. Len(q) : r[j] = q[j] /\ q[j] \in ServerFrame
        /\ \A j \in 1 .. Len(q) + 1 : j = Len(q) + 1 \/ j \in 1 .. Len(q)
    OBVIOUS
  <2> QED
    BY <2>1, FrameEnds
<1> HIDE DEF r
<1>2. ASSUME IsOut(f, s), f.from = m + 1, f.to = m + 1
      PROVE  Chain(r, s, n, m + 1)
  <2>1. \A j \in 1 .. Len(r) :
            IsOut(r[j], s) => r[j].from = r[j].to /\ n < r[j].to /\ r[j].to <= m + 1
    BY <1>1, <1>2 DEF Chain
  <2>2. \A i, j \in 1 .. Len(r) : i < j /\ IsOut(r[i], s) /\ IsOut(r[j], s) => r[i].to < r[j].to
    BY <1>1, <1>2 DEF Chain
  <2>3. ASSUME NEW k \in n + 1 .. m + 1
        PROVE  \E j \in 1 .. Len(r) : IsOut(r[j], s) /\ r[j].to = k
    <3>1. CASE k = m + 1
      <4>1. Len(q) + 1 \in 1 .. Len(r)
        BY <1>1
      <4> QED
        BY <1>1, <1>2, <3>1, <4>1
    <3>2. CASE k \in n + 1 .. m
      <4>1. PICK j \in 1 .. Len(q) : IsOut(q[j], s) /\ q[j].to = k
        BY <3>2 DEF Chain
      <4>2. j \in 1 .. Len(r)
        BY <1>1
      <4> QED
        BY <1>1, <4>1, <4>2
    <3> QED
      BY <3>1, <3>2
  <2> QED
    BY <2>1, <2>2, <2>3 DEF Chain
<1>3. ASSUME IsExit(f, s)
      PROVE  Chain(r, s, n, m)
  <2>1. ~IsOut(f, s)
    BY <1>3 DEF IsOut, IsExit
  <2>2. \A j \in 1 .. Len(r) : IsOut(r[j], s) => j \in 1 .. Len(q) /\ r[j] = q[j]
    BY <1>1, <2>1
  <2>3. \A j \in 1 .. Len(r) : IsOut(r[j], s) => r[j].from = r[j].to /\ n < r[j].to /\ r[j].to <= m
    BY <2>2 DEF Chain
  <2>4. \A i, j \in 1 .. Len(r) : i < j /\ IsOut(r[i], s) /\ IsOut(r[j], s) => r[i].to < r[j].to
    BY <2>2 DEF Chain
  <2>5. ASSUME NEW k \in n + 1 .. m
        PROVE  \E j \in 1 .. Len(r) : IsOut(r[j], s) /\ r[j].to = k
    <3>1. PICK j \in 1 .. Len(q) : IsOut(q[j], s) /\ q[j].to = k
      BY DEF Chain
    <3>2. j \in 1 .. Len(r)
      BY <1>1
    <3> QED
      BY <1>1, <3>1, <3>2
  <2> QED
    BY <2>3, <2>4, <2>5 DEF Chain
<1> QED
  BY <1>2, <1>3 DEF r

(* The oldest chunk is read. *)
LEMMA ChainRead ==
    ASSUME NEW q \in Seq(ServerFrame), NEW s, NEW n \in Nat, NEW m \in Nat, Chain(q, s, n, m),
           q # <<>>, IsOut(Head(q), s)
    PROVE  /\ Head(q).from = n + 1 /\ Head(q).to = n + 1 /\ n + 1 <= m
           /\ Chain(Tail(q), s, n + 1, m)
<1> DEFINE r == Tail(q)
<1>1. /\ Head(q) = q[1] /\ 1 \in 1 .. Len(q) /\ q[1].to \in Nat
      /\ \A j \in 1 .. Len(r) : j + 1 \in 1 .. Len(q) /\ q[j + 1] = r[j] /\ 1 < j + 1
      /\ \A j \in 1 .. Len(q) : j = 1 \/ (j - 1 \in 1 .. Len(r) /\ r[j - 1] = q[j])
      /\ \A j \in 1 .. Len(q) : q[j].to \in Nat
  <2>1. \A j \in 1 .. Len(q) : q[j] \in ServerFrame
    OBVIOUS
  <2>2. /\ Head(q) = q[1] /\ 1 \in 1 .. Len(q)
        /\ \A j \in 1 .. Len(r) : j + 1 \in 1 .. Len(q) /\ q[j + 1] = r[j] /\ 1 < j + 1
        /\ \A j \in 1 .. Len(q) : j = 1 \/ (j - 1 \in 1 .. Len(r) /\ r[j - 1] = q[j])
    OBVIOUS
  <2> QED
    BY <2>1, <2>2, FrameEnds
<1> HIDE DEF r
<1>2. n < q[1].to /\ q[1].to <= m /\ q[1].from = q[1].to
  BY <1>1 DEF Chain
<1>3. PICK i \in 1 .. Len(q) : IsOut(q[i], s) /\ q[i].to = n + 1
  <2>1. n + 1 \in n + 1 .. m
    BY <1>1, <1>2
  <2> QED
    BY <2>1 DEF Chain
<1>4. i = 1
  <2>1. SUFFICES ASSUME 1 < i
                 PROVE  FALSE
    OBVIOUS
  <2>2. q[1].to < q[i].to
    BY <1>1, <1>3, <2>1 DEF Chain
  <2> QED
    BY <1>1, <1>2, <1>3, <2>2
<1>5. ASSUME NEW j \in 1 .. Len(r), IsOut(r[j], s)
      PROVE  r[j].from = r[j].to /\ n + 1 < r[j].to /\ r[j].to <= m
  <2>1. j + 1 \in 1 .. Len(q) /\ q[j + 1] = r[j] /\ i < j + 1
    BY <1>1, <1>4
  <2>2. q[i].to < q[j + 1].to
    BY <1>3, <1>5, <2>1 DEF Chain
  <2> QED
    BY <1>3, <1>5, <2>1, <2>2 DEF Chain
<1>6. ASSUME NEW i2 \in 1 .. Len(r), NEW j \in 1 .. Len(r), i2 < j, IsOut(r[i2], s), IsOut(r[j], s)
      PROVE  r[i2].to < r[j].to
  <2>1. i2 + 1 < j + 1
    BY <1>6
  <2> QED
    BY <1>1, <1>6, <2>1 DEF Chain
<1>7. ASSUME NEW k \in n + 1 + 1 .. m
      PROVE  \E j \in 1 .. Len(r) : IsOut(r[j], s) /\ r[j].to = k
  <2>1. k \in n + 1 .. m /\ k # n + 1
    OBVIOUS
  <2>2. PICK j \in 1 .. Len(q) : IsOut(q[j], s) /\ q[j].to = k
    BY <2>1 DEF Chain
  <2>3. j # 1
    BY <1>3, <1>4, <2>1, <2>2
  <2> QED
    BY <1>1, <2>2, <2>3
<1>8. Chain(r, s, n + 1, m)
  BY <1>5, <1>6, <1>7 DEF Chain
<1> QED
  BY <1>1, <1>2, <1>3, <1>4, <1>8 DEF r

(* No chunk waits. *)
LEMMA ChainEmpty ==
    ASSUME NEW q, NEW s, NEW n \in Nat, NEW m \in Nat
    PROVE  /\ ~Words(q, s) => Chain(q, s, n, n)
           /\ n <= m /\ Chain(q, s, n, m) /\ (\A j \in 1 .. Len(q) : ~IsOut(q[j], s)) => n = m
<1>1. ~Words(q, s) => \A j \in 1 .. Len(q) : ~IsOut(q[j], s)
  BY DEF Words, Word, IsOut
<1>2. n + 1 .. n = {} /\ (n < m => m \in n + 1 .. m)
  OBVIOUS
<1> QED
  BY <1>1, <1>2 DEF Chain

Asking(l, s) == l.type = "subscribe" /\ l.sid = s

Asks(L, s) == \E j \in 1 .. Len(L) : Asking(L[j], s)

(* At most one line of L asks for s, and it is request n. *)
AsksOnce(L, s, n) ==
    \A i, j \in 1 .. Len(L) : Asking(L[i], s) /\ Asking(L[j], s) => i = j /\ L[i].id = n

LinesKept(L, K, s) ==
    /\ Asks(K, s) => Asks(L, s)
    /\ \A n \in Nat : AsksOnce(L, s, n) => AsksOnce(K, s, n)

(* The supervisor sends the gateway the output of s. *)
On(s) == gwConn \in subscribers[s] /\ conn[gwConn] = "open"

(* Nothing was asked of s on this connection, and nothing is sent. *)
Untouched(s) ==
    /\ s \notin subscribed /\ pendingOutput[s] = <<>>
    /\ gwConn \in Conns =>
         /\ ~Asks(toSup[gwConn], s) /\ ~On(s)
         /\ ~Snaps(toGw[gwConn], s) /\ ~Words(toGw[gwConn], s)

(* After chunk n of s come n + 1, n + 2, ... up to the last one, unless    *)
(* the supervisor stopped sending.                                         *)
Follows(s, n) ==
    \E m \in Nat :
        /\ n <= m /\ m <= produced[s]
        /\ Chain(toGw[gwConn], s, n, m)
        /\ On(s) \/ Exits(toGw[gwConn], s) => m = produced[s]

Stream(s, n) ==
    /\ gwConn \in Conns
    /\ ~Asks(toSup[gwConn], s) /\ ~Snaps(toGw[gwConn], s)
    /\ Follows(s, n)

(* The coalescing buffer holds the chunks after n. *)
Held(s, n) == \A i \in 1 .. Len(pendingOutput[s]) : pendingOutput[s][i] = Piece(n + i, n + i)

(* What a screen that ends with chunk n of s will be sent. *)
Flow(s, n) == Hushed(s) \/ (Held(s, n) /\ Stream(s, n + Len(pendingOutput[s])))

(* The answer to request n, which subscribes to s, is still to be read. *)
Expected(n, s) ==
    /\ pendingOutput[s] = <<>>
    /\ AsksOnce(toSup[gwConn], s, n)
    /\ \/ ~On(s) /\ ~Snaps(toGw[gwConn], s) /\ ~Words(toGw[gwConn], s)
       \/ /\ ~Asks(toSup[gwConn], s)
          /\ \E i \in 1 .. Len(toGw[gwConn]) :
                Opening(toGw[gwConn], i, s, n) /\ Follows(s, toGw[gwConn][i].to)

(* A step that has nothing to do with s. *)
Calm(s) ==
    /\ UNCHANGED gwConn
    /\ pendingOutput'[s] = pendingOutput[s] /\ produced'[s] = produced[s]
    /\ gwConn \in Conns =>
         /\ LinesKept(toSup[gwConn], toSup'[gwConn], s)
         /\ QueueKept(toGw[gwConn], toGw'[gwConn], s)
         /\ On(s)' => On(s)

LEMMA CalmKeeps ==
    ASSUME Typed, NEW s \in Sessions, Calm(s)
    PROVE  /\ Untouched(s) /\ s \notin subscribed' => Untouched(s)'
           /\ \A n \in Nat : Stream(s, n) => Stream(s, n)'
           /\ \A n \in Nat : Held(s, n) => Held(s, n)'
           /\ \A n \in Nat : gwConn \in Conns /\ Expected(n, s) => Expected(n, s)'
           /\ \A n \in Nat : Flow(s, n) /\ (Hushed(s) => Hushed(s)') => Flow(s, n)'
<1>0. produced[s] \in Nat /\ pendingOutput[s] \in Seq(Stretch) /\ toGw \in [Conns -> Seq(ServerFrame)]
  BY DEF Typed, TypeOK, SupTypeOK, GwTypeOK, IpcTypeOK
<1>1. Untouched(s) /\ s \notin subscribed' => Untouched(s)'
  BY DEF Calm, Untouched, LinesKept, QueueKept
<1>2. ASSUME NEW n \in Nat, gwConn \in Conns, Follows(s, n)
      PROVE  Follows(s, n)'
  <2>1. PICK m \in Nat : /\ n <= m /\ m <= produced[s]
                         /\ Chain(toGw[gwConn], s, n, m)
                         /\ On(s) \/ Exits(toGw[gwConn], s) => m = produced[s]
    BY <1>2 DEF Follows
  <2>2. /\ Chain(toGw'[gwConn], s, n, m) /\ gwConn' = gwConn /\ produced'[s] = produced[s]
        /\ On(s)' => On(s)
        /\ Exits(toGw'[gwConn], s) => Exits(toGw[gwConn], s)
    BY <1>2, <2>1 DEF Calm, QueueKept
  <2> QED
    BY <2>1, <2>2 DEF Follows
<1>3. ASSUME NEW n \in Nat, Stream(s, n)
      PROVE  Stream(s, n)'
  BY <1>2, <1>3 DEF Stream, Calm, LinesKept, QueueKept
<1>4. ASSUME NEW n \in Nat, Held(s, n)
      PROVE  Held(s, n)'
  BY <1>4 DEF Held, Calm
<1>5. ASSUME NEW n \in Nat, gwConn \in Conns, Expected(n, s)
      PROVE  Expected(n, s)'
  <2>1. pendingOutput'[s] = <<>> /\ gwConn' = gwConn /\ AsksOnce(toSup'[gwConn], s, n)
    BY <1>5 DEF Expected, Calm, LinesKept
  <2>2. CASE ~On(s) /\ ~Snaps(toGw[gwConn], s) /\ ~Words(toGw[gwConn], s)
    BY <1>5, <2>1, <2>2 DEF Expected, Calm, QueueKept
  <2>3. ASSUME ~Asks(toSup[gwConn], s), NEW i \in 1 .. Len(toGw[gwConn]),
               Opening(toGw[gwConn], i, s, n), Follows(s, toGw[gwConn][i].to)
        PROVE  Expected(n, s)'
    <3>1. PICK j \in 1 .. Len(toGw'[gwConn]) :
              Opening(toGw'[gwConn], j, s, n) /\ toGw'[gwConn][j].to = toGw[gwConn][i].to
      BY <1>5, <2>3 DEF Calm, QueueKept
    <3>2. toGw[gwConn][i].to \in Nat
      <4>1. toGw[gwConn][i] \in ServerFrame
        BY <1>0, <1>5
      <4> QED
        BY <4>1, FrameEnds
    <3>3. PICK k \in Nat : k = toGw[gwConn][i].to
      BY <3>2
    <3>4. Follows(s, k)'
      BY <1>2, <1>5, <2>3, <3>3
    <3>5. /\ ~Asks(toSup'[gwConn], s) /\ Opening(toGw'[gwConn], j, s, n) /\ toGw'[gwConn][j].to = k
          /\ j \in 1 .. Len(toGw'[gwConn])
      BY <1>5, <2>3, <3>1, <3>3 DEF Calm, LinesKept
    <3> QED
      BY <2>1, <3>4, <3>5 DEF Expected
  <2> QED
    BY <1>5, <2>2, <2>3 DEF Expected
<1>6. ASSUME NEW n \in Nat, Flow(s, n), Hushed(s) => Hushed(s)'
      PROVE  Flow(s, n)'
  <2>1. n + Len(pendingOutput[s]) \in Nat /\ pendingOutput'[s] = pendingOutput[s]
    BY <1>0 DEF Calm
  <2> QED
    BY <1>3, <1>4, <1>6, <2>1 DEF Flow
<1> QED
  BY <1>1, <1>3, <1>4, <1>5, <1>6

LEMMA FewerAsks ==
    ASSUME NEW L \in Seq(ClientMessage), NEW s
    PROVE  LinesKept(L, L, s) /\ (L # <<>> => LinesKept(L, Tail(L), s))
<1>1. L # <<>> =>
         /\ \A j \in 1 .. Len(Tail(L)) : j + 1 \in 1 .. Len(L) /\ L[j + 1] = Tail(L)[j]
         /\ \A i, j \in 1 .. Len(Tail(L)) : i + 1 = j + 1 => i = j
  OBVIOUS
<1> QED
  BY <1>1 DEF LinesKept, Asks, AsksOnce

LEMMA QueueStays ==
    ASSUME NEW q, NEW s
    PROVE  QueueKept(q, q, s)
BY DEF QueueKept

(* The rings, of ids that are used once. *)
Rings ==
    \A s \in Sessions : current[s] # 0 =>
        /\ 1 <= scrollback[s] /\ scrollback[s] <= produced[s] + 1
        /\ scrollback[s] <= produced[s] \/ produced[s] = 0

(* What a step of the supervisor may have to do with s. *)
Outputs(s) ==
    /\ ~Over(s) /\ produced'[s] = produced[s] + 1
    /\ On(s)' => On(s)
    /\ UNCHANGED toSup
    /\ toGw'[gwConn] =
         IF On(s)
           THEN Append(toGw[gwConn], OutputFrame("output", s, 0, produced[s] + 1, produced[s] + 1))
           ELSE toGw[gwConn]

Ends(s) ==
    /\ On(s) /\ produced'[s] = produced[s]
    /\ UNCHANGED toSup
    /\ toGw'[gwConn] = Append(toGw[gwConn], Frame("exit", s, 0))

Grants(s) ==
    /\ toSup[gwConn] # <<>> /\ Asking(Head(toSup[gwConn]), s)
    /\ toSup'[gwConn] = Tail(toSup[gwConn])
    /\ current[s] # 0 /\ produced'[s] = produced[s]
    /\ toGw'[gwConn] =
         Append(toGw[gwConn],
                OutputFrame("subscribed", s, Head(toSup[gwConn]).id, scrollback[s], produced[s]))

LEMMA SupervisorTells ==
    ASSUME MaxIncs = 1, Typed, Typed', EInv, PromisesKept, SupervisorStep, NEW s \in Sessions,
           gwConn \in Conns
    PROVE  Calm(s) \/ Outputs(s) \/ Ends(s) \/ Grants(s)
<1>0. /\ Terminals /\ NoSshAsked /\ Endings /\ Removals
      /\ UNCHANGED <<gwConn, pendingOutput>>
      /\ toGw \in [Conns -> Seq(ServerFrame)] /\ toGw' \in [Conns -> Seq(ServerFrame)]
      /\ toSup \in [Conns -> Seq(ClientMessage)] /\ Incs = {1}
      /\ subscribers \in [Sessions -> SUBSET Conns] /\ produced \in [Sessions -> Nat]
      /\ conn \in [Conns -> {"none", "open", "destroyed", "closed"}]
  BY OneProcess DEF EInv, SupervisorStep, scVars, gwVars, Typed, TypeOK, IpcTypeOK, SupTypeOK
<1>1. LinesKept(toSup[gwConn], toSup'[gwConn], s)
  <2>1. toSup[gwConn] \in Seq(ClientMessage)
    BY <1>0
  <2> QED
    BY <2>1, LinesRead, FewerAsks
<1>2. ASSUME NEW W, Written(toGw, toGw', W), \A f \in W : ~Word(f, s) /\ ~IsSnap(f, s),
             produced'[s] = produced[s], On(s)' => On(s)
      PROVE  Calm(s)
  <2>1. toGw[gwConn] \in Seq(ServerFrame) /\ toGw'[gwConn] \in Seq(ServerFrame)
    BY <1>0
  <2>2. QueueKept(toGw[gwConn], toGw'[gwConn], s)
    BY <1>2, <2>1, QueueGrown DEF Written
  <2> QED
    BY <1>0, <1>1, <1>2, <2>2 DEF Calm
<1>3. ASSUME NEW c \in Conns, HandleMessage(c), ~Subscribe(c)
      PROVE  Calm(s)
  <2>1. PICK W : Plain(W) /\ Written(toGw, toGw', W) /\ Mute(W)
    BY <1>3, HandleWrites
  <2>2. \A f \in W : ~Word(f, s) /\ ~IsSnap(f, s)
    BY <2>1 DEF Plain, Mute, Word, IsSnap
  <2>3. /\ UNCHANGED <<produced, conn>>
        /\ UNCHANGED subscribers \/ Unsubscribe(c)
    BY <1>3 DEF HandleMessage, Hello, Unauthorized, List, Create, CreateSsh,
                Forward, Resize, supVars, connVars, Unsubscribe
  <2>4. subscribers'[s] \subseteq subscribers[s]
    <3>1. CASE Unsubscribe(c)
      <4>1. subscribers' = [subscribers EXCEPT ![Head(toSup[c]).sid] = @ \ {c}]
        BY <3>1 DEF Unsubscribe
      <4> QED
        BY <1>0, <4>1
    <3> QED
      BY <2>3, <3>1
  <2>5. On(s)' => On(s)
    BY <1>0, <2>3, <2>4 DEF On
  <2> QED
    BY <1>2, <2>1, <2>2, <2>3, <2>5
<1>4. ASSUME NEW c \in Conns, Subscribe(c)
      PROVE  Calm(s) \/ Grants(s)
  <2> DEFINE m == Head(toSup[c])
             f == OutputFrame("subscribed", m.sid, m.id, scrollback[m.sid], produced[m.sid])
             e == Frame("error", m.sid, m.id)
  <2>1. /\ toSup[c] # <<>> /\ m.type = "subscribe" /\ toSup' = [toSup EXCEPT ![c] = Tail(@)]
        /\ UNCHANGED <<produced, conn>>
        /\ \/ /\ current[m.sid] # 0 /\ toGw' = Sent(toGw, c, f)
              /\ subscribers' = [subscribers EXCEPT ![m.sid] = @ \cup {c}]
           \/ toGw' = Sent(toGw, c, e) /\ UNCHANGED subscribers
    BY <1>4 DEF Subscribe, Receive, SendTo, Reply
  <2>2. /\ f.sid = m.sid /\ f.type = "subscribed"
        /\ e.sid = m.sid /\ e.type = "error"
    BY DEF OutputFrame, Frame
  <2> HIDE DEF e
  <2>3. CASE toGw' = Sent(toGw, c, e) /\ UNCHANGED subscribers
    <3>1. Written(toGw, toGw', {e}) /\ \A g \in {e} : ~Word(g, s) /\ ~IsSnap(g, s)
      <4>1. e \in {e}
        OBVIOUS
      <4> QED
        BY <1>0, <2>2, <2>3, <4>1, OneFrame DEF Word, IsSnap
    <3> QED
      BY <1>0, <1>2, <2>1, <2>3, <3>1 DEF On
  <2>4. CASE /\ current[m.sid] # 0 /\ toGw' = Sent(toGw, c, f)
             /\ subscribers' = [subscribers EXCEPT ![m.sid] = @ \cup {c}]
    <3>1. CASE m.sid # s
      <4>1. Written(toGw, toGw', {f}) /\ \A g \in {f} : ~Word(g, s) /\ ~IsSnap(g, s)
        <5> HIDE DEF f
        <5>1. f \in {f}
          OBVIOUS
        <5> QED
          BY <1>0, <2>2, <2>4, <3>1, <5>1, OneFrame DEF Word, IsSnap
      <4>2. subscribers'[s] = subscribers[s]
        BY <1>0, <2>4, <3>1
      <4> QED
        BY <1>0, <1>2, <2>1, <4>1, <4>2 DEF On
    <3>2. CASE c # gwConn \/ conn[gwConn] # "open"
      <4>1. toGw'[gwConn] = toGw[gwConn]
        BY <1>0, <2>4, <3>2 DEF Sent, Live
      <4>2. On(s)' => On(s)
        BY <1>0, <2>1, <2>4, <3>2 DEF On
      <4> QED
        BY <1>0, <1>1, <2>1, <4>1, <4>2, QueueStays DEF Calm
    <3>3. CASE m.sid = s /\ c = gwConn /\ conn[gwConn] = "open"
      <4>1. toGw'[gwConn] = Append(toGw[gwConn], f)
        BY <1>0, <2>4, <3>3 DEF Sent, Live
      <4>2. toSup'[gwConn] = Tail(toSup[gwConn])
        BY <1>0, <2>1, <3>3
      <4> QED
        BY <2>1, <2>4, <3>3, <4>1, <4>2 DEF Grants, Asking
    <3> QED
      BY <3>1, <3>2, <3>3
  <2> QED
    BY <2>1, <2>3, <2>4
<1>5. ASSUME NEW z \in Sessions, NEW i \in Incs,
             \/ Data(z, i) \/ PtyExit(z, i)
             \/ SshReady(z, i) \/ SshFatal(z, i) \/ SshStreamClose(z, i)
      PROVE  Calm(s) \/ Outputs(s) \/ Ends(s)
  <2>1. i = 1 /\ proc[z][1].kind # "ssh"
    BY <1>0, <1>5 DEF Terminals, Lives
  <2>2. CASE Data(z, i)
    <3> DEFINE n == produced[z] + 1
               f == OutputFrame("output", z, 0, n, n)
    <3>1. /\ toGw' = FanOut(toGw, z, f) /\ produced' = [produced EXCEPT ![z] = n]
          /\ UNCHANGED <<toSup, conn, subscribers>> /\ ~Over(z)
      BY <2>1, <2>2 DEF Data, Emit, Over
    <3>2. f.sid = z /\ f.type = "output"
      BY DEF OutputFrame
    <3>3. On(s)' => On(s)
      BY <1>0, <3>1 DEF On
    <3>4. CASE z # s
      <4> HIDE DEF f
      <4>1. Written(toGw, toGw', {f}) /\ \A g \in {f} : ~Word(g, s) /\ ~IsSnap(g, s)
        <5>1. f \in {f}
          OBVIOUS
        <5> QED
          BY <1>0, <3>1, <3>2, <3>4, <5>1, OneFrame DEF Word, IsSnap
      <4>2. produced'[s] = produced[s]
        BY <1>0, <3>1, <3>4
      <4> QED
        BY <1>2, <3>3, <4>1, <4>2
    <3>5. CASE z = s
      <4>1. toGw'[gwConn] = IF On(s) THEN Append(toGw[gwConn], f) ELSE toGw[gwConn]
        BY <1>0, <3>1, <3>5 DEF FanOut, On, Live
      <4>2. produced'[s] = produced[s] + 1
        BY <1>0, <3>1, <3>5
      <4> QED
        BY <3>1, <3>3, <3>5, <4>1, <4>2 DEF Outputs
    <3> QED
      BY <3>4, <3>5
  <2>3. CASE PtyExit(z, i)
    <3> DEFINE f == Frame("exit", z, 0)
    <3>1. toGw' = FanOut(toGw, z, f) /\ UNCHANGED <<toSup, conn, subscribers, produced>>
      BY <2>3 DEF PtyExit, EmitExit
    <3>2. f.sid = z /\ f.type = "exit"
      BY DEF Frame
    <3>3. On(s)' => On(s)
      BY <1>0, <3>1 DEF On
    <3>4. CASE z # s
      <4> HIDE DEF f
      <4>1. Written(toGw, toGw', {f}) /\ \A g \in {f} : ~Word(g, s) /\ ~IsSnap(g, s)
        <5>1. f \in {f}
          OBVIOUS
        <5> QED
          BY <1>0, <3>1, <3>2, <3>4, <5>1, OneFrame DEF Word, IsSnap
      <4> QED
        BY <1>2, <3>1, <3>3, <4>1
    <3>5. CASE z = s
      <4>1. toGw'[gwConn] = IF On(s) THEN Append(toGw[gwConn], f) ELSE toGw[gwConn]
        BY <1>0, <3>1, <3>5 DEF FanOut, On, Live
      <4>2. CASE On(s)
        BY <3>1, <3>5, <4>1, <4>2 DEF Ends
      <4>3. CASE ~On(s)
        BY <1>0, <1>1, <3>1, <3>3, <4>1, <4>3, QueueStays DEF Calm
      <4> QED
        BY <4>2, <4>3
    <3> QED
      BY <3>4, <3>5
  <2> QED
    BY <1>5, <2>1, <2>2, <2>3 DEF SshReady, SshFatal, SshStreamClose
<1>6. CASE RunImmediate
  <2>1. PICK z : z = Head(immediates).sid
    OBVIOUS
  <2> DEFINE f == Frame("removed", z, 0)
  <2>2. Head(immediates).run = "removed"
    <3>1. immediates # <<>> /\ immediates \in Seq(Immediate)
      BY <1>6 DEF RunImmediate, Typed, TypeOK, SupTypeOK
    <3>2. Head(immediates) = immediates[1] /\ 1 \in 1 .. Len(immediates)
      BY <3>1
    <3> QED
      BY <1>0, <3>2 DEF Removals
  <2>3. /\ toGw' = Broadcast(toGw, f) /\ UNCHANGED <<produced, conn>>
        /\ subscribers' = [subscribers EXCEPT ![z] = {}]
    BY <1>6, <2>1, <2>2 DEF RunImmediate, RunRemoved, connVars
  <2>4. f.type = "removed"
    BY DEF Frame
  <2> HIDE DEF f
  <2>5. Written(toGw, toGw', {f}) /\ \A g \in {f} : ~Word(g, s) /\ ~IsSnap(g, s)
    <3>1. f \in {f}
      OBVIOUS
    <3> QED
      BY <1>0, <2>3, <2>4, <3>1, OneFrame DEF Word, IsSnap
  <2>6. On(s)' => On(s)
    BY <1>0, <2>3 DEF On
  <2> QED
    BY <1>2, <2>3, <2>5, <2>6
<1>7. ASSUME NEW c \in Conns, (gwConn = c /\ Accept(c)) \/ Destroy(c) \/ Close(c)
      PROVE  Calm(s)
  <2>1. UNCHANGED <<ipcVars, produced>>
    BY <1>7 DEF Accept, Destroy, Close
  <2>2. On(s)' => On(s)
    <3>1. CASE Accept(c) /\ gwConn = c
      <4>1. conn[gwConn] = "none" /\ UNCHANGED subscribers
        BY <3>1 DEF Accept
      <4>2. gwConn \notin subscribers[s]
        BY <4>1 DEF PromisesKept, Open!NoStaleSubscriber
      <4> QED
        BY <1>0, <4>1, <4>2 DEF On
    <3>2. CASE Destroy(c)
      BY <1>0, <3>2 DEF Destroy, On
    <3>3. CASE Close(c)
      <4>1. conn' = [conn EXCEPT ![c] = "closed"] /\ subscribers'[s] \subseteq subscribers[s]
        BY <1>0, <3>3 DEF Close
      <4> QED
        BY <1>0, <4>1 DEF On
    <3> QED
      BY <1>7, <3>1, <3>2, <3>3
  <2> QED
    BY <1>0, <1>1, <2>1, <2>2, QueueStays DEF Calm, ipcVars
<1> QED
  BY <1>3, <1>4, <1>5, <1>6, <1>7 DEF SupervisorStep

LEMMA OpeningGrows ==
    ASSUME NEW q \in Seq(ServerFrame), NEW f \in ServerFrame, NEW s, NEW n, NEW i \in 1 .. Len(q),
           Opening(q, i, s, n), ~IsSnap(f, s)
    PROVE  /\ i \in 1 .. Len(Append(q, f)) /\ Append(q, f)[i].to = q[i].to
           /\ Opening(Append(q, f), i, s, n)
<1>1. /\ i \in 1 .. Len(Append(q, f)) /\ Append(q, f)[i] = q[i]
      /\ \A j \in 1 .. Len(Append(q, f)) :
            \/ j \in 1 .. Len(q) /\ Append(q, f)[j] = q[j]
            \/ i < j /\ Append(q, f)[j] = f
  OBVIOUS
<1> QED
  BY <1>1 DEF Opening

(* The first snapshot of s in a queue that says nothing of s. *)
LEMMA OpeningMade ==
    ASSUME NEW q \in Seq(ServerFrame), NEW f \in ServerFrame, NEW s, IsSnap(f, s),
           ~Snaps(q, s), ~Words(q, s), 1 <= f.from, f.from <= f.to \/ f.to = 0
    PROVE  /\ Len(q) + 1 \in 1 .. Len(Append(q, f)) /\ Append(q, f)[Len(q) + 1] = f
           /\ Opening(Append(q, f), Len(q) + 1, s, f.id)
           /\ ~Words(Append(q, f), s)
<1>1. /\ Len(q) + 1 \in 1 .. Len(Append(q, f)) /\ Append(q, f)[Len(q) + 1] = f
      /\ \A j \in 1 .. Len(Append(q, f)) :
            \/ j \in 1 .. Len(q) /\ Append(q, f)[j] = q[j]
            \/ j = Len(q) + 1 /\ Append(q, f)[j] = f
  OBVIOUS
<1>2. ~Word(f, s)
  BY DEF IsSnap, Word
<1>3. \A j \in 1 .. Len(Append(q, f)) : ~Word(Append(q, f)[j], s)
  BY <1>1, <1>2 DEF Words
<1>4. \A j \in 1 .. Len(Append(q, f)) : IsSnap(Append(q, f)[j], s) => j = Len(q) + 1
  BY <1>1 DEF Snaps
<1> QED
  BY <1>1, <1>3, <1>4 DEF Opening, Words

LEMMA NoMoreAsks ==
    ASSUME NEW L \in Seq(ClientMessage), NEW s, NEW n, L # <<>>, AsksOnce(L, s, n), Asking(Head(L), s)
    PROVE  Head(L).id = n /\ ~Asks(Tail(L), s) /\ AsksOnce(Tail(L), s, n) /\ Asks(L, s)
<1>1. /\ Head(L) = L[1] /\ 1 \in 1 .. Len(L)
      /\ \A j \in 1 .. Len(Tail(L)) : j + 1 \in 1 .. Len(L) /\ L[j + 1] = Tail(L)[j] /\ j + 1 # 1
  OBVIOUS
<1>2. ~Asks(Tail(L), s)
  BY <1>1 DEF Asks, AsksOnce
<1> QED
  BY <1>1, <1>2 DEF Asks, AsksOnce

LEMMA SnapsGrow ==
    ASSUME NEW q \in Seq(ServerFrame), NEW f, NEW s, ~IsSnap(f, s)
    PROVE  Snaps(Append(q, f), s) => Snaps(q, s)
<1>1. \A j \in 1 .. Len(Append(q, f)) :
            \/ j \in 1 .. Len(q) /\ Append(q, f)[j] = q[j]
            \/ Append(q, f)[j] = f
  OBVIOUS
<1> QED
  BY <1>1 DEF Snaps

LEMMA NoWordAfter ==
    ASSUME Typed, EInv, gwConn \in Conns, NEW s \in Sessions, Exits(toGw[gwConn], s)
    PROVE  Over(s)
BY DEF EInv, Endings, Finals, Exits, IsExit, Final

(* What is said of s next is what is still to come of it. *)
LEMMA FollowsOn ==
    ASSUME Typed, EInv, SupervisorStep, gwConn \in Conns, NEW s \in Sessions, NEW n \in Nat,
           Follows(s, n), Outputs(s) \/ Ends(s)
    PROVE  Follows(s, n)'
<1>0. /\ gwConn' = gwConn /\ toGw[gwConn] \in Seq(ServerFrame) /\ produced[s] \in Nat
  BY DEF SupervisorStep, scVars, Typed, TypeOK, IpcTypeOK, SupTypeOK
<1>1. PICK m \in Nat : /\ n <= m /\ m <= produced[s]
                       /\ Chain(toGw[gwConn], s, n, m)
                       /\ On(s) \/ Exits(toGw[gwConn], s) => m = produced[s]
  BY DEF Follows
<1>2. CASE Outputs(s)
  <2> DEFINE f == OutputFrame("output", s, 0, produced[s] + 1, produced[s] + 1)
  <2>1. /\ IsOut(f, s) /\ ~IsExit(f, s) /\ f.from = produced[s] + 1 /\ f.to = produced[s] + 1
    BY DEF OutputFrame, IsOut, IsExit
  <2>2. f \in ServerFrame
    BY <1>0 DEF OutputFrame, ServerFrame, ServerFrameTypes
  <2>3. ~Exits(toGw[gwConn], s)
    BY <1>2, NoWordAfter DEF Outputs
  <2>4. /\ On(s)' => On(s)
        /\ produced'[s] = produced[s] + 1
        /\ toGw'[gwConn] = IF On(s) THEN Append(toGw[gwConn], f) ELSE toGw[gwConn]
    BY <1>2 DEF Outputs
  <2> HIDE DEF f
  <2>5. CASE On(s)
    <3>1. m = produced[s] /\ toGw'[gwConn] = Append(toGw[gwConn], f)
      BY <1>1, <2>4, <2>5
    <3>2. Chain(toGw'[gwConn], s, n, m + 1)
      BY <1>0, <1>1, <2>1, <2>2, <3>1, ChainGrows
    <3>3. m + 1 \in Nat /\ n <= m + 1 /\ m + 1 = produced'[s]
      BY <1>1, <2>4, <3>1
    <3> QED
      BY <1>0, <3>2, <3>3 DEF Follows
  <2>6. CASE ~On(s)
    <3>1. toGw'[gwConn] = toGw[gwConn] /\ ~On(s)' /\ m <= produced'[s]
      BY <1>0, <1>1, <2>4, <2>6
    <3> QED
      BY <1>0, <1>1, <2>3, <3>1 DEF Follows
  <2> QED
    BY <2>5, <2>6
<1>3. CASE Ends(s)
  <2> DEFINE f == Frame("exit", s, 0)
  <2>1. IsExit(f, s) /\ f \in ServerFrame
    BY DEF Frame, IsExit, ServerFrame, ServerFrameTypes
  <2>2. m = produced[s] /\ produced'[s] = produced[s] /\ toGw'[gwConn] = Append(toGw[gwConn], f)
    BY <1>1, <1>3 DEF Ends
  <2> HIDE DEF f
  <2>3. Chain(toGw'[gwConn], s, n, m)
    BY <1>0, <1>1, <2>1, <2>2, ChainGrows
  <2> QED
    BY <1>0, <1>1, <2>2, <2>3 DEF Follows
<1> QED
  BY <1>2, <1>3

LEMMA SupervisorFollows ==
    ASSUME MaxIncs = 1, Typed, Typed', EInv, PromisesKept, Rings, SupervisorStep, NEW s \in Sessions,
           gwConn \in Conns
    PROVE  /\ Untouched(s) => Untouched(s)'
           /\ \A n \in Nat : Expected(n, s) => Expected(n, s)'
           /\ \A n \in Nat : Flow(s, n) => Flow(s, n)'
<1>0. /\ UNCHANGED <<gwConn, pendingOutput, subscribed>>
      /\ toGw[gwConn] \in Seq(ServerFrame) /\ toSup[gwConn] \in Seq(ClientMessage)
      /\ produced[s] \in Nat /\ scrollback[s] \in Nat /\ pendingOutput[s] \in Seq(Stretch)
  BY DEF SupervisorStep, scVars, gwVars, Typed, TypeOK, IpcTypeOK, SupTypeOK, GwTypeOK
<1>1. Hushed(s) => Hushed(s)'
  BY SupervisorEnds
<1>2. CASE Calm(s)
  BY <1>0, <1>1, <1>2, CalmKeeps DEF Untouched
<1>3. CASE Outputs(s) \/ Ends(s)
  <2> DEFINE fo == OutputFrame("output", s, 0, produced[s] + 1, produced[s] + 1)
             fe == Frame("exit", s, 0)
  <2>1. /\ UNCHANGED toSup
        /\ On(s)' => On(s)
        /\ ~On(s) => toGw'[gwConn] = toGw[gwConn]
        /\ \/ toGw'[gwConn] = toGw[gwConn]
           \/ \E f \in ServerFrame : ~IsSnap(f, s) /\ toGw'[gwConn] = Append(toGw[gwConn], f)
    <3>1. fo \in ServerFrame /\ fe \in ServerFrame /\ ~IsSnap(fo, s) /\ ~IsSnap(fe, s)
      BY <1>0 DEF OutputFrame, Frame, IsSnap, ServerFrame, ServerFrameTypes
    <3> HIDE DEF fo, fe
    <3>2. \/ toGw'[gwConn] = toGw[gwConn] \/ toGw'[gwConn] = Append(toGw[gwConn], fo)
          \/ toGw'[gwConn] = Append(toGw[gwConn], fe)
      BY <1>3 DEF Outputs, Ends, fo, fe
    <3> QED
      BY <1>3, <3>1, <3>2 DEF Outputs, Ends
  <2>2. Untouched(s) => Untouched(s)'
    BY <1>0, <2>1 DEF Untouched
  <2>3. ASSUME NEW n \in Nat, Stream(s, n)
        PROVE  Stream(s, n)'
    <3>1. Follows(s, n)'
      BY <1>3, <2>3, FollowsOn DEF Stream
    <3>2. ~Snaps(toGw'[gwConn], s)
      BY <1>0, <2>1, <2>3, SnapsGrow DEF Stream
    <3> QED
      BY <1>0, <2>1, <2>3, <3>1, <3>2 DEF Stream
  <2>4. \A n \in Nat : Flow(s, n) => Flow(s, n)'
    <3>1. \A n \in Nat : n + Len(pendingOutput[s]) \in Nat
      BY <1>0
    <3>2. \A n : Held(s, n) => Held(s, n)'
      BY <1>0 DEF Held
    <3> QED
      BY <1>0, <1>1, <2>3, <3>1, <3>2 DEF Flow
  <2>5. ASSUME NEW n \in Nat, Expected(n, s)
        PROVE  Expected(n, s)'
    <3>1. CASE ~On(s)
      <4>1. CASE ~Snaps(toGw[gwConn], s) /\ ~Words(toGw[gwConn], s)
        BY <1>0, <2>1, <2>5, <3>1, <4>1 DEF Expected
      <4>2. ASSUME ~Asks(toSup[gwConn], s), NEW i \in 1 .. Len(toGw[gwConn]),
                   Opening(toGw[gwConn], i, s, n), Follows(s, toGw[gwConn][i].to)
            PROVE  Expected(n, s)'
        <5>0. toGw[gwConn][i] \in ServerFrame
          BY <1>0
        <5>1. PICK k \in Nat : k = toGw[gwConn][i].to
          BY <5>0, FrameEnds
        <5>2. Follows(s, k)'
          BY <1>3, <4>2, <5>1, FollowsOn
        <5> QED
          BY <1>0, <2>1, <2>5, <3>1, <4>2, <5>1, <5>2 DEF Expected
      <4> QED
        BY <2>5, <4>1, <4>2 DEF Expected
    <3>2. CASE On(s)
      <4>1. PICK i \in 1 .. Len(toGw[gwConn]) :
               Opening(toGw[gwConn], i, s, n) /\ Follows(s, toGw[gwConn][i].to)
        BY <2>5, <3>2 DEF Expected
      <4>6. toGw[gwConn][i] \in ServerFrame
        BY <1>0
      <4>2. PICK k \in Nat : k = toGw[gwConn][i].to
        BY <4>6, FrameEnds
      <4>3. Follows(s, k)'
        BY <1>3, <4>1, <4>2, FollowsOn
      <4>4. /\ i \in 1 .. Len(toGw'[gwConn]) /\ toGw'[gwConn][i].to = k
            /\ Opening(toGw'[gwConn], i, s, n)
        BY <1>0, <2>1, <4>1, <4>2, OpeningGrows
      <4>5. ~Asks(toSup[gwConn], s)
        BY <2>5, <3>2 DEF Expected
      <4> QED
        BY <1>0, <2>1, <2>5, <4>3, <4>4, <4>5 DEF Expected
    <3> QED
      BY <3>1, <3>2
  <2> QED
    BY <2>2, <2>4, <2>5
<1>4. CASE Grants(s)
  <2> DEFINE m == Head(toSup[gwConn])
             f == OutputFrame("subscribed", s, m.id, scrollback[s], produced[s])
  <2>1. /\ toSup[gwConn] # <<>> /\ Asking(m, s) /\ current[s] # 0
        /\ toSup'[gwConn] = Tail(toSup[gwConn])
        /\ produced'[s] = produced[s] /\ toGw'[gwConn] = Append(toGw[gwConn], f)
    BY <1>4 DEF Grants
  <2>2. /\ f.id = m.id /\ f.from = scrollback[s] /\ f.to = produced[s] /\ IsSnap(f, s)
        /\ f \in ServerFrame
    <3>1. m \in ClientMessage
      BY <1>0, <2>1
    <3>2. m.id \in Nat
      BY <3>1 DEF ClientMessage
    <3> QED
      BY <1>0, <3>2 DEF OutputFrame, IsSnap, ServerFrame, ServerFrameTypes
  <2> HIDE DEF m, f
  <2>3. Asks(toSup[gwConn], s)
    <3>1. Head(toSup[gwConn]) = toSup[gwConn][1] /\ 1 \in 1 .. Len(toSup[gwConn])
      BY <1>0, <2>1
    <3> QED
      BY <2>1, <3>1 DEF Asks, m
  <2>4. ~Untouched(s)
    BY <2>3 DEF Untouched
  <2>5. \A n \in Nat : Flow(s, n) => Flow(s, n)'
    BY <1>1, <2>3 DEF Flow, Stream
  <2>6. ASSUME NEW n \in Nat, Expected(n, s)
        PROVE  Expected(n, s)'
    <3>1. AsksOnce(toSup[gwConn], s, n) /\ ~Snaps(toGw[gwConn], s) /\ ~Words(toGw[gwConn], s)
      BY <2>3, <2>6 DEF Expected
    <3>2. m.id = n /\ ~Asks(toSup'[gwConn], s) /\ AsksOnce(toSup'[gwConn], s, n)
      BY <1>0, <2>1, <3>1, NoMoreAsks DEF m
    <3>3. 1 <= f.from /\ (f.from <= f.to \/ f.to = 0)
      BY <2>1, <2>2 DEF Rings
    <3>4. PICK i : i = Len(toGw[gwConn]) + 1
      OBVIOUS
    <3>5. /\ i \in 1 .. Len(toGw'[gwConn]) /\ toGw'[gwConn][i] = f
          /\ Opening(toGw'[gwConn], i, s, n) /\ ~Words(toGw'[gwConn], s)
      BY <1>0, <2>1, <2>2, <3>1, <3>2, <3>3, <3>4, OpeningMade
    <3>6. Chain(toGw'[gwConn], s, produced[s], produced[s])
      BY <1>0, <3>5, ChainEmpty
    <3>7. PICK k \in Nat : k = produced[s]
      BY <1>0
    <3>8. Follows(s, k)'
      BY <1>0, <2>1, <3>6, <3>7 DEF Follows
    <3>9. toGw'[gwConn][i].to = k
      BY <2>2, <3>5, <3>7
    <3> QED
      BY <1>0, <2>6, <3>2, <3>5, <3>8, <3>9 DEF Expected
  <2> QED
    BY <2>4, <2>5, <2>6
<1> QED
  BY <1>2, <1>3, <1>4, SupervisorTells

-----------------------------------------------------------------------------
(* A client that asks for each session once, and never stops of its own.   *)

End(runs) == IF runs = <<>> THEN 0 ELSE runs[Len(runs)].to

(* One stretch of the output of s, or none. *)
Part(runs, s) ==
    \/ runs = <<>>
    \/ /\ Len(runs) = 1 /\ 1 <= runs[1].from /\ runs[1].from <= runs[1].to
       /\ runs[1].to <= produced[s]

(* Client c has not been shown anything of s. *)
Unseen(c, s) == view[c][s] = Blank /\ s \notin clientSubscriptions[c]

Unasking(c, s) == Untouched(s) /\ Unseen(c, s)

(* What becomes of request p is still open. *)
Wished(p) ==
    /\ gwConn \in Conns
    /\ Unseen(p.client, p.sid)
    /\ p.kind \in Creates => Untouched(p.sid)
    /\ (p.kind = "attach" /\ sock # "dead") => (p.sid \notin subscribed /\ Expected(p.id, p.sid))

(* A granted request: what its client will be shown, and then be sent. *)
Granting(k) ==
    /\ Unseen(k.client, k.sid)
    /\ k.kind \in Creates => Untouched(k.sid)
    /\ k.kind = "attach" =>
         /\ Part(k.output, k.sid)
         /\ Flow(k.sid, End(k.output))
         /\ turn = "pipe" => Len(pendingOutput[k.sid]) <= burst

Watching(p) == p.kind = "watch"

Screened(c, s) ==
    /\ Part(view[c][s].runs, s)
    /\ IsOpen(c) => Flow(s, End(view[c][s].runs))

(* The answers to a request are about the session it asked for. *)
Answered(p) ==
    \A j \in 1 .. Len(toGw[gwConn]) :
        toGw[gwConn][j].type = "subscribed" /\ toGw[gwConn][j].id = p.id => toGw[gwConn][j].sid = p.sid

(* The continuations that wait. *)
Coming == {micro[i] : i \in 1 .. Len(micro)}

(* A request whose answer can still come; a continuation that can go on. *)
Apt(p) ==
    /\ ~Watching(p)
    /\ p.kind = "attach" => Answered(p)
    /\ Attaches(p) => Wished(p)

Due(k) == ~Watching(k) /\ (Attaches(k) /\ k.ok => Granting(k))

GInv ==
    /\ Rings
    /\ \A p \in pending : Apt(p)
    /\ \A k \in Coming : Due(k)
    /\ \A c \in Clients : ws[c] = "new" => (\A s \in Sessions : ~asked[c][s])
    /\ \A c \in Clients, s \in Sessions : ~asked[c][s] => Unasking(c, s)
    /\ \A c \in Clients : \A s \in clientSubscriptions[c] : Screened(c, s)

(* One client, which has at most one request in flight, never detaches and *)
(* so attaches to a session once, and one process for each session id.     *)
AttachOnce ==
    /\ MaxIncs = 1 /\ ~Pipelined
    /\ \E c : Clients = {c}
    /\ ClientOps \subseteq {"create", "attach", "input", "resize", "kill"}

(* What is known of where requests and answers are. *)
HInv == DInv /\ FInv /\ EInv /\ PromisesKept

(* With it, where the output is: the inductive invariant. *)
RInv == HInv /\ GInv

LEMMA TrimmedWithin ==
    ASSUME NEW first \in Nat, NEW n \in Nat, 1 <= first, first <= n
    PROVE  1 <= Trimmed(first, n) /\ Trimmed(first, n) <= n
BY SupervisorAssumption DEF Trimmed, LargerOf

LEMMA RingsKept ==
    ASSUME AttachOnce, HInv, Rings, SupervisorStep
    PROVE  Rings'
<1>0. /\ Terminals /\ NoSshAsked /\ Incs = {1}
      /\ current \in [Sessions -> 0 .. MaxIncs] /\ scrollback \in [Sessions -> Nat]
      /\ produced \in [Sessions -> Nat]
      /\ \A s \in Sessions : current[s] = 0 => scrollback[s] = 0
  BY OneProcess DEF AttachOnce, HInv, EInv, DInv, Typed, TypeOK, SupTypeOK, PromisesKept, Open!RingIffListed
<1>1. ASSUME UNCHANGED <<current, scrollback, produced>>
      PROVE  Rings'
  BY <1>1 DEF Rings
<1>2. ASSUME NEW c \in Conns, Create(c)
      PROVE  Rings'
  <2> DEFINE m == Head(toSup[c])
  <2>1. m.sid \in Sessions
    BY <1>2, LineTyped DEF Create, HInv, DInv, Typed, TypeOK
  <2>2. CASE CanStart(m)
    <3>1. /\ current[m.sid] = 0 /\ proc[m.sid][1].kind = "none" /\ UNCHANGED produced
          /\ current' = [current EXCEPT ![m.sid] = NextInc(m.sid)]
          /\ scrollback' = [scrollback EXCEPT ![m.sid] = IF @ = 0 THEN produced[m.sid] + 1 ELSE @]
      <4>1. FreeIncs(m.sid) # {} /\ current[m.sid] = 0
        BY <2>2 DEF CanStart
      <4>2. proc[m.sid][1].kind = "none"
        BY <1>0, <4>1 DEF FreeIncs
      <4>3. \E p : Start(c, m, p)
        BY <1>2, <2>2 DEF Create
      <4> QED
        BY <1>2, <4>1, <4>2, <4>3 DEF Create, Start
    <3>2. produced[m.sid] = 0 /\ scrollback[m.sid] = 0
      BY <1>0, <2>1, <3>1 DEF Terminals, Lives
    <3> HIDE DEF m
    <3>3. scrollback'[m.sid] = 1 /\ produced'[m.sid] = 0
      BY <1>0, <2>1, <3>1, <3>2
    <3>4. \A s \in Sessions : s # m.sid => /\ current'[s] = current[s] /\ scrollback'[s] = scrollback[s]
                                           /\ produced'[s] = produced[s]
      BY <1>0, <2>1, <3>1
    <3> QED
      BY <3>3, <3>4 DEF Rings
  <2>3. CASE ~CanStart(m)
    BY <1>1, <1>2, <2>3 DEF Create
  <2> QED
    BY <2>2, <2>3
<1>3. ASSUME NEW c \in Conns, HandleMessage(c), ~Create(c)
      PROVE  Rings'
  <2>1. ~CreateSsh(c)
    BY <1>0, NoSshLine DEF HInv, DInv
  <2> QED
    BY <1>1, <1>3, <2>1 DEF HandleMessage, Hello, Unauthorized, List, Subscribe, Unsubscribe, Forward,
                        Resize, supVars
<1>4. ASSUME NEW z \in Sessions, Emit(z), UNCHANGED current
      PROVE  Rings'
  <2> DEFINE n == produced[z] + 1
  <2>1. /\ produced' = [produced EXCEPT ![z] = n]
        /\ scrollback' = [scrollback EXCEPT ![z] = IF @ = 0 THEN 0 ELSE Trimmed(@, n)]
    BY <1>4 DEF Emit
  <2>2. produced'[z] = n /\ scrollback'[z] = IF scrollback[z] = 0 THEN 0 ELSE Trimmed(scrollback[z], n)
    BY <1>0, <2>1
  <2>3. \A s \in Sessions : s # z => scrollback'[s] = scrollback[s] /\ produced'[s] = produced[s]
    BY <1>0, <2>1
  <2>4. current[z] # 0 => 1 <= scrollback'[z] /\ scrollback'[z] <= n
    <3>1. SUFFICES ASSUME current[z] # 0
                   PROVE  1 <= scrollback'[z] /\ scrollback'[z] <= n
      OBVIOUS
    <3>2. scrollback[z] \in Nat /\ n \in Nat /\ 1 <= scrollback[z] /\ scrollback[z] <= n
      BY <1>0, <3>1 DEF Rings
    <3>3. 1 <= Trimmed(scrollback[z], n) /\ Trimmed(scrollback[z], n) <= n
      BY <3>2, TrimmedWithin
    <3> QED
      BY <2>2, <3>2, <3>3
  <2>5. n \in Nat /\ n <= n + 1 /\ scrollback'[z] \in Nat
    <3>1. scrollback' \in [Sessions -> Nat]
      <4>1. IF scrollback[z] = 0 THEN TRUE ELSE Trimmed(scrollback[z], n) \in Nat
        BY <1>0, SupervisorAssumption DEF Trimmed, LargerOf
      <4> QED
        BY <1>0, <2>1, <4>1
    <3> QED
      BY <1>0, <3>1
  <2>6. current[z] # 0 => /\ 1 <= scrollback'[z] /\ scrollback'[z] <= produced'[z] + 1
                          /\ scrollback'[z] <= produced'[z]
    BY <2>2, <2>4, <2>5
  <2> QED
    BY <1>4, <2>3, <2>6 DEF Rings
<1>5. ASSUME NEW z \in Sessions, NEW i \in Incs,
             \/ Data(z, i) \/ PtyExit(z, i)
             \/ SshReady(z, i) \/ SshFatal(z, i) \/ SshStreamClose(z, i)
      PROVE  Rings'
  BY <1>1, <1>4, <1>5 DEF Data, PtyExit, SshReady, SshFatal, SshStreamClose
<1>6. CASE RunImmediate
  <2> DEFINE z == Head(immediates).sid
  <2>0. z \in Sessions
    <3>1. immediates \in Seq(Immediate) /\ immediates # <<>>
      BY <1>6 DEF RunImmediate, HInv, DInv, Typed, TypeOK, SupTypeOK
    <3>2. Head(immediates) \in Immediate
      BY <3>1
    <3> QED
      BY <3>2 DEF Immediate
  <2>1. CASE RunExit(z)
    BY <1>1, <1>6, <2>1 DEF RunImmediate, RunExit
  <2>2. CASE RunRemoved(z)
    <3>1. /\ current' = [current EXCEPT ![z] = 0] /\ scrollback' = [scrollback EXCEPT ![z] = 0]
          /\ UNCHANGED produced
      BY <1>6, <2>2 DEF RunImmediate, RunRemoved
    <3> HIDE DEF z
    <3>2. current'[z] = 0 /\ \A s \in Sessions : s # z => /\ current'[s] = current[s]
                                                          /\ scrollback'[s] = scrollback[s]
      BY <1>0, <2>0, <3>1
    <3> QED
      BY <3>1, <3>2 DEF Rings
  <2> QED
    BY <1>6, <2>1, <2>2 DEF RunImmediate
<1>7. ASSUME NEW c \in Conns, Accept(c) \/ Destroy(c) \/ Close(c)
      PROVE  Rings'
  BY <1>1, <1>7 DEF Accept, Destroy, Close
<1> QED
  BY <1>2, <1>3, <1>5, <1>6, <1>7 DEF SupervisorStep

LEMMA AnswersKept ==
    ASSUME AttachOnce, HInv, SupervisorStep, NEW p \in pending, p.kind = "attach", Answered(p), gwConn \in Conns
    PROVE  Answered(p)'
<1>0. /\ UNCHANGED gwConn /\ toGw \in [Conns -> Seq(ServerFrame)] /\ Typed
      /\ Terminals /\ Endings /\ Removals /\ MaxIncs = 1
      /\ toSup[gwConn] \in Seq(ClientMessage)
  BY DEF SupervisorStep, scVars, HInv, DInv, EInv, Typed, TypeOK, IpcTypeOK, AttachOnce
<1>1. ASSUME NEW W, Written(toGw, toGw', W), Mute(W)
      PROVE  Answered(p)'
  <2>1. Grown(toGw[gwConn], toGw'[gwConn], W)
    BY <1>1 DEF Written
  <2>2. \A j \in 1 .. Len(toGw'[gwConn]) :
            toGw'[gwConn][j].type = "subscribed" =>
                j \in 1 .. Len(toGw[gwConn]) /\ toGw'[gwConn][j] = toGw[gwConn][j]
    <3>1. Len(toGw[gwConn]) \in Nat
      BY <1>0
    <3> QED
      BY <1>1, <2>1, <3>1 DEF Grown, Mute
  <2> QED
    BY <1>0, <2>2 DEF Answered
<1>2. ASSUME NEW c \in Conns, Subscribe(c)
      PROVE  Answered(p)'
  <2> DEFINE m == Head(toSup[c])
             f == OutputFrame("subscribed", m.sid, m.id, scrollback[m.sid], produced[m.sid])
             e == Frame("error", m.sid, m.id)
  <2>1. /\ toSup[c] # <<>> /\ m.type = "subscribe"
        /\ toGw' = Sent(toGw, c, f) \/ toGw' = Sent(toGw, c, e)
    BY <1>2 DEF Subscribe, Receive, SendTo, Reply
  <2>2. /\ f.id = m.id /\ f.sid = m.sid /\ e.type = "error"
    BY DEF OutputFrame, Frame
  <2>3. c = gwConn /\ m.id = p.id => m.sid = p.sid
    <3>1. Waiting(toSup[gwConn], p.id, p.sid)
      BY DEF HInv, FInv, PendingFed, Subscribing, Promised
    <3>2. c = gwConn => m = toSup[gwConn][1] /\ 1 \in 1 .. Len(toSup[gwConn])
      BY <1>0, <2>1
    <3> QED
      BY <2>1, <3>1, <3>2 DEF Waiting
  <2> HIDE DEF m, f, e
  <2>4. ASSUME NEW g, g = f \/ g = e, toGw' = Sent(toGw, c, g)
        PROVE  Answered(p)'
    <3>1. CASE c # gwConn \/ conn[gwConn] # "open"
      <4>1. toGw'[gwConn] = toGw[gwConn]
        BY <1>0, <2>4, <3>1 DEF Sent, Live
      <4> QED
        BY <1>0, <4>1 DEF Answered
    <3>2. CASE c = gwConn /\ conn[gwConn] = "open"
      <4>1. toGw'[gwConn] = Append(toGw[gwConn], g)
        BY <1>0, <2>4, <3>2 DEF Sent, Live
      <4>2. \A j \in 1 .. Len(Append(toGw[gwConn], g)) :
               \/ j \in 1 .. Len(toGw[gwConn]) /\ Append(toGw[gwConn], g)[j] = toGw[gwConn][j]
               \/ Append(toGw[gwConn], g)[j] = g
        BY <1>0
      <4>3. g.type = "subscribed" /\ g.id = p.id => g.sid = p.sid
        BY <2>2, <2>3, <2>4, <3>2
      <4> QED
        BY <1>0, <4>1, <4>2, <4>3 DEF Answered
    <3> QED
      BY <3>1, <3>2
  <2> QED
    BY <2>1, <2>4
<1>3. ASSUME NEW c \in Conns, HandleMessage(c), ~Subscribe(c)
      PROVE  Answered(p)'
  <2>1. PICK W : Plain(W) /\ Written(toGw, toGw', W) /\ Mute(W)
    BY <1>0, <1>3, HandleWrites
  <2> QED
    BY <1>1, <2>1
<1>4. CASE \A c \in Conns : ~HandleMessage(c)
  <2>1. PICK W : Written(toGw, toGw', W) /\ Mute(W)
    BY <1>0, <1>4, EventWrites
  <2> QED
    BY <1>1, <2>1
<1> QED
  BY <1>2, <1>3, <1>4

(* The supervisor's step, seen from the feed: output is produced, or nothing. *)
LEMMA SupervisorProduces ==
    ASSUME AttachOnce, HInv, SupervisorStep
    PROVE  /\ UNCHANGED <<clientSubscriptions, view>>
           /\ \A s \in Sessions : produced'[s] \in Nat /\ produced[s] <= produced'[s]
           /\ UNCHANGED produced \/ \E s \in Sessions : Feed!Produce(s)
<1>0. /\ Terminals /\ Incs = {1} /\ produced \in [Sessions -> Nat] /\ AfterExit
      /\ UNCHANGED <<clientSubscriptions, view>>
  BY OneProcess DEF AttachOnce, HInv, EInv, DInv, Typed, TypeOK, SupTypeOK, SupervisorStep, gwVars, relayVars
<1>1. ASSUME NEW s \in Sessions, Data(s, 1)
      PROVE  Feed!Produce(s) /\ produced' = [produced EXCEPT ![s] = @ + 1]
  <2>1. ~Over(s) /\ produced' = [produced EXCEPT ![s] = produced[s] + 1]
    BY <1>1 DEF Data, Emit, Over
  <2>2. \A c \in Clients : ~view[c][s].exited
    BY <1>0, <2>1 DEF AfterExit, Hushed
  <2> QED
    BY <1>0, <2>1, <2>2 DEF Feed!Produce
<1>2. UNCHANGED produced \/ \E s \in Sessions : Data(s, 1)
  <2>1. ASSUME NEW c \in Conns, HandleMessage(c)
        PROVE  UNCHANGED produced
    BY <2>1 DEF HandleMessage, Hello, Unauthorized, List, Create, CreateSsh, Subscribe,
                Unsubscribe, Forward, Resize, supVars
  <2>2. ASSUME NEW s \in Sessions, NEW i \in Incs,
               \/ PtyExit(s, i) \/ SshReady(s, i) \/ SshFatal(s, i) \/ SshStreamClose(s, i)
        PROVE  UNCHANGED produced
    <3>1. i = 1 /\ proc[s][1].kind # "ssh"
      BY <1>0 DEF Terminals, Lives
    <3> QED
      BY <2>2, <3>1 DEF PtyExit, SshReady, SshFatal, SshStreamClose
  <2>3. RunImmediate => UNCHANGED produced
    BY DEF RunImmediate
  <2>4. ASSUME NEW c \in Conns, Accept(c) \/ Destroy(c) \/ Close(c)
        PROVE  UNCHANGED produced
    BY <2>4 DEF Accept, Destroy, Close
  <2> QED
    BY <1>0, <2>1, <2>2, <2>3, <2>4 DEF SupervisorStep
<1>3. \A s \in Sessions : produced'[s] \in Nat /\ produced[s] <= produced'[s]
  <2>1. CASE UNCHANGED produced
    BY <1>0, <2>1
  <2>2. ASSUME NEW z \in Sessions, Data(z, 1)
        PROVE  \A s \in Sessions : produced'[s] \in Nat /\ produced[s] <= produced'[s]
    <3>1. produced' = [produced EXCEPT ![z] = @ + 1]
      BY <1>1, <2>2
    <3> QED
      BY <1>0, <3>1
  <2> QED
    BY <1>2, <2>1, <2>2
<1> QED
  BY <1>0, <1>1, <1>2, <1>3

LEMMA PartGrows ==
    ASSUME NEW s \in Sessions, produced[s] \in Nat, produced'[s] \in Nat, produced[s] <= produced'[s],
           NEW runs \in Seq(Stretch), Part(runs, s)
    PROVE  Part(runs, s)'
<1>1. Len(runs) = 1 => runs[1] \in Stretch
  <2>1. SUFFICES ASSUME Len(runs) = 1
                 PROVE  runs[1] \in Stretch
    OBVIOUS
  <2>2. 1 \in 1 .. Len(runs)
    BY <2>1
  <2> QED
    BY <2>2, ElementOfSeq
<1>2. Len(runs) = 1 => runs[1].to \in Nat
  BY <1>1 DEF Stretch
<1> QED
  BY <1>2 DEF Part

LEMMA EndTyped ==
    ASSUME NEW runs \in Seq(Stretch)
    PROVE  End(runs) \in Nat
<1>1. runs # <<>> => Len(runs) \in 1 .. Len(runs)
  OBVIOUS
<1>2. runs # <<>> => runs[Len(runs)] \in Stretch
  BY <1>1
<1> QED
  BY <1>2 DEF End, Stretch

(* What is known of requests, continuations and screens, typed. *)
LEMMA Known ==
    ASSUME Typed
    PROVE  /\ \A p \in pending : p.kind \in Kinds /\ p.client \in Clients /\ p.sid \in Sessions /\ p.id \in Nat
           /\ \A k \in Coming : /\ k \in Continuation /\ k.kind \in Kinds /\ k.client \in Clients
                              /\ k.sid \in Sessions /\ k.output \in Seq(Stretch)
           /\ \A c \in Clients, s \in Sessions : view[c][s].runs \in Seq(Stretch)
           /\ \A c \in Clients : clientSubscriptions[c] \subseteq Sessions
<1>1. pending \subseteq PendingRequest /\ clientSubscriptions \in [Clients -> SUBSET Sessions]
      /\ view \in [Clients -> [Sessions -> Screen]]
  BY DEF Typed, TypeOK, ScTypeOK, GwTypeOK
<1>2. \A k \in Coming : k \in Continuation
  BY DEF Coming, Typed, TypeOK, ScTypeOK
<1>3. \A c \in Clients, s \in Sessions : view[c][s] \in Screen
  BY <1>1
<1> QED
  BY <1>1, <1>2, <1>3, ContinuationTyped DEF PendingRequest, Screen

LEMMA SupervisorKeepsFeed ==
    ASSUME AttachOnce, RInv, SupervisorStep, Typed'
    PROVE  GInv'
<1>0. /\ Typed /\ EInv /\ PromisesKept /\ Rings /\ MaxIncs = 1 /\ HInv
      /\ UNCHANGED <<pending, micro, ws, asked, view, clientSubscriptions, subscribed, turn, burst, pendingOutput,
                     gwConn, sock>>
      /\ produced \in [Sessions -> Nat]
  BY DEF RInv, HInv, DInv, GInv, AttachOnce, SupervisorStep, scVars, gwVars, relayVars, loopVars, Typed, TypeOK,
         SupTypeOK
<1>1. /\ \A s \in Sessions : Untouched(s) => Untouched(s)'
      /\ \A s \in Sessions, n \in Nat : gwConn \in Conns /\ Expected(n, s) => Expected(n, s)'
      /\ \A s \in Sessions, n \in Nat : Flow(s, n) => Flow(s, n)'
  <2>1. CASE gwConn \in Conns
    BY <1>0, <2>1, SupervisorFollows
  <2>2. CASE gwConn \notin Conns
    BY <1>0, <2>2 DEF Untouched, Flow, Hushed, Stream
  <2> QED
    BY <2>1, <2>2
<1>2. \A s \in Sessions : produced'[s] \in Nat /\ produced[s] <= produced'[s]
  BY <1>0, SupervisorProduces
<1>3. \A runs \in Seq(Stretch), s \in Sessions : Part(runs, s) => Part(runs, s)'
  BY <1>0, <1>2, PartGrows
<1>4. Rings'
  BY <1>0, RingsKept
<1>5. \A c \in Clients, s \in Sessions : Unseen(c, s) => Unseen(c, s)'
  BY <1>0 DEF Unseen
<1>6. \A c \in Clients, s \in Sessions : ~asked'[c][s] => Unasking(c, s)'
  BY <1>0, <1>1, <1>5 DEF GInv, RInv, Unasking
<1>7. ASSUME NEW p \in pending'
      PROVE  Apt(p)'
  <2>1. p \in pending /\ p.client \in Clients /\ p.sid \in Sessions /\ p.id \in Nat /\ Apt(p)
    BY <1>0, <1>7, Known DEF RInv, GInv
  <2>3. Attaches(p) => Wished(p)'
    BY <1>0, <1>1, <1>5, <2>1 DEF Apt, Wished
  <2>4. p.kind = "attach" => Answered(p)'
    <3>1. p.kind = "attach" => Answered(p) /\ gwConn \in Conns
      BY <2>1 DEF Apt, Wished, Attaches
    <3> QED
      BY <1>0, <2>1, <3>1, AnswersKept
  <2> QED
    BY <2>1, <2>3, <2>4 DEF Apt
<1>8. ASSUME NEW k \in Coming'
      PROVE  Due(k)'
  <2>1. /\ k \in Coming /\ k.client \in Clients /\ k.sid \in Sessions
        /\ k.output \in Seq(Stretch) /\ End(k.output) \in Nat
    <3>1. k \in Coming
      BY <1>0, <1>8 DEF Coming
    <3> QED
      BY <1>0, <3>1, Known, EndTyped
  <2>2. Granting(k) => Granting(k)'
    BY <1>0, <1>1, <1>3, <1>5, <2>1 DEF Granting
  <2> QED
    BY <2>1, <2>2 DEF RInv, GInv, Due
<1>9. ASSUME NEW c \in Clients, NEW s \in clientSubscriptions'[c]
      PROVE  Screened(c, s)'
  <2>1. s \in clientSubscriptions[c] /\ s \in Sessions /\ view[c][s].runs \in Seq(Stretch)
        /\ End(view[c][s].runs) \in Nat
    BY <1>0, <1>9, Known, EndTyped
  <2> QED
    BY <1>0, <1>1, <1>3, <2>1 DEF RInv, GInv, Screened, IsOpen
<1>10. \A c \in Clients : ws'[c] = "new" => (\A s \in Sessions : ~asked'[c][s])
  BY <1>0 DEF RInv, GInv
<1> QED
  BY <1>4, <1>6, <1>7, <1>8, <1>9, <1>10 DEF GInv

(* The promises kept so far are kept by every step. *)
LEMMA HInvStep ==
    ASSUME AttachOnce, HInv, [Next]_vars
    PROVE  HInv'
<1>1. \A c, d \in Clients : c = d
  BY DEF AttachOnce
<1>2. "create_ssh" \notin ClientOps /\ ~Pipelined /\ MaxIncs = 1
  BY DEF AttachOnce
<1> QED
  BY <1>1, <1>2, DInvStep, FedStep, EInvStep, PromisesStep DEF HInv, DInv

LEMMA LinesAdded ==
    ASSUME NEW L \in Seq(ClientMessage), NEW K \in Seq(ClientMessage), NEW s, ~Asks(K, s)
    PROVE  LinesKept(L, L \o K, s)
<1>1. \A j \in 1 .. Len(L \o K) :
          \/ j \in 1 .. Len(L) /\ (L \o K)[j] = L[j]
          \/ j - Len(L) \in 1 .. Len(K) /\ (L \o K)[j] = K[j - Len(L)]
  OBVIOUS
<1>2. \A j \in 1 .. Len(L \o K) : Asking((L \o K)[j], s) => j \in 1 .. Len(L) /\ (L \o K)[j] = L[j]
  BY <1>1 DEF Asks
<1> QED
  BY <1>2 DEF LinesKept, Asks, AsksOnce

LEMMA SameQueue ==
    ASSUME NEW q \in Seq(ServerFrame), NEW s
    PROVE  QueueKept(q, q, s)
BY DEF QueueKept

LEMMA CalmStill ==
    ASSUME Typed, NEW s \in Sessions, UNCHANGED <<ipcVars, supVars, gwConn>>,
           pendingOutput'[s] = pendingOutput[s]
    PROVE  Calm(s)
<1>1. gwConn \in Conns => toGw[gwConn] \in Seq(ServerFrame)
  BY DEF Typed, TypeOK, IpcTypeOK
<1>2. /\ UNCHANGED <<gwConn, toSup, toGw>> /\ produced' = produced /\ (On(s)' <=> On(s))
  BY DEF ipcVars, supVars, On
<1>3. gwConn \in Conns => QueueKept(toGw[gwConn], toGw'[gwConn], s)
  BY <1>1, <1>2, SameQueue
<1> QED
  BY <1>2, <1>3 DEF Calm, LinesKept

(* Lines are sent that ask for other sessions, or for none. *)
LEMMA CalmPost ==
    ASSUME Typed, NEW s \in Sessions, UNCHANGED <<toGw, supVars, gwConn>>,
           pendingOutput'[s] = pendingOutput[s],
           NEW lines \in Seq(ClientMessage), Post(lines), ~Asks(lines, s)
    PROVE  Calm(s)
<1>1. gwConn \in Conns => toGw[gwConn] \in Seq(ServerFrame) /\ toSup[gwConn] \in Seq(ClientMessage)
  BY DEF Typed, TypeOK, IpcTypeOK
<1>2. /\ UNCHANGED <<gwConn, toGw>> /\ produced' = produced /\ (On(s)' <=> On(s))
  BY DEF supVars, On
<1>3. gwConn \in Conns => QueueKept(toGw[gwConn], toGw'[gwConn], s)
  BY <1>1, <1>2, SameQueue
<1>4. gwConn \in Conns => (toSup'[gwConn] = toSup[gwConn] \/ toSup'[gwConn] = toSup[gwConn] \o lines)
  BY DEF Post, Typed, TypeOK, IpcTypeOK
<1>5. gwConn \in Conns => LinesKept(toSup[gwConn], toSup'[gwConn], s)
  <2>1. gwConn \in Conns => LinesKept(toSup[gwConn], toSup[gwConn] \o lines, s)
    BY <1>1, LinesAdded
  <2> QED
    BY <1>4, <2>1 DEF LinesKept
<1> QED
  BY <1>2, <1>3, <1>5 DEF Calm

(* A frame is read that says nothing of s. *)
LEMMA CalmRead ==
    ASSUME Typed, NEW s \in Sessions, NEW t, PipeTurn(t), UNCHANGED <<toSup, supVars, gwConn>>,
           pendingOutput'[s] = pendingOutput[s],
           ~Word(Incoming, s), ~IsSnap(Incoming, s)
    PROVE  Calm(s)
<1>1. gwConn \in Conns /\ toGw \in [Conns -> Seq(ServerFrame)] /\ toGw[gwConn] # <<>>
      /\ toGw' = [toGw EXCEPT ![gwConn] = Tail(@)]
  BY PipeTyped DEF Typed, TypeOK, IpcTypeOK, PipeTurn
<1>2. /\ UNCHANGED <<gwConn, toSup>> /\ produced' = produced /\ (On(s)' <=> On(s))
  BY DEF supVars, On
<1>3. toGw'[gwConn] = Tail(toGw[gwConn])
  BY <1>1
<1>4. QueueKept(toGw[gwConn], toGw'[gwConn], s)
  BY <1>1, <1>3, QueueRead DEF Incoming
<1> QED
  BY <1>2, <1>4 DEF Calm, LinesKept

(* What is known of s stays known. *)
Lasting(s) ==
    /\ Untouched(s) /\ s \notin subscribed' => Untouched(s)'
    /\ \A p \in pending \cap pending' :
          (p.kind = "attach" /\ p.sid = s /\ gwConn \in Conns /\ sock' # "dead" /\ Expected(p.id, s))
             => Expected(p.id, s)'
    /\ \A n \in Nat : Flow(s, n) => Flow(s, n)'

LEMMA CalmLasts ==
    ASSUME AttachOnce, HInv, GatewayStep \/ ClientStep, NEW s \in Sessions, Calm(s)
    PROVE  Lasting(s)
<1>1. Typed /\ Endings /\ Unopened /\ \E c \in Clients : TRUE
  BY DEF AttachOnce, HInv, DInv, EInv
<1>2. Hushed(s) => Hushed(s)'
  BY <1>1, HushKept
<1>3. \A p \in pending : p.id \in Nat
  BY <1>1, Known
<1> QED
  BY <1>1, <1>2, <1>3, CalmKeeps DEF Lasting

(* What the last words of s leave behind. *)
LEMMA HushedFlows ==
    ASSUME NEW s, Hushed(s)'
    PROVE  \A n : Flow(s, n)'
BY DEF Flow

LEMMA AptKept ==
    ASSUME Typed, NEW p \in pending \cap pending', Apt(p), Lasting(p.sid), UNCHANGED gwConn,
           gwConn \in Conns => toGw'[gwConn] \in {toGw[gwConn], Tail(toGw[gwConn])},
           sock' # "dead" => sock # "dead", p.sid \in subscribed' => p.sid \in subscribed,
           view'[p.client][p.sid] = view[p.client][p.sid],
           clientSubscriptions'[p.client] \subseteq clientSubscriptions[p.client]
    PROVE  Apt(p)'
<1>0. p.id \in Nat /\ p.kind \in Kinds /\ (gwConn \in Conns => toGw[gwConn] \in Seq(ServerFrame))
  BY Known DEF Typed, TypeOK, IpcTypeOK
<1>1. p.kind = "attach" => Answered(p)'
  <2>1. SUFFICES ASSUME p.kind = "attach"
                 PROVE  Answered(p)'
    OBVIOUS
  <2>2. gwConn \in Conns /\ Answered(p)
    BY <2>1 DEF Apt, Attaches, Wished
  <2>3. CASE toGw'[gwConn] = toGw[gwConn]
    BY <2>2, <2>3 DEF Answered
  <2>4. CASE toGw'[gwConn] = Tail(toGw[gwConn]) /\ toGw[gwConn] # <<>>
    <3>1. \A j \in 1 .. Len(Tail(toGw[gwConn])) :
              j + 1 \in 1 .. Len(toGw[gwConn]) /\ Tail(toGw[gwConn])[j] = toGw[gwConn][j + 1]
      BY <1>0, <2>2, <2>4
    <3> QED
      BY <2>2, <2>4, <3>1 DEF Answered
  <2>5. CASE toGw'[gwConn] = Tail(toGw[gwConn]) /\ toGw[gwConn] = <<>>
    BY <2>5 DEF Answered
  <2> QED
    BY <2>2, <2>3, <2>4, <2>5
<1>2. Attaches(p) => Wished(p)'
  BY <1>0 DEF Apt, Attaches, Wished, Unseen, Lasting, Untouched, Kinds, Creates, Expected
<1> QED
  BY <1>1, <1>2 DEF Apt

(* No more output is held back than was read. *)
Slack(s) == burst <= burst' /\ Len(pendingOutput'[s]) + burst <= Len(pendingOutput[s]) + burst'

LEMMA DueKept ==
    ASSUME Typed, Typed', NEW k \in Coming, Due(k), Lasting(k.sid), UNCHANGED <<gwConn, produced>>,
           k.kind \in Creates => k.sid \notin subscribed',
           view'[k.client][k.sid] = view[k.client][k.sid],
           clientSubscriptions'[k.client] \subseteq clientSubscriptions[k.client],
           turn' = "pipe" => turn = "pipe" /\ Slack(k.sid)
    PROVE  Due(k)'
<1>0. k.output \in Seq(Stretch) /\ End(k.output) \in Nat /\ k.sid \in Sessions
      /\ pendingOutput[k.sid] \in Seq(Stretch) /\ pendingOutput'[k.sid] \in Seq(Stretch)
      /\ burst \in Nat /\ burst' \in Nat
  BY Known, EndTyped DEF Typed, TypeOK, GwTypeOK
<1>1. SUFFICES ASSUME Attaches(k), k.ok
               PROVE  Granting(k)'
  BY DEF Due
<1>2. Granting(k)
  BY <1>1 DEF Due
<1>3. Unseen(k.client, k.sid)' /\ (k.kind \in Creates => Untouched(k.sid)')
  BY <1>2 DEF Granting, Unseen, Lasting
<1>4. k.kind = "attach" => Part(k.output, k.sid)' /\ Flow(k.sid, End(k.output))'
  BY <1>0, <1>2 DEF Granting, Lasting, Part
<1>5. k.kind = "attach" /\ turn' = "pipe" => Len(pendingOutput'[k.sid]) <= burst'
  BY <1>0, <1>2 DEF Granting, Slack
<1> QED
  BY <1>3, <1>4, <1>5 DEF Granting

LEMMA ScreenKept ==
    ASSUME Typed, NEW c \in Clients, NEW s \in Sessions, Screened(c, s), Lasting(s),
           view'[c][s].runs = view[c][s].runs, UNCHANGED produced, IsOpen(c)' => IsOpen(c)
    PROVE  Screened(c, s)'
<1>0. PICK runs : runs = view[c][s].runs
  OBVIOUS
<1>1. runs \in Seq(Stretch) /\ End(runs) \in Nat
  BY <1>0, Known, EndTyped
<1>2. Part(runs, s) /\ (IsOpen(c) => Flow(s, End(runs)))
  BY <1>0 DEF Screened
<1>3. Part(runs, s)'
  BY <1>2 DEF Part
<1>4. IsOpen(c)' => Flow(s, End(runs))'
  BY <1>1, <1>2 DEF Lasting
<1> QED
  BY <1>0, <1>3, <1>4 DEF Screened, Part, Flow, Held, Stream

(* A step of the gateway's process, in parts: the sessions it is about, the *)
(* requests, the continuations, the screens.                               *)
LEMMA StepKeeps ==
    ASSUME RInv, HInv', UNCHANGED <<supVars, gwConn>>,
           NEW B \in SUBSET Sessions,
           \A s \in Sessions : s \in B \/ Lasting(s),
           \A s \in B : ~Untouched(s) \/ \A c \in Clients : asked'[c][s],
           \A c \in Clients, s \in Sessions : asked[c][s] => asked'[c][s],
           \A c \in Clients : ws'[c] = "new" => ws[c] = "new" /\ asked'[c] = asked[c],
           \A c \in Clients, s \in Sessions : ~asked'[c][s] => view'[c][s] = view[c][s],
           \A s \in Sessions : s \in subscribed' => s \in subscribed \/ \A c \in Clients : asked'[c][s],
           \A p \in pending' : Apt(p)',
           \A k \in Coming' : Due(k)',
           \A c \in Clients : \A s \in clientSubscriptions'[c] : Screened(c, s)'
    PROVE  GInv'
<1>1. Rings'
  BY DEF RInv, GInv, Rings, supVars
<1>2. \A c \in Clients : ws'[c] = "new" => (\A s \in Sessions : ~asked'[c][s])
  BY DEF RInv, GInv
<1>3. ASSUME NEW c \in Clients, NEW s \in Sessions, ~asked'[c][s]
      PROVE  Unasking(c, s)'
  <2>1. ~asked[c][s] /\ Untouched(s) /\ Unseen(c, s)
    BY <1>3 DEF RInv, GInv, Unasking
  <2>2. s \notin subscribed'
    BY <1>3, <2>1 DEF Untouched
  <2>3. Untouched(s)'
    BY <1>3, <2>1, <2>2 DEF Lasting
  <2>4. s \notin clientSubscriptions'[c]
    BY <1>3 DEF HInv, DInv, AskedFor
  <2>5. view'[c][s] = Blank
    BY <1>3, <2>1 DEF Unseen
  <2> QED
    BY <2>3, <2>4, <2>5 DEF Unasking, Unseen
<1> QED
  BY <1>1, <1>2, <1>3 DEF GInv

-----------------------------------------------------------------------------
(* What consecutive chunks make of a screen.                               *)

LEMMA ShownNone ==
    ASSUME NEW runs
    PROVE  Shown(runs, <<>>) = runs
<1>1. DOMAIN <<>> = 1 .. 0 /\ 0 \in Nat
  OBVIOUS
<1> QED
  BY <1>1, ShownIsFold, FoldSteps

LEMMA OnePiece ==
    ASSUME NEW p \in Stretch
    PROVE  /\ <<p>> # <<>> /\ Len(<<p>>) = 1 /\ <<p>>[1] = p /\ Last(<<p>>) = p
           /\ \A n : [<<p>> EXCEPT ![1].to = n] = <<Piece(p.from, n)>>
           /\ Append(<<>>, p) = <<p>>
           /\ End(<<p>>) = p.to
<1>1. <<p>> # <<>> /\ Len(<<p>>) = 1 /\ <<p>>[1] = p /\ Append(<<>>, p) = <<p>>
  OBVIOUS
<1>2. Last(<<p>>) = p /\ End(<<p>>) = p.to
  BY <1>1 DEF Last, End
<1>3. ASSUME NEW n
      PROVE  [<<p>> EXCEPT ![1].to = n] = <<Piece(p.from, n)>>
  <2>1. p = [from |-> p.from, to |-> p.to]
    BY DEF Stretch
  <2>2. [p EXCEPT !.to = n] = Piece(p.from, n)
    BY <2>1 DEF Piece
  <2> QED
    BY <2>2
<1> QED
  BY <1>1, <1>2, <1>3

LEMMA OneRun ==
    ASSUME NEW runs \in Seq(Stretch), Len(runs) = 1
    PROVE  runs[1] \in Stretch /\ runs = <<runs[1]>> /\ runs # <<>>
OBVIOUS

LEMMA ShownOne ==
    ASSUME NEW p \in Stretch
    PROVE  Shown(<<>>, <<p>>) = <<p>>
<1>1. DOMAIN <<p>> = 1 .. 1 /\ 1 \in Nat /\ 0 \in Nat /\ 0 < 1 /\ 0 + 1 = 1 /\ <<p>>[1] = p
  OBVIOUS
<1>2. PICK f : IsFold(f, <<>>, <<p>>, 1) /\ Shown(<<>>, <<p>>) = f[1 .. 1]
  BY <1>1, ShownIsFold
<1>3. /\ f[1 .. 0] = <<>>
      /\ \A m \in Nat : m < 1 => f[1 .. m + 1] = Extend(f[1 .. m], <<p>>[m + 1])
  BY <1>1, <1>2, FoldSteps
<1>4. Extend(<<>>, p) = <<p>>
  BY DEF Extend
<1>5. f[1 .. 0 + 1] = Extend(f[1 .. 0], <<p>>[0 + 1])
  BY <1>1, <1>3
<1> QED
  BY <1>1, <1>2, <1>3, <1>4, <1>5

(* The first chunk of a screen that goes on after `runs'. *)
FirstShown(runs) == IF runs = <<>> THEN 1 ELSE runs[1].from

LEMMA ShownOn ==
    ASSUME NEW s \in Sessions, NEW runs \in Seq(Stretch), Part(runs, s), NEW pieces \in Seq(Stretch),
           \A i \in 1 .. Len(pieces) : pieces[i] = Piece(End(runs) + i, End(runs) + i)
    PROVE  pieces # <<>> => Shown(runs, pieces) = <<Piece(FirstShown(runs), End(runs) + Len(pieces))>>
<1> DEFINE n == Len(pieces)
           e == End(runs)
           a == FirstShown(runs)
           G(m) == IF m = 0 THEN runs ELSE <<Piece(a, e + m)>>
<1>0. n \in Nat /\ DOMAIN pieces = 1 .. n /\ e \in Nat /\ (pieces # <<>> => n # 0)
  BY EndTyped
<1>1. a \in Nat /\ (runs # <<>> => Len(runs) = 1 /\ runs[1] \in Stretch /\ runs = <<Piece(a, e)>>)
  <2>1. CASE runs = <<>>
    BY <2>1 DEF FirstShown
  <2>2. CASE Len(runs) = 1
    <3>1. runs[1] \in Stretch /\ runs = <<runs[1]>> /\ runs # <<>>
      BY <2>2, OneRun
    <3>2. e = runs[1].to /\ a = runs[1].from
      BY <2>2, <3>1 DEF End, FirstShown
    <3>3. runs[1] = Piece(runs[1].from, runs[1].to) /\ runs[1].from \in Nat
      BY <3>1 DEF Stretch, Piece
    <3> QED
      BY <2>2, <3>1, <3>2, <3>3
  <2> QED
    BY <2>1, <2>2 DEF Part
<1>2. runs = <<>> => e = 0 /\ a = 1
  BY DEF End, FirstShown
<1> HIDE DEF n, e, a
<1>3. PICK f : IsFold(f, runs, pieces, n) /\ Shown(runs, pieces) = f[1 .. n]
  BY <1>0, ShownIsFold
<1>4. /\ f[1 .. 0] = runs
      /\ \A m \in Nat : m < n => f[1 .. m + 1] = Extend(f[1 .. m], pieces[m + 1])
  BY <1>0, <1>3, FoldSteps
<1>5. ASSUME NEW m \in Nat, m < n
      PROVE  Extend(G(m), pieces[m + 1]) = G(m + 1)
  <2>1. pieces[m + 1] = Piece(e + (m + 1), e + (m + 1))
    BY <1>0, <1>5 DEF n, e
  <2> DEFINE p == Piece(e + (m + 1), e + (m + 1))
  <2>2. p.from = e + m + 1 /\ p.to = e + (m + 1) /\ p \in Stretch
    BY <1>0 DEF Piece, Stretch
  <2>3. G(m + 1) = <<Piece(a, e + (m + 1))>>
    OBVIOUS
  <2> HIDE DEF p
  <2>4. CASE m = 0 /\ runs = <<>>
    <3>1. Extend(<<>>, p) = <<p>>
      BY <2>2, OnePiece DEF Extend
    <3>2. p = Piece(a, e + (m + 1))
      BY <1>2, <2>4 DEF p
    <3> QED
      BY <2>1, <2>3, <2>4, <3>1, <3>2 DEF p
  <2>5. CASE ~(m = 0 /\ runs = <<>>)
    <3>1. G(m) = <<Piece(a, e + m)>>
      BY <1>0, <1>1, <2>5
    <3>2. PICK r : r = Piece(a, e + m)
      OBVIOUS
    <3>3. r \in Stretch /\ r.from = a /\ r.to = e + m
      BY <1>0, <1>1, <3>2 DEF Piece, Stretch
    <3>4. Extend(<<r>>, p) = <<Piece(a, e + (m + 1))>>
      <4>1. <<r>> # <<>> /\ Last(<<r>>).to + 1 = p.from /\ Len(<<r>>) = 1
        BY <1>0, <2>2, <3>3, OnePiece
      <4>2. Extend(<<r>>, p) = [<<r>> EXCEPT ![1].to = p.to]
        BY <4>1 DEF Extend
      <4>3. [<<r>> EXCEPT ![1].to = p.to] = <<Piece(r.from, p.to)>>
        BY <3>3, OnePiece
      <4> QED
        BY <2>2, <3>3, <4>2, <4>3
    <3> QED
      BY <2>1, <2>3, <3>1, <3>2, <3>4 DEF p
  <2> QED
    BY <2>4, <2>5
<1> DEFINE S == {m \in Nat : m <= n => f[1 .. m] = G(m)}
<1>6. 0 \in S
  BY <1>4
<1>7. ASSUME NEW m \in Nat, m \in S
      PROVE  m + 1 \in S
  <2>1. SUFFICES ASSUME m + 1 <= n
                 PROVE  f[1 .. m + 1] = G(m + 1)
    OBVIOUS
  <2>2. m < n /\ m <= n
    BY <1>0, <2>1
  <2>3. f[1 .. m] = G(m)
    BY <1>7, <2>2
  <2> HIDE DEF G
  <2> QED
    BY <1>4, <1>5, <2>2, <2>3
<1> HIDE DEF S
<1>8. n \in S
  BY <1>0, <1>6, <1>7, NaturalInduction
<1>9. Shown(runs, pieces) = G(n)
  BY <1>0, <1>3, <1>8 DEF S
<1> QED
  BY <1>0, <1>9 DEF n, e, a

(* Chunks one by one are as long as they are many. *)
LEMMA GreatestOf ==
    ASSUME NEW n \in Nat, NEW S \in SUBSET (1 .. n), S # {}
    PROVE  Max(S) \in S
<1> DEFINE T == {n - x : x \in S}
<1>1. T \subseteq Nat /\ T # {}
  <2>1. \A x \in S : n - x \in Nat /\ n - x \in T
    OBVIOUS
  <2>2. \A t \in T : t \in Nat
    BY <2>1
  <2> HIDE DEF T
  <2> QED
    BY <2>1, <2>2
<1>2. PICK t \in T : \A k \in T : t <= k
  BY <1>1, LeastNatural
<1>3. PICK x \in S : t = n - x
  BY <1>2
<1>4. \A y \in S : x >= y
  <2>1. ASSUME NEW y \in S
        PROVE  x >= y
    <3>1. n - y \in T /\ n - x <= n - y /\ x \in Nat /\ y \in Nat
      BY <1>2, <1>3, <2>1
    <3> QED
      BY <3>1
  <2> QED
    BY <2>1
<1> HIDE DEF T
<1> QED
  BY <1>4 DEF Max

LEMMA UnitLength ==
    ASSUME NEW pieces, NEW n \in Nat, DOMAIN pieces = 1 .. n,
           \A i \in 1 .. n : pieces[i].from \in Nat /\ pieces[i].to = pieces[i].from
    PROVE  Length(pieces) = n
<1> DEFINE Sums(f) == f = [s \in SUBSET (1 .. n) |->
                             IF s = {} THEN 0
                             ELSE f[s \ {Max(s)}] + pieces[Max(s)].to - pieces[Max(s)].from + 1]
           g == CHOOSE f : Sums(f)
           h == [s \in SUBSET (1 .. n) |-> Cardinality(s)]
<1>1. Length(pieces) = g[1 .. n]
  BY DEF Length, FoldLeft, MapThenFoldSet
<1>2. Sums(h)
  <2>1. ASSUME NEW s \in SUBSET (1 .. n), s # {}
        PROVE  h[s] = h[s \ {Max(s)}] + pieces[Max(s)].to - pieces[Max(s)].from + 1
    <3>1. PICK x : x = Max(s)
      OBVIOUS
    <3>2. x \in s /\ x \in 1 .. n /\ s \ {x} \in SUBSET (1 .. n)
      BY <2>1, <3>1, GreatestOf
    <3>3. IsFiniteSet(1 .. n)
      BY 1 \in Int, n \in Int, FS_Interval
    <3>4. IsFiniteSet(s) /\ IsFiniteSet(s \ {x})
      BY <3>3, FS_Subset
    <3>5. Cardinality(s \ {x}) = Cardinality(s) - 1 /\ Cardinality(s) \in Nat
      BY <3>2, <3>4, FS_RemoveElement, FS_CardinalityType
    <3>6. pieces[x].to = pieces[x].from /\ pieces[x].from \in Nat
      BY <3>2
    <3>7. h[s] = Cardinality(s) /\ h[s \ {x}] = Cardinality(s \ {x})
      BY <3>2
    <3> HIDE DEF h
    <3>8. PICK k \in Nat, a \in Nat : k = Cardinality(s) /\ a = pieces[x].from
      BY <3>5, <3>6
    <3>9. h[s] = k /\ h[s \ {x}] = k - 1 /\ pieces[x].from = a /\ pieces[x].to = a
      BY <3>5, <3>6, <3>7, <3>8
    <3>10. k = k - 1 + a - a + 1
      OBVIOUS
    <3> QED
      BY <3>1, <3>9, <3>10
  <2>2. {} \in SUBSET (1 .. n) /\ h[{}] = 0
    BY FS_EmptySet
  <2>3. h = [s \in SUBSET (1 .. n) |-> h[s]]
    OBVIOUS
  <2> HIDE DEF h
  <2>4. \A s \in SUBSET (1 .. n) :
            h[s] = IF s = {} THEN 0 ELSE h[s \ {Max(s)}] + pieces[Max(s)].to - pieces[Max(s)].from + 1
    BY <2>1, <2>2
  <2> QED
    BY <2>3, <2>4
<1>3. Sums(g)
  <2> HIDE DEF Sums, h
  <2> QED
    BY <1>2
<1> HIDE DEF g, h
<1>4. g[1 .. 0] = 0
  <2>1. 1 .. 0 = {} /\ {} \in SUBSET (1 .. n)
    OBVIOUS
  <2> QED
    BY <1>3, <2>1
<1>5. ASSUME NEW m \in Nat, m < n, g[1 .. m] = m
      PROVE  g[1 .. m + 1] = m + 1
  <2>1. /\ 1 .. m + 1 \in SUBSET (1 .. n) /\ 1 .. m + 1 # {} /\ m + 1 \in 1 .. n
        /\ (1 .. m + 1) \ {m + 1} = 1 .. m
    BY <1>5
  <2>2. Max(1 .. m + 1) = m + 1
    BY MaxIs
  <2>3. g[1 .. m + 1] = g[1 .. m] + pieces[m + 1].to - pieces[m + 1].from + 1
    <3>1. PICK t \in SUBSET (1 .. n) : t = 1 .. m + 1
      BY <2>1
    <3>2. g[t] = IF t = {} THEN 0 ELSE g[t \ {Max(t)}] + pieces[Max(t)].to - pieces[Max(t)].from + 1
      BY <1>3
    <3>3. t # {} /\ Max(t) = m + 1 /\ t \ {m + 1} = 1 .. m
      BY <2>1, <2>2, <3>1
    <3> QED
      BY <3>1, <3>2, <3>3
  <2>4. pieces[m + 1].to = pieces[m + 1].from /\ pieces[m + 1].from \in Nat
    BY <2>1
  <2> QED
    BY <1>5, <2>3, <2>4
<1> DEFINE S == {m \in Nat : m <= n => g[1 .. m] = m}
<1>6. 0 \in S
  BY <1>4
<1>7. ASSUME NEW m \in Nat, m \in S
      PROVE  m + 1 \in S
  BY <1>5, <1>7
<1> HIDE DEF S
<1>8. n \in S
  BY <1>6, <1>7, NaturalInduction
<1> QED
  BY <1>1, <1>8 DEF S

-----------------------------------------------------------------------------
(* Steps that show nothing.                                                *)

(* What a step of the relay must come to. *)
Kept == GInv' /\ [Feed!Next]_(Feed!feedVars)

LEMMA OnlyDetaches ==
    ASSUME AttachOnce, Typed, Typed', UNCHANGED <<produced, view>>,
           \A c \in Clients : clientSubscriptions'[c] \subseteq clientSubscriptions[c]
    PROVE  Feed!Next
<1>1. PICK c : Clients = {c}
  BY DEF AttachOnce
<1>2. /\ clientSubscriptions \in [Clients -> SUBSET Sessions]
      /\ clientSubscriptions' \in [Clients -> SUBSET Sessions]
  BY DEF Typed, TypeOK, GwTypeOK
<1>3. clientSubscriptions' = [clientSubscriptions EXCEPT ![c] = clientSubscriptions'[c]]
  BY <1>1, <1>2
<1>4. Feed!Detach(c)
  BY <1>1, <1>3 DEF Feed!Detach
<1> QED
  BY <1>1, <1>4 DEF Feed!Next

LEMMA QuietStep ==
    ASSUME AttachOnce, RInv, HInv', UNCHANGED <<supVars, gwConn, view>>,
           \A s \in Sessions : Lasting(s),
           \A c \in Clients : clientSubscriptions'[c] \subseteq clientSubscriptions[c],
           \A c \in Clients, s \in Sessions : asked[c][s] => asked'[c][s],
           \A c \in Clients : ws'[c] = "new" => ws[c] = "new" /\ asked'[c] = asked[c],
           \A c \in Clients : IsOpen(c)' => IsOpen(c) \/ clientSubscriptions[c] = {},
           \A s \in subscribed' : s \in subscribed \/ \A c \in Clients : asked'[c][s],
           \A p \in pending' : \/ Apt(p)'
                               \/ /\ p \in pending /\ (sock' # "dead" => sock # "dead")
                                  /\ subscribed' \subseteq subscribed
                                  /\ gwConn \in Conns => toGw'[gwConn] \in {toGw[gwConn], Tail(toGw[gwConn])},
           \A k \in Coming' : \/ Due(k)'
                              \/ /\ k \in Coming /\ subscribed' \subseteq subscribed
                                 /\ turn' = "pipe" => turn = "pipe" /\ Slack(k.sid)
    PROVE  Kept
<1>0. /\ Typed /\ Typed' /\ GInv /\ UNCHANGED produced
      /\ \A c \in Clients : clientSubscriptions[c] \subseteq Sessions
  BY DEF RInv, HInv, DInv, supVars, Typed, TypeOK, GwTypeOK
<1>1. ASSUME NEW p \in pending'
      PROVE  Apt(p)'
  <2>1. SUFFICES ASSUME p \in pending, sock' # "dead" => sock # "dead", subscribed' \subseteq subscribed,
                        gwConn \in Conns => toGw'[gwConn] \in {toGw[gwConn], Tail(toGw[gwConn])}
                 PROVE  Apt(p)'
    BY <1>1
  <2>2. Apt(p) /\ p.client \in Clients /\ p.sid \in Sessions
    BY <1>0, <2>1, Known DEF GInv
  <2> QED
    BY <1>0, <2>1, <2>2, AptKept
<1>2. ASSUME NEW k \in Coming'
      PROVE  Due(k)'
  <2>1. SUFFICES ASSUME k \in Coming, subscribed' \subseteq subscribed,
                        turn' = "pipe" => turn = "pipe" /\ Slack(k.sid)
                 PROVE  Due(k)'
    BY <1>2
  <2>2. Due(k) /\ k.client \in Clients /\ k.sid \in Sessions
    BY <1>0, <2>1, Known DEF GInv
  <2>3. CASE Attaches(k) /\ k.ok
    <3>1. k.kind \in Creates => k.sid \notin subscribed'
      BY <2>1, <2>2, <2>3 DEF Due, Granting, Untouched
    <3> QED
      BY <1>0, <2>1, <2>2, <3>1, DueKept
  <2>4. CASE ~(Attaches(k) /\ k.ok)
    BY <2>2, <2>4 DEF Due
  <2> QED
    BY <2>3, <2>4
<1>3. ASSUME NEW c \in Clients, NEW s \in clientSubscriptions'[c]
      PROVE  Screened(c, s)'
  <2>1. s \in clientSubscriptions[c] /\ s \in Sessions /\ Screened(c, s) /\ (IsOpen(c)' => IsOpen(c))
    BY <1>0, <1>3 DEF GInv
  <2> QED
    BY <1>0, <2>1, ScreenKept
<1>4. GInv'
  <2>1. \A s \in Sessions : s \in subscribed' => s \in subscribed \/ \A c \in Clients : asked'[c][s]
    OBVIOUS
  <2>2. {} \in SUBSET Sessions /\ \A c \in Clients, s \in Sessions : view'[c][s] = view[c][s]
    OBVIOUS
  <2> QED
    BY <1>1, <1>2, <1>3, <2>1, <2>2, StepKeeps
<1>5. Feed!Next
  BY <1>0, OnlyDetaches
<1> QED
  BY <1>4, <1>5 DEF Kept

(* A reply settles the one request there is, or none. *)
LEMMA SettledOne ==
    ASSUME Typed, Alone, NEW f \in ServerFrame, Settle(f)
    PROVE  \/ /\ UNCHANGED <<pending, micro>> /\ Coming' = Coming
              /\ \A p \in pending : p.id = f.id => ~Expects(p.kind, f.type)
           \/ \E p \in pending :
                 /\ p.id = f.id /\ Expects(p.kind, f.type) /\ pending' = {} /\ micro' # <<>> /\ micro = <<>>
                 /\ Coming' = {Resume("reply", p, f.type # "error", Snapshot(f))}
<1> DEFINE M == {p \in Awaiting(f) : Expects(p.kind, f.type)}
<1>1. CASE M = {}
  BY <1>1 DEF Settle, Coming, Awaiting
<1>2. CASE M # {}
  <2>1. PICK p \in M : /\ pending' = pending \ {p}
                       /\ micro' = Append(micro, Resume("reply", p, f.type # "error", Snapshot(f)))
    BY <1>2 DEF Settle
  <2>2. p \in pending /\ p.id = f.id /\ Expects(p.kind, f.type)
    BY DEF Awaiting
  <2>3. pending' = {} /\ micro = <<>>
    BY <2>1, <2>2 DEF Alone
  <2>4. PICK k : k = Resume("reply", p, f.type # "error", Snapshot(f))
    OBVIOUS
  <2>5. micro' = <<k>>
    BY <2>1, <2>3, <2>4
  <2>6. Len(<<k>>) = 1 /\ <<k>>[1] = k /\ <<k>> # <<>>
    OBVIOUS
  <2>7. Coming' = {k}
    BY <2>5, <2>6 DEF Coming
  <2> QED
    BY <2>2, <2>3, <2>4, <2>5, <2>6, <2>7
<1> QED
  BY <1>1, <1>2

LEMMA ComingOne ==
    ASSUME NEW k
    PROVE  /\ micro' = <<k>> => Coming' = {k}
           /\ micro' = <<>> => Coming' = {}
           /\ micro = <<>> => Coming = {}
<1>1. Len(<<k>>) = 1 /\ <<k>>[1] = k /\ Len(<<>>) = 0
  OBVIOUS
<1> QED
  BY <1>1 DEF Coming

(* In the pipe's turn. *)
LEMMA PipesTurn ==
    ASSUME Typed, Alone, NEW t, PipeTurn(t), NEW n \in Nat, EndLine(n), Coming # {}, Coming' # {}
    PROVE  turn = "pipe" /\ burst <= burst'
<1>1. micro # <<>> /\ micro' # <<>>
  BY DEF Coming
<1>2. turn = "pipe"
  BY <1>1 DEF Alone, PipeTurn
<1>3. burst \in Nat
  BY DEF Typed, TypeOK, GwTypeOK
<1> QED
  BY <1>1, <1>2, <1>3 DEF EndLine

LEMMA SlackKept ==
    ASSUME Typed, NEW s \in Sessions, burst <= burst', pendingOutput'[s] \in {pendingOutput[s], <<>>},
           burst' \in Nat
    PROVE  Slack(s)
<1>1. pendingOutput[s] \in Seq(Stretch) /\ burst \in Nat
  BY DEF Typed, TypeOK, GwTypeOK
<1>2. Len(pendingOutput[s]) \in Nat /\ Len(<<>>) = 0
  BY <1>1
<1> QED
  BY <1>1, <1>2 DEF Slack

-----------------------------------------------------------------------------
(* Frames that show nothing.                                               *)

LEMMA FrameKeeps ==
    ASSUME AttachOnce, RInv, HInv', GatewayStep, NEW t, PipeTurn(t), EndLine(0),
           UNCHANGED <<toSup, gwConn, subscribed, ws, view, asked>>,
           \A s \in Sessions : pendingOutput'[s] \in {pendingOutput[s], <<>>},
           \A s \in Sessions : Lasting(s),
           \A c \in Clients : clientSubscriptions'[c] \subseteq clientSubscriptions[c],
           sock' # "dead" => sock # "dead",
           pending' \subseteq pending,
           \A k \in Coming' : k \in Coming \/ Due(k)'
    PROVE  Kept
<1>0. /\ Typed /\ Alone /\ supVars' = supVars /\ 0 \in Nat /\ burst' \in Nat
      /\ gwConn \in Conns => toGw'[gwConn] = Tail(toGw[gwConn])
  BY DEF RInv, HInv, DInv, FInv, GatewayStep, PipeTurn, Typed, TypeOK, IpcTypeOK, GwTypeOK
<1>1. \A k \in Coming : k.sid \in Sessions
  BY <1>0, Known
<1>2. ASSUME NEW k \in Coming'
      PROVE  \/ Due(k)'
             \/ /\ k \in Coming /\ subscribed' \subseteq subscribed
                /\ turn' = "pipe" => turn = "pipe" /\ Slack(k.sid)
  BY <1>0, <1>1, <1>2, PipesTurn, SlackKept
<1>3. ASSUME NEW p \in pending'
      PROVE  /\ p \in pending /\ (sock' # "dead" => sock # "dead")
             /\ subscribed' \subseteq subscribed
             /\ gwConn \in Conns => toGw'[gwConn] \in {toGw[gwConn], Tail(toGw[gwConn])}
  BY <1>0, <1>3
<1>4. /\ \A c \in Clients, s \in Sessions : asked[c][s] => asked'[c][s]
      /\ \A c \in Clients : ws'[c] = "new" => ws[c] = "new" /\ asked'[c] = asked[c]
      /\ \A c \in Clients : IsOpen(c)' => IsOpen(c) \/ clientSubscriptions[c] = {}
      /\ \A s \in subscribed' : s \in subscribed \/ \A c \in Clients : asked'[c][s]
  BY DEF IsOpen
<1> QED
  BY <1>0, <1>2, <1>3, <1>4, QuietStep

LEMMA SmallTalkKeeps ==
    ASSUME AttachOnce, RInv, HInv', GatewayStep,
           GotHello \/ GotUnsubscribed \/ GotSessions \/ GotCreated \/ GotError
    PROVE  Kept
<1>1. PICK t : /\ t \in {"hello", "unsubscribed", "sessions", "created", "error"} /\ PipeTurn(t) /\ EndLine(0)
               /\ UNCHANGED <<toSup, gwConn, subscribed, ws, view, asked, pendingOutput, clientSubscriptions,
                              sock>>
               /\ UNCHANGED <<pending, micro>> \/ (Settle(Incoming) /\ t \in {"created", "error"})
  BY DEF GotHello, GotUnsubscribed, GotSessions, GotCreated, GotError, Ignored, relayVars
<1>2. /\ Typed /\ Alone /\ UNCHANGED supVars /\ HInv /\ Incoming.type = t /\ Incoming \in ServerFrame
  BY <1>1, PipeTyped DEF RInv, HInv, DInv, FInv, GatewayStep
<1>3. ASSUME NEW s \in Sessions
      PROVE  Lasting(s)
  <2>1. ~Word(Incoming, s) /\ ~IsSnap(Incoming, s)
    BY <1>1, <1>2 DEF Word, IsSnap
  <2>2. Calm(s)
    BY <1>1, <1>2, <2>1, CalmRead
  <2> QED
    BY <1>2, <2>2, CalmLasts
<1>4. pending' \subseteq pending /\ \A k \in Coming' : k \in Coming \/ Due(k)'
  <2>1. CASE UNCHANGED <<pending, micro>>
    BY <2>1 DEF Coming
  <2>2. CASE Settle(Incoming) /\ t \in {"created", "error"}
    <3>1. ASSUME NEW p \in pending, p.id = Incoming.id, Expects(p.kind, t), pending' = {}, micro = <<>>,
                 Coming' = {Resume("reply", p, t # "error", Snapshot(Incoming))}
          PROVE  \A k \in Coming' : Due(k)'
      <4>0. PICK k : k = Resume("reply", p, t # "error", Snapshot(Incoming))
        OBVIOUS
      <4>1. /\ k.client = p.client /\ k.sid = p.sid /\ k.kind = p.kind /\ k.attach = p.attach
            /\ k.ok = (t # "error")
        BY <4>0 DEF Resume
      <4>2. Apt(p) /\ p.client \in Clients /\ p.sid \in Sessions
        BY <1>2, Known DEF RInv, GInv
      <4>3. k.ok => k.kind \in Creates
        BY <1>1, <2>2, <3>1, <4>1 DEF Expects
      <4>4. Attaches(k) /\ k.ok => Granting(k)'
        <5>1. SUFFICES ASSUME Attaches(k), k.ok
                       PROVE  Granting(k)'
          OBVIOUS
        <5>2. Wished(p) /\ p.kind \in Creates /\ p.kind # "attach"
          BY <4>1, <4>2, <4>3, <5>1 DEF Apt, Attaches, Creates
        <5>3. Untouched(p.sid) /\ Unseen(p.client, p.sid)
          BY <5>2 DEF Wished
        <5>4. Untouched(p.sid)'
          BY <1>1, <1>3, <4>2, <5>3 DEF Lasting, Untouched
        <5>5. Unseen(p.client, p.sid)'
          BY <1>1, <5>3 DEF Unseen
        <5> QED
          BY <4>1, <5>2, <5>4, <5>5 DEF Granting, Unseen
      <4>5. ~Watching(k)
        BY <4>1, <4>2 DEF Apt, Watching
      <4> QED
        BY <3>1, <4>0, <4>4, <4>5 DEF Due
    <3> QED
      BY <1>1, <1>2, <2>2, <3>1, SettledOne
  <2> QED
    BY <1>1, <2>1, <2>2
<1> QED
  BY <1>1, <1>3, <1>4, FrameKeeps

(* A snapshot waits in front: nothing of its session is known to be next.  *)
LEMMA SnapInFront ==
    ASSUME Typed, EInv, NEW t, PipeTurn(t), NEW s \in Sessions, IsSnap(Incoming, s)
    PROVE  ~Untouched(s) /\ \A n : Flow(s, n) => Hushed(s)
<1>1. /\ gwConn \in Conns /\ toGw[gwConn] # <<>> /\ toGw[gwConn] \in Seq(ServerFrame)
      /\ Incoming = toGw[gwConn][1] /\ 1 \in 1 .. Len(toGw[gwConn])
  <2>1. gwConn \in Conns /\ toGw[gwConn] # <<>> /\ toGw[gwConn] \in Seq(ServerFrame)
    BY PipeTyped DEF Typed, TypeOK, IpcTypeOK, PipeTurn
  <2> QED
    BY <2>1 DEF Incoming
<1>2. Snaps(toGw[gwConn], s)
  BY <1>1 DEF Snaps
<1> QED
  BY <1>1, <1>2 DEF Untouched, Flow, Stream

(* What ends a session leaves nothing of it behind. *)
LEMMA EndLeavesNothing ==
    ASSUME Typed, EInv, GatewayStep, NEW t, PipeTurn(t), NEW s \in Sessions, Final(Incoming, s), UNCHANGED gwConn,
           pendingOutput'[s] = <<>>
    PROVE  Hushed(s)'
<1>1. /\ gwConn \in Conns /\ toGw[gwConn] # <<>> /\ toGw \in [Conns -> Seq(ServerFrame)]
      /\ toGw' = [toGw EXCEPT ![gwConn] = Tail(@)] /\ UNCHANGED supVars
  BY PipeTyped DEF Typed, TypeOK, IpcTypeOK, PipeTurn, GatewayStep
<1>2. toGw'[gwConn] = Tail(toGw[gwConn]) /\ Incoming = toGw[gwConn][1] /\ 1 \in 1 .. Len(toGw[gwConn])
      /\ \A i \in 1 .. Len(Tail(toGw[gwConn])) :
             i + 1 \in 1 .. Len(toGw[gwConn]) /\ 1 < i + 1 /\ Tail(toGw[gwConn])[i] = toGw[gwConn][i + 1]
  BY <1>1 DEF Incoming
<1>3. Over(s)
  BY <1>1, <1>2 DEF EInv, Endings, Finals
<1>4. \A i \in 1 .. Len(Tail(toGw[gwConn])) : ~Word(Tail(toGw[gwConn])[i], s)
  BY <1>1, <1>2 DEF EInv, Endings, LastWords
<1> QED
  BY <1>1, <1>2, <1>3, <1>4 DEF Hushed, Over, supVars

LEMMA RemovedKeeps ==
    ASSUME AttachOnce, RInv, HInv', GatewayStep, GotRemoved
    PROVE  Kept
<1> DEFINE z == Incoming.sid
<1>1. /\ PipeTurn("removed") /\ EndLine(0) /\ subscribed' = subscribed \ {z}
      /\ UNCHANGED <<toSup, gwConn, sock, ws, view, asked, pending, micro>>
      /\ pendingOutput' = [pendingOutput EXCEPT ![z] = <<>>]
      /\ clientSubscriptions' = [c \in Clients |-> clientSubscriptions[c] \ {z}]
  BY DEF GotRemoved, ForgetSubscribed
<1>2. /\ Typed /\ EInv /\ UNCHANGED supVars /\ HInv /\ Incoming.type = "removed" /\ z \in Sessions
      /\ pendingOutput \in [Sessions -> Seq(Stretch)] /\ Alone /\ Incoming.sid = z /\ 0 \in Nat /\ burst' \in Nat
  BY <1>1, PipeTyped DEF RInv, HInv, DInv, FInv, GatewayStep, AboutSession, Typed, TypeOK, GwTypeOK
<1> HIDE DEF z
<1>3. pendingOutput'[z] = <<>> /\ \A s \in Sessions : s # z => pendingOutput'[s] = pendingOutput[s]
  BY <1>1, <1>2
<1>4. ASSUME NEW s \in Sessions
      PROVE  Lasting(s)
  <2>0. ~Word(Incoming, s) /\ ~IsSnap(Incoming, s)
    BY <1>2 DEF Word, IsSnap
  <2>1. CASE pendingOutput'[s] = pendingOutput[s]
    <3>1. Calm(s)
      BY <1>1, <1>2, <2>0, <2>1, CalmRead
    <3> QED
      BY <1>2, <3>1, CalmLasts
  <2>2. CASE pendingOutput'[s] # pendingOutput[s]
    <3>1. s = z /\ pendingOutput[s] # <<>>
      BY <1>3, <2>2
    <3>2. Final(Incoming, s)
      BY <1>2, <3>1 DEF Final
    <3>3. Hushed(s)'
      BY <1>1, <1>2, <1>3, <3>1, <3>2, EndLeavesNothing
    <3> QED
      BY <3>1, <3>3, HushedFlows DEF Lasting, Untouched, Expected
  <2> QED
    BY <2>1, <2>2
<1>5. ASSUME NEW k \in Coming'
      PROVE  /\ k \in Coming /\ subscribed' \subseteq subscribed
             /\ turn' = "pipe" => turn = "pipe" /\ Slack(k.sid)
  <2>1. k \in Coming
    BY <1>1, <1>5 DEF Coming
  <2>2. k.sid \in Sessions
    BY <1>2, <2>1, Known
  <2> QED
    BY <1>1, <1>2, <1>3, <1>5, <2>1, <2>2, PipesTurn, SlackKept
<1>6. ASSUME NEW p \in pending'
      PROVE  /\ p \in pending /\ (sock' # "dead" => sock # "dead")
             /\ subscribed' \subseteq subscribed
             /\ gwConn \in Conns => toGw'[gwConn] \in {toGw[gwConn], Tail(toGw[gwConn])}
  BY <1>1, <1>6 DEF PipeTurn, HInv, DInv, Typed, TypeOK, IpcTypeOK
<1>7. /\ \A c \in Clients, s \in Sessions : asked[c][s] => asked'[c][s]
      /\ \A c \in Clients : ws'[c] = "new" => ws[c] = "new" /\ asked'[c] = asked[c]
      /\ \A c \in Clients : IsOpen(c)' => IsOpen(c) \/ clientSubscriptions[c] = {}
      /\ \A s \in subscribed' : s \in subscribed \/ \A c \in Clients : asked'[c][s]
      /\ \A c \in Clients : clientSubscriptions'[c] \subseteq clientSubscriptions[c]
  BY <1>1 DEF IsOpen
<1> QED
  BY <1>1, <1>2, <1>4, <1>5, <1>6, <1>7, QuietStep

-----------------------------------------------------------------------------
(* A snapshot arrives.                                                     *)

LEMMA ChainSkip ==
    ASSUME NEW q \in Seq(ServerFrame), NEW s, q # <<>>, ~Word(Head(q), s)
    PROVE  /\ \A n, m \in Nat : Chain(q, s, n, m) => Chain(Tail(q), s, n, m)
           /\ Exits(Tail(q), s) => Exits(q, s)
<1> PICK r : r = Tail(q)
  OBVIOUS
<1>1. /\ \A j \in 1 .. Len(r) : j + 1 \in 1 .. Len(q) /\ r[j] = q[j + 1]
      /\ \A j \in 1 .. Len(q) : j # 1 => j - 1 \in 1 .. Len(r) /\ r[j - 1] = q[j]
      /\ Len(q) \in Nat /\ Len(r) \in Nat
  OBVIOUS
<1>2. ~IsOut(q[1], s)
  BY DEF IsOut, Word
<1>3. Exits(r, s) => Exits(q, s)
  BY <1>1 DEF Exits
<1>4. ASSUME NEW n \in Nat, NEW m \in Nat, Chain(q, s, n, m)
      PROVE  Chain(r, s, n, m)
  <2>1. \A j \in 1 .. Len(r) : IsOut(r[j], s) => r[j].from = r[j].to /\ n < r[j].to /\ r[j].to <= m
    BY <1>1, <1>4 DEF Chain
  <2>2. ASSUME NEW i \in 1 .. Len(r), NEW j \in 1 .. Len(r), i < j, IsOut(r[i], s), IsOut(r[j], s)
        PROVE  r[i].to < r[j].to
    BY <1>1, <1>4, <2>2 DEF Chain
  <2>3. ASSUME NEW k \in n + 1 .. m
        PROVE  \E j \in 1 .. Len(r) : IsOut(r[j], s) /\ r[j].to = k
    <3>1. PICK j \in 1 .. Len(q) : IsOut(q[j], s) /\ q[j].to = k
      BY <1>4 DEF Chain
    <3>2. j # 1
      BY <1>2, <3>1
    <3> QED
      BY <1>1, <3>1, <3>2
  <2> QED
    BY <2>1, <2>2, <2>3 DEF Chain
<1> QED
  BY <1>3, <1>4

(* The snapshot in front is the one that is waited for.                    *)
LEMMA SnapTaken ==
    ASSUME Typed, NEW s \in Sessions, PipeTurn("subscribed"), UNCHANGED <<toSup, gwConn, supVars>>,
           NEW n \in Nat, Expected(n, s), NEW f, f = Incoming, IsSnap(f, s)
    PROVE  /\ f.id = n /\ pendingOutput[s] = <<>>
           /\ 1 <= f.from /\ (f.from <= f.to \/ f.to = 0)
           /\ f.to <= produced[s]
           /\ Stream(s, f.to)'
<1>1. /\ gwConn \in Conns /\ toGw[gwConn] # <<>> /\ toGw[gwConn] \in Seq(ServerFrame)
      /\ toGw' = [toGw EXCEPT ![gwConn] = Tail(@)] /\ toGw \in [Conns -> Seq(ServerFrame)]
      /\ Incoming.to \in Nat /\ produced[s] \in Nat /\ UNCHANGED <<produced, conn, subscribers>>
  BY PipeTyped DEF Typed, TypeOK, IpcTypeOK, SupTypeOK, PipeTurn, supVars
<1>2. PICK q : q = toGw[gwConn]
  OBVIOUS
<1>3. /\ q \in Seq(ServerFrame) /\ q # <<>> /\ f = q[1] /\ 1 \in 1 .. Len(q) /\ toGw'[gwConn] = Tail(q)
      /\ f = Head(q)
  BY <1>1, <1>2 DEF Incoming
<1>4. f.type = "subscribed" /\ f.sid = s /\ f.to \in Nat
  BY <1>1, <1>2 DEF IsSnap
<1>5. Snaps(q, s)
  BY <1>3, <1>4 DEF Snaps, IsSnap
<1>6. ~Asks(toSup[gwConn], s) /\ \E i \in 1 .. Len(q) : Opening(q, i, s, n) /\ Follows(s, q[i].to)
  BY <1>2, <1>5 DEF Expected
<1>7. PICK i \in 1 .. Len(q) : Opening(q, i, s, n) /\ Follows(s, q[i].to)
  BY <1>6
<1>8. i = 1
  BY <1>3, <1>4, <1>7 DEF Opening, IsSnap
<1>9. Opening(q, 1, s, n) /\ Follows(s, f.to)
  BY <1>3, <1>7, <1>8
<1>10. f.id = n /\ 1 <= f.from /\ (f.from <= f.to \/ f.to = 0)
  BY <1>3, <1>9 DEF Opening
<1>11. PICK m \in Nat : /\ f.to <= m /\ m <= produced[s]
                        /\ Chain(q, s, f.to, m)
                        /\ On(s) \/ Exits(q, s) => m = produced[s]
  BY <1>2, <1>9 DEF Follows
<1>12. Chain(Tail(q), s, f.to, m) /\ (Exits(Tail(q), s) => Exits(q, s))
  <2>1. ~Word(Head(q), s)
    BY <1>3, <1>4 DEF Word
  <2>2. f.to \in Nat /\ m \in Nat
    BY <1>4
  <2> QED
    BY <1>3, <1>11, <2>1, <2>2, ChainSkip
<1>13. ~Snaps(Tail(q), s)
  <2>1. SUFFICES ASSUME NEW j \in 1 .. Len(Tail(q)), IsSnap(Tail(q)[j], s)
                 PROVE  FALSE
    BY DEF Snaps
  <2>2. j + 1 \in 1 .. Len(q) /\ Tail(q)[j] = q[j + 1] /\ j + 1 # 1
    BY <1>3
  <2> QED
    BY <1>9, <2>1, <2>2 DEF Opening
<1>14. On(s)' = On(s)
  BY <1>1 DEF On
<1>15. Follows(s, f.to)'
  BY <1>1, <1>3, <1>11, <1>12, <1>14 DEF Follows
<1>16. Stream(s, f.to)'
  BY <1>1, <1>3, <1>6, <1>13, <1>15 DEF Stream
<1>17. f.to <= produced[s]
  BY <1>1, <1>4, <1>11
<1> QED
  BY <1>2, <1>10, <1>16, <1>17 DEF Expected

LEMMA SubscribedKeeps ==
    ASSUME AttachOnce, RInv, HInv', GatewayStep, GotSubscribed
    PROVE  Kept
<1>1. /\ PipeTurn("subscribed") /\ EndLine(0) /\ Settle(Incoming)
      /\ UNCHANGED <<toSup, gwConn, sock, subscribed, ws, view, asked, pendingOutput, clientSubscriptions>>
  BY DEF GotSubscribed, relayVars
<1>2. /\ Typed /\ Alone /\ EInv /\ UNCHANGED supVars /\ HInv /\ Incoming.type = "subscribed"
      /\ Incoming \in ServerFrame /\ Incoming.sid \in Sessions /\ Unopened /\ Endings
      /\ gwConn \in Conns /\ toGw[gwConn] # <<>> /\ toGw[gwConn] \in Seq(ServerFrame)
      /\ Typed' /\ UNCHANGED produced /\ \E c \in Clients : TRUE
  BY <1>1, PipeTyped DEF RInv, HInv, DInv, FInv, EInv, GatewayStep, AboutSession, PipeTurn, Typed, TypeOK, IpcTypeOK,
     AttachOnce, supVars
<1>3. PICK f : f = Incoming
  OBVIOUS
<1>4. ASSUME NEW s \in Sessions, s # f.sid
      PROVE  Lasting(s)
  <2>1. ~Word(Incoming, s) /\ ~IsSnap(Incoming, s)
    BY <1>2, <1>3, <1>4 DEF Word, IsSnap
  <2>2. Calm(s)
    BY <1>1, <1>2, <2>1, CalmRead
  <2> QED
    BY <1>2, <2>2, CalmLasts
<1>5. PICK z \in Sessions : z = f.sid
  BY <1>2, <1>3
<1>6. IsSnap(Incoming, z) /\ IsSnap(f, z)
  BY <1>2, <1>3, <1>5 DEF IsSnap
<1>7. ~Untouched(z) /\ \A n : Flow(z, n) => Flow(z, n)'
  <2>1. ~Untouched(z) /\ \A n : Flow(z, n) => Hushed(z)
    BY <1>1, <1>2, <1>6, SnapInFront
  <2>2. Hushed(z) => Hushed(z)'
    BY <1>2, HushKept
  <2> QED
    BY <2>1, <2>2, HushedFlows
<1>8. CASE /\ UNCHANGED <<pending, micro>> /\ Coming' = Coming
           /\ \A p \in pending : p.id = f.id => ~Expects(p.kind, f.type)
  <2>1. ASSUME NEW p \in pending, p.kind = "attach", p.sid = z
        PROVE  ~Expected(p.id, z)
    <3>1. p.id \in Nat
      BY <1>2, <2>1, Known
    <3>2. Expected(p.id, z) => f.id = p.id
      BY <1>1, <1>2, <1>3, <1>6, <3>1, SnapTaken
    <3>3. Expects(p.kind, f.type)
      BY <1>2, <1>3, <2>1 DEF Expects, Creates
    <3> QED
      BY <1>8, <3>2, <3>3
  <2>2. Lasting(z)
    BY <1>7, <2>1 DEF Lasting
  <2> QED
    BY <1>1, <1>4, <1>5, <1>8, <2>2, FrameKeeps
<1>9. ASSUME NEW p \in pending, p.id = f.id, Expects(p.kind, f.type), pending' = {}, micro = <<>>,
             Coming' = {Resume("reply", p, f.type # "error", Snapshot(f))}
      PROVE  Kept
  <2>1. Lasting(z)
    BY <1>7, <1>9 DEF Lasting
  <2>2. PICK k : k = Resume("reply", p, f.type # "error", Snapshot(f))
    OBVIOUS
  <2>3. /\ k.client = p.client /\ k.sid = p.sid /\ k.kind = p.kind
        /\ k.output = Pieces(f.from, f.to)
    BY <1>2, <1>3, <2>2 DEF Resume, Snapshot
  <2>4. Apt(p) /\ p.client \in Clients /\ p.sid \in Sessions /\ p.id \in Nat /\ p.kind \in Kinds
    BY <1>2, Known DEF RInv, GInv
  <2>5. p.kind = "attach"
    BY <1>2, <1>3, <1>9, <2>4 DEF Apt, Watching, Expects, Creates, Kinds
  <2>6. p.sid = z
    <3>1. Incoming = toGw[gwConn][1] /\ 1 \in 1 .. Len(toGw[gwConn])
      BY <1>2 DEF Incoming
    <3> QED
      BY <1>2, <1>3, <1>5, <1>9, <2>4, <2>5, <3>1 DEF Apt, Answered
  <2>7. Wished(p) /\ sock # "dead"
    BY <1>1, <2>4, <2>5 DEF Apt, Attaches, PipeTurn
  <2>8. Expected(p.id, z) /\ Unseen(p.client, z)
    BY <2>5, <2>6, <2>7 DEF Wished
  <2>9. /\ pendingOutput[z] = <<>>
        /\ 1 <= f.from /\ (f.from <= f.to \/ f.to = 0)
        /\ f.to <= produced[z]
        /\ Stream(z, f.to)'
    BY <1>1, <1>2, <1>3, <1>6, <2>4, <2>8, SnapTaken
  <2>10. Stream(z, f.to)' /\ f.from \in Nat /\ f.to \in Nat /\ 1 <= f.from /\ (f.from <= f.to \/ f.to = 0)
         /\ f.to <= produced[z]
    <3>1. f \in ServerFrame
      BY <1>2, <1>3
    <3>2. f.from \in Nat /\ f.to \in Nat
      BY <3>1, FrameEnds
    <3> QED
      BY <2>9, <3>2
  <2>11. Part(k.output, z) /\ End(k.output) = f.to
    <3>1. CASE f.to < f.from
      <4>1. k.output = <<>> /\ f.to = 0
        BY <2>3, <2>10, <3>1 DEF Pieces
      <4> QED
        BY <4>1 DEF Part, End
    <3>2. CASE ~(f.to < f.from)
      <4>0. k.output = <<Piece(f.from, f.to)>>
        BY <2>3, <3>2 DEF Pieces
      <4>1. Piece(f.from, f.to) \in Stretch /\ Piece(f.from, f.to).from = f.from /\ Piece(f.from, f.to).to = f.to
        BY <2>10 DEF Piece, Stretch
      <4>2. PICK x \in Stretch : x = Piece(f.from, f.to)
        BY <4>1
      <4>3. Len(<<x>>) = 1 /\ <<x>>[1] = x /\ <<x>> # <<>> /\ End(<<x>>) = x.to
        BY OnePiece
      <4> QED
        BY <2>10, <3>2, <4>0, <4>1, <4>2, <4>3 DEF Part
    <3> QED
      BY <3>1, <3>2
  <2>12. Part(k.output, z)' /\ pendingOutput'[z] = <<>> /\ Len(<<>>) = 0
    BY <1>1, <1>2, <2>9, <2>11 DEF Part
  <2>13. Flow(z, End(k.output))'
    <3>1. PICK e : e = End(k.output)
      OBVIOUS
    <3>2. e = f.to /\ e + Len(pendingOutput'[z]) = e /\ e \in Nat
      BY <2>10, <2>11, <2>12, <3>1
    <3>3. Stream(z, e + Len(pendingOutput[z]))'
      BY <2>10, <3>2
    <3>4. Held(z, e)'
      BY <2>12 DEF Held
    <3> QED
      BY <3>1, <3>3, <3>4 DEF Flow
  <2>14. Unseen(k.client, z)'
    BY <1>1, <2>3, <2>8 DEF Unseen
  <2>15. burst' \in Nat
    BY <1>2 DEF Typed, TypeOK, GwTypeOK
  <2>16. Due(k)'
    BY <2>3, <2>5, <2>6, <2>12, <2>13, <2>14, <2>15 DEF Due, Granting, Creates, Watching
  <2> QED
    BY <1>1, <1>4, <1>5, <1>9, <2>1, <2>2, <2>16, FrameKeeps
<1> QED
  BY <1>1, <1>2, <1>3, <1>8, <1>9, SettledOne

-----------------------------------------------------------------------------
(* Steps that show output.                                                 *)

(* The chunks one by one after chunk n. *)
Units(pieces, n) == \A i \in 1 .. Len(pieces) : pieces[i] = Piece(n + i, n + i)

LEMMA FlushShows ==
    ASSUME NEW s \in Sessions, produced[s] \in Nat, NEW runs \in Seq(Stretch), Part(runs, s),
           NEW pieces \in Seq(Stretch),
           Units(pieces, End(runs)), End(runs) + Len(pieces) <= produced[s],
           NEW new, new = Shown(runs, pieces)
    PROVE  /\ new \in Seq(Stretch) /\ Part(new, s) /\ End(new) = End(runs) + Len(pieces)
           /\ \/ new = runs
              \/ /\ Len(new) = 1 /\ Feed!IsOutput(new[1], s)
                 /\ runs # <<>> => new[1].from = runs[1].from /\ new[1].to > runs[1].to
<1>0. End(runs) \in Nat /\ Len(pieces) \in Nat
  BY EndTyped
<1>1. CASE pieces = <<>>
  <2>1. new = runs /\ Len(pieces) = 0
    BY <1>1, ShownNone
  <2> QED
    BY <1>0, <2>1
<1>2. CASE pieces # <<>>
  <2>1. new = <<Piece(FirstShown(runs), End(runs) + Len(pieces))>> /\ Len(pieces) > 0
    BY <1>2, ShownOn DEF Units
  <2>2. FirstShown(runs) \in Nat /\ 1 <= FirstShown(runs) /\ FirstShown(runs) <= End(runs) + 1
        /\ (runs # <<>> => FirstShown(runs) = runs[1].from /\ End(runs) = runs[1].to)
    <3>1. CASE runs = <<>>
      BY <3>1 DEF FirstShown, End
    <3>2. CASE runs # <<>>
      <4>1. /\ Len(runs) = 1 /\ runs[1] \in Stretch /\ 1 <= runs[1].from /\ runs[1].from <= runs[1].to
        BY <3>2, OneRun DEF Part
      <4> QED
        BY <3>2, <4>1 DEF FirstShown, End, Stretch
    <3> QED
      BY <3>1, <3>2
  <2>3. PICK a, b : a = FirstShown(runs) /\ b = End(runs) + Len(pieces)
    OBVIOUS
  <2>4. a \in Nat /\ b \in Nat /\ 1 <= a /\ a <= b /\ b <= produced[s]
    BY <1>0, <2>1, <2>2, <2>3
  <2>5. PICK x \in Stretch : x = Piece(a, b)
    BY <2>4 DEF Piece, Stretch
  <2>6. x.from = a /\ x.to = b
    BY <2>5 DEF Piece
  <2>7. new = <<x>> /\ Len(<<x>>) = 1 /\ <<x>>[1] = x /\ <<x>> # <<>> /\ End(<<x>>) = x.to
    BY <2>1, <2>3, <2>5, OnePiece
  <2>8. Part(new, s)
    BY <2>4, <2>6, <2>7 DEF Part
  <2>9. Feed!IsOutput(new[1], s)
    BY <2>4, <2>6, <2>7 DEF Feed!IsOutput, Feed!Stretches, Stretch
  <2> QED
    BY <1>0, <2>1, <2>2, <2>3, <2>6, <2>7, <2>8, <2>9
<1> QED
  BY <1>1, <1>2

(* What a client that is attached to z is shown of it.                     *)
LEMMA ScreenFlushed ==
    ASSUME RInv, Typed', UNCHANGED <<supVars, ws>>, NEW c \in Clients, NEW z \in clientSubscriptions[c],
           ~Hushed(z), NEW pieces \in Seq(Stretch),
           \A n, e \in Nat : Flow(z, n) /\ e = n + Len(pieces) =>
               /\ Units(pieces, n) /\ e <= produced[z]
               /\ Flow(z, e)'
               /\ view'[c][z].exited => e = produced[z],
           ~IsOpen(c) => view'[c][z] = view[c][z],
           IsOpen(c) => view'[c][z].runs = Shown(view[c][z].runs, pieces)
    PROVE  /\ view'[c][z] = view[c][z] \/ Feed!GoesOn(view[c][z], view'[c][z], z)
           /\ Screened(c, z)'
<1>1. /\ Typed /\ GInv /\ AfterExit /\ UNCHANGED produced /\ z \in Sessions /\ produced[z] \in Nat
      /\ view[c][z] \in Screen /\ view'[c][z] \in Screen
  BY DEF RInv, HInv, DInv, EInv, Typed, TypeOK, SupTypeOK, GwTypeOK, supVars
<1>2. Screened(c, z)
  BY <1>1 DEF GInv
<1>3. CASE ~IsOpen(c)
  BY <1>1, <1>2, <1>3 DEF Screened, Part, IsOpen
<1>4. CASE IsOpen(c)
  <2>1. PICK runs, new : runs = view[c][z].runs /\ new = Shown(runs, pieces)
    OBVIOUS
  <2>2. runs \in Seq(Stretch) /\ Part(runs, z) /\ Flow(z, End(runs)) /\ End(runs) \in Nat
    BY <1>1, <1>2, <1>4, <2>1, EndTyped DEF Screened, Screen
  <2>3. PICK n, e \in Nat : n = End(runs) /\ e = n + Len(pieces)
    BY <2>2
  <2>4. /\ Units(pieces, n) /\ e <= produced[z] /\ Flow(z, e)'
        /\ view'[c][z].exited => e = produced[z]
    BY <2>2, <2>3
  <2>5. /\ new \in Seq(Stretch) /\ Part(new, z) /\ End(new) = e
        /\ \/ new = runs
           \/ /\ Len(new) = 1 /\ Feed!IsOutput(new[1], z)
              /\ runs # <<>> => new[1].from = runs[1].from /\ new[1].to > runs[1].to
    BY <1>1, <2>1, <2>2, <2>3, <2>4, FlushShows
  <2>6. view'[c][z].runs = new /\ ~view[c][z].exited
    BY <1>1, <1>4, <2>1 DEF AfterExit
  <2>7. view'[c][z].exited => produced[z] = 0 \/ (new # <<>> /\ new[1].to = produced[z])
    BY <2>4, <2>5 DEF Part, End
  <2>8. Feed!GoesOn(view[c][z], view'[c][z], z)
    BY <2>1, <2>5, <2>6, <2>7 DEF Feed!GoesOn
  <2>9. Part(new, z)'
    BY <1>1, <2>5 DEF Part
  <2>10. Flow(z, End(new))'
    BY <2>4, <2>5
  <2> QED
    BY <2>6, <2>8, <2>9, <2>10 DEF Screened
<1> QED
  BY <1>3, <1>4

(* A step of the gateway that shows clients what they were not shown.      *)
LEMMA ShowingKeeps ==
    ASSUME AttachOnce, RInv, HInv',
           UNCHANGED <<supVars, gwConn, clientSubscriptions, asked, ws, subscribed, pending, micro, sock>>,
           NEW B \in SUBSET Sessions,
           \A s \in Sessions : s \in B \/ (Lasting(s) /\ \A c \in Clients : view'[c][s] = view[c][s]),
           \A s \in B : ~Untouched(s),
           \A c \in Clients, s \in Sessions :
               s \notin clientSubscriptions[c] => view'[c][s] = view[c][s],
           \A c \in Clients : \A s \in clientSubscriptions[c] \cap B :
               /\ view'[c][s] = view[c][s] \/ Feed!GoesOn(view[c][s], view'[c][s], s)
               /\ Screened(c, s)',
           gwConn \in Conns => toGw'[gwConn] \in {toGw[gwConn], Tail(toGw[gwConn])},
           \A p \in pending : p.sid \in B => Apt(p)',
           \A k \in Coming : \/ k.sid \in B /\ Due(k)'
                             \/ k.sid \notin B /\ (turn' = "pipe" => turn = "pipe" /\ Slack(k.sid))
    PROVE  Kept
<1>0. /\ Typed /\ Typed' /\ GInv /\ UNCHANGED produced /\ Coming' = Coming
      /\ \A c \in Clients : clientSubscriptions[c] \subseteq Sessions
  BY DEF RInv, HInv, DInv, supVars, Typed, TypeOK, GwTypeOK, Coming
<1>1. ASSUME NEW p \in pending'
      PROVE  Apt(p)'
  <2>1. p \in pending /\ Apt(p) /\ p.client \in Clients /\ p.sid \in Sessions
    BY <1>0, <1>1, Known DEF GInv
  <2>2. CASE p.sid \in B
    BY <2>1, <2>2
  <2>3. CASE p.sid \notin B
    <3>1. Lasting(p.sid) /\ view'[p.client][p.sid] = view[p.client][p.sid]
      BY <2>1, <2>3
    <3> QED
      BY <1>0, <1>1, <2>1, <3>1, AptKept
  <2> QED
    BY <2>2, <2>3
<1>2. ASSUME NEW k \in Coming'
      PROVE  Due(k)'
  <2>1. k \in Coming /\ Due(k) /\ k.client \in Clients /\ k.sid \in Sessions
    BY <1>0, <1>2, Known DEF GInv
  <2>2. CASE k.sid \in B
    BY <2>1, <2>2
  <2>3. CASE k.sid \notin B
    <3>1. Lasting(k.sid) /\ view'[k.client][k.sid] = view[k.client][k.sid]
          /\ (turn' = "pipe" => turn = "pipe" /\ Slack(k.sid))
      BY <2>1, <2>3
    <3>2. CASE Attaches(k) /\ k.ok
      <4>1. k.kind \in Creates => k.sid \notin subscribed'
        BY <2>1, <3>2 DEF Due, Granting, Untouched
      <4> QED
        BY <1>0, <2>1, <3>1, <4>1, DueKept
    <3>3. CASE ~(Attaches(k) /\ k.ok)
      BY <2>1, <3>3 DEF Due
    <3> QED
      BY <3>2, <3>3
  <2> QED
    BY <2>2, <2>3
<1>3. ASSUME NEW c \in Clients, NEW s \in clientSubscriptions'[c]
      PROVE  Screened(c, s)'
  <2>1. s \in clientSubscriptions[c] /\ s \in Sessions /\ Screened(c, s) /\ (IsOpen(c)' => IsOpen(c))
    BY <1>0, <1>3 DEF GInv, IsOpen
  <2>2. CASE s \in B
    BY <2>1, <2>2
  <2>3. CASE s \notin B
    BY <1>0, <2>1, <2>3, ScreenKept
  <2> QED
    BY <2>2, <2>3
<1>4. ASSUME NEW c \in Clients, NEW s \in Sessions, ~asked'[c][s]
      PROVE  view'[c][s] = view[c][s]
  <2>1. ~asked[c][s]
    BY <1>4
  <2>2. s \notin clientSubscriptions[c]
    BY <1>0, <2>1 DEF GInv, Unasking, Unseen
  <2> QED
    BY <2>2
<1>5. GInv'
  <2>1. \A s \in Sessions : s \in B \/ Lasting(s)
    OBVIOUS
  <2> QED
    BY <1>0, <1>1, <1>2, <1>3, <1>4, <2>1, StepKeeps
<1>6. Feed!Deliver
  <2>1. ASSUME NEW c \in Clients, NEW s \in Sessions, view'[c][s] # view[c][s]
        PROVE  s \in clientSubscriptions[c] /\ Feed!GoesOn(view[c][s], view'[c][s], s)
    <3>1. s \in clientSubscriptions[c] /\ s \in B
      BY <2>1
    <3> QED
      BY <2>1, <3>1
  <2> QED
    BY <1>0, <2>1 DEF Feed!Deliver
<1> QED
  BY <1>5, <1>6 DEF Kept, Feed!Next

(* A word of s is in front.                                                *)
LEMMA WordInFront ==
    ASSUME Typed, NEW s \in Sessions, NEW t \in {"output", "exit"}, PipeTurn(t), Incoming.sid = s
    PROVE  ~Untouched(s) /\ ~Hushed(s) /\ \A n : ~Expected(n, s)
<1>1. /\ gwConn \in Conns /\ toGw[gwConn] # <<>> /\ toGw[gwConn] \in Seq(ServerFrame)
      /\ Incoming.type = t
  BY PipeTyped DEF Typed, TypeOK, IpcTypeOK, PipeTurn
<1>2. PICK q : q = toGw[gwConn]
  OBVIOUS
<1>3. q \in Seq(ServerFrame) /\ q # <<>> /\ Incoming = q[1] /\ 1 \in 1 .. Len(q)
  BY <1>1, <1>2 DEF Incoming
<1>4. Word(q[1], s)
  BY <1>1, <1>3 DEF Word
<1>5. Words(q, s)
  BY <1>3, <1>4 DEF Words
<1>6. ~Untouched(s) /\ ~Hushed(s)
  BY <1>1, <1>2, <1>3, <1>4, <1>5 DEF Untouched, Hushed
<1>7. ASSUME NEW n, Expected(n, s)
      PROVE  FALSE
  <2>1. \E i \in 1 .. Len(q) : Opening(q, i, s, n)
    BY <1>2, <1>5, <1>7 DEF Expected
  <2>2. PICK i \in 1 .. Len(q) : Opening(q, i, s, n)
    BY <2>1
  <2>3. i < 1
    BY <1>3, <1>4, <2>2 DEF Opening
  <2> QED
    BY <2>3
<1> QED
  BY <1>6, <1>7

(* The next chunk of s is read.                                            *)
LEMMA OutputNext ==
    ASSUME Typed, EInv, NEW s \in Sessions, PipeTurn("output"), UNCHANGED <<toSup, gwConn, supVars>>,
           NEW f, f = Incoming, f.sid = s, NEW pieces, pieces = Append(pendingOutput[s], Piece(f.from, f.to)),
           NEW n \in Nat, Flow(s, n), NEW e \in Nat, e = n + Len(pieces)
    PROVE  /\ Units(pieces, n)
           /\ e <= produced[s]
           /\ Stream(s, e)'
<1>1. /\ gwConn \in Conns /\ toGw[gwConn] # <<>> /\ toGw[gwConn] \in Seq(ServerFrame)
      /\ toGw' = [toGw EXCEPT ![gwConn] = Tail(@)] /\ toGw \in [Conns -> Seq(ServerFrame)]
      /\ f.from \in Nat /\ f.to \in Nat /\ produced[s] \in Nat /\ UNCHANGED <<produced, conn, subscribers>>
      /\ f.type = "output" /\ pendingOutput[s] \in Seq(Stretch)
  BY PipeTyped DEF Typed, TypeOK, IpcTypeOK, SupTypeOK, GwTypeOK, PipeTurn, supVars
<1>2. PICK q : q = toGw[gwConn]
  OBVIOUS
<1>3. /\ q \in Seq(ServerFrame) /\ q # <<>> /\ f = q[1] /\ 1 \in 1 .. Len(q) /\ toGw'[gwConn] = Tail(q)
      /\ f = Head(q)
  BY <1>1, <1>2 DEF Incoming
<1>4. IsOut(Head(q), s)
  BY <1>1, <1>3 DEF IsOut
<1>5. ~Hushed(s)
  BY <1>3, WordInFront
<1>6. PICK L \in Nat : L = Len(pendingOutput[s])
  <2>1. Len(pendingOutput[s]) \in Nat
    BY <1>1
  <2> QED
    BY <2>1
<1>7. PICK x \in Stretch : x = Piece(f.from, f.to)
  BY <1>1 DEF Piece, Stretch
<1>8. /\ pieces \in Seq(Stretch) /\ Len(pieces) = L + 1 /\ pieces[L + 1] = x
       /\ \A i \in 1 .. L : pieces[i] = pendingOutput[s][i]
  BY <1>1, <1>6, <1>7
<1>9. Held(s, n) /\ Stream(s, n + L)
  BY <1>5, <1>6 DEF Flow
<1>10. PICK m \in Nat : /\ n + L <= m /\ m <= produced[s]
                        /\ Chain(q, s, n + L, m)
                        /\ On(s) \/ Exits(q, s) => m = produced[s]
  BY <1>2, <1>9 DEF Stream, Follows
<1>11. PICK d \in Nat : d = n + L
  BY <1>6
<1>12. /\ f.from = d + 1 /\ f.to = d + 1 /\ d + 1 <= m
      /\ Chain(Tail(q), s, d + 1, m)
  <2>1. Chain(q, s, d, m) /\ f = Head(q)
    BY <1>3, <1>10, <1>11
  <2> QED
    BY <1>3, <1>4, <2>1, ChainRead
<1>13. e = d + 1
  BY <1>6, <1>8, <1>11
<1>14. Units(pieces, n)
  <2>1. ASSUME NEW i \in 1 .. Len(pieces)
        PROVE  pieces[i] = Piece(n + i, n + i)
    <3>1. CASE i = L + 1
      BY <1>7, <1>8, <1>11, <1>12, <3>1
    <3>2. CASE i # L + 1
      <4>1. i \in 1 .. L
        BY <1>6, <1>8, <3>2
      <4> QED
        BY <1>6, <1>8, <1>9, <4>1 DEF Held
    <3> QED
      BY <3>1, <3>2
  <2> QED
    BY <2>1 DEF Units
<1>15. Exits(Tail(q), s) => Exits(q, s)
  <2>1. \A j \in 1 .. Len(Tail(q)) : j + 1 \in 1 .. Len(q) /\ Tail(q)[j] = q[j + 1]
    BY <1>3
  <2> QED
    BY <2>1 DEF Exits
<1>16. Snaps(Tail(q), s) => Snaps(q, s)
  <2>1. \A j \in 1 .. Len(Tail(q)) : j + 1 \in 1 .. Len(q) /\ Tail(q)[j] = q[j + 1]
    BY <1>3
  <2> QED
    BY <2>1 DEF Snaps
<1>17. On(s)' = On(s)
  BY <1>1 DEF On
<1>18. Follows(s, e)'
  BY <1>1, <1>3, <1>10, <1>12, <1>13, <1>15, <1>17 DEF Follows
<1>19. Stream(s, e)'
  BY <1>1, <1>2, <1>3, <1>9, <1>16, <1>18 DEF Stream
<1>20. e <= produced[s]
  BY <1>1, <1>10, <1>12, <1>13
<1> QED
  BY <1>14, <1>19, <1>20

(* Requests and continuations of a session whose output is being read.     *)
LEMMA BusyRequest ==
    ASSUME Typed, NEW p \in pending, Apt(p), ~Untouched(p.sid), ~Expected(p.id, p.sid), sock # "dead",
           UNCHANGED gwConn, gwConn \in Conns => toGw'[gwConn] \in {toGw[gwConn], Tail(toGw[gwConn])}
    PROVE  Apt(p)'
<1>1. ~Attaches(p) /\ ~Watching(p)
  <2>1. SUFFICES ASSUME Attaches(p)
                 PROVE  FALSE
    BY DEF Apt
  <2>2. Wished(p)
    BY <2>1 DEF Apt
  <2> QED
    BY <2>1, <2>2 DEF Wished, Attaches
<1> QED
  BY <1>1 DEF Apt, Attaches, Watching

LEMMA OutputKeeps ==
    ASSUME AttachOnce, RInv, HInv', GatewayStep, GotOutput
    PROVE  Kept
<1>1. PICK f, z : f = Incoming /\ z = f.sid
  OBVIOUS
<1>2. PICK pieces : pieces = Append(pendingOutput[z], Piece(f.from, f.to))
  OBVIOUS
<1>3. /\ PipeTurn("output") /\ EndLine(1) /\ sock = "up"
      /\ UNCHANGED <<toSup, gwConn, clientSubscriptions, asked, ws, subscribed, pending, micro, sock>>
      /\ \/ /\ Length(pieces) >= CoalesceCap /\ view' = Flushed(view, z, pieces)
            /\ pendingOutput' = [pendingOutput EXCEPT ![z] = <<>>]
         \/ pendingOutput' = [pendingOutput EXCEPT ![z] = pieces] /\ UNCHANGED view
  BY <1>1, <1>2 DEF GotOutput, relayVars, PipeTurn
<1>4. /\ Typed /\ Alone /\ EInv /\ UNCHANGED supVars /\ HInv /\ f.type = "output" /\ AfterExit
      /\ f \in ServerFrame /\ z \in Sessions /\ IndexesAgree /\ GInv
      /\ gwConn \in Conns /\ toGw'[gwConn] = Tail(toGw[gwConn])
      /\ Typed' /\ UNCHANGED <<produced, conn>> /\ produced \in [Sessions -> Nat]
      /\ pendingOutput \in [Sessions -> Seq(Stretch)] /\ burst \in Nat /\ burst' \in Nat
      /\ view \in [Clients -> [Sessions -> Screen]] /\ view' \in [Clients -> [Sessions -> Screen]]
      /\ \A c \in Clients : clientSubscriptions[c] \subseteq Sessions
  <2>1. /\ Typed /\ Alone /\ EInv /\ UNCHANGED supVars /\ HInv /\ AfterExit /\ IndexesAgree /\ GInv /\ Typed'
    BY DEF RInv, HInv, DInv, FInv, EInv, GatewayStep, IInv, IndexesOK
  <2>2. /\ f.type = "output" /\ f \in ServerFrame /\ z \in Sessions /\ gwConn \in Conns
        /\ toGw'[gwConn] = Tail(toGw[gwConn])
    BY <1>1, <1>3, <2>1, PipeTyped DEF AboutSession, PipeTurn, Typed, TypeOK, IpcTypeOK
  <2>3. UNCHANGED <<produced, conn>>
    BY <2>1 DEF supVars
  <2>4. /\ produced \in [Sessions -> Nat] /\ pendingOutput \in [Sessions -> Seq(Stretch)] /\ burst \in Nat
        /\ view \in [Clients -> [Sessions -> Screen]]
        /\ \A c \in Clients : clientSubscriptions[c] \subseteq Sessions
    BY <2>1 DEF Typed, TypeOK, GwTypeOK, SupTypeOK
  <2>5. burst' \in Nat /\ view' \in [Clients -> [Sessions -> Screen]]
    BY <2>1 DEF Typed, TypeOK, GwTypeOK
  <2> QED
    BY <2>1, <2>2, <2>3, <2>4, <2>5
<1>5. /\ ~Untouched(z) /\ ~Hushed(z) /\ \A n : ~Expected(n, z)
      /\ pieces \in Seq(Stretch) /\ Len(pieces) = Len(pendingOutput[z]) + 1
      /\ \A n, e \in Nat : Flow(z, n) /\ e = n + Len(pieces) =>
            Units(pieces, n) /\ e <= produced[z] /\ Stream(z, e)'
  <2>1. UNCHANGED <<toSup, gwConn, supVars>> /\ f.sid = z /\ f = Incoming
    BY <1>1, <1>3, <1>4
  <2>2. Typed /\ EInv /\ z \in Sessions /\ PipeTurn("output")
    BY <1>3, <1>4
  <2>3. ~Untouched(z) /\ ~Hushed(z) /\ \A n : ~Expected(n, z)
    BY <2>1, <2>2, WordInFront
  <2>4. pieces \in Seq(Stretch) /\ Len(pieces) = Len(pendingOutput[z]) + 1
    <3>1. pendingOutput[z] \in Seq(Stretch) /\ f.from \in Nat /\ f.to \in Nat
      BY <1>4, FrameEnds
    <3>2. Piece(f.from, f.to) \in Stretch
      BY <3>1 DEF Piece, Stretch
    <3> QED
      BY <1>2, <3>1, <3>2
  <2>5. ASSUME NEW n \in Nat, NEW e \in Nat, Flow(z, n), e = n + Len(pieces)
        PROVE  Units(pieces, n) /\ e <= produced[z] /\ Stream(z, e)'
    BY <1>2, <2>1, <2>2, <2>5, OutputNext
  <2> QED
    BY <2>3, <2>4, <2>5
<1>6. ASSUME NEW s \in Sessions, s # z
      PROVE  Lasting(s) /\ pendingOutput'[s] = pendingOutput[s]
  <2>1. pendingOutput'[s] = pendingOutput[s]
    BY <1>3, <1>4, <1>6
  <2>2. ~Word(Incoming, s) /\ ~IsSnap(Incoming, s)
    BY <1>1, <1>6 DEF Word, IsSnap
  <2>3. Calm(s)
    BY <1>3, <1>4, <2>1, <2>2, CalmRead
  <2> QED
    BY <1>4, <2>1, <2>3, CalmLasts
<1>7. ASSUME NEW k \in Coming
      PROVE  turn = "pipe" /\ burst' = burst + 1 /\ burst' < CoalesceCap
  <2>1. Coming # {} /\ Coming' = Coming /\ 1 \in Nat
    BY <1>3, <1>7 DEF Coming
  <2>2. turn = "pipe"
    BY <1>3, <1>4, <2>1, PipesTurn
  <2>3. micro' # <<>>
    <3>1. SUFFICES ASSUME micro' = <<>>
                   PROVE  FALSE
      OBVIOUS
    <3>2. 1 .. Len(micro') = {}
      BY <3>1
    <3>3. Coming' = {}
      BY <3>2 DEF Coming
    <3> QED
      BY <2>1, <3>3
  <2> QED
    BY <1>3, <2>2, <2>3 DEF EndLine
<1>8. \A k \in Coming : k.sid \in Sessions /\ k.output \in Seq(Stretch)
  BY <1>4, Known
<1>9. Len(pendingOutput[z]) \in Nat /\ Len(pieces) \in Nat /\ Len(<<>>) = 0
  <2>1. pendingOutput[z] \in Seq(Stretch)
    BY <1>4
  <2> QED
    BY <1>5, <2>1
<1>10. CASE pendingOutput' = [pendingOutput EXCEPT ![z] = pieces] /\ UNCHANGED view
  <2>1. pendingOutput'[z] = pieces
    BY <1>4, <1>10
  <2>2. ASSUME NEW n \in Nat, Flow(z, n)
        PROVE  Flow(z, n)'
    <3>0. PICK e \in Nat : e = n + Len(pieces)
      BY <1>9
    <3>1. Held(z, n)'
      BY <1>5, <2>1, <2>2, <3>0 DEF Held, Units
    <3>2. Stream(z, n + Len(pendingOutput[z]))'
      <4>1. Stream(z, e)' /\ n + Len(pendingOutput'[z]) = e
        BY <1>5, <2>1, <2>2, <3>0
      <4> QED
        BY <4>1
    <3> QED
      BY <3>1, <3>2 DEF Flow
  <2>3. Lasting(z)
    BY <1>5, <2>2 DEF Lasting
  <2>4. ASSUME NEW k \in Coming'
        PROVE  /\ k \in Coming /\ subscribed' \subseteq subscribed
               /\ turn' = "pipe" => turn = "pipe" /\ Slack(k.sid)
    <3>1. k \in Coming /\ k.sid \in Sessions
      BY <1>3, <1>8, <2>4 DEF Coming
    <3>2. turn = "pipe" /\ burst' = burst + 1
      BY <1>7, <3>1
    <3>3. CASE k.sid = z
      <4>1. Len(pendingOutput'[z]) = Len(pendingOutput[z]) + 1
        BY <1>5, <2>1
      <4> QED
        BY <1>3, <1>4, <1>9, <3>1, <3>2, <3>3, <4>1 DEF Slack
    <3>4. CASE k.sid # z
      BY <1>3, <1>4, <1>6, <3>1, <3>2, <3>4, SlackKept
    <3> QED
      BY <3>3, <3>4
  <2>5. ASSUME NEW p \in pending'
        PROVE  /\ p \in pending /\ (sock' # "dead" => sock # "dead")
               /\ subscribed' \subseteq subscribed
               /\ gwConn \in Conns => toGw'[gwConn] \in {toGw[gwConn], Tail(toGw[gwConn])}
    BY <1>3, <1>4, <2>5
  <2>6. /\ \A c \in Clients, s \in Sessions : asked[c][s] => asked'[c][s]
        /\ \A c \in Clients : ws'[c] = "new" => ws[c] = "new" /\ asked'[c] = asked[c]
        /\ \A c \in Clients : IsOpen(c)' => IsOpen(c) \/ clientSubscriptions[c] = {}
        /\ \A s \in subscribed' : s \in subscribed \/ \A c \in Clients : asked'[c][s]
        /\ \A c \in Clients : clientSubscriptions'[c] \subseteq clientSubscriptions[c]
        /\ \A s \in Sessions : Lasting(s)
    BY <1>3, <1>6, <2>3 DEF IsOpen
  <2> QED
    BY <1>3, <1>4, <1>10, <2>4, <2>5, <2>6, QuietStep
<1>11. CASE /\ Length(pieces) >= CoalesceCap /\ view' = Flushed(view, z, pieces)
            /\ pendingOutput' = [pendingOutput EXCEPT ![z] = <<>>]
  <2>1. pendingOutput'[z] = <<>>
    BY <1>4, <1>11
  <2>2. ASSUME NEW c \in Clients
        PROVE  /\ \A s \in Sessions : view'[c][s].exited = view[c][s].exited
               /\ \A s \in Sessions : s # z => view'[c][s] = view[c][s]
               /\ view'[c][z].runs = IF c \in sessionSubscribers[z] /\ IsOpen(c)
                                       THEN Shown(view[c][z].runs, pieces) ELSE view[c][z].runs
               /\ ~(c \in sessionSubscribers[z] /\ IsOpen(c)) => view'[c][z] = view[c][z]
    <3>1. ~(c \in sessionSubscribers[z] /\ IsOpen(c)) => view'[c][z] = view[c][z]
      BY <1>11 DEF Flushed
    <3>2. ASSUME NEW s \in Sessions
          PROVE  /\ view'[c][s].exited = view[c][s].exited
                 /\ s # z => view'[c][s] = view[c][s]
                 /\ view'[c][z].runs = IF c \in sessionSubscribers[z] /\ IsOpen(c)
                                         THEN Shown(view[c][z].runs, pieces) ELSE view[c][z].runs
      <4>1. z \in Sessions /\ view \in [Clients -> [Sessions -> Screen]] /\ view' = Flushed(view, z, pieces)
        BY <1>4, <1>11
      <4>2. /\ Flushed(view, z, pieces)[c][s].exited = view[c][s].exited
            /\ s # z => Flushed(view, z, pieces)[c][s] = view[c][s]
            /\ Flushed(view, z, pieces)[c][z].runs =
                  IF c \in sessionSubscribers[z] /\ IsOpen(c)
                    THEN Shown(view[c][z].runs, pieces) ELSE view[c][z].runs
        BY <4>1, FlushedOnly
      <4> QED
        BY <4>1, <4>2
    <3> QED
      BY <1>4, <3>1, <3>2
  <2>3. ASSUME NEW n \in Nat, NEW e \in Nat, Flow(z, n), e = n + Len(pieces)
        PROVE  Units(pieces, n) /\ e <= produced[z] /\ Flow(z, e)'
    <3>1. Units(pieces, n) /\ e <= produced[z] /\ Stream(z, e)'
      BY <1>5, <2>3
    <3>2. Held(z, e)'
      BY <1>9, <2>1 DEF Held
    <3>3. e + Len(pendingOutput'[z]) = e
      BY <1>9, <2>1
    <3>4. Stream(z, e + Len(pendingOutput[z]))'
      BY <3>1, <3>3
    <3> QED
      BY <3>1, <3>2, <3>4 DEF Flow
  <2>4. ASSUME NEW c \in Clients, z \in clientSubscriptions[c]
        PROVE  /\ view'[c][z] = view[c][z] \/ Feed!GoesOn(view[c][z], view'[c][z], z)
               /\ Screened(c, z)'
    <3>1. c \in sessionSubscribers[z] /\ ~view[c][z].exited
      BY <1>4, <1>5, <2>4 DEF IndexesAgree, AfterExit
    <3>2. ~view'[c][z].exited
      BY <1>4, <2>2, <3>1
    <3>3. /\ ~IsOpen(c) => view'[c][z] = view[c][z]
          /\ IsOpen(c) => view'[c][z].runs = Shown(view[c][z].runs, pieces)
      BY <2>2, <3>1
    <3>4. \A n, e \in Nat : Flow(z, n) /\ e = n + Len(pieces) =>
               /\ Units(pieces, n) /\ e <= produced[z]
               /\ Flow(z, e)'
               /\ view'[c][z].exited => e = produced[z]
      BY <2>3, <3>2
    <3> QED
      BY <1>3, <1>4, <1>5, <2>4, <3>3, <3>4, ScreenFlushed
  <2>5. ASSUME NEW p \in pending, p.sid = z
        PROVE  Apt(p)'
    BY <1>3, <1>4, <1>5, <2>5, BusyRequest DEF GInv
  <2>6. ASSUME NEW k \in Coming, k.sid = z
        PROVE  Due(k)'
    <3>1. Due(k) /\ k.client \in Clients /\ k.kind \in Kinds
      BY <1>4, <2>6, Known DEF GInv
    <3>2. ~(Attaches(k) /\ k.ok)
      <4>1. SUFFICES ASSUME Attaches(k), k.ok
                     PROVE  FALSE
        OBVIOUS
      <4>2. Granting(k)
        BY <3>1, <4>1 DEF Due
      <4>3. k.kind = "attach"
        BY <1>5, <2>6, <4>1, <4>2 DEF Granting, Attaches
      <4>4. Flow(z, End(k.output)) /\ Len(pendingOutput[z]) <= burst /\ burst + 1 < CoalesceCap
        BY <1>4, <1>7, <2>6, <4>2, <4>3 DEF Granting
      <4>5. PICK n \in Nat : n = End(k.output)
        BY <1>8, <2>6, EndTyped
      <4>6. Units(pieces, n)
        <5>1. PICK e \in Nat : e = n + Len(pieces)
          BY <1>9
        <5> QED
          BY <1>5, <4>4, <4>5, <5>1
      <4>7. \A i \in 1 .. Len(pieces) : pieces[i].from \in Nat /\ pieces[i].to = pieces[i].from
        <5>1. ASSUME NEW i \in 1 .. Len(pieces)
              PROVE  pieces[i].from \in Nat /\ pieces[i].to = pieces[i].from
          <6>1. pieces[i].from = n + i /\ pieces[i].to = n + i
            <7>1. pieces[i] = [from |-> n + i, to |-> n + i]
              BY <4>6 DEF Piece, Units
            <7> QED
              BY <7>1
          <6> QED
            BY <1>9, <6>1
        <5> QED
          BY <5>1
      <4>8. DOMAIN pieces = 1 .. Len(pieces)
        BY <1>5
      <4>9. Length(pieces) = Len(pieces)
        BY <1>9, <4>7, <4>8, UnitLength
      <4> QED
        BY <1>4, <1>5, <1>9, <1>11, <4>4, <4>9, GatewayAssumption
    <3> QED
      BY <3>1, <3>2 DEF Due
  <2>7. ASSUME NEW k \in Coming, k.sid # z
        PROVE  turn' = "pipe" => turn = "pipe" /\ Slack(k.sid)
    <3>1. k.sid \in Sessions /\ pendingOutput'[k.sid] = pendingOutput[k.sid]
      BY <1>6, <1>8, <2>7
    <3> QED
      BY <1>4, <1>7, <2>7, <3>1, SlackKept
  <2>8. ASSUME NEW c \in Clients, NEW s \in Sessions, s \notin clientSubscriptions[c]
        PROVE  view'[c][s] = view[c][s]
    BY <1>4, <2>2, <2>8 DEF IndexesAgree
  <2>9. PICK B : B = {z}
    OBVIOUS
  <2>10. /\ B \in SUBSET Sessions
         /\ \A s \in Sessions : s \in B \/ (Lasting(s) /\ \A c \in Clients : view'[c][s] = view[c][s])
         /\ \A s \in B : ~Untouched(s)
         /\ \A p \in pending : p.sid \in B => Apt(p)'
         /\ \A k \in Coming : \/ k.sid \in B /\ Due(k)'
                              \/ k.sid \notin B /\ (turn' = "pipe" => turn = "pipe" /\ Slack(k.sid))
    BY <1>4, <1>5, <1>6, <2>2, <2>5, <2>6, <2>7, <2>9
  <2>11. \A c \in Clients : \A s \in clientSubscriptions[c] \cap B :
               /\ view'[c][s] = view[c][s] \/ Feed!GoesOn(view[c][s], view'[c][s], s)
               /\ Screened(c, s)'
    BY <2>4, <2>9
  <2> QED
    BY <1>3, <1>4, <2>8, <2>10, <2>11, ShowingKeeps
<1> QED
  BY <1>3, <1>10, <1>11

(* The exit of s is read: everything of it was read before.                *)
LEMMA ExitNext ==
    ASSUME Typed, EInv, NEW s \in Sessions, PipeTurn("exit"), Incoming.sid = s,
           NEW n \in Nat, Flow(s, n), NEW e \in Nat, e = n + Len(pendingOutput[s])
    PROVE  Units(pendingOutput[s], n) /\ e = produced[s]
<1>1. /\ gwConn \in Conns /\ toGw[gwConn] # <<>> /\ toGw[gwConn] \in Seq(ServerFrame)
      /\ Incoming.type = "exit" /\ produced[s] \in Nat
  BY PipeTyped DEF Typed, TypeOK, IpcTypeOK, SupTypeOK, PipeTurn
<1>2. PICK q : q = toGw[gwConn]
  OBVIOUS
<1>3. q \in Seq(ServerFrame) /\ q # <<>> /\ Incoming = q[1] /\ 1 \in 1 .. Len(q)
  BY <1>1, <1>2 DEF Incoming
<1>4. ~Hushed(s)
  BY WordInFront
<1>5. Held(s, n) /\ Stream(s, e)
  BY <1>4 DEF Flow
<1>6. PICK m \in Nat : /\ e <= m /\ m <= produced[s]
                       /\ Chain(q, s, e, m)
                       /\ On(s) \/ Exits(q, s) => m = produced[s]
  BY <1>2, <1>5 DEF Stream, Follows
<1>7. Exits(q, s)
  BY <1>1, <1>3 DEF Exits, IsExit
<1>8. \A j \in 1 .. Len(q) : ~IsOut(q[j], s)
  <2>1. SUFFICES ASSUME NEW j \in 1 .. Len(q), IsOut(q[j], s)
                 PROVE  FALSE
    OBVIOUS
  <2>2. j # 1 /\ Final(q[1], s)
    BY <1>1, <1>3, <2>1 DEF IsOut, Final
  <2>3. 1 < j
    BY <2>2
  <2>4. LastWords(q) /\ Word(q[j], s)
    BY <1>1, <1>2, <2>1 DEF EInv, Endings, IsOut, Word
  <2> QED
    BY <1>3, <2>2, <2>3, <2>4 DEF LastWords
<1>9. e = m
  BY <1>6, <1>8, ChainEmpty
<1> QED
  BY <1>5, <1>6, <1>7, <1>9 DEF Held, Units

LEMMA ExitKeeps ==
    ASSUME AttachOnce, RInv, HInv', GatewayStep, GotExit
    PROVE  Kept
<1>1. PICK f, z : f = Incoming /\ z = f.sid
  OBVIOUS
<1>2. PICK pieces : pieces = pendingOutput[z]
  OBVIOUS
<1>3. PICK flushed : flushed = Flushed(view, z, pieces)
  OBVIOUS
<1>4. /\ PipeTurn("exit") /\ EndLine(0) /\ sock = "up"
      /\ UNCHANGED <<toSup, gwConn, clientSubscriptions, asked, ws, subscribed, pending, micro, sock>>
      /\ pendingOutput' = [pendingOutput EXCEPT ![z] = <<>>]
      /\ view' = [c \in Clients |->
                    IF c \in sessionSubscribers[z] /\ IsOpen(c)
                      THEN [flushed[c] EXCEPT ![z].exited = TRUE]
                      ELSE flushed[c]]
  BY <1>1, <1>2, <1>3 DEF GotExit, relayVars, PipeTurn
<1>5. /\ Typed /\ Alone /\ EInv /\ UNCHANGED supVars /\ HInv /\ f.type = "exit" /\ AfterExit
      /\ f \in ServerFrame /\ z \in Sessions /\ IndexesAgree /\ GInv
      /\ gwConn \in Conns /\ toGw'[gwConn] = Tail(toGw[gwConn])
      /\ Typed' /\ UNCHANGED <<produced, conn>> /\ produced \in [Sessions -> Nat]
      /\ pendingOutput \in [Sessions -> Seq(Stretch)] /\ burst \in Nat /\ burst' \in Nat
      /\ view \in [Clients -> [Sessions -> Screen]] /\ view' \in [Clients -> [Sessions -> Screen]]
      /\ \A c \in Clients : clientSubscriptions[c] \subseteq Sessions
  <2>1. /\ Typed /\ Alone /\ EInv /\ UNCHANGED supVars /\ HInv /\ AfterExit /\ IndexesAgree /\ GInv /\ Typed'
    BY DEF RInv, HInv, DInv, FInv, EInv, GatewayStep, IInv, IndexesOK
  <2>2. /\ f.type = "exit" /\ f \in ServerFrame /\ z \in Sessions /\ gwConn \in Conns
        /\ toGw'[gwConn] = Tail(toGw[gwConn])
    BY <1>1, <1>4, <2>1, PipeTyped DEF AboutSession, PipeTurn, Typed, TypeOK, IpcTypeOK
  <2>3. UNCHANGED <<produced, conn>>
    BY <2>1 DEF supVars
  <2>4. /\ produced \in [Sessions -> Nat] /\ pendingOutput \in [Sessions -> Seq(Stretch)] /\ burst \in Nat
        /\ view \in [Clients -> [Sessions -> Screen]]
        /\ \A c \in Clients : clientSubscriptions[c] \subseteq Sessions
    BY <2>1 DEF Typed, TypeOK, GwTypeOK, SupTypeOK
  <2>5. burst' \in Nat /\ view' \in [Clients -> [Sessions -> Screen]]
    BY <2>1 DEF Typed, TypeOK, GwTypeOK
  <2> QED
    BY <2>1, <2>2, <2>3, <2>4, <2>5
<1>6. /\ ~Untouched(z) /\ ~Hushed(z) /\ \A n : ~Expected(n, z)
      /\ pendingOutput'[z] = <<>> /\ pieces \in Seq(Stretch) /\ Len(<<>>) = 0
  BY <1>1, <1>2, <1>4, <1>5, WordInFront
<1>7. Hushed(z)'
  <2>1. Final(Incoming, z)
    BY <1>1, <1>5 DEF Final
  <2> QED
    BY <1>4, <1>5, <1>6, <2>1, EndLeavesNothing
<1>8. ASSUME NEW n \in Nat, NEW e \in Nat, Flow(z, n), e = n + Len(pieces)
      PROVE  Units(pieces, n) /\ e = produced[z]
  BY <1>1, <1>2, <1>4, <1>5, <1>8, ExitNext
<1>9. ASSUME NEW s \in Sessions, s # z
      PROVE  Lasting(s) /\ pendingOutput'[s] = pendingOutput[s]
  <2>1. pendingOutput'[s] = pendingOutput[s]
    BY <1>4, <1>5, <1>9
  <2>2. ~Word(Incoming, s) /\ ~IsSnap(Incoming, s)
    BY <1>1, <1>9 DEF Word, IsSnap
  <2>3. Calm(s)
    BY <1>4, <1>5, <2>1, <2>2, CalmRead
  <2> QED
    BY <1>5, <2>1, <2>3, CalmLasts
<1>10. ASSUME NEW k \in Coming
       PROVE  turn = "pipe" /\ burst <= burst'
  <2>1. Coming # {} /\ Coming' = Coming /\ 0 \in Nat
    BY <1>4, <1>10 DEF Coming
  <2> QED
    BY <1>4, <1>5, <2>1, PipesTurn
<1>11. \A k \in Coming : k.sid \in Sessions /\ k.output \in Seq(Stretch) /\ k.client \in Clients
  BY <1>5, Known
<1>12. ASSUME NEW c \in Clients
       PROVE  /\ \A s \in Sessions : s # z => view'[c][s] = view[c][s]
              /\ ~(c \in sessionSubscribers[z] /\ IsOpen(c)) => view'[c][z] = view[c][z]
              /\ c \in sessionSubscribers[z] /\ IsOpen(c) => view'[c][z].runs = Shown(view[c][z].runs, pieces)
  <2>1. CASE c \in sessionSubscribers[z] /\ IsOpen(c)
    <3>1. PICK v : v = view[c]
      OBVIOUS
    <3>2. PICK r : r = Shown(v[z].runs, pieces)
      OBVIOUS
    <3>3. flushed[c] = [v EXCEPT ![z].runs = r]
      BY <1>3, <2>1, <3>1, <3>2 DEF Flushed
    <3>4. view'[c] = [flushed[c] EXCEPT ![z].exited = TRUE]
      BY <1>4, <2>1
    <3>5. v \in [Sessions -> Screen] /\ v[z] \in Screen
      BY <1>5, <3>1
    <3>6. flushed[c] = [v EXCEPT ![z] = [v[z] EXCEPT !.runs = r]]
      BY <3>3
    <3>7. PICK w : w = [v[z] EXCEPT !.runs = r]
      OBVIOUS
    <3>8. w.runs = r /\ w = [runs |-> r, exited |-> v[z].exited]
      BY <3>5, <3>7 DEF Screen
    <3>9. DOMAIN flushed[c] = Sessions /\ flushed[c][z] = w /\ \A s \in Sessions : s # z => flushed[c][s] = v[s]
      BY <1>5, <3>5, <3>6, <3>7
    <3>10. view'[c] = [flushed[c] EXCEPT ![z] = [w EXCEPT !.exited = TRUE]]
      BY <3>4, <3>9
    <3>11. [w EXCEPT !.exited = TRUE].runs = r
      BY <3>8
    <3> QED
      BY <1>5, <2>1, <3>1, <3>2, <3>9, <3>10, <3>11
  <2>2. CASE ~(c \in sessionSubscribers[z] /\ IsOpen(c))
    BY <1>3, <1>4, <2>2 DEF Flushed
  <2> QED
    BY <2>1, <2>2
<1>13. ASSUME NEW c \in Clients, z \in clientSubscriptions[c]
       PROVE  /\ view'[c][z] = view[c][z] \/ Feed!GoesOn(view[c][z], view'[c][z], z)
              /\ Screened(c, z)'
  <2>1. c \in sessionSubscribers[z]
    BY <1>5, <1>13 DEF IndexesAgree
  <2>2. /\ ~IsOpen(c) => view'[c][z] = view[c][z]
        /\ IsOpen(c) => view'[c][z].runs = Shown(view[c][z].runs, pieces)
    BY <1>12, <2>1
  <2>3. \A n, e \in Nat : Flow(z, n) /\ e = n + Len(pieces) =>
             /\ Units(pieces, n) /\ e <= produced[z]
             /\ Flow(z, e)'
             /\ view'[c][z].exited => e = produced[z]
    <3>1. \A e : Flow(z, e)'
      BY <1>7, HushedFlows
    <3>2. produced[z] \in Nat
      BY <1>5
    <3>3. ASSUME NEW n \in Nat, NEW e \in Nat, Flow(z, n), e = n + Len(pieces)
          PROVE  Units(pieces, n) /\ e = produced[z] /\ e <= produced[z] /\ Flow(z, e)'
      BY <1>8, <3>1, <3>2, <3>3
    <3> QED
      BY <3>3
  <2> QED
    BY <1>4, <1>5, <1>6, <1>13, <2>2, <2>3, ScreenFlushed
<1>14. ASSUME NEW p \in pending, p.sid = z
       PROVE  Apt(p)'
  BY <1>4, <1>5, <1>6, <1>14, BusyRequest DEF GInv
<1>15. ASSUME NEW c \in Clients, NEW s \in Sessions, s \notin clientSubscriptions[c]
       PROVE  view'[c][s] = view[c][s]
  BY <1>5, <1>12, <1>15 DEF IndexesAgree
<1>16. ASSUME NEW k \in Coming, k.sid = z
       PROVE  Due(k)'
  <2>1. Due(k) /\ k.client \in Clients /\ k.kind \in Kinds /\ turn = "pipe" /\ k.output \in Seq(Stretch)
    BY <1>5, <1>10, <1>16, Known DEF GInv
  <2>2. Attaches(k) /\ k.ok => Granting(k)'
    <3>1. SUFFICES ASSUME Attaches(k), k.ok
                   PROVE  Granting(k)'
      OBVIOUS
    <3>2. Granting(k)
      BY <2>1, <3>1 DEF Due
    <3>3. k.kind = "attach" /\ k.kind \notin Creates
      BY <1>6, <1>16, <3>1, <3>2 DEF Granting, Attaches, Creates
    <3>4. view'[k.client][z] = view[k.client][z] /\ z \notin clientSubscriptions'[k.client]
      BY <1>4, <1>5, <1>15, <1>16, <2>1, <3>2 DEF Granting, Unseen
    <3>5. Unseen(k.client, z)'
      BY <1>16, <3>2, <3>4 DEF Granting, Unseen
    <3>6. Part(k.output, z)'
      BY <1>5, <1>16, <3>2, <3>3 DEF Granting, Part
    <3>7. Flow(z, End(k.output))'
      BY <1>7, HushedFlows
    <3> QED
      BY <1>5, <1>6, <1>16, <3>3, <3>5, <3>6, <3>7 DEF Granting
  <2> QED
    BY <2>1, <2>2 DEF Due
<1>17. ASSUME NEW k \in Coming, k.sid # z
       PROVE  turn' = "pipe" => turn = "pipe" /\ Slack(k.sid)
  <2>1. k.sid \in Sessions /\ pendingOutput'[k.sid] = pendingOutput[k.sid]
    BY <1>9, <1>11, <1>17
  <2> QED
    BY <1>5, <1>10, <1>17, <2>1, SlackKept
<1>18. PICK B : B = {z}
  OBVIOUS
<1>19. /\ B \in SUBSET Sessions
       /\ \A s \in Sessions : s \in B \/ (Lasting(s) /\ \A c \in Clients : view'[c][s] = view[c][s])
       /\ \A s \in B : ~Untouched(s)
       /\ \A p \in pending : p.sid \in B => Apt(p)'
       /\ \A k \in Coming : \/ k.sid \in B /\ Due(k)'
                            \/ k.sid \notin B /\ (turn' = "pipe" => turn = "pipe" /\ Slack(k.sid))
  BY <1>5, <1>6, <1>9, <1>12, <1>14, <1>16, <1>17, <1>18
<1>20. \A c \in Clients : \A s \in clientSubscriptions[c] \cap B :
             /\ view'[c][s] = view[c][s] \/ Feed!GoesOn(view[c][s], view'[c][s], s)
             /\ Screened(c, s)'
  BY <1>13, <1>18
<1> QED
  BY <1>4, <1>5, <1>15, <1>19, <1>20, ShowingKeeps

(* The poll phase is over: what was read is shown.                         *)
LEMMA CheckKeeps ==
    ASSUME AttachOnce, RInv, HInv', GatewayStep, CheckPhase
    PROVE  Kept
<1>1. /\ turn = "idle"
      /\ view' = [c \in Clients |-> [s \in Sessions |-> Flushed(view, s, pendingOutput[s])[c][s]]]
      /\ pendingOutput' = [s \in Sessions |-> <<>>]
      /\ UNCHANGED <<gwConn, clientSubscriptions, asked, ws, subscribed, pending, micro, sock, ipcVars>>
  BY DEF CheckPhase, scVars, relayVars
<1>2. /\ Typed /\ Alone /\ EInv /\ UNCHANGED <<supVars, toGw, toSup, conn>> /\ HInv /\ AfterExit /\ IndexesAgree /\ GInv
      /\ Typed' /\ UNCHANGED <<produced, subscribers>> /\ produced \in [Sessions -> Nat]
      /\ pendingOutput \in [Sessions -> Seq(Stretch)]
      /\ view \in [Clients -> [Sessions -> Screen]] /\ view' \in [Clients -> [Sessions -> Screen]]
      /\ \A c \in Clients : clientSubscriptions[c] \subseteq Sessions
  BY <1>1 DEF RInv, HInv, DInv, FInv, EInv, GatewayStep, Typed, TypeOK,
     GwTypeOK, SupTypeOK, supVars, ipcVars, IInv, IndexesOK
<1>3. Coming = {}
  <2>1. micro = <<>>
    BY <1>1, <1>2 DEF Alone
  <2> QED
    BY <2>1, ComingOne
<1>4. ASSUME NEW s \in Sessions
      PROVE  pendingOutput'[s] = <<>> /\ Len(<<>>) = 0 /\ Len(pendingOutput[s]) \in Nat
  BY <1>1, <1>2
<1>5. ASSUME NEW s \in Sessions, pendingOutput[s] = <<>>
      PROVE  Lasting(s) /\ \A c \in Clients : view'[c][s] = view[c][s]
  <2>1. UNCHANGED <<ipcVars, supVars, gwConn>> /\ pendingOutput'[s] = pendingOutput[s]
    BY <1>1, <1>2, <1>4, <1>5
  <2>2. Calm(s)
    BY <1>2, <2>1, CalmStill
  <2>3. Lasting(s)
    BY <1>2, <2>2, CalmLasts
  <2>4. ASSUME NEW c \in Clients
        PROVE  view'[c][s] = view[c][s]
    <3>1. /\ view'[c][s].exited = view[c][s].exited /\ view'[c][s].runs = view[c][s].runs
      <4>1. PICK pieces : pieces = pendingOutput[s]
        OBVIOUS
      <4>2. /\ view \in [Clients -> [Sessions -> Screen]] /\ pieces = <<>>
            /\ view'[c][s] = Flushed(view, s, pieces)[c][s]
        BY <1>1, <1>2, <1>5, <4>1
      <4> QED
        BY <4>2, FlushedOnly
    <3>2. view'[c][s] \in Screen /\ view[c][s] \in Screen
      BY <1>2
    <3> QED
      BY <3>1, <3>2 DEF Screen
  <2> QED
    BY <2>3, <2>4
<1>6. ASSUME NEW s \in Sessions, pendingOutput[s] # <<>>
      PROVE  ~Untouched(s) /\ ~Hushed(s) /\ \A n : ~Expected(n, s)
  BY <1>6 DEF Untouched, Hushed, Expected
<1>7. ASSUME NEW c \in Clients, NEW s \in Sessions
      PROVE  /\ view'[c][s].exited = view[c][s].exited
             /\ ~(c \in sessionSubscribers[s] /\ IsOpen(c)) => view'[c][s] = view[c][s]
             /\ c \in sessionSubscribers[s] /\ IsOpen(c) =>
                    view'[c][s].runs = Shown(view[c][s].runs, pendingOutput[s])
  <2>1. view'[c][s] = Flushed(view, s, pendingOutput[s])[c][s]
    BY <1>1
  <2>2. ~(c \in sessionSubscribers[s] /\ IsOpen(c)) => view'[c][s] = view[c][s]
    BY <2>1 DEF Flushed
  <2>3. /\ Flushed(view, s, pendingOutput[s])[c][s].exited = view[c][s].exited
        /\ Flushed(view, s, pendingOutput[s])[c][s].runs =
              IF c \in sessionSubscribers[s] /\ IsOpen(c)
                THEN Shown(view[c][s].runs, pendingOutput[s]) ELSE view[c][s].runs
    <3>1. PICK pieces : pieces = pendingOutput[s]
      OBVIOUS
    <3>2. view \in [Clients -> [Sessions -> Screen]]
      BY <1>2
    <3>3. /\ Flushed(view, s, pieces)[c][s].exited = view[c][s].exited
          /\ Flushed(view, s, pieces)[c][s].runs =
                IF c \in sessionSubscribers[s] /\ IsOpen(c)
                  THEN Shown(view[c][s].runs, pieces) ELSE view[c][s].runs
      BY <3>2, FlushedOnly
    <3> QED
      BY <3>1, <3>3
  <2> QED
    BY <2>1, <2>2, <2>3
<1>8. ASSUME NEW s \in Sessions, pendingOutput[s] # <<>>,
             NEW n \in Nat, NEW e \in Nat, Flow(s, n), e = n + Len(pendingOutput[s])
      PROVE  Units(pendingOutput[s], n) /\ e <= produced[s] /\ Flow(s, e)'
  <2>1. Held(s, n) /\ Stream(s, e)
    BY <1>6, <1>8 DEF Flow
  <2>2. e <= produced[s]
    <3>1. \E m \in Nat : e <= m /\ m <= produced[s]
      BY <2>1 DEF Stream, Follows
    <3> QED
      BY <1>2, <3>1
  <2>3. Stream(s, e)'
    BY <1>1, <1>2, <2>1 DEF Stream, Follows, On
  <2>4. Held(s, e)'
    BY <1>4 DEF Held
  <2>5. e + Len(pendingOutput'[s]) = e
    BY <1>4
  <2>6. Stream(s, e + Len(pendingOutput[s]))'
    BY <2>3, <2>5
  <2> QED
    BY <2>1, <2>2, <2>4, <2>6 DEF Flow, Held, Units
<1>9. ASSUME NEW c \in Clients, NEW s \in clientSubscriptions[c], pendingOutput[s] # <<>>
      PROVE  /\ view'[c][s] = view[c][s] \/ Feed!GoesOn(view[c][s], view'[c][s], s)
             /\ Screened(c, s)'
  <2>1. s \in Sessions
    BY <1>2
  <2>2. c \in sessionSubscribers[s] /\ ~view[c][s].exited
    BY <1>2, <1>6, <1>9, <2>1 DEF IndexesAgree, AfterExit
  <2>3. PICK pieces : pieces = pendingOutput[s]
    OBVIOUS
  <2>4. pieces \in Seq(Stretch)
    BY <1>2, <2>1, <2>3
  <2>5. /\ ~IsOpen(c) => view'[c][s] = view[c][s]
        /\ IsOpen(c) => view'[c][s].runs = Shown(view[c][s].runs, pieces)
        /\ ~view'[c][s].exited
    BY <1>7, <2>1, <2>2, <2>3
  <2>6. \A n, e \in Nat : Flow(s, n) /\ e = n + Len(pieces) =>
            /\ Units(pieces, n) /\ e <= produced[s]
            /\ Flow(s, e)'
            /\ view'[c][s].exited => e = produced[s]
    BY <1>8, <1>9, <2>1, <2>3, <2>5
  <2>7. ~Hushed(s)
    BY <1>6, <1>9, <2>1
  <2> QED
    BY <1>1, <1>2, <2>4, <2>5, <2>6, <2>7, ScreenFlushed
<1>10. ASSUME NEW p \in pending, pendingOutput[p.sid] # <<>>
       PROVE  Apt(p)'
  <2>1. Apt(p) /\ p.sid \in Sessions /\ p.client \in Clients /\ p.kind \in Kinds
    BY <1>2, Known DEF GInv
  <2>2. ~Untouched(p.sid) /\ ~Expected(p.id, p.sid)
    BY <1>6, <1>10, <2>1
  <2>3. CASE sock # "dead"
    BY <1>1, <1>2, <2>1, <2>2, <2>3, BusyRequest
  <2>4. CASE sock = "dead"
    <3>1. p.kind = "attach" => Answered(p)'
      BY <1>1, <1>2, <2>1 DEF Apt, Answered
    <3>2. Attaches(p) => Wished(p)'
      <4>1. SUFFICES ASSUME Attaches(p)
                     PROVE  Wished(p)'
        OBVIOUS
      <4>2. Wished(p)
        BY <2>1, <4>1 DEF Apt
      <4>3. p.kind \notin Creates /\ p.sid \notin clientSubscriptions[p.client]
        BY <2>2, <4>2 DEF Wished, Unseen
      <4>4. view'[p.client][p.sid] = view[p.client][p.sid]
        BY <1>2, <1>7, <2>1, <4>3 DEF IndexesAgree
      <4>5. Unseen(p.client, p.sid)'
        BY <1>1, <4>2, <4>4 DEF Wished, Unseen
      <4> QED
        BY <1>1, <2>4, <4>2, <4>3, <4>5 DEF Wished
    <3> QED
      BY <2>1, <3>1, <3>2 DEF Apt
  <2> QED
    BY <2>3, <2>4
<1>11. ASSUME NEW c \in Clients, NEW s \in Sessions, s \notin clientSubscriptions[c]
       PROVE  view'[c][s] = view[c][s]
  BY <1>2, <1>7, <1>11 DEF IndexesAgree
<1>12. PICK B : B = {s \in Sessions : pendingOutput[s] # <<>>}
  OBVIOUS
<1>13. /\ B \in SUBSET Sessions
       /\ \A s \in Sessions : s \in B \/ (Lasting(s) /\ \A c \in Clients : view'[c][s] = view[c][s])
       /\ \A s \in B : ~Untouched(s)
       /\ \A p \in pending : p.sid \in B => Apt(p)'
       /\ \A k \in Coming : \/ k.sid \in B /\ Due(k)'
                            \/ k.sid \notin B /\ (turn' = "pipe" => turn = "pipe" /\ Slack(k.sid))
  BY <1>3, <1>5, <1>6, <1>10, <1>12
<1>14. \A c \in Clients : \A s \in clientSubscriptions[c] \cap B :
             /\ view'[c][s] = view[c][s] \/ Feed!GoesOn(view[c][s], view'[c][s], s)
             /\ Screened(c, s)'
  BY <1>9, <1>12
<1> QED
  BY <1>1, <1>2, <1>11, <1>13, <1>14, ShowingKeeps

-----------------------------------------------------------------------------
(* The pipe's and the clients' own events show nothing.                    *)

LEMMA LinesLast ==
    ASSUME AttachOnce, HInv, GatewayStep \/ ClientStep, UNCHANGED <<toGw, supVars, gwConn, pendingOutput>>,
           \/ UNCHANGED toSup
           \/ \E lines \in Seq(ClientMessage) :
                 Post(lines) /\ \A j \in 1 .. Len(lines) : lines[j].type # "subscribe"
    PROVE  \A s \in Sessions : Lasting(s)
<1>1. Typed /\ HInv /\ \A s \in Sessions : pendingOutput'[s] = pendingOutput[s]
  BY DEF HInv, DInv
<1>2. PICK lines \in Seq(ClientMessage) :
         /\ UNCHANGED toSup \/ Post(lines)
         /\ \A j \in 1 .. Len(lines) : lines[j].type # "subscribe"
  <2>1. CASE UNCHANGED toSup
    <3>1. PICK L : L = <<>>
      OBVIOUS
    <3>2. L \in Seq(ClientMessage) /\ 1 .. Len(L) = {}
      BY <3>1
    <3> QED
      BY <2>1, <3>2
  <2> QED
    BY <2>1
<1>3. ASSUME NEW s \in Sessions
      PROVE  Lasting(s)
  <2>1. Post(lines) \/ UNCHANGED toSup
    BY <1>2
  <2>2. CASE Post(lines)
    <3>1. ~Asks(lines, s)
      BY <1>2 DEF Asks, Asking
    <3>2. Calm(s)
      BY <1>1, <2>2, <3>1, CalmPost
    <3> QED
      BY <1>1, <3>2, CalmLasts
  <2>3. CASE UNCHANGED toSup
    <3>1. UNCHANGED <<ipcVars, supVars, gwConn>>
      BY <2>3 DEF ipcVars
    <3>2. Calm(s)
      BY <1>1, <3>1, CalmStill
    <3> QED
      BY <1>1, <3>2, CalmLasts
  <2> QED
    BY <2>1, <2>2, <2>3
<1> QED
  BY <1>3

(* Between two callbacks nothing waits to go on. *)
LEMMA EventKeeps ==
    ASSUME AttachOnce, RInv, HInv', GatewayStep \/ ClientStep, turn = "idle",
           UNCHANGED <<toGw, supVars, gwConn, pendingOutput, view>>,
           \/ UNCHANGED toSup
           \/ \E lines \in Seq(ClientMessage) :
                 Post(lines) /\ \A j \in 1 .. Len(lines) : lines[j].type # "subscribe",
           subscribed' \subseteq subscribed,
           \A c \in Clients : clientSubscriptions'[c] \subseteq clientSubscriptions[c],
           \A c \in Clients, s \in Sessions : asked[c][s] => asked'[c][s],
           \A c \in Clients : ws'[c] = "new" => ws[c] = "new" /\ asked'[c] = asked[c],
           \A c \in Clients : IsOpen(c)' => IsOpen(c) \/ ws[c] = "new",
           sock' # "dead" => sock # "dead" \/ pending' = {},
           \A p \in pending' : p \in pending \/ Apt(p)',
           \A k \in Coming' : Due(k)'
    PROVE  Kept
<1>1. Typed /\ GInv /\ HInv /\ \A c \in Clients : clientSubscriptions[c] \subseteq Sessions
  BY DEF RInv, HInv, DInv, Typed, TypeOK, GwTypeOK
<1>2. \A s \in Sessions : Lasting(s)
  BY <1>1, LinesLast
<1>3. ASSUME NEW c \in Clients, ws[c] = "new"
      PROVE  clientSubscriptions[c] = {}
  BY <1>1, <1>3 DEF GInv, Unasking, Unseen
<1>4. \A c \in Clients : IsOpen(c)' => IsOpen(c) \/ clientSubscriptions[c] = {}
  BY <1>3
<1>5. ASSUME NEW p \in pending'
      PROVE  \/ Apt(p)'
             \/ /\ p \in pending /\ (sock' # "dead" => sock # "dead")
                /\ subscribed' \subseteq subscribed
                /\ gwConn \in Conns => toGw'[gwConn] \in {toGw[gwConn], Tail(toGw[gwConn])}
  BY <1>5
<1>6. \A s \in subscribed' : s \in subscribed \/ \A c \in Clients : asked'[c][s]
  OBVIOUS
<1> QED
  BY <1>1, <1>2, <1>4, <1>5, <1>6, QuietStep

LEMMA LostKeeps ==
    ASSUME AttachOnce, RInv, HInv', GatewayStep,
           Disconnected \/ \E p \in pending : RequestTimeout(p)
    PROVE  Kept
<1>1. PICK R \in SUBSET pending :
        /\ Between /\ pending' = {} /\ micro' = Rejected(R)
        /\ UNCHANGED <<ipcVars, gwConn, pendingOutput, view, asked>>
        /\ subscribed' \subseteq subscribed
        /\ \A c \in Clients : clientSubscriptions'[c] \subseteq clientSubscriptions[c]
        /\ \A c \in Clients : (ws'[c] = "new" => ws[c] = "new") /\ (IsOpen(c)' => IsOpen(c))
  <2>1. CASE Disconnected
    <3>1. /\ Between /\ pending' = {} /\ micro' = Rejected(pending)
          /\ UNCHANGED <<ipcVars, gwConn, pendingOutput, view, asked>>
          /\ subscribed' \subseteq subscribed
          /\ clientSubscriptions' = [c \in Clients |-> {}]
          /\ ws' = [c \in Clients |-> IF IsOpen(c) THEN "closing" ELSE ws[c]]
      BY <2>1 DEF Disconnected, FailPending, ForgetSubscribed
    <3>2. \A c \in Clients : (ws'[c] = "new" => ws[c] = "new") /\ (IsOpen(c)' => IsOpen(c))
      BY <3>1 DEF IsOpen
    <3>3. \A c \in Clients : clientSubscriptions'[c] \subseteq clientSubscriptions[c]
      BY <3>1
    <3> QED
      BY <3>1, <3>2, <3>3
  <2>2. ASSUME NEW p \in pending, RequestTimeout(p)
        PROVE  \E R \in SUBSET pending :
                 /\ Between /\ pending' = {} /\ micro' = Rejected(R)
                 /\ UNCHANGED <<ipcVars, gwConn, pendingOutput, view, asked>>
                 /\ subscribed' \subseteq subscribed
                 /\ \A c \in Clients : clientSubscriptions'[c] \subseteq clientSubscriptions[c]
                 /\ \A c \in Clients : (ws'[c] = "new" => ws[c] = "new") /\ (IsOpen(c)' => IsOpen(c))
    <3>1. /\ Between /\ pending' = pending \ {p} /\ micro' = Rejected({p})
          /\ UNCHANGED <<ipcVars, gwConn, pendingOutput, view, asked, subscribed, clientSubscriptions, ws>>
      BY <2>2 DEF RequestTimeout, relayVars
    <3>2. pending' = {}
      BY <3>1 DEF RInv, HInv, FInv, Alone
    <3>3. PICK Q : Q = {p}
      OBVIOUS
    <3> QED
      BY <3>1, <3>2, <3>3 DEF IsOpen
  <2> QED
    BY <2>1, <2>2
<1>2. /\ Typed /\ Alone /\ GInv /\ HInv /\ UNCHANGED <<supVars, toGw, toSup>> /\ turn = "idle"
      /\ pending \in SUBSET PendingRequest /\ IsFiniteSet(pending)
  BY <1>1 DEF RInv, HInv, DInv, FInv, GatewayStep, ipcVars, Between, Typed, TypeOK, ScTypeOK, PendingOK
<1>3. ASSUME NEW k \in Coming'
      PROVE  Due(k)'
  <2>1. R \in SUBSET PendingRequest /\ IsFiniteSet(R) /\ \A p, q \in R : p = q
    BY <1>2, FS_Subset DEF Alone
  <2>2. CASE Rejected(R) = <<>>
    BY <1>1, <1>3, <2>2, ComingOne
  <2>3. ASSUME NEW p \in R, Rejected(R) # <<>>, Len(Rejected(R)) = 1,
               Head(Rejected(R)) = Resume("reply", p, FALSE, <<>>)
        PROVE  Due(k)'
    <3>1. \E i \in 1 .. 1 : k = micro'[i]
      BY <1>1, <1>3, <2>3 DEF Coming
    <3>2. k = Resume("reply", p, FALSE, <<>>)
      <4>1. micro' \in Seq(Continuation)
        BY DEF HInv, DInv, Typed, TypeOK, ScTypeOK
      <4>2. micro' # <<>> /\ Head(micro') = Resume("reply", p, FALSE, <<>>)
        BY <1>1, <2>3
      <4>3. k = micro'[1]
        BY <3>1
      <4>4. Head(micro') = micro'[1]
        BY <4>1, <4>2
      <4> QED
        BY <4>2, <4>3, <4>4
    <3>3. ~k.ok /\ k.kind = p.kind
      BY <3>2 DEF Resume
    <3>4. ~Watching(p)
      BY <1>2 DEF GInv, Apt
    <3> QED
      BY <3>3, <3>4 DEF Due, Watching
  <2> QED
    BY <2>1, <2>2, <2>3, RejectedOne
<1> QED
  BY <1>1, <1>2, <1>3, EventKeeps

LEMMA OversizedKeeps ==
    ASSUME AttachOnce, RInv, HInv', GatewayStep, GotOversized
    PROVE  Kept
<1>1. /\ turn = "idle" /\ sock' = "dead"
      /\ UNCHANGED <<toGw, toSup, gwConn, subscribed, pending, micro, pendingOutput, view, asked, ws,
                     clientSubscriptions>>
  BY DEF GotOversized, ipcVars, gwVars, relayVars
<1>2. Alone /\ UNCHANGED supVars
  BY DEF RInv, HInv, FInv, GatewayStep
<1>3. Coming' = {}
  <2>1. micro' = <<>>
    BY <1>1, <1>2 DEF Alone
  <2> QED
    BY <2>1, ComingOne
<1>4. \A c \in Clients : IsOpen(c)' => IsOpen(c)
  BY <1>1 DEF IsOpen
<1> QED
  BY <1>1, <1>2, <1>3, <1>4, EventKeeps

LEMMA ConnectedKeeps ==
    ASSUME AttachOnce, RInv, HInv', GatewayStep, Connected
    PROVE  Kept
<1>1. /\ Between /\ sock = "connecting" /\ sock' = "up"
      /\ toSup' = [toSup EXCEPT ![gwConn] = Append(@, Request("hello", NoSession, 0))]
      /\ UNCHANGED <<toGw, gwConn, subscribed, pending, micro, gwVars>>
  BY DEF Connected
<1>2. /\ UNCHANGED <<toGw, supVars, gwConn, pendingOutput, view, asked, ws, clientSubscriptions, micro>>
      /\ turn = "idle" /\ Typed /\ Alone /\ gwConn \in Conns /\ toSup \in [Conns -> Seq(ClientMessage)]
  BY <1>1 DEF gwVars, relayVars, Between, GatewayStep, RInv, HInv, DInv, FInv, Typed, TypeOK, IpcTypeOK, LinkOK
<1>3. PICK l \in ClientMessage : l = Request("hello", NoSession, 0) /\ l.type # "subscribe"
  BY RequestTyped DEF Request
<1>4. Post(<<l>>)
  <2>1. <<l>> # <<>> /\ Append(toSup[gwConn], l) = toSup[gwConn] \o <<l>>
    BY <1>2
  <2> QED
    BY <1>1, <1>3, <2>1 DEF Post, Writable
<1>5. <<l>> \in Seq(ClientMessage) /\ \A j \in 1 .. Len(<<l>>) : <<l>>[j].type # "subscribe"
  BY <1>3
<1>6. \A k \in Coming' : Due(k)'
  <2>1. micro' = <<>>
    BY <1>1, <1>2 DEF Alone
  <2> QED
    BY <2>1, ComingOne
<1>7. \E lines \in Seq(ClientMessage) :
          Post(lines) /\ \A j \in 1 .. Len(lines) : lines[j].type # "subscribe"
  BY <1>4, <1>5
<1> QED
  BY <1>1, <1>2, <1>6, <1>7, EventKeeps DEF IsOpen

LEMMA ClientEventKeeps ==
    ASSUME AttachOnce, RInv, HInv', ClientStep, NEW c \in Clients,
           ClientConnect(c) \/ ClientTerminated(c) \/ ClientClosed(c)
    PROVE  Kept
<1>1. /\ turn = "idle" /\ Typed /\ UNCHANGED <<toGw, supVars, gwConn, pendingOutput, view, asked, pending, micro, sock>>
      /\ \A d \in Clients : (ws'[d] = "new" => ws[d] = "new") /\ (IsOpen(d)' => IsOpen(d) \/ ws[d] = "new")
      /\ Alone
  <2>1. ws' = [ws EXCEPT ![c] = ws'[c]] /\ ws'[c] # "new" /\ (ws'[c] = "open" => ws[c] = "new")
    BY DEF ClientConnect, ClientTerminated, ClientClosed, RInv, HInv, DInv, Typed, TypeOK, GwTypeOK
  <2>2. turn = "idle" /\ UNCHANGED <<toGw, supVars, gwConn, pendingOutput, view, asked, pending, micro, sock>>
    BY DEF ClientConnect, ClientTerminated, ClientClosed, Between, ClientStep, ipcVars, scVars
  <2>3. Typed /\ Alone /\ ws \in [Clients -> {"new", "open", "closing", "terminated", "closed"}]
    BY DEF RInv, HInv, DInv, FInv, Typed, TypeOK, GwTypeOK
  <2>4. ASSUME NEW d \in Clients
        PROVE  (ws'[d] = "new" => ws[d] = "new") /\ (IsOpen(d)' => IsOpen(d) \/ ws[d] = "new")
    BY <2>1, <2>3 DEF IsOpen
  <2> QED
    BY <2>2, <2>3, <2>4
<1>2. /\ subscribed' \subseteq subscribed
      /\ \A d \in Clients : clientSubscriptions'[d] \subseteq clientSubscriptions[d]
      /\ \/ UNCHANGED toSup
         \/ \E lines \in Seq(ClientMessage) :
               Post(lines) /\ \A j \in 1 .. Len(lines) : lines[j].type # "subscribe"
  <2>1. CASE ClientConnect(c) \/ ClientTerminated(c)
    BY <2>1 DEF ClientConnect, ClientTerminated, ipcVars, scVars, relayVars
  <2>2. CASE ClientClosed(c)
    <3>1. PICK A, W : A = clientSubscriptions[c] /\ W = clientStatusWatches[c]
      OBVIOUS
    <3>2. Leave(c, A, W) /\ IsFiniteSet(A)
      BY <1>1, <2>2, <3>1 DEF ClientClosed, Typed, FewInUse
    <3>3. subscribed' \subseteq subscribed
      BY <1>1, <3>2, LeaveLines
    <3>4. PICK lines \in Seq(ClientMessage) :
            Post(lines) /\ \A j \in 1 .. Len(lines) : lines[j].type \in {"unsubscribe", "resize"}
      BY <1>1, <3>2, LeaveLines
    <3>5. Post(lines) /\ \A j \in 1 .. Len(lines) : lines[j].type # "subscribe"
      BY <3>4
    <3>6. clientSubscriptions' = [clientSubscriptions EXCEPT ![c] = @ \ A]
      BY <3>2 DEF Leave
    <3>7. clientSubscriptions \in [Clients -> SUBSET Sessions]
      BY <1>1 DEF Typed, TypeOK, GwTypeOK
    <3> QED
      BY <3>3, <3>5, <3>6, <3>7
  <2> QED
    BY <2>1, <2>2
<1>3. \A k \in Coming' : Due(k)'
  <2>1. micro' = <<>>
    BY <1>1 DEF Alone
  <2> QED
    BY <2>1, ComingOne
<1> QED
  BY <1>1, <1>2, <1>3, EventKeeps

-----------------------------------------------------------------------------
(* What clients ask for.                                                   *)

(* A line that asks for z, behind lines that do not. *)
LEMMA AskedLast ==
    ASSUME NEW q \in Seq(ClientMessage), NEW l \in ClientMessage, NEW z, NEW n,
           ~Asks(q, z), l.id = n
    PROVE  AsksOnce(q \o <<l>>, z, n)
<1>1. Len(q) \in Nat /\ <<l>> \in Seq(ClientMessage) /\ Len(<<l>>) = 1 /\ <<l>>[1] = l
  OBVIOUS
<1> DEFINE r == q \o <<l>>
<1>2. /\ Len(r) = Len(q) + 1
      /\ \A j \in 1 .. Len(r) : r[j] = IF j <= Len(q) THEN q[j] ELSE <<l>>[j - Len(q)]
  BY <1>1, ConcatProperties
<1>3. r[Len(q) + 1] = l /\ \A j \in 1 .. Len(q) : r[j] = q[j]
  BY <1>1, <1>2
<1> HIDE DEF r
<1>4. ASSUME NEW i \in 1 .. Len(r), Asking(r[i], z)
      PROVE  i = Len(q) + 1
  <2>1. i \in 1 .. Len(q) \/ i = Len(q) + 1
    BY <1>1, <1>2
  <2>2. i \notin 1 .. Len(q)
    BY <1>3, <1>4 DEF Asks
  <2> QED
    BY <2>1, <2>2
<1>5. \A i, j \in 1 .. Len(r) : Asking(r[i], z) /\ Asking(r[j], z) => i = j /\ r[i].id = n
  BY <1>3, <1>4
<1> QED
  BY <1>5 DEF AsksOnce, r

(* A client is to be attached to a session of which nothing was said yet.  *)
LEMMA AskKeeps ==
    ASSUME AttachOnce, RInv, HInv', GatewayStep \/ ClientStep,
           UNCHANGED <<toGw, supVars, gwConn, subscribed, pendingOutput, view, clientSubscriptions, ws, sock>>,
           NEW c \in Clients, NEW z \in Sessions, NEW p, p = Ask("attach", c, z, TRUE),
           pending = {}, IssueRequest(p, <<>>), Untouched(z), Unseen(c, z),
           \A d \in Clients, s \in Sessions : asked[d][s] => asked'[d][s],
           \A d \in Clients : asked'[d][z],
           \A d \in Clients : ws[d] = "new" => asked'[d] = asked[d]
    PROVE  Kept
<1>1. /\ Typed /\ GInv /\ HInv /\ Fresh /\ LinkOK /\ nextReqId \in Nat
      /\ toSup \in [Conns -> Seq(ClientMessage)]
      /\ \A d \in Clients : clientSubscriptions[d] \subseteq Sessions
      /\ z \notin subscribed /\ \A d \in Clients : d = c
  <2>1. \A d \in Clients : d = c
    BY DEF AttachOnce
  <2>2. z \notin subscribed
    BY DEF Untouched
  <2>3. Typed /\ GInv /\ HInv /\ Fresh
    BY DEF RInv, HInv, DInv, FInv
  <2>4. /\ LinkOK /\ nextReqId \in Nat /\ toSup \in [Conns -> Seq(ClientMessage)]
        /\ clientSubscriptions \in [Clients -> SUBSET Sessions]
    BY <2>3 DEF Typed, TypeOK, IpcTypeOK, ScTypeOK, GwTypeOK
  <2> QED
    BY <2>1, <2>2, <2>3, <2>4
<1>2. PICK l \in ClientMessage : l = Request("subscribe", z, nextReqId)
  BY <1>1, RequestTyped DEF ClientMessageTypes
<1>3. l.type = "subscribe" /\ l.sid = z /\ l.id = nextReqId
  BY <1>2 DEF Request
<1>4. p.kind = "attach" /\ p.client = c /\ p.sid = z
  BY DEF Ask
<1>5. Writable => pending' = {[p EXCEPT !.id = nextReqId]} /\ micro' = <<>> /\ Post(<<l>>)
  <2>1. RequestType("attach") = "subscribe"
    BY DEF RequestType, Creates
  <2> QED
    BY <1>2, <1>4, <2>1 DEF IssueRequest
<1>6. ~Writable => UNCHANGED toSup /\ pending' = {} /\ micro' = <<Resume("reply", p, FALSE, <<>>)>>
  <2>1. \A k : Append(<<>>, k) = <<k>>
    OBVIOUS
  <2> QED
    BY <2>1 DEF IssueRequest
<1>7. ASSUME NEW s \in Sessions, s # z
      PROVE  Lasting(s)
  <2>1. CASE Writable
    <3>1. <<l>> \in Seq(ClientMessage) /\ ~Asks(<<l>>, s)
      BY <1>3, <1>7 DEF Asks, Asking
    <3>2. Calm(s)
      BY <1>1, <1>5, <2>1, <3>1, CalmPost
    <3> QED
      BY <1>1, <3>2, CalmLasts
  <2>2. CASE ~Writable
    <3>1. Calm(s)
      BY <1>1, <1>6, <2>2, CalmStill DEF ipcVars
    <3> QED
      BY <1>1, <3>1, CalmLasts
  <2> QED
    BY <2>1, <2>2
<1>8. ASSUME NEW q \in pending'
      PROVE  Apt(q)'
  <2>1. Writable /\ q = [p EXCEPT !.id = nextReqId]
    BY <1>5, <1>6
  <2>2. q.kind = "attach" /\ q.client = c /\ q.sid = z /\ q.id = nextReqId
    BY <2>1 DEF Ask
  <2>3. gwConn \in Conns /\ gwConn' = gwConn /\ toGw' = toGw
    BY <1>1, <2>1 DEF Writable, LinkOK
  <2>4. Answered(q)'
    <3>1. ~Granted(toGw[gwConn], nextReqId)
      BY <1>1, <2>3 DEF Fresh
    <3> QED
      BY <2>2, <2>3, <3>1 DEF Answered, Granted
  <2>5. Expected(q.id, z)'
    <3>1. toSup'[gwConn] = toSup[gwConn] \o <<l>>
      BY <1>1, <1>5, <2>1, <2>3 DEF Post
    <3>2. /\ ~Asks(toSup[gwConn], z) /\ ~On(z) /\ pendingOutput[z] = <<>>
          /\ ~Snaps(toGw[gwConn], z) /\ ~Words(toGw[gwConn], z)
      BY <2>3 DEF Untouched
    <3>3. l.id = q.id /\ toSup[gwConn] \in Seq(ClientMessage)
      BY <1>1, <1>3, <2>2, <2>3
    <3>4. AsksOnce(toSup[gwConn] \o <<l>>, z, q.id)
      BY <3>2, <3>3, AskedLast
    <3>5. AsksOnce(toSup'[gwConn], z, q.id)
      BY <3>1, <3>4
    <3>6. ~On(z)'
      BY <3>2 DEF On, supVars
    <3> QED
      BY <2>3, <3>2, <3>5, <3>6 DEF Expected
  <2>6. Unseen(q.client, q.sid)'
    BY <2>2 DEF Unseen
  <2>7. q.kind \notin Creates /\ ~Watching(q)
    BY <2>2 DEF Creates, Watching
  <2>8. Expected(q.id, q.sid)'
    BY <2>2, <2>5
  <2>9. Wished(q)'
    BY <1>1, <2>2, <2>3, <2>6, <2>7, <2>8 DEF Wished
  <2> QED
    BY <2>4, <2>7, <2>9 DEF Apt, Watching
<1>9. ASSUME NEW k \in Coming'
      PROVE  Due(k)'
  <2>1. ~Writable /\ k = Resume("reply", p, FALSE, <<>>)
    BY <1>5, <1>6, <1>9, ComingOne
  <2>2. ~k.ok /\ k.kind = "attach"
    BY <1>4, <2>1 DEF Resume
  <2> QED
    BY <2>2 DEF Due, Watching
<1>10. ASSUME NEW d \in Clients, NEW s \in clientSubscriptions'[d]
       PROVE  Screened(d, s)'
  <2>1. s \in clientSubscriptions[d] /\ s \in Sessions /\ d = c
    BY <1>1
  <2>2. s # z
    BY <2>1 DEF Unseen
  <2>3. Lasting(s) /\ Screened(d, s)
    BY <1>1, <1>7, <2>1, <2>2 DEF GInv
  <2>4. UNCHANGED produced /\ (IsOpen(d)' => IsOpen(d))
    BY DEF supVars, IsOpen
  <2> QED
    BY <1>1, <2>1, <2>3, <2>4, ScreenKept
<1>11. GInv'
  <2>1. PICK B \in SUBSET Sessions : B = {z}
    OBVIOUS
  <2>2. \A s \in Sessions : s \in B \/ Lasting(s)
    BY <1>7, <2>1
  <2>3. \A s \in B : ~Untouched(s) \/ \A d \in Clients : asked'[d][s]
    BY <2>1
  <2>4. UNCHANGED <<supVars, gwConn>>
    OBVIOUS
  <2>5. \A d \in Clients : ws'[d] = "new" => ws[d] = "new" /\ asked'[d] = asked[d]
    OBVIOUS
  <2>6. \A d \in Clients, s \in Sessions : ~asked'[d][s] => view'[d][s] = view[d][s]
    OBVIOUS
  <2>7. \A s \in Sessions : s \in subscribed' => s \in subscribed \/ \A d \in Clients : asked'[d][s]
    OBVIOUS
  <2> QED
    BY <1>8, <1>9, <1>10, <2>1, <2>2, <2>3, <2>4, <2>5, <2>6, <2>7, StepKeeps
<1>12. UNCHANGED Feed!feedVars
  BY DEF Feed!feedVars, supVars
<1> QED
  BY <1>11, <1>12 DEF Kept

(* A client's message is read when nothing of its own is under way. *)
LEMMA Taking ==
    ASSUME AttachOnce, RInv, NEW c \in Clients, NEW op, ClientTurn(c, op)
    PROVE  /\ turn = "idle" /\ pending = {} /\ micro = <<>> /\ ws[c] # "new"
           /\ op \in {"create", "attach", "input", "resize", "kill"}
           /\ \A d \in Clients : d = c
<1>1. \A d \in Clients : d = c
  BY DEF AttachOnce
<1>2. turn = "idle" /\ (\A p \in pending : p.client # c) /\ ws[c] # "new" /\ op \in ClientOps
  BY DEF ClientTurn, AttachOnce
<1>3. pending = {}
  BY <1>1, <1>2, Known DEF RInv, HInv, DInv
<1>4. micro = <<>>
  BY <1>2 DEF RInv, HInv, FInv, Alone
<1> QED
  BY <1>1, <1>2, <1>3, <1>4 DEF AttachOnce

LEMMA ResizeKeeps ==
    ASSUME AttachOnce, RInv, HInv', ClientStep, UNCHANGED supVars, NEW c \in Clients, NEW s \in Sessions,
           \/ \E size \in Sizes : ResizeMessage(c, s, size)
           \/ \E op \in {"input", "kill"} : ForwardMessage(c, s, op)
    PROVE  Kept
<1>0. Typed
  BY DEF RInv, HInv, DInv
<1>1. /\ \E op : ClientTurn(c, op)
      /\ UNCHANGED <<toGw, gwConn, pendingOutput, view, subscribed, clientSubscriptions, asked, ws, sock,
                     pending, micro>>
  BY DEF ResizeMessage, ForwardMessage, relayVars
<1>2. turn = "idle" /\ micro = <<>>
  BY <1>1, Taking
<1>3. \E lines \in Seq(ClientMessage) :
          Post(lines) /\ \A j \in 1 .. Len(lines) : lines[j].type # "subscribe"
  <2>1. ASSUME NEW size \in Sizes, ResizeMessage(c, s, size)
        PROVE  \E lines \in Seq(ClientMessage) :
                  Post(lines) /\ \A j \in 1 .. Len(lines) : lines[j].type # "subscribe"
    <3> DEFINE desired == [clientDesiredSizes EXCEPT ![s][c] = size]
               effective == Recomputed(desired, {s})
               lines == ResizeLines(effective)
    <3>1. Post(lines)
      BY <2>1 DEF ResizeMessage
    <3>2. desired \in [Sessions -> [Clients -> Sizes \cup {0}]]
      BY <1>0 DEF Typed, TypeOK, GwTypeOK
    <3>3. effective \in [Sessions -> Sizes \cup {0}]
      <4> HIDE DEF desired
      <4> QED
        BY <1>0, <3>2, RecomputedTyped DEF Typed, TypeOK, GwTypeOK
    <3>4. /\ IsFiniteSet({s})
          /\ \A z \in Sessions : z \in {s} \/ effective[z] = effectiveSizes[z]
      BY FS_Singleton DEF Recomputed
    <3> HIDE DEF effective
    <3>5. lines \in Seq(ClientMessage)
      BY <1>0, <3>3, <3>4, ResizeLinesTyped
    <3>6. \A j \in 1 .. Len(lines) : lines[j].type = "resize"
      BY <3>5, ResizesOnly
    <3> HIDE DEF lines
    <3>7. \A j \in 1 .. Len(lines) : lines[j].type # "subscribe"
      BY <3>6
    <3> QED
      BY <3>1, <3>5, <3>7
  <2>2. ASSUME NEW op \in {"input", "kill"}, ForwardMessage(c, s, op)
        PROVE  \E lines \in Seq(ClientMessage) :
                  Post(lines) /\ \A j \in 1 .. Len(lines) : lines[j].type # "subscribe"
    <3> DEFINE m == Request(op, s, 0)
    <3>1. Post(<<m>>) /\ m \in ClientMessage /\ m.type # "subscribe"
      BY <2>2, RequestTyped DEF ForwardMessage, ClientMessageTypes, Request
    <3> HIDE DEF m
    <3>2. <<m>> \in Seq(ClientMessage) /\ \A j \in 1 .. Len(<<m>>) : <<m>>[j].type # "subscribe"
      BY <3>1
    <3> QED
      BY <3>1, <3>2
  <2> QED
    BY <2>1, <2>2
<1>4. \A k \in Coming' : Due(k)'
  BY <1>1, <1>2, ComingOne
<1> QED
  BY <1>1, <1>2, <1>3, <1>4, EventKeeps DEF IsOpen

LEMMA AttachKeeps ==
    ASSUME AttachOnce, RInv, HInv', ClientStep, UNCHANGED supVars, NEW c \in Clients, NEW z \in Sessions,
           AttachMessage(c, z)
    PROVE  Kept
<1>1. /\ EnsureSubscribed(Ask("attach", c, z, TRUE), micro)
      /\ ~asked[c][z] \/ "reattach" \in ClientOps
      /\ asked' = [asked EXCEPT ![c][z] = TRUE]
      /\ UNCHANGED <<toGw, gwConn, subscribed, pendingOutput, view, clientSubscriptions, ws, sock>>
  BY DEF AttachMessage, relayVars
<1>2. ClientTurn(c, "attach")
  BY DEF AttachMessage
<1>3. /\ pending = {} /\ micro = <<>> /\ ws[c] # "new"
      /\ \A d \in Clients : d = c
  BY <1>2, Taking
<1>4. GInv /\ Typed /\ asked \in [Clients -> [Sessions -> BOOLEAN]]
  BY DEF RInv, HInv, DInv, Typed, TypeOK, GwTypeOK
<1>5. Untouched(z) /\ Unseen(c, z) /\ z \notin subscribed
  BY <1>1, <1>4 DEF GInv, Unasking, AttachOnce, Untouched
<1>6. PICK p : p = Ask("attach", c, z, TRUE)
  OBVIOUS
<1>7. IssueRequest(p, <<>>)
  <2>1. p.sid = z
    BY <1>6 DEF Ask
  <2> QED
    BY <1>1, <1>3, <1>5, <1>6, <2>1 DEF EnsureSubscribed
<1>8. /\ \A d \in Clients, s \in Sessions : asked[d][s] => asked'[d][s]
      /\ \A d \in Clients : asked'[d][z]
      /\ \A d \in Clients : ws[d] = "new" => asked'[d] = asked[d]
  BY <1>1, <1>3, <1>4
<1> QED
  BY <1>1, <1>3, <1>5, <1>6, <1>7, <1>8, AskKeeps

LEMMA CreateKeeps ==
    ASSUME AttachOnce, RInv, HInv', ClientStep, UNCHANGED supVars, NEW c \in Clients, NEW z \in Sessions,
           NEW kind \in Creates, NEW attach \in BOOLEAN, CreateMessage(c, z, kind, attach)
    PROVE  Kept
<1>1. /\ IssueRequest(Ask(kind, c, z, attach), micro)
      /\ attach /\ asked[c][z] => "reattach" \in ClientOps
      /\ asked' = [asked EXCEPT ![c][z] = @ \/ attach]
      /\ UNCHANGED <<toGw, gwConn, subscribed, pendingOutput, view, clientSubscriptions, ws, sock>>
  BY DEF CreateMessage, relayVars
<1>2. ClientTurn(c, kind)
  BY DEF CreateMessage
<1>3. /\ turn = "idle" /\ pending = {} /\ micro = <<>> /\ ws[c] # "new"
      /\ \A d \in Clients : d = c
  BY <1>2, Taking
<1>4. /\ GInv /\ HInv /\ Typed /\ asked \in [Clients -> [Sessions -> BOOLEAN]] /\ nextReqId \in Nat
      /\ LinkOK
  BY DEF RInv, HInv, DInv, Typed, TypeOK, GwTypeOK, ScTypeOK
<1>5. PICK p : p = Ask(kind, c, z, attach)
  OBVIOUS
<1>6. p.kind = kind /\ p.client = c /\ p.sid = z /\ p.attach = attach
  BY <1>5 DEF Ask
<1>7. PICK l \in ClientMessage : l = Request(kind, z, nextReqId)
  BY <1>4, RequestTyped DEF ClientMessageTypes, Creates
<1>8. l.type # "subscribe"
  BY <1>7 DEF Request, Creates
<1>9. Writable => pending' = {[p EXCEPT !.id = nextReqId]} /\ micro' = <<>> /\ Post(<<l>>)
  <2>1. RequestType(kind) = kind
    BY DEF RequestType
  <2> QED
    BY <1>1, <1>3, <1>5, <1>6, <1>7, <2>1 DEF IssueRequest
<1>10. ~Writable => UNCHANGED toSup /\ pending' = {} /\ micro' = <<Resume("reply", p, FALSE, <<>>)>>
  <2>1. \A k : Append(<<>>, k) = <<k>>
    OBVIOUS
  <2> QED
    BY <1>1, <1>3, <1>5, <2>1 DEF IssueRequest
<1>11. \/ UNCHANGED toSup
       \/ \E lines \in Seq(ClientMessage) :
             Post(lines) /\ \A j \in 1 .. Len(lines) : lines[j].type # "subscribe"
  <2>1. <<l>> \in Seq(ClientMessage) /\ \A j \in 1 .. Len(<<l>>) : <<l>>[j].type # "subscribe"
    BY <1>8
  <2> QED
    BY <1>9, <1>10, <2>1
<1>12. ASSUME NEW q \in pending'
       PROVE  Apt(q)'
  <2>1. Writable /\ q = [p EXCEPT !.id = nextReqId]
    BY <1>9, <1>10
  <2>2. q.kind = kind /\ q.client = c /\ q.sid = z /\ q.attach = attach
    BY <1>5, <2>1 DEF Ask
  <2>3. q.kind \in Creates /\ q.kind # "attach" /\ ~Watching(q)
    BY <2>2 DEF Creates, Watching
  <2>4. gwConn \in Conns /\ gwConn' = gwConn
    BY <1>1, <1>4, <2>1 DEF Writable, LinkOK
  <2>5. ASSUME attach
        PROVE  Wished(q)'
    <3>1. Untouched(z) /\ Unseen(c, z)
      BY <1>1, <1>4, <2>5 DEF GInv, Unasking, AttachOnce
    <3>2. Lasting(z)
      BY <1>1, <1>4, <1>11, LinesLast
    <3>3. Untouched(z)'
      BY <1>1, <3>1, <3>2 DEF Lasting, Untouched
    <3>4. Unseen(c, z)'
      BY <1>1, <3>1 DEF Unseen
    <3>5. gwConn' \in Conns
      BY <2>4
    <3>6. Unseen(q.client, q.sid)' /\ Untouched(q.sid)'
      BY <2>2, <3>3, <3>4
    <3> QED
      BY <2>3, <3>5, <3>6 DEF Wished
  <2> QED
    BY <2>2, <2>3, <2>5 DEF Apt, Attaches
<1>13. ASSUME NEW k \in Coming'
       PROVE  Due(k)'
  <2>1. ~Writable /\ k = Resume("reply", p, FALSE, <<>>)
    BY <1>9, <1>10, <1>13, ComingOne
  <2>2. ~k.ok /\ k.kind \in Creates
    BY <1>6, <2>1 DEF Resume
  <2> QED
    BY <2>2 DEF Due, Watching, Creates
<1>14. /\ \A d \in Clients, s \in Sessions : asked[d][s] => asked'[d][s]
       /\ \A d \in Clients : ws'[d] = "new" => ws[d] = "new" /\ asked'[d] = asked[d]
  BY <1>1, <1>3, <1>4
<1> QED
  BY <1>1, <1>3, <1>11, <1>12, <1>13, <1>14, EventKeeps DEF IsOpen

(* A step of a client. *)
LEMMA ClientKeepsFeed ==
    ASSUME AttachOnce, RInv, HInv', ClientStep
    PROVE  Kept
<1>1. PICK c \in Clients :
          \/ ClientConnect(c) \/ ClientTerminated(c) \/ ClientClosed(c)
          \/ ClientMessageFrom(c)
  BY DEF ClientStep
<1>2. UNCHANGED supVars
  BY DEF ClientStep
<1>3. CASE ClientConnect(c) \/ ClientTerminated(c) \/ ClientClosed(c)
  BY <1>3, ClientEventKeeps
<1>4. CASE ClientMessageFrom(c)
  <2>1. PICK z \in Sessions :
           \/ \E kind \in Creates, attach \in BOOLEAN : CreateMessage(c, z, kind, attach)
           \/ AttachMessage(c, z) \/ DetachMessage(c, z) \/ WatchMessage(c, z) \/ UnwatchMessage(c, z)
           \/ \E size \in Sizes : ResizeMessage(c, z, size)
           \/ \E op \in {"input", "kill"} : ForwardMessage(c, z, op)
    BY <1>4 DEF ClientMessageFrom
  <2>2. ~DetachMessage(c, z) /\ ~WatchMessage(c, z) /\ ~UnwatchMessage(c, z)
    <3>1. ~ClientTurn(c, "detach") /\ ~ClientTurn(c, "watch") /\ ~ClientTurn(c, "unwatch")
      BY Taking
    <3> QED
      BY <3>1 DEF DetachMessage, WatchMessage, UnwatchMessage
  <2>3. ASSUME NEW kind \in Creates, NEW attach \in BOOLEAN, CreateMessage(c, z, kind, attach)
        PROVE  Kept
    BY <1>2, <2>3, CreateKeeps
  <2>4. CASE AttachMessage(c, z)
    BY <1>2, <2>4, AttachKeeps
  <2>5. CASE \/ \E size \in Sizes : ResizeMessage(c, z, size)
             \/ \E op \in {"input", "kill"} : ForwardMessage(c, z, op)
    BY <1>2, <2>5, ResizeKeeps
  <2> QED
    BY <2>1, <2>2, <2>3, <2>4, <2>5
<1> QED
  BY <1>1, <1>3, <1>4

-----------------------------------------------------------------------------
(* Continuations, and a new connection.                                    *)

LEMMA GoingOn ==
    ASSUME AttachOnce, RInv, GatewayStep, Continue, NEW k, k = Head(micro)
    PROVE  /\ Typed /\ GInv /\ HInv /\ UNCHANGED <<supVars, gwConn, produced, pendingOutput, ws, sock, asked>>
           /\ micro # <<>> /\ Tail(micro) = <<>> /\ Coming = {k} /\ Due(k) /\ pending = {}
           /\ k \in Continuation /\ k.kind \in Kinds /\ k.client \in Clients /\ k.sid \in Sessions
           /\ k.output \in Seq(Stretch)
           /\ turn' # "pipe"
           /\ Attaches(k) => \A d \in Clients : asked[d][k.sid]
<1>1. Typed /\ GInv /\ HInv /\ AskedFor /\ Alone
  BY DEF RInv, HInv, DInv, FInv
<1>2. /\ micro # <<>> /\ EndTurn("draining")
      /\ UNCHANGED <<supVars, gwConn, produced, pendingOutput, ws, sock, asked>>
  BY DEF Continue, GatewayStep, supVars
<1>3. pending = {} /\ Len(micro) = 1 /\ micro \in Seq(Continuation)
  BY <1>1, <1>2 DEF Alone, Typed, TypeOK, ScTypeOK
<1>4. Tail(micro) = <<>>
  <2>1. Tail(micro) \in Seq(Continuation) /\ Len(Tail(micro)) = 0
    BY <1>2, <1>3, HeadTailProperties
  <2> QED
    BY <2>1, EmptySeq
<1>5. k = micro[1] /\ 1 \in 1 .. Len(micro)
  BY <1>2, <1>3
<1>6. Coming = {k}
  BY <1>3, <1>5 DEF Coming
<1>7. /\ k \in Continuation /\ k.kind \in Kinds /\ k.client \in Clients /\ k.sid \in Sessions
      /\ k.output \in Seq(Stretch)
  BY <1>1, <1>6, Known
<1>8. Due(k)
  BY <1>1, <1>6 DEF GInv
<1>9. turn' # "pipe"
  BY <1>2 DEF EndTurn
<1>10. Attaches(k) => \A d \in Clients : asked[d][k.sid]
  <2>1. Attaches(k) => asked[k.client][k.sid]
    BY <1>1, <1>5 DEF AskedFor, Served
  <2>2. \A d \in Clients : d = k.client
    BY <1>7 DEF AttachOnce
  <2> QED
    BY <2>1, <2>2
<1> QED
  BY <1>1, <1>2, <1>3, <1>4, <1>6, <1>7, <1>8, <1>9, <1>10

(* The method goes on, then its caller. *)
LEMMA ResumeKeeps ==
    ASSUME AttachOnce, RInv, HInv', GatewayStep, Continue, ResumeMethod(Head(micro)),
           UNCHANGED <<ipcVars, pending, relayVars, view>>
    PROVE  Kept
<1>1. PICK k : k = Head(micro)
  OBVIOUS
<1>2. /\ Typed /\ GInv /\ HInv /\ UNCHANGED <<supVars, gwConn, produced, pendingOutput, ws, sock, asked>>
      /\ Tail(micro) = <<>> /\ k \in Coming /\ Due(k) /\ pending = {}
      /\ k \in Continuation /\ k.kind \in Kinds /\ k.client \in Clients /\ k.sid \in Sessions
      /\ turn' # "pipe"
      /\ Attaches(k) => \A d \in Clients : asked[d][k.sid]
  BY <1>1, GoingOn
<1>3. \A s \in Sessions : Lasting(s)
  <2>1. \A s \in Sessions : Calm(s)
    BY <1>2, CalmStill
  <2> QED
    BY <1>2, <2>1, CalmLasts
<1>4. PICK z : z = [k EXCEPT !.step = "caller"]
  OBVIOUS
<1>5. /\ z.kind = k.kind /\ z.client = k.client /\ z.sid = k.sid /\ z.ok = k.ok /\ z.output = k.output
      /\ z.attach = k.attach
  BY <1>2, <1>4 DEF Continuation
<1>6. micro' = <<z>>
  <2>1. micro' = Append(<<>>, z)
    BY <1>1, <1>2, <1>4 DEF ResumeMethod
  <2> QED
    BY <2>1
<1>7. Coming' = {z}
  BY <1>6, ComingOne
<1>8. /\ k.kind \in Creates => subscribed' = subscribed
      /\ \A s \in subscribed' : s \in subscribed \/ (s = k.sid /\ k.kind \notin Creates)
  BY <1>1, <1>2 DEF ResumeMethod, ResumeCreate, ResumeEnsureSubscribed
<1>9. \A s \in subscribed' : s \in subscribed \/ \A d \in Clients : asked'[d][s]
  <2>1. k.kind \notin Creates => Attaches(k)
    BY <1>2 DEF Due, Watching, Attaches, Kinds, Creates
  <2> QED
    BY <1>2, <1>8, <2>1
<1>10. Due(k)'
  <2>1. CASE Attaches(k) /\ k.ok
    <3>1. k.kind \in Creates => k.sid \notin subscribed'
      BY <1>2, <1>8, <2>1 DEF Due, Granting, Untouched
    <3>2. UNCHANGED clientSubscriptions /\ Lasting(k.sid) /\ Typed'
      BY <1>2, <1>3 DEF relayVars, HInv, DInv
    <3> QED
      BY <1>2, <3>1, <3>2, DueKept
  <2>2. CASE ~(Attaches(k) /\ k.ok)
    BY <1>2, <2>2 DEF Due
  <2> QED
    BY <2>1, <2>2
<1>11. Due(z)'
  BY <1>5, <1>10 DEF Due, Granting, Watching, Attaches
<1>12. UNCHANGED clientSubscriptions /\ \A d \in Clients : IsOpen(d)' => IsOpen(d)
  BY <1>2 DEF relayVars, IsOpen
<1>13. \A q \in pending' : Apt(q)'
  BY <1>2
<1>14. \A q \in Coming' : Due(q)'
  BY <1>7, <1>11
<1>15. /\ \A d \in Clients : clientSubscriptions'[d] \subseteq clientSubscriptions[d]
       /\ \A d \in Clients, s \in Sessions : asked[d][s] => asked'[d][s]
       /\ \A d \in Clients : ws'[d] = "new" => ws[d] = "new" /\ asked'[d] = asked[d]
       /\ UNCHANGED <<supVars, gwConn, view>>
  BY <1>2, <1>12
<1> QED
  BY <1>3, <1>9, <1>12, <1>13, <1>14, <1>15, QuietStep

(* The client is told that it is attached, and given the replay. *)
LEMMA AttachedKeeps ==
    ASSUME AttachOnce, RInv, HInv', GatewayStep, Continue, NEW k, k = Head(micro), Attached(k), k.ok
    PROVE  Kept
<1>1. /\ Typed /\ GInv /\ HInv /\ UNCHANGED <<supVars, gwConn, produced, pendingOutput, ws, sock, asked>>
      /\ Tail(micro) = <<>> /\ k \in Coming /\ Due(k) /\ pending = {}
      /\ k.client \in Clients /\ k.sid \in Sessions
      /\ k.output \in Seq(Stretch)
      /\ Attaches(k) => \A d \in Clients : asked[d][k.sid]
  BY GoingOn
<1>2. /\ k.kind = "attach" /\ micro' = <<>> /\ UNCHANGED <<ipcVars, subscribed>> /\ pending' = {}
      /\ clientSubscriptions' = [clientSubscriptions EXCEPT ![k.client] = @ \cup {k.sid}]
      /\ view' = IF IsOpen(k.client)
                   THEN [view EXCEPT ![k.client][k.sid] = [Blank EXCEPT !.runs = Shown(<<>>, k.output)]]
                   ELSE view
  BY <1>1 DEF Attached
<1>3. PICK c \in Clients, z \in Sessions : c = k.client /\ z = k.sid
  BY <1>1
<1>4. /\ Unseen(c, z) /\ Part(k.output, z) /\ Flow(z, End(k.output))
      /\ \A d \in Clients : asked[d][z]
  BY <1>1, <1>2, <1>3 DEF Due, Granting, Attaches
<1>5. \A s \in Sessions : Lasting(s)
  <2>1. \A s \in Sessions : Calm(s)
    BY <1>1, <1>2, CalmStill
  <2> QED
    BY <1>1, <2>1, CalmLasts
<1>6. Shown(<<>>, k.output) = k.output
  <2>1. CASE k.output = <<>>
    BY <2>1, ShownNone
  <2>2. CASE Len(k.output) = 1
    <3>1. PICK p \in Stretch : k.output = <<p>>
      BY <1>1, <2>2, OneRun
    <3> QED
      BY <3>1, ShownOne
  <2> QED
    BY <1>4, <2>1, <2>2 DEF Part
<1>7. /\ view \in [Clients -> [Sessions -> Screen]] /\ Blank \in Screen
      /\ clientSubscriptions \in [Clients -> SUBSET Sessions]
  BY <1>1 DEF Typed, TypeOK, GwTypeOK, Blank, Screen
<1>8. PICK runs \in Seq(Stretch) :
        /\ view' = [view EXCEPT ![c][z] = [Blank EXCEPT !.runs = runs]]
        /\ Part(runs, z)
        /\ IsOpen(c) => runs = k.output
  <2>1. CASE IsOpen(c)
    BY <1>1, <1>2, <1>3, <1>4, <1>6, <2>1
  <2>2. CASE ~IsOpen(c)
    <3>1. view[c][z] = Blank /\ view' = view
      BY <1>2, <1>3, <1>4, <2>2 DEF Unseen
    <3>2. [Blank EXCEPT !.runs = <<>>] = Blank
      BY DEF Blank
    <3>3. view' = [view EXCEPT ![c][z] = [Blank EXCEPT !.runs = <<>>]]
      BY <1>7, <3>1, <3>2
    <3>4. <<>> \in Seq(Stretch) /\ Part(<<>>, z)
      BY DEF Part
    <3> QED
      BY <2>2, <3>3, <3>4
  <2> QED
    BY <2>1, <2>2
<1>9. /\ view'[c][z].runs = runs
      /\ \A d \in Clients, s \in Sessions : s # z \/ d # c => view'[d][s] = view[d][s]
  <2>1. [Blank EXCEPT !.runs = runs].runs = runs
    BY DEF Blank
  <2>2. PICK b : b = [Blank EXCEPT !.runs = runs]
    OBVIOUS
  <2>3. view' = [view EXCEPT ![c][z] = b] /\ b.runs = runs
    BY <1>8, <2>1, <2>2
  <2> QED
    BY <1>7, <2>3
<1>10. \A d \in Clients : d = c
  BY DEF AttachOnce
<1>11. ASSUME NEW d \in Clients, NEW s \in clientSubscriptions'[d]
       PROVE  Screened(d, s)'
  <2>1. CASE s # z
    <3>1. s \in clientSubscriptions[d] /\ s \in Sessions /\ Screened(d, s)
      BY <1>1, <1>2, <1>3, <1>7, <1>11, <2>1 DEF GInv
    <3>2. view'[d][s].runs = view[d][s].runs /\ (IsOpen(d)' => IsOpen(d))
      BY <1>1, <1>9, <2>1, <3>1 DEF IsOpen
    <3> QED
      BY <1>1, <1>5, <3>1, <3>2, ScreenKept
  <2>2. CASE s = z
    <3>1. Part(runs, z)'
      BY <1>1, <1>8 DEF Part
    <3>3. PICK e \in Nat : e = End(k.output)
      BY <1>1, EndTyped
    <3>4. Flow(z, e)'
      BY <1>4, <1>5, <3>3 DEF Lasting
    <3>5. IsOpen(c)' => Flow(z, End(runs))'
      <4>1. IsOpen(c)' => e = End(runs)
        BY <1>1, <1>8, <3>3 DEF IsOpen
      <4> QED
        BY <3>4, <4>1
    <3>6. view'[c][z].runs = runs
      BY <1>9
    <3> QED
      BY <1>10, <2>2, <3>1, <3>5, <3>6 DEF Screened
  <2> QED
    BY <2>1, <2>2
<1>12. GInv'
  <2>1. {} \in SUBSET Sessions /\ \A s \in Sessions : s \in {} \/ Lasting(s)
    BY <1>5
  <2>2. \A d \in Clients, s \in Sessions : ~asked'[d][s] => view'[d][s] = view[d][s]
    BY <1>1, <1>4, <1>9
  <2>3. (\A q \in pending' : Apt(q)') /\ \A q \in Coming' : Due(q)'
    BY <1>2, ComingOne
  <2>4. /\ \A d \in Clients, s \in Sessions : asked[d][s] => asked'[d][s]
        /\ \A d \in Clients : ws'[d] = "new" => ws[d] = "new" /\ asked'[d] = asked[d]
        /\ \A s \in Sessions : s \in subscribed' => s \in subscribed \/ \A d \in Clients : asked'[d][s]
        /\ UNCHANGED <<supVars, gwConn>>
    BY <1>1, <1>2
  <2> QED
    BY <1>11, <2>1, <2>2, <2>3, <2>4, StepKeeps
<1>13. Feed!Attach(c, z)
  <2>1. z \notin clientSubscriptions[c]
    BY <1>4 DEF Unseen
  <2>2. runs = <<>> \/ (Len(runs) = 1 /\ Feed!IsOutput(runs[1], z))
    <3>1. CASE Len(runs) = 1 /\ 1 <= runs[1].from /\ runs[1].from <= runs[1].to /\ runs[1].to <= produced[z]
      <4>1. PICK p \in Stretch : p = runs[1]
        BY <1>8, <3>1, OneRun
      <4>2. p \in Feed!Stretches
        BY <3>1, <4>1 DEF Feed!Stretches, Stretch
      <4> QED
        BY <3>1, <4>1, <4>2 DEF Feed!IsOutput
    <3> QED
      BY <1>8, <3>1 DEF Part
  <2>3. view' = [view EXCEPT ![c][z] = [Feed!Blank EXCEPT !.runs = view'[c][z].runs]]
    BY <1>8, <1>9 DEF Blank, Feed!Blank
  <2>4. clientSubscriptions' = [clientSubscriptions EXCEPT ![c] = @ \cup {z}]
    BY <1>2, <1>3
  <2> QED
    BY <1>1, <1>9, <2>1, <2>2, <2>3, <2>4 DEF Feed!Attach
<1>14. Feed!Next
  BY <1>13 DEF Feed!Next
<1> QED
  BY <1>12, <1>14 DEF Kept

(* The caller goes on. *)
LEMMA CallerKeeps ==
    ASSUME AttachOnce, RInv, HInv', GatewayStep, Continue, NEW k, k = Head(micro),
           \/ Attached(k) /\ ~k.ok
           \/ Created(k)
    PROVE  Kept
<1>1. /\ Typed /\ GInv /\ HInv /\ UNCHANGED <<supVars, gwConn, produced, pendingOutput, ws, sock, asked>>
      /\ Tail(micro) = <<>> /\ k \in Coming /\ Due(k) /\ pending = {}
      /\ k.client \in Clients /\ k.sid \in Sessions
      /\ Attaches(k) => \A d \in Clients : asked[d][k.sid]
  BY GoingOn
<1>2. UNCHANGED <<toGw, subscribed, view, clientSubscriptions>>
  <2>1. CASE Attached(k) /\ ~k.ok
    BY <2>1 DEF Attached, ipcVars
  <2>2. CASE Created(k)
    BY <2>2 DEF Created, relayVars
  <2> QED
    BY <2>1, <2>2
<1>3. CASE Created(k) /\ k.ok /\ k.attach
  <2>1. PICK c \in Clients, z \in Sessions : c = k.client /\ z = k.sid
    BY <1>1
  <2>2. Unseen(c, z) /\ Untouched(z) /\ \A d \in Clients : asked[d][z]
    BY <1>1, <1>3, <2>1 DEF Created, Due, Granting, Attaches
  <2>3. PICK p : p = Ask("attach", c, z, TRUE)
    OBVIOUS
  <2>4. IssueRequest(p, <<>>)
    <3>1. p.sid = z /\ z \notin subscribed
      BY <2>2, <2>3 DEF Ask, Untouched
    <3>2. EnsureSubscribed(p, <<>>)
      BY <1>1, <1>3, <2>1, <2>3 DEF Created
    <3> QED
      BY <3>1, <3>2 DEF EnsureSubscribed
  <2>5. /\ \A d \in Clients, s \in Sessions : asked[d][s] => asked'[d][s]
        /\ \A d \in Clients : asked'[d][z]
        /\ \A d \in Clients : ws[d] = "new" => asked'[d] = asked[d]
    BY <1>1, <2>2
  <2> QED
    BY <1>1, <1>2, <2>2, <2>3, <2>4, <2>5, AskKeeps
<1>4. CASE ~(Created(k) /\ k.ok /\ k.attach)
  <2>1. pending' = {} /\ micro' = <<>> /\ UNCHANGED ipcVars
    <3>1. CASE Attached(k) /\ ~k.ok
      BY <1>1, <3>1 DEF Attached
    <3>2. CASE Created(k) /\ ~(k.ok /\ k.attach)
      BY <1>1, <3>2 DEF Created, ipcVars
    <3> QED
      BY <1>4, <3>1, <3>2
  <2>2. \A s \in Sessions : Lasting(s)
    <3>1. \A s \in Sessions : Calm(s)
      BY <1>1, <2>1, CalmStill
    <3> QED
      BY <1>1, <3>1, CalmLasts
  <2>3. (\A q \in pending' : Apt(q)') /\ \A q \in Coming' : Due(q)'
    BY <2>1, ComingOne
  <2>4. /\ \A d \in Clients : clientSubscriptions'[d] \subseteq clientSubscriptions[d]
        /\ \A d \in Clients, s \in Sessions : asked[d][s] => asked'[d][s]
        /\ \A d \in Clients : ws'[d] = "new" => ws[d] = "new" /\ asked'[d] = asked[d]
        /\ \A s \in subscribed' : s \in subscribed \/ \A d \in Clients : asked'[d][s]
        /\ \A d \in Clients : IsOpen(d)' => IsOpen(d) \/ clientSubscriptions[d] = {}
        /\ UNCHANGED <<supVars, gwConn, view>>
    BY <1>1, <1>2 DEF IsOpen
  <2> QED
    BY <2>2, <2>3, <2>4, QuietStep
<1> QED
  BY <1>3, <1>4

LEMMA ContinueKeepsFeed ==
    ASSUME AttachOnce, RInv, HInv', GatewayStep, Continue
    PROVE  Kept
<1>1. PICK k : k = Head(micro)
  OBVIOUS
<1>2. Due(k)
  BY <1>1, GoingOn
<1>3. ~Watched(k)
  BY <1>2 DEF Due, Watching, Watched
<1>4. CASE ResumeMethod(k) /\ UNCHANGED <<ipcVars, pending, relayVars, view>>
  BY <1>1, <1>4, ResumeKeeps
<1>5. CASE Attached(k) /\ k.ok
  BY <1>1, <1>5, AttachedKeeps
<1>6. CASE (Attached(k) /\ ~k.ok) \/ Created(k)
  BY <1>1, <1>6, CallerKeeps
<1> QED
  BY <1>1, <1>3, <1>4, <1>5, <1>6 DEF Continue

(* A new connection, on which nothing was said. *)
LEMMA ConnectKeeps ==
    ASSUME AttachOnce, RInv, HInv', GatewayStep, Connect
    PROVE  Kept
<1>1. /\ Between /\ sock = "down" /\ gwConn' = gwConn + 1 /\ gwConn + 1 \in Conns
      /\ UNCHANGED <<ipcVars, subscribed, pending, micro, gwVars, supVars>>
  BY DEF Connect, GatewayStep
<1>2. UNCHANGED <<toSup, toGw, view, clientSubscriptions, asked, ws, produced, pendingOutput,
                  current, scrollback, subscribers, conn>>
  BY <1>1 DEF ipcVars, gwVars, relayVars, supVars
<1>3. /\ GInv /\ Alone /\ Down /\ Followed /\ IndexesAgree /\ Unopened
      /\ gwConn \in Nat /\ \A c \in Clients : clientSubscriptions[c] \subseteq Sessions
  <2>1. GInv /\ Alone /\ Down /\ Followed /\ Unopened /\ Typed /\ IInv
    BY DEF RInv, HInv, DInv, FInv, EInv
  <2>2. IndexesAgree
    BY <2>1 DEF IInv, IndexesOK
  <2>3. gwConn \in Nat /\ clientSubscriptions \in [Clients -> SUBSET Sessions]
    BY <2>1, GatewayAssumption DEF Typed, TypeOK, ScTypeOK, GwTypeOK
  <2> QED
    BY <2>1, <2>2, <2>3
<1>4. subscribed = {} /\ pending' = {} /\ micro' = <<>>
  BY <1>1, <1>3 DEF Down, Alone, Between
<1>5. \A c \in Clients : clientSubscriptions[c] = {}
  BY <1>3, <1>4 DEF Followed, IndexesAgree
<1>6. ASSUME NEW s \in Sessions
      PROVE  Untouched(s)'
  <2>1. pendingOutput'[s] = <<>> /\ s \notin subscribed'
    BY <1>1, <1>2, <1>4, <1>6 DEF Between, NoImmediates
  <2>2. /\ toSup'[gwConn'] = <<>> /\ toGw'[gwConn'] = <<>> /\ conn'[gwConn'] = "none"
    BY <1>1, <1>2, <1>3 DEF Unopened
  <2>3. 1 .. Len(<<>>) = {}
    OBVIOUS
  <2>4. ~Asks(toSup[gwConn], s)' /\ ~On(s)' /\ ~Snaps(toGw[gwConn], s)' /\ ~Words(toGw[gwConn], s)'
    BY <2>2, <2>3 DEF Asks, On, Snaps, Words
  <2> QED
    BY <2>1, <2>4 DEF Untouched
<1>7. GInv'
  <2>1. Rings'
    BY <1>2, <1>3 DEF GInv, Rings
  <2>2. (\A p \in pending' : Apt(p)') /\ \A k \in Coming' : Due(k)'
    BY <1>4, ComingOne
  <2>3. ASSUME NEW c \in Clients, NEW s \in Sessions, ~asked'[c][s]
        PROVE  Unasking(c, s)'
    BY <1>2, <1>3, <1>6, <2>3 DEF GInv, Unasking, Unseen
  <2>4. \A c \in Clients : \A s \in clientSubscriptions'[c] : Screened(c, s)'
    BY <1>2, <1>5
  <2>5. \A c \in Clients : ws'[c] = "new" => \A s \in Sessions : ~asked'[c][s]
    BY <1>2, <1>3 DEF GInv
  <2> QED
    BY <2>1, <2>2, <2>3, <2>4, <2>5 DEF GInv
<1>8. UNCHANGED Feed!feedVars
  BY <1>2 DEF Feed!feedVars
<1> QED
  BY <1>7, <1>8 DEF Kept

-----------------------------------------------------------------------------
(* The theorem. *)

LEMMA GatewayKeepsFeed ==
    ASSUME AttachOnce, RInv, HInv', GatewayStep
    PROVE  Kept
<1>1. CASE ReadFrame
  <2>1. CASE GotHello \/ GotUnsubscribed \/ GotSessions \/ GotCreated \/ GotError
    BY <2>1, SmallTalkKeeps
  <2>2. CASE GotSubscribed
    BY <2>2, SubscribedKeeps
  <2>3. CASE GotOutput
    BY <2>3, OutputKeeps
  <2>4. CASE GotExit
    BY <2>4, ExitKeeps
  <2>5. CASE GotRemoved
    BY <2>5, RemovedKeeps
  <2> QED
    BY <1>1, <2>1, <2>2, <2>3, <2>4, <2>5 DEF ReadFrame
<1>2. CASE Continue
  BY <1>2, ContinueKeepsFeed
<1>3. CASE CheckPhase
  BY <1>3, CheckKeeps
<1>4. CASE Connect
  BY <1>4, ConnectKeeps
<1>5. CASE Connected
  BY <1>5, ConnectedKeeps
<1>6. CASE Disconnected \/ \E p \in pending : RequestTimeout(p)
  BY <1>6, LostKeeps
<1>7. CASE GotOversized
  BY <1>7, OversizedKeeps
<1> QED
  BY <1>1, <1>2, <1>3, <1>4, <1>5, <1>6, <1>7 DEF GatewayStep

LEMMA FeedStep ==
    ASSUME AttachOnce, RInv, [Next]_vars
    PROVE  RInv' /\ [Feed!Next]_(Feed!feedVars)
<1>1. HInv /\ GInv /\ HInv'
  BY HInvStep DEF RInv
<1>2. CASE SupervisorStep
  <2>1. Typed' /\ GInv'
    BY <1>1, <1>2, SupervisorKeepsFeed DEF HInv, DInv
  <2>2. [Feed!Next]_(Feed!feedVars)
    BY <1>1, <1>2, SupervisorProduces DEF Feed!Next, Feed!feedVars
  <2> QED
    BY <1>1, <2>1, <2>2 DEF RInv
<1>3. CASE GatewayStep
  BY <1>1, <1>3, GatewayKeepsFeed DEF RInv, Kept
<1>4. CASE ClientStep
  BY <1>1, <1>4, ClientKeepsFeed DEF RInv, Kept
<1>5. CASE UNCHANGED vars
  <2>1. UNCHANGED <<supVars, gwConn, view, produced, clientSubscriptions, asked, ws, subscribed, pending, micro,
                    toSup, toGw, pendingOutput, sock, turn, burst, ipcVars>>
    BY <1>5 DEF vars, ipcVars, supVars, scVars, gwVars, relayVars, loopVars
  <2>2. GInv'
    <3>1. /\ \A s : Untouched(s) => Untouched(s)'
          /\ \A s : On(s) <=> On(s)'
          /\ \A c, s : Unseen(c, s) => Unseen(c, s)'
      BY <2>1 DEF Untouched, Unseen, On, supVars
    <3>2. \A s, n : Follows(s, n) => Follows(s, n)'
      BY <2>1, <3>1 DEF Follows
    <3>3. \A s, n : (Flow(s, n) => Flow(s, n)') /\ (Expected(n, s) => Expected(n, s)')
      BY <2>1, <3>1, <3>2 DEF Flow, Hushed, Over, Held, Stream, Expected, supVars
    <3>4. \A c, s : Screened(c, s) => Screened(c, s)'
      BY <2>1, <3>3 DEF Screened, Part, IsOpen
    <3>5. \A p : Apt(p) => Apt(p)'
      BY <2>1, <3>1, <3>3 DEF Apt, Answered, Wished
    <3>6. \A k : Due(k) => Due(k)'
      BY <2>1, <3>1, <3>3 DEF Due, Granting, Part
    <3>7. /\ UNCHANGED <<Coming, pending, ws, asked, clientSubscriptions>>
          /\ Rings => Rings'
          /\ \A c, s : Unasking(c, s) => Unasking(c, s)'
      BY <2>1, <3>1 DEF Coming, Rings, Unasking, supVars
    <3> QED
      BY <1>1, <3>4, <3>5, <3>6, <3>7 DEF GInv
  <2>3. UNCHANGED Feed!feedVars
    BY <2>1 DEF Feed!feedVars
  <2> QED
    BY <1>1, <2>2, <2>3 DEF RInv
<1> QED
  BY <1>2, <1>3, <1>4, <1>5 DEF Next

LEMMA FeedStart ==
    ASSUME AttachOnce, Init
    PROVE  RInv /\ Feed!Init
<1>1. HInv
  BY DInvInit, FedInit, EInvInit, PromisesInit DEF AttachOnce, HInv
<1>2. /\ current = [s \in Sessions |-> 0] /\ produced = [s \in Sessions |-> 0]
      /\ pending = {} /\ micro = <<>> /\ subscribed = {} /\ gwConn = 0
      /\ asked = [c \in Clients |-> [s \in Sessions |-> FALSE]]
      /\ pendingOutput = [s \in Sessions |-> <<>>]
      /\ view = [c \in Clients |-> [s \in Sessions |-> Blank]]
      /\ clientSubscriptions = [c \in Clients |-> {}]
  BY DEF Init, SupInit, ScInit, GwInit
<1>3. gwConn \notin Conns
  BY <1>2, GatewayAssumption
<1>4. Rings
  BY <1>2 DEF Rings
<1>5. Coming = {}
  BY <1>2, ComingOne
<1>6. \A c \in Clients, s \in Sessions : Unasking(c, s)
  BY <1>2, <1>3 DEF Unasking, Untouched, Unseen
<1>7. GInv
  BY <1>2, <1>4, <1>5, <1>6 DEF GInv
<1>8. Feed!Init
  BY <1>2 DEF Feed!Init, Feed!Blank, Blank
<1> QED
  BY <1>1, <1>7, <1>8 DEF RInv

(* TerminalFeed is what the relay implements for a client that attaches to *)
(* each session once: its screen starts with one stretch of the session's  *)
(* output that exists, goes on without a gap or a repetition whatever else *)
(* happens, and is marked as exited once it shows the last chunk.  A       *)
(* client that attaches twice is not among those the theorem is about: the *)
(* replay it is given the second time is a local copy (ws-server.ts:790)   *)
(* that is ahead of the coalesced output still to come.                    *)
THEOREM RelayKeepsFeed == ASSUME AttachOnce PROVE Spec => FeedSpec
<1>1. Init => RInv /\ Feed!Init
  BY FeedStart
<1>2. RInv /\ [Next]_vars => RInv' /\ [Feed!Next]_(Feed!feedVars)
  BY FeedStep
<1> QED
  BY <1>1, <1>2, PTL DEF Spec, FeedSpec, Feed!Spec

==============================================================================
