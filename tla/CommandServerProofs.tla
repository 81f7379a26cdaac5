------------------------ MODULE CommandServerProofs ------------------------
(***************************************************************************)
(* Proofs about CommandServer, for every size of pool and mailboxes and    *)
(* any number of connections and messages: types, the netconns, the flow   *)
(* of a connection's data, its replies, the readback, the clients' order.  *)
(***************************************************************************)
EXTENDS CommandServer, FiniteSetTheorems, SequenceTheorems, TLAPS

\* A connection is served at each statement between accept and delete.
Serving ==
  /\ thread \in {"keepalive", "recv", "handle", "send", "close", "delete"} => cur \in Conns
  /\ thread \in {"accept", "returned"} => cur = None
  /\ thread = "send" => PackCnt < Packets
  /\ thread = "delete" => ~pcb[cur]

\* The accept mailbox holds each queued connection, in ascending order.
Queued ==
  /\ \A i \in 1 .. Len(acceptmbox) :
       acceptmbox[i] # Abrt => netconn[acceptmbox[i]] = "queued"
  /\ \A c \in Conns : netconn[c] = "queued" => \E i \in 1 .. Len(acceptmbox) : acceptmbox[i] = c
  /\ \A i, j \in 1 .. Len(acceptmbox) :
       i < j /\ acceptmbox[i] # Abrt /\ acceptmbox[j] # Abrt => acceptmbox[i] < acceptmbox[j]
  /\ \A c, d \in Conns : c < d /\ netconn[c] = "none" => netconn[d] = "none"

Owned ==
  /\ \A c \in Conns : netconn[c] = "served" <=> c = cur
  /\ \A c \in Conns : pcb[c] => c \in Allocated

PoolKept == Cardinality(Allocated) + 1 <= NumNetconn

\* The pieces of q follow piece number start, each where the one before ends.
Follows(p, end) ==
  /\ p.first = end + 1
  /\ p.frame = "fin" => p.last = end
  /\ p.frame # "fin" => p.first <= p.last /\ p.words # <<>>

Chain(q, start) ==
  \A i \in 1 .. Len(q) :
    /\ Follows(q[i], End(q, start, i - 1))
    /\ q[i].frame = "fin" => i = Len(q)

NoFin(q) == \A i \in 1 .. Len(q) : q[i].frame # "fin"

FlowKept(c) ==
  /\ Chain(Flow(c), done[c])
  /\ pcb[c] => sent[c] = End(Flow(c), done[c], Len(Flow(c)))
  /\ ~pcb[c] => stream[c] = <<>> /\ client[c] # "open"
  /\ client[c] = "open" => NoFin(Flow(c))
  /\ netconn[c] = "none" => recvmbox[c] = <<>> /\ sent[c] = done[c]
  /\ thread = "close" /\ c = cur => Flow(c) = <<>> /\ client[c] # "open"

Flows == \A c \in Conns : FlowKept(c)

\* The piece that is handled comes after everything that was answered.
Handled ==
  thread = "handle" =>
    /\ msg.words # <<>> /\ msg.first > 0 /\ msg.first <= msg.last /\ msg.last = done[cur]
    /\ \A i \in 1 .. Len(replies[cur]) : replies[cur][i].to.last < msg.first

IInv ==
  /\ TypeOK /\ Serving /\ Queued /\ Owned /\ PoolKept /\ Flows
  /\ Handled /\ RepliesMatch /\ JudgedByItself

USE DEF NetconnStates, ClientStates

LEMMA Sizes ==
  /\ NumNetconn \in Nat /\ NumNetconn > 1 /\ AcceptMbox \in Nat /\ AcceptMbox > 0
  /\ RecvMbox \in Nat /\ RecvMbox > 0 /\ MaxConns \in Nat /\ Packets \in Nat /\ Packets > 0
  /\ PackWords \in Nat /\ CounterValues \in Nat
  /\ DataWords \in Nat /\ DataWords > 1 /\ Tail5E5D \in Nat /\ Tail5E5D > DataWords
  BY ServerAssumption

LEMMA ConnsNat == \A c \in Conns : c \in Nat /\ c > 0 /\ c # Abrt /\ c # None
  BY Sizes DEF Conns, Abrt, None

-----------------------------------------------------------------------------
(* Chains of pieces.                                                       *)

LEMMA PieceType ==
  ASSUME NEW n \in Nat, NEW words \in Seq(Nat)
  PROVE  /\ Piece(n, words) \in Pieces
         /\ Piece(n, words).first = n /\ Piece(n, words).last = n
         /\ Piece(n, words).frame = "data" /\ Piece(n, words).words = words
  BY DEF Piece, Pieces

LEMMA FinType == \A n \in Nat : Fin(n) \in Pieces
  <1>1. <<>> \in Seq(Nat)
    OBVIOUS
  <1> QED BY <1>1 DEF Fin, Pieces

LEMMA Fields == \A p \in Pieces : p.first \in Nat /\ p.last \in Nat /\ p.words \in Seq(Nat)
  BY DEF Pieces

LEMMA Sums ==
  /\ \A a, b \in Nat : a + 1 = a + b => b = 1
  /\ \A a, b, d \in Nat : a + 1 = b /\ d = b - 1 => a = d
  /\ \A a, b \in Nat : a + b = 0 => a = 0
  OBVIOUS

LEMMA NoneLeft == ASSUME NEW s \in Seq(Pieces), Len(s) = 0 PROVE s = <<>>
  OBVIOUS

LEMMA EndType ==
  ASSUME NEW q \in Seq(Pieces), NEW n \in Nat, NEW i \in 0 .. Len(q)
  PROVE  End(q, n, i) \in Nat
  <1>1. CASE i = 0
    BY <1>1 DEF End
  <1>2. CASE i # 0
    <2>1. q[i] \in Pieces
      BY <1>2
    <2> QED BY <2>1, <1>2, Fields DEF End
  <1> QED BY <1>1, <1>2

\* A piece that is taken off leaves a chain behind its last number.
LEMMA ChainTail ==
  ASSUME NEW q \in Seq(Pieces), NEW n \in Nat, q # <<>>, Chain(q, n)
  PROVE  /\ Follows(Head(q), n) /\ Head(q) \in Pieces
         /\ Head(q).frame = "fin" => Tail(q) = <<>>
         /\ Chain(Tail(q), Head(q).last)
         /\ End(Tail(q), Head(q).last, Len(Tail(q))) = End(q, n, Len(q))
  <1>1. Head(q) = q[1] /\ Len(q) \in Nat /\ Len(q) >= 1 /\ q[1] \in Pieces /\ 1 \in 1 .. Len(q)
    OBVIOUS
  <1>2. Follows(Head(q), End(q, n, 1 - 1)) /\ (Head(q).frame = "fin" => 1 = Len(q))
    BY <1>1 DEF Chain
  <1>3. End(q, n, 1 - 1) = n
    BY DEF End
  <1>5. /\ Len(Tail(q)) = Len(q) - 1 /\ Tail(q) \in Seq(Pieces)
        /\ \A i \in 1 .. Len(q) - 1 : Tail(q)[i] = q[i + 1]
    BY <1>1
  <1>4. Head(q).frame = "fin" => Tail(q) = <<>>
    BY <1>1, <1>2, <1>5, NoneLeft
  <1>6. \A i \in 0 .. Len(q) - 1 : End(Tail(q), Head(q).last, i) = End(q, n, i + 1)
    BY <1>1, <1>5 DEF End
  <1>7. Chain(Tail(q), Head(q).last)
    <2> SUFFICES ASSUME NEW i \in 1 .. Len(Tail(q))
                 PROVE  /\ Follows(Tail(q)[i], End(Tail(q), Head(q).last, i - 1))
                        /\ Tail(q)[i].frame = "fin" => i = Len(Tail(q))
      BY DEF Chain
    <2>1. i + 1 \in 1 .. Len(q) /\ i - 1 \in 0 .. Len(q) - 1 /\ Tail(q)[i] = q[i + 1]
      BY <1>1, <1>5
    <2>2. Follows(q[i + 1], End(q, n, (i + 1) - 1)) /\ (q[i + 1].frame = "fin" => i + 1 = Len(q))
      BY <2>1 DEF Chain
    <2>3. (i + 1) - 1 = (i - 1) + 1
      OBVIOUS
    <2>4. End(Tail(q), Head(q).last, i - 1) = End(q, n, (i - 1) + 1)
      BY <1>6, <2>1
    <2>5. Tail(q)[i].frame = "fin" => i = Len(Tail(q))
      <3> DEFINE d == Len(Tail(q))
      <3>2. i \in Nat /\ Len(q) \in Nat /\ d \in Nat /\ d = Len(q) - 1
        BY <1>5, <1>1
      <3> HIDE DEF d
      <3>1. i + 1 = Len(q) => i = d
        BY <3>2, Sums
      <3> QED BY <2>1, <2>2, <3>1 DEF d
    <2>6. Follows(Tail(q)[i], End(Tail(q), Head(q).last, i - 1))
      BY <2>1, <2>2, <2>3, <2>4
    <2> QED BY <2>5, <2>6
  <1> QED
    <2>1. Len(Tail(q)) \in 0 .. Len(q) - 1 /\ Len(Tail(q)) + 1 = Len(q)
      BY <1>1, <1>5
    <2> QED BY <1>1, <1>2, <1>3, <1>4, <1>6, <1>7, <2>1

\* What follows may be cut off.
LEMMA ChainFront ==
  ASSUME NEW r \in Seq(Pieces), NEW s \in Seq(Pieces), NEW n \in Nat, Chain(r \o s, n)
  PROVE  /\ Chain(r, n)
         /\ s # <<>> /\ Head(s).frame = "fin" =>
              /\ Tail(s) = <<>>
              /\ End(r, n, Len(r)) = End(r \o s, n, Len(r \o s))
  <1> DEFINE q == r \o s
  <1>1. /\ Len(q) = Len(r) + Len(s) /\ Len(r) \in Nat /\ Len(s) \in Nat
        /\ \A i \in 1 .. Len(r) : q[i] = r[i] /\ i \in 1 .. Len(q)
    OBVIOUS
  <1>2. \A i \in 0 .. Len(r) : End(q, n, i) = End(r, n, i)
    BY <1>1 DEF End
  <1>3. Chain(r, n)
    <2> SUFFICES ASSUME NEW i \in 1 .. Len(r)
                 PROVE  Follows(r[i], End(r, n, i - 1)) /\ (r[i].frame = "fin" => i = Len(r))
      BY DEF Chain
    <2>1. Follows(q[i], End(q, n, i - 1)) /\ (q[i].frame = "fin" => i = Len(q))
      BY <1>1 DEF Chain
    <2>2. i - 1 \in 0 .. Len(r) /\ q[i] = r[i]
      BY <1>1
    <2>3. End(q, n, i - 1) = End(r, n, i - 1)
      BY <1>2, <2>2
    <2> QED BY <1>1, <2>1, <2>2, <2>3
  <1>4. ASSUME s # <<>>, Head(s).frame = "fin"
        PROVE  Tail(s) = <<>> /\ End(r, n, Len(r)) = End(q, n, Len(q))
    <2> DEFINE k == Len(r) + 1
    <2>1. Len(s) >= 1 /\ Head(s) = q[k] /\ k \in 1 .. Len(q) /\ k - 1 = Len(r) /\ k \in Nat
          /\ k # 0
      BY <1>1, <1>4
    <2> HIDE DEF k
    <2>2. Follows(q[k], End(q, n, k - 1)) /\ k = Len(q)
      BY <2>1, <1>4 DEF Chain
    <2>3. Len(s) = 1
      <3>1. Len(r) + 1 = Len(r) + Len(s)
        BY <1>1, <2>1, <2>2
      <3> QED BY <3>1, <1>1, Sums
    <2>4. Tail(s) = <<>>
      <3>1. Tail(s) \in Seq(Pieces) /\ Len(Tail(s)) = Len(s) - 1
        BY <2>1
      <3>2. Len(Tail(s)) = 0
        BY <2>3, <3>1
      <3> QED BY <3>1, <3>2, NoneLeft
    <2>5. q[k].last = End(q, n, Len(r))
      BY <2>1, <2>2, <1>4 DEF Follows
    <2>6. End(q, n, Len(q)) = q[k].last
      BY <2>1, <2>2 DEF End
    <2>7. End(q, n, Len(r)) = End(r, n, Len(r))
      BY <1>1, <1>2
    <2> QED BY <2>4, <2>5, <2>6, <2>7
  <1> QED BY <1>3, <1>4

\* Pieces that begin where a chain without a fin ends make it longer.
LEMMA ChainMore ==
  ASSUME NEW q \in Seq(Pieces), NEW m \in Seq(Pieces), NEW n \in Nat,
         Chain(q, n), NoFin(q), Chain(m, End(q, n, Len(q)))
  PROVE  /\ Chain(q \o m, n)
         /\ End(q \o m, n, Len(q \o m)) = End(m, End(q, n, Len(q)), Len(m))
         /\ NoFin(m) => NoFin(q \o m)
  <1> DEFINE f == q \o m
             e == End(q, n, Len(q))
  <1>1. /\ f \in Seq(Pieces) /\ Len(f) = Len(q) + Len(m) /\ Len(q) \in Nat /\ Len(m) \in Nat
        /\ \A i \in 1 .. Len(q) : f[i] = q[i]
        /\ \A i \in 1 .. Len(m) : f[Len(q) + i] = m[i]
    OBVIOUS
  <1>2. \A i \in 0 .. Len(q) : End(f, n, i) = End(q, n, i)
    BY <1>1 DEF End
  <1>3. \A i \in 0 .. Len(m) : End(f, n, Len(q) + i) = End(m, e, i)
    <2> SUFFICES ASSUME NEW i \in 0 .. Len(m) PROVE End(f, n, Len(q) + i) = End(m, e, i)
      OBVIOUS
    <2>1. CASE i = 0
      <3>1. Len(q) + i = Len(q) /\ Len(q) \in 0 .. Len(q)
        BY <2>1, <1>1
      <3>2. End(m, e, i) = e
        BY <2>1 DEF End
      <3> QED BY <3>1, <3>2, <1>2
    <2>2. CASE i # 0
      <3>1. Len(q) + i # 0 /\ i \in 1 .. Len(m)
        BY <2>2, <1>1
      <3> QED BY <3>1, <2>2, <1>1 DEF End
    <2> QED BY <2>1, <2>2
  <1>4. Chain(f, n)
    <2> SUFFICES ASSUME NEW i \in 1 .. Len(f)
                 PROVE  Follows(f[i], End(f, n, i - 1)) /\ (f[i].frame = "fin" => i = Len(f))
      BY DEF Chain
    <2>1. CASE i <= Len(q)
      <3>1. i \in 1 .. Len(q) /\ i - 1 \in 0 .. Len(q)
        BY <1>1, <2>1
      <3>2. Follows(q[i], End(q, n, i - 1)) /\ q[i].frame # "fin"
        BY <3>1 DEF Chain, NoFin
      <3>3. f[i] = q[i] /\ End(f, n, i - 1) = End(q, n, i - 1)
        BY <3>1, <1>1, <1>2
      <3> QED BY <3>2, <3>3
    <2>2. CASE i > Len(q)
      <3> DEFINE j == i - Len(q)
      <3>1. /\ j \in 1 .. Len(m) /\ j - 1 \in 0 .. Len(m) /\ i = Len(q) + j
            /\ i - 1 = Len(q) + (j - 1)
        BY <1>1, <2>2
      <3> HIDE DEF j
      <3>2. Follows(m[j], End(m, e, j - 1)) /\ (m[j].frame = "fin" => j = Len(m))
        BY <3>1 DEF Chain
      <3>3. f[i] = m[j] /\ End(f, n, i - 1) = End(m, e, j - 1)
        BY <3>1, <1>1, <1>3
      <3> QED BY <3>1, <3>2, <3>3, <1>1
    <2> QED BY <2>1, <2>2, <1>1
  <1>5. End(f, n, Len(f)) = End(m, e, Len(m))
    BY <1>1, <1>3
  <1>6. NoFin(m) => NoFin(f)
    <2> SUFFICES ASSUME NoFin(m), NEW i \in 1 .. Len(f) PROVE f[i].frame # "fin"
      BY DEF NoFin
    <2>1. CASE i \in 1 .. Len(q)
      BY <2>1, <1>1 DEF NoFin
    <2>2. CASE i \notin 1 .. Len(q)
      <3>1. i - Len(q) \in 1 .. Len(m) /\ Len(q) + (i - Len(q)) = i
        BY <2>2, <1>1
      <3> QED BY <3>1, <1>1 DEF NoFin
    <2> QED BY <2>1, <2>2
  <1> QED BY <1>4, <1>5, <1>6

LEMMA LongerType ==
  ASSUME NEW p \in Pieces, NEW k \in Nat, NEW m \in Seq(Nat)
  PROVE  /\ Longer(p, k, m) \in Pieces
         /\ Longer(p, k, m).first = p.first /\ Longer(p, k, m).last = k
         /\ Longer(p, k, m).frame = p.frame
         /\ p.words # <<>> => Longer(p, k, m).words # <<>>
  <1> DEFINE w == p.words
             x == w \o m
  <1>1. w \in Seq(Nat) /\ p.first \in Nat /\ p.frame \in {"data", "fin"}
    BY Fields DEF Pieces
  <1> HIDE DEF w
  <1>2. x \in Seq(Nat) /\ (w # <<>> => x # <<>>)
    BY <1>1
  <1> HIDE DEF x
  <1>3. Longer(p, k, m) = [first |-> p.first, last |-> k, frame |-> p.frame, words |-> x]
    BY DEF Longer, x, w
  <1> QED BY <1>1, <1>2, <1>3 DEF Pieces, w

\* A longer piece x in the place of the last one.
WithLast(s, x) == [s EXCEPT ![Len(s)] = x]

LEMMA ChainReplaced ==
  ASSUME NEW r \in Seq(Pieces), NEW s \in Seq(Pieces), NEW n \in Nat, NEW e \in Nat,
         Chain(r \o s, n), NoFin(r \o s), s # <<>>, End(r \o s, n, Len(r \o s)) = e,
         NEW x \in Pieces, x.first = s[Len(s)].first, x.frame = s[Len(s)].frame,
         x.last = e + 1, s[Len(s)].words # <<>> => x.words # <<>>
  PROVE  /\ WithLast(s, x) \in Seq(Pieces)
         /\ Chain(r \o WithLast(s, x), n) /\ NoFin(r \o WithLast(s, x))
         /\ End(r \o WithLast(s, x), n, Len(r \o WithLast(s, x))) = e + 1
  <1> DEFINE k == e + 1
  <1>0. k \in Nat /\ k = End(r \o s, n, Len(r \o s)) + 1
    OBVIOUS
  <1>2. /\ x \in Pieces /\ x.first = s[Len(s)].first /\ x.frame = s[Len(s)].frame
        /\ x.last = k /\ (s[Len(s)].words # <<>> => x.words # <<>>)
    OBVIOUS
  <1> HIDE DEF k
  <1> DEFINE t == WithLast(s, x)
             q == r \o s
             f == r \o t
  <1>1. Len(s) \in Nat /\ Len(s) >= 1 /\ s[Len(s)] \in Pieces
    OBVIOUS
  <1>3. t = [s EXCEPT ![Len(s)] = x] /\ Len(s) \in 1 .. Len(s)
    BY <1>1 DEF WithLast
  <1> HIDE DEF t
  <1>4. /\ t \in Seq(Pieces) /\ Len(t) = Len(s)
        /\ \A i \in 1 .. Len(s) - 1 : t[i] = s[i]
        /\ t[Len(s)] = x
    <2>1. t \in Seq(Pieces) /\ Len(t) = Len(s)
      BY <1>2, <1>3, ExceptSeq
    <2>2. \A i \in 1 .. Len(s) : t[i] = IF i = Len(s) THEN x ELSE s[i]
      BY <1>2, <1>3, ExceptSeq
    <2>3. \A i \in 1 .. Len(s) - 1 : i \in 1 .. Len(s) /\ i # Len(s)
      BY <1>1
    <2>4. \A i \in 1 .. Len(s) - 1 : t[i] = s[i]
      BY <2>2, <2>3
    <2>5. t[Len(s)] = x
      BY <2>2, <1>3
    <2> QED BY <2>1, <2>4, <2>5
  <1>5. /\ f \in Seq(Pieces) /\ q \in Seq(Pieces) /\ Len(f) = Len(q) /\ Len(q) = Len(r) + Len(s)
        /\ Len(r) \in Nat /\ Len(q) \in Nat /\ Len(q) >= 1
    <2>1. t \in Seq(Pieces) /\ Len(t) = Len(s)
      BY <1>4
    <2>2. f \in Seq(Pieces) /\ Len(f) = Len(r) + Len(t) /\ Len(r) \in Nat
      BY <2>1
    <2>3. q \in Seq(Pieces) /\ Len(q) = Len(r) + Len(s)
      OBVIOUS
    <2> HIDE DEF f, q
    <2> QED BY <1>1, <2>1, <2>2, <2>3
  <1>6. q[Len(q)] = s[Len(s)] /\ f[Len(q)] = t[Len(s)]
    BY <1>1, <1>4, <1>5
  <1>7. \A i \in 1 .. Len(q) - 1 : f[i] = q[i]
    <2> SUFFICES ASSUME NEW i \in 1 .. Len(q) - 1 PROVE f[i] = q[i]
      OBVIOUS
    <2>1. i \in 1 .. Len(r) + Len(s) /\ i \in Nat
      BY <1>5
    <2>2. CASE i <= Len(r)
      BY <1>4, <1>5, <2>1, <2>2
    <2>3. CASE i > Len(r)
      <3>1. i - Len(r) \in 1 .. Len(s) - 1
        BY <1>1, <1>5, <2>1, <2>3
      <3>2. t[i - Len(r)] = s[i - Len(r)]
        BY <1>4, <3>1
      <3> QED BY <1>4, <1>5, <2>1, <2>3, <3>2
    <2> QED BY <1>5, <2>1, <2>2, <2>3
  <1> HIDE DEF f, q
  <1>7a. \A i \in 1 .. Len(q) : i # Len(q) => i \in 1 .. Len(q) - 1
    <2> SUFFICES ASSUME NEW l \in Nat, NEW i \in 1 .. l, i # l PROVE i \in 1 .. l - 1
      BY <1>5
    <2> QED OBVIOUS
  <1>8. /\ f[Len(q)].first = q[Len(q)].first /\ f[Len(q)].frame = q[Len(q)].frame
        /\ f[Len(q)].last = k
        /\ q[Len(q)].words # <<>> => f[Len(q)].words # <<>>
    <2>1. f[Len(q)] = x /\ q[Len(q)] = s[Len(s)]
      BY <1>4, <1>6
    <2> QED BY <2>1, <1>2
  <1>9. Len(q) \in 1 .. Len(q) /\ q[Len(q)].frame # "fin" /\ q[Len(q)].first <= q[Len(q)].last
    <2>1. Len(q) \in 1 .. Len(q)
      BY <1>5
    <2>2. q[Len(q)].frame # "fin"
      BY <2>1 DEF NoFin, q
    <2>3. Follows(q[Len(q)], End(q, n, Len(q) - 1))
      BY <2>1 DEF Chain, q
    <2> QED BY <2>1, <2>2, <2>3 DEF Follows
  <1>10. k = q[Len(q)].last + 1 /\ q[Len(q)].last \in Nat /\ q[Len(q)].first \in Nat
    BY <1>0, <1>1, <1>5, <1>6, Fields DEF End, q
  <1>11. \A i \in 0 .. Len(q) - 1 : End(f, n, i) = End(q, n, i)
    <2> SUFFICES ASSUME NEW i \in 0 .. Len(q) - 1 PROVE End(f, n, i) = End(q, n, i)
      OBVIOUS
    <2>1. CASE i = 0
      BY <2>1 DEF End
    <2>2. CASE i # 0
      <3>1. f[i] = q[i]
        BY <2>2, <1>5, <1>7
      <3> QED BY <3>1, <2>2 DEF End
    <2> QED BY <2>1, <2>2
  <1>12. Chain(f, n)
    <2> SUFFICES ASSUME NEW i \in 1 .. Len(q)
                 PROVE  Follows(f[i], End(f, n, i - 1)) /\ (f[i].frame = "fin" => i = Len(q))
      BY <1>5 DEF Chain
    <2>1. Follows(q[i], End(q, n, i - 1)) /\ q[i].frame # "fin"
      BY DEF Chain, NoFin, q
    <2>2. End(f, n, i - 1) = End(q, n, i - 1)
      BY <1>5, <1>11
    <2>3. CASE i = Len(q)
      <3>1. f[i].first = End(f, n, i - 1) + 1
        BY <1>8, <2>1, <2>2, <2>3 DEF Follows
      <3>2. f[i].frame # "fin"
        BY <1>8, <2>1, <2>3
      <3>3. f[i].first <= f[i].last
        BY <1>8, <1>9, <1>10, <2>3
      <3>4. f[i].words # <<>>
        BY <1>8, <2>1, <2>3 DEF Follows
      <3> QED BY <2>3, <3>1, <3>2, <3>3, <3>4 DEF Follows
    <2>4. CASE i # Len(q)
      <3>1. f[i] = q[i]
        BY <1>7, <1>7a, <2>4
      <3> QED BY <3>1, <2>1, <2>2
    <2> QED BY <2>3, <2>4
  <1>13. NoFin(f)
    <2> SUFFICES ASSUME NEW i \in 1 .. Len(q) PROVE f[i].frame # "fin"
      BY <1>5 DEF NoFin
    <2>1. q[i].frame # "fin"
      BY DEF NoFin, q
    <2>2. CASE i = Len(q)
      BY <1>8, <2>1, <2>2
    <2>3. CASE i # Len(q)
      <3>1. f[i] = q[i]
        BY <1>7, <1>7a, <2>3
      <3> QED BY <3>1, <2>1
    <2> QED BY <2>2, <2>3
  <1>14. End(f, n, Len(f)) = k
    BY <1>5, <1>8 DEF End
  <1> QED BY <1>4, <1>12, <1>13, <1>14 DEF f, k, t

\* A message joined behind the last piece of the stream.
LEMMA ChainJoined ==
  ASSUME NEW r \in Seq(Pieces), NEW s \in Seq(Pieces), NEW n \in Nat, NEW e \in Nat,
         Chain(r \o s, n), NoFin(r \o s), s # <<>>, End(r \o s, n, Len(r \o s)) = e,
         NEW m \in Seq(Nat)
  PROVE  /\ Joined(s, e + 1, m) \in Seq(Pieces)
         /\ Chain(r \o Joined(s, e + 1, m), n) /\ NoFin(r \o Joined(s, e + 1, m))
         /\ End(r \o Joined(s, e + 1, m), n, Len(r \o Joined(s, e + 1, m))) = e + 1
  <1>1. s[Len(s)] \in Pieces /\ e + 1 \in Nat
    OBVIOUS
  <1> DEFINE x == Longer(s[Len(s)], e + 1, m)
             t == Joined(s, e + 1, m)
  <1>2. /\ x \in Pieces /\ x.first = s[Len(s)].first /\ x.frame = s[Len(s)].frame
        /\ x.last = e + 1 /\ (s[Len(s)].words # <<>> => x.words # <<>>)
    <2> DEFINE p == s[Len(s)]
    <2>1. p \in Pieces
      BY <1>1
    <2> HIDE DEF p
    <2>2. /\ Longer(p, e + 1, m) \in Pieces /\ Longer(p, e + 1, m).first = p.first
          /\ Longer(p, e + 1, m).frame = p.frame /\ Longer(p, e + 1, m).last = e + 1
          /\ p.words # <<>> => Longer(p, e + 1, m).words # <<>>
      BY <1>1, <2>1, LongerType
    <2> QED BY <2>2 DEF p
  <1>3. t = [s EXCEPT ![Len(s)] = x]
    BY DEF Joined
  <1> HIDE DEF x, t
  <1>4. /\ t \in Seq(Pieces) /\ Chain(r \o t, n) /\ NoFin(r \o t)
        /\ End(r \o t, n, Len(r \o t)) = e + 1
    <2>1. t = WithLast(s, x)
      BY <1>3 DEF WithLast
    <2>2. ASSUME NEW y \in Pieces, y.first = s[Len(s)].first, y.frame = s[Len(s)].frame,
                 y.last = e + 1, s[Len(s)].words # <<>> => y.words # <<>>
          PROVE  /\ WithLast(s, y) \in Seq(Pieces)
                 /\ Chain(r \o WithLast(s, y), n) /\ NoFin(r \o WithLast(s, y))
                 /\ End(r \o WithLast(s, y), n, Len(r \o WithLast(s, y))) = e + 1
      BY <2>2, ChainReplaced
    <2> QED BY <1>2, <2>1, <2>2
  <1> QED BY <1>4 DEF t
-----------------------------------------------------------------------------
(* The initial state.                                                      *)

LEMMA InitHolds == Init => IInv
  <1> SUFFICES ASSUME Init PROVE IInv  OBVIOUS
  <1> USE Sizes DEF Init
  <1>1. TypeOK
    <2>1. Fin(0) \in Pieces /\ Cleared \in [1 .. DataWords -> Nat]
      BY FinType DEF Cleared
    <2>2. /\ acceptmbox \in Seq(Conns \cup {Abrt}) /\ Len(acceptmbox) <= AcceptMbox
          /\ \A c \in Conns : recvmbox[c] = <<>> /\ Len(recvmbox[c]) <= RecvMbox
      OBVIOUS
    <2>3. /\ recvmbox \in [Conns -> Seq(Pieces)] /\ stream \in [Conns -> Seq(Pieces)]
          /\ replies \in [Conns -> Seq(Replies)] /\ packets \in [Conns -> Seq(PacketsSent)]
      OBVIOUS
    <2>4. PackCnt \in 0 .. Packets /\ cur \in Conns \cup {None}
      OBVIOUS
    <2>5. /\ netconn \in [Conns -> NetconnStates]
          /\ pcb \in [Conns -> BOOLEAN] /\ keepalive \in [Conns -> BOOLEAN]
          /\ client \in [Conns -> ClientStates]
          /\ sent \in [Conns -> Nat] /\ done \in [Conns -> Nat]
      OBVIOUS
    <2> QED BY <2>1, <2>2, <2>3, <2>4, <2>5 DEF TypeOK
  <1>2. Serving /\ Queued /\ Owned /\ Handled /\ RepliesMatch /\ JudgedByItself
    BY ConnsNat DEF Serving, Queued, Owned, Handled, RepliesMatch, JudgedByItself, None
  <1>3. PoolKept
    <2>1. Allocated = {}
      BY DEF Allocated
    <2> QED BY <2>1, FS_EmptySet DEF PoolKept
  <1>4. Flows
    <2> SUFFICES ASSUME NEW c \in Conns
                 PROVE  /\ Chain(Flow(c), done[c])
                        /\ NoFin(Flow(c)) /\ stream[c] = <<>> /\ recvmbox[c] = <<>>
                        /\ sent[c] = done[c]
      BY DEF Flows, FlowKept
    <2>1. Flow(c) = <<>>
      BY DEF Flow
    <2> QED BY <2>1 DEF Chain, NoFin
  <1> QED BY <1>1, <1>2, <1>3, <1>4 DEF IInv

-----------------------------------------------------------------------------
(* What a step that leaves a part of the state alone keeps.                *)

LEMMA FlowKeptSame ==
  ASSUME NEW c \in Conns, FlowKept(c), netconn'[c] = "none" => netconn[c] = "none",
         thread' = "close" /\ c = cur' => thread = "close" /\ c = cur,
         recvmbox'[c] = recvmbox[c], stream'[c] = stream[c], done'[c] = done[c],
         sent'[c] = sent[c], pcb'[c] = pcb[c], client'[c] = client[c]
  PROVE  FlowKept(c)'
  <1>1. Flow(c)' = Flow(c)
    BY DEF Flow
  <1>2. Chain(Flow(c), done[c])' = Chain(Flow(c), done[c]) /\ NoFin(Flow(c))' = NoFin(Flow(c))
    BY <1>1 DEF Chain, NoFin, End, Follows
  <1>3. End(Flow(c), done[c], Len(Flow(c)))' = End(Flow(c), done[c], Len(Flow(c)))
    BY <1>1 DEF End
  <1> QED BY <1>1, <1>2, <1>3 DEF FlowKept

LEMMA FlowsSame ==
  ASSUME Flows, UNCHANGED <<recvmbox, stream, done, sent, pcb, client>>, thread' # "close",
         \A c \in Conns : netconn'[c] = "none" => netconn[c] = "none"
  PROVE  Flows'
  <1> SUFFICES ASSUME NEW c \in Conns PROVE FlowKept(c)'
    BY DEF Flows
  <1>1. FlowKept(c)
    BY DEF Flows
  <1> QED BY <1>1, FlowKeptSame

LEMMA RepliesSame ==
  ASSUME RepliesMatch, JudgedByItself, UNCHANGED <<replies, done>>
  PROVE  RepliesMatch' /\ JudgedByItself'
  BY DEF RepliesMatch, JudgedByItself

LEMMA NetconnsSame ==
  ASSUME Queued, Owned, PoolKept, UNCHANGED <<acceptmbox, netconn, cur>>,
         \A c \in Conns : pcb'[c] => pcb[c]
  PROVE  Queued' /\ Owned' /\ PoolKept'
  <1>1. Allocated' = Allocated
    BY DEF Allocated
  <1>2. Queued'
    BY DEF Queued
  <1> QED BY <1>1, <1>2 DEF Owned, PoolKept

-----------------------------------------------------------------------------
(* The steps of the server thread.                                         *)

LEMMA AcceptKeeps == IInv /\ Accept => IInv'
  <1> SUFFICES ASSUME IInv, Accept PROVE IInv'  OBVIOUS
  <1> USE DEF IInv
  <1> DEFINE c == Head(acceptmbox)
  <1>1. /\ acceptmbox # <<>> /\ acceptmbox \in Seq(Conns \cup {Abrt}) /\ thread = "accept"
           /\ cur = None
        /\ acceptmbox' = Tail(acceptmbox) /\ Len(acceptmbox) <= AcceptMbox
        /\ Len(acceptmbox) \in Nat /\ 1 \in 1 .. Len(acceptmbox) /\ c = acceptmbox[1]
    BY DEF Accept, AcceptEntry, TypeOK, Serving
  <1>2. /\ Len(acceptmbox') = Len(acceptmbox) - 1 /\ acceptmbox' \in Seq(Conns \cup {Abrt})
        /\ \A i \in 1 .. Len(acceptmbox') : acceptmbox'[i] = acceptmbox[i + 1]
           /\ i + 1 \in 1 .. Len(acceptmbox)
        /\ \A i \in 1 .. Len(acceptmbox) : i # 1 => i - 1 \in 1 .. Len(acceptmbox')
           /\ acceptmbox'[i - 1] = acceptmbox[i]
    BY <1>1
  <1>3. Len(acceptmbox') <= AcceptMbox
    BY <1>1, <1>2, Sizes
  <1>4. UNCHANGED <<command, pcb, keepalive, recvmbox, stream, client, sent, done, replied>>
    BY DEF Accept, AcceptEntry
  <1>5. RepliesMatch' /\ JudgedByItself'
    BY <1>4, RepliesSame DEF replied
  <1>8. \A i, j \in 1 .. Len(acceptmbox') :
          i < j /\ acceptmbox'[i] # Abrt /\ acceptmbox'[j] # Abrt =>
            acceptmbox'[i] < acceptmbox'[j]
    <2> SUFFICES ASSUME NEW i \in 1 .. Len(acceptmbox'), NEW j \in 1 .. Len(acceptmbox'), i < j,
                        acceptmbox'[i] # Abrt, acceptmbox'[j] # Abrt
                 PROVE  acceptmbox'[i] < acceptmbox'[j]
      OBVIOUS
    <2>1. i + 1 < j + 1
      OBVIOUS
    <2> QED BY <2>1, <1>2 DEF Queued
  <1>6. CASE c = Abrt
    <2>1. thread' = "returned" /\ UNCHANGED <<cur, netconn>>
      BY <1>6 DEF Accept, AcceptEntry
    <2>2. TypeOK'
      BY <1>2, <1>3, <1>4, <2>1 DEF TypeOK, command, replied
    <2>3. Serving' /\ Handled'
      BY <1>1, <2>1 DEF Serving, Handled
    <2>4. Queued'
      <3>1. \A i \in 1 .. Len(acceptmbox') : acceptmbox'[i] # Abrt =>
              netconn[acceptmbox'[i]] = "queued"
        BY <1>2 DEF Queued
      <3>2. \A d \in Conns : netconn[d] = "queued" =>
              \E i \in 1 .. Len(acceptmbox') : acceptmbox'[i] = d
        <4> SUFFICES ASSUME NEW d \in Conns, netconn[d] = "queued"
                     PROVE  \E i \in 1 .. Len(acceptmbox') : acceptmbox'[i] = d
          OBVIOUS
        <4>1. PICK i \in 1 .. Len(acceptmbox) : acceptmbox[i] = d
          BY DEF Queued
        <4>2. i # 1
          BY <4>1, <1>1, <1>6, ConnsNat
        <4> QED BY <4>1, <4>2, <1>2
      <3> QED BY <3>1, <3>2, <1>8, <2>1 DEF Queued
    <2>5. Allocated' = Allocated
      BY <2>1 DEF Allocated
    <2>6. Owned' /\ PoolKept'
      BY <2>1, <2>5, <1>4 DEF Owned, PoolKept
    <2>7. Flows'
      BY <2>1, <1>4, FlowsSame
    <2> QED BY <2>2, <2>3, <2>4, <2>6, <2>7, <1>5
  <1>7. CASE c # Abrt
    <2>1. /\ thread' = "keepalive" /\ cur' = c /\ netconn' = [netconn EXCEPT ![c] = "served"]
          /\ c \in Conns /\ netconn[c] = "queued" /\ netconn \in [Conns -> NetconnStates]
      <3>1. c \in Conns
        BY <1>1, <1>7
      <3> QED BY <3>1, <1>7, <1>1 DEF Accept, AcceptEntry, Queued, TypeOK
    <2> HIDE DEF c
    <2>2. TypeOK'
      <3>1. cur' \in Conns \cup {None} /\ netconn' \in [Conns -> NetconnStates]
        BY <2>1
      <3> QED BY <1>2, <1>3, <1>4, <2>1, <3>1 DEF TypeOK, command, replied
    <2>3. Serving' /\ Handled'
      BY <1>1, <2>1 DEF Serving, Handled
    <2>4. Queued'
      <3>0. \A i \in 1 .. Len(acceptmbox) : i # 1 => acceptmbox[i] # c
        <4> SUFFICES ASSUME NEW i \in 1 .. Len(acceptmbox), i # 1, acceptmbox[i] = c PROVE FALSE
          OBVIOUS
        <4>1. 1 < i
          OBVIOUS
        <4>2. acceptmbox[1] < acceptmbox[i]
          BY <4>1, <1>1, <1>7 DEF Queued
        <4> QED BY <4>2, <1>1, <2>1, ConnsNat
      <3>1. \A i \in 1 .. Len(acceptmbox') : acceptmbox'[i] # Abrt =>
              netconn'[acceptmbox'[i]] = "queued"
        <4> SUFFICES ASSUME NEW i \in 1 .. Len(acceptmbox'), acceptmbox'[i] # Abrt
                     PROVE  netconn'[acceptmbox'[i]] = "queued"
          OBVIOUS
        <4>1. acceptmbox'[i] # c /\ netconn[acceptmbox'[i]] = "queued"
          <5>1. i + 1 \in 1 .. Len(acceptmbox) /\ i + 1 # 1 /\ acceptmbox'[i] = acceptmbox[i + 1]
            BY <1>2
          <5> QED BY <5>1, <3>0 DEF Queued
        <4>2. acceptmbox'[i] \in Conns
          BY <1>2
        <4> QED BY <4>1, <4>2, <2>1
      <3>2. \A d \in Conns : netconn'[d] = "queued" =>
              \E i \in 1 .. Len(acceptmbox') : acceptmbox'[i] = d
        <4> SUFFICES ASSUME NEW d \in Conns, netconn'[d] = "queued"
                     PROVE  \E i \in 1 .. Len(acceptmbox') : acceptmbox'[i] = d
          OBVIOUS
        <4>1. d # c /\ netconn[d] = "queued"
          BY <2>1
        <4>2. PICK i \in 1 .. Len(acceptmbox) : acceptmbox[i] = d
          BY <4>1 DEF Queued
        <4>3. i # 1
          BY <4>1, <4>2, <1>1
        <4> QED BY <4>2, <4>3, <1>2
      <3>4. \A d, e \in Conns : d < e /\ netconn'[d] = "none" => netconn'[e] = "none"
        BY <2>1 DEF Queued
      <3> QED BY <3>1, <3>2, <1>8, <3>4 DEF Queued
    <2>5. Allocated' = Allocated
      BY <2>1 DEF Allocated
    <2>6. Owned' /\ PoolKept'
      <3>1. \A d \in Conns : netconn'[d] = "served" <=> d = cur'
        BY <2>1, <1>1, ConnsNat DEF Owned
      <3> QED BY <3>1, <2>5, <1>4 DEF Owned, PoolKept
    <2>7. Flows'
      <3>1. \A d \in Conns : netconn'[d] = "none" => netconn[d] = "none"
        BY <2>1
      <3> QED BY <3>1, <2>1, <1>4, FlowsSame
    <2> QED BY <2>2, <2>3, <2>4, <2>6, <2>7, <1>5
  <1> QED BY <1>6, <1>7

LEMMA SetKeepAliveKeeps == IInv /\ SetKeepAlive => IInv'
  <1> SUFFICES ASSUME IInv, SetKeepAlive PROVE IInv'  OBVIOUS
  <1> USE DEF IInv
  <1>1. /\ thread = "keepalive" /\ thread' \in {"recv", "fault"} /\ cur \in Conns
        /\ UNCHANGED <<cur, command, acceptmbox, netconn, pcb, recvmbox, stream, client, sent,
                       done, replied>>
    BY DEF SetKeepAlive, Serving
  <1>2. keepalive' \in [Conns -> BOOLEAN]
    BY DEF SetKeepAlive, TypeOK
  <1>3. TypeOK'
    BY <1>1, <1>2 DEF TypeOK, command, replied
  <1>4. Serving' /\ Handled'
    BY <1>1 DEF Serving, Handled
  <1>5. Queued' /\ Owned' /\ PoolKept'
    BY <1>1, NetconnsSame
  <1>6. Flows'
    BY <1>1, FlowsSame
  <1>7. RepliesMatch' /\ JudgedByItself'
    BY <1>1, RepliesSame DEF replied
  <1> QED BY <1>3, <1>4, <1>5, <1>6, <1>7

\* What the mailbox loses at its front, the flow does.
LEMMA FlowTail ==
  ASSUME NEW r \in Seq(Pieces), NEW s \in Seq(Pieces), r # <<>>
  PROVE  Tail(r) \o s = Tail(r \o s) /\ r \o s # <<>> /\ Head(r \o s) = Head(r)
  <1>1. Len(r) \in Nat /\ Len(r) >= 1 /\ Len(s) \in Nat
    OBVIOUS
  <1>2. /\ Tail(r) \in Seq(Pieces) /\ Len(Tail(r)) = Len(r) - 1
        /\ \A i \in 1 .. Len(r) - 1 : Tail(r)[i] = r[i + 1]
    BY <1>1
  <1>3. /\ r \o s \in Seq(Pieces) /\ Len(r \o s) = Len(r) + Len(s)
        /\ \A i \in 1 .. Len(r) + Len(s)  :
             (r \o s)[i] = IF i <= Len(r) THEN r[i] ELSE s[i - Len(r)]
    BY <1>1
  <1>4. r \o s # <<>> /\ Head(r \o s) = Head(r)
    BY <1>1, <1>3
  <1>5. /\ Tail(r \o s) \in Seq(Pieces) /\ Len(Tail(r \o s)) = Len(r) + Len(s) - 1
        /\ \A i \in 1 .. Len(r) + Len(s) - 1 : Tail(r \o s)[i] = (r \o s)[i + 1]
    BY <1>1, <1>3, <1>4
  <1>6. /\ Tail(r) \o s \in Seq(Pieces) /\ Len(Tail(r) \o s) = Len(r) - 1 + Len(s)
        /\ \A i \in 1 .. Len(r) - 1 + Len(s) :
             (Tail(r) \o s)[i] = IF i <= Len(r) - 1 THEN Tail(r)[i] ELSE s[i - (Len(r) - 1)]
    BY <1>1, <1>2
  <1>7. \A i \in 1 .. Len(Tail(r) \o s) : (Tail(r) \o s)[i] = Tail(r \o s)[i]
    <2> SUFFICES ASSUME NEW i \in 1 .. Len(Tail(r) \o s) PROVE (Tail(r) \o s)[i] = Tail(r \o s)[i]
      OBVIOUS
    <2>1. i \in 1 .. Len(r) + Len(s) - 1 /\ i + 1 \in 1 .. Len(r) + Len(s)
      BY <1>1, <1>6
    <2>2. Tail(r \o s)[i] = IF i + 1 <= Len(r) THEN r[i + 1] ELSE s[(i + 1) - Len(r)]
      BY <1>3, <1>5, <2>1
    <2>3. CASE i <= Len(r) - 1
      BY <1>1, <1>2, <1>6, <2>1, <2>2, <2>3
    <2>4. CASE ~(i <= Len(r) - 1)
      <3>1. ~(i + 1 <= Len(r)) /\ (i + 1) - Len(r) = i - (Len(r) - 1)
        BY <1>1, <2>4, <2>1
      <3> QED BY <1>6, <2>1, <2>2, <2>4, <3>1
    <2> QED BY <2>3, <2>4
  <1>8. Len(Tail(r) \o s) = Len(Tail(r \o s))
    BY <1>1, <1>5, <1>6
  <1> QED BY <1>4, <1>5, <1>6, <1>7, <1>8, SeqEqual

LEMMA FlowType ==
  ASSUME TypeOK, NEW c \in Conns
  PROVE  /\ recvmbox[c] \in Seq(Pieces) /\ stream[c] \in Seq(Pieces) /\ Flow(c) \in Seq(Pieces)
         /\ done[c] \in Nat /\ sent[c] \in Nat
  BY DEF TypeOK, Flow

LEMMA ReceiveKeeps == IInv /\ Receive => IInv'
  <1> SUFFICES ASSUME IInv, Receive PROVE IInv'  OBVIOUS
  <1> USE DEF IInv
  <1>1. /\ thread = "recv" /\ cur \in Conns
        /\ UNCHANGED <<cur, Data, Rec_Comand, PackCnt, acceptmbox, netconn, pcb, keepalive,
                       stream, client, sent, replied>>
    BY DEF Receive, Serving
  <1>2. Queued' /\ Owned' /\ PoolKept'
    BY <1>1, NetconnsSame
  <1>3. /\ recvmbox[cur] \in Seq(Pieces) /\ stream[cur] \in Seq(Pieces)
           /\ Flow(cur) \in Seq(Pieces)
        /\ done[cur] \in Nat
    BY <1>1, FlowType
  <1>4. CASE recvmbox[cur] = <<>>
    <2>1. /\ ~pcb[cur] /\ thread' = "close" /\ UNCHANGED <<recvmbox, msg, done>>
      BY <1>4 DEF Receive
    <2>2. TypeOK'
      BY <1>1, <2>1 DEF TypeOK, replied
    <2>3. Serving' /\ Handled'
      BY <1>1, <2>1 DEF Serving, Handled
    <2>4. Flows'
      <3> SUFFICES ASSUME NEW c \in Conns PROVE FlowKept(c)'
        BY DEF Flows
      <3>1. FlowKept(c)
        BY DEF Flows
      <3>2. CASE c # cur
        BY <1>1, <2>1, <3>1, <3>2, FlowKeptSame
      <3>3. CASE c = cur
        <4>1. stream[c] = <<>> /\ client[c] # "open" /\ recvmbox[c] = <<>>
          BY <1>4, <2>1, <3>1, <3>3 DEF FlowKept
        <4>2. Flow(c) = <<>> /\ Flow(c)' = <<>>
          BY <4>1, <1>1, <2>1 DEF Flow
        <4>3. Chain(Flow(c), done[c])'
          BY <4>2 DEF Chain
        <4>4. ~pcb[c] /\ netconn[c] # "none"
          BY <1>1, <2>1, <3>3 DEF Owned
        <4> QED BY <4>1, <4>2, <4>3, <4>4, <1>1 DEF FlowKept
      <3> QED BY <3>2, <3>3
    <2>5. RepliesMatch' /\ JudgedByItself'
      BY <1>1, <2>1, RepliesSame DEF replied
    <2> QED BY <1>2, <2>2, <2>3, <2>4, <2>5
  <1>5. CASE recvmbox[cur] # <<>>
    <2> DEFINE p == Head(recvmbox[cur])
               q == Flow(cur)
    <2>1. /\ recvmbox' = [recvmbox EXCEPT ![cur] = Tail(@)]
          /\ p.frame = "fin" => thread' = "close" /\ UNCHANGED <<msg, done>>
          /\ p.frame # "fin" => /\ thread' = "handle" /\ msg' = p
                                /\ done' = [done EXCEPT ![cur] = p.last]
      BY <1>5 DEF Receive
    <2>2. /\ q # <<>> /\ p = Head(q) /\ Tail(recvmbox[cur]) \o stream[cur] = Tail(q)
      BY <1>3, <1>5, FlowTail DEF Flow
    <2>3. /\ Chain(q, done[cur]) /\ (client[cur] = "open" => NoFin(q))
          /\ pcb[cur] => sent[cur] = End(q, done[cur], Len(q))
      BY <1>1 DEF Flows, FlowKept
    <2>4. /\ Follows(p, done[cur]) /\ p \in Pieces
          /\ p.frame = "fin" => Tail(q) = <<>>
          /\ Chain(Tail(q), p.last)
          /\ End(Tail(q), p.last, Len(Tail(q))) = End(q, done[cur], Len(q))
      BY <1>3, <2>2, <2>3, ChainTail
    <2>5. p.first \in Nat /\ p.last \in Nat
      BY <2>4, Fields
    <2>6. recvmbox \in [Conns -> Seq(Pieces)] /\ done \in [Conns -> Nat]
          /\ Len(recvmbox[cur]) <= RecvMbox
      BY <1>1 DEF TypeOK
    <2>7. /\ recvmbox'[cur] = Tail(recvmbox[cur])
          /\ \A c \in Conns : c # cur => recvmbox'[c] = recvmbox[c] /\ done'[c] = done[c]
             /\ Flow(c)' = Flow(c)
          /\ \A c \in Conns : c = cur => Flow(c)' = Tail(q)
      BY <1>1, <2>1, <2>2, <2>6 DEF Flow
    <2>8. done'[cur] = p.last
      BY <1>1, <1>3, <2>1, <2>4, <2>5, <2>6 DEF Follows
    <2> HIDE DEF p, q
    <2>9. TypeOK'
      <3>1. recvmbox' \in [Conns -> Seq(Pieces)] /\ \A c \in Conns : Len(recvmbox'[c]) <= RecvMbox
        <4>1. Tail(recvmbox[cur]) \in Seq(Pieces) /\ Len(Tail(recvmbox[cur])) <= RecvMbox
          <5>1. Len(Tail(recvmbox[cur])) = Len(recvmbox[cur]) - 1 /\ Len(recvmbox[cur]) \in Nat
            BY <1>3, <1>5
          <5> QED BY <5>1, <1>3, <1>5, <2>6, Sizes
        <4>2. recvmbox' \in [Conns -> Seq(Pieces)]
          BY <4>1, <2>1, <2>6
        <4> QED BY <4>1, <4>2, <2>7 DEF TypeOK
      <3>2. msg' \in Pieces /\ done' \in [Conns -> Nat] /\ thread' \in {"close", "handle"}
        BY <2>1, <2>4, <2>5 DEF TypeOK
      <3> QED BY <1>1, <3>1, <3>2 DEF TypeOK, replied
    <2>10. Serving'
      BY <1>1, <2>1 DEF Serving
    <2>11. Flows'
      <3> SUFFICES ASSUME NEW c \in Conns PROVE FlowKept(c)'
        BY DEF Flows
      <3>0. FlowKept(c)
        BY DEF Flows
      <3>1. CASE c = cur
        <4>1. /\ Chain(Flow(c)', done'[c])
              /\ End(Flow(c)', done'[c], Len(Flow(c)')) = End(q, done[c], Len(q))
          BY <3>1, <2>4, <2>7, <2>8
        <4>2. client[c] = "open" => NoFin(Tail(q))
          <5>1. q \in Seq(Pieces)
            BY <1>3 DEF q
          <5>2. \A i \in 1 .. Len(Tail(q)) : i + 1 \in 1 .. Len(q) /\ Tail(q)[i] = q[i + 1]
            BY <5>1, <2>2
          <5> QED BY <5>2, <2>3, <3>1 DEF NoFin
        <4>3. thread' = "close" => Tail(q) = <<>> /\ client[c] # "open"
          <5>1. thread' = "close" => p.frame = "fin"
            BY <2>1 DEF p
          <5>2. p.frame = "fin" => ~NoFin(q)
            <6>1. q \in Seq(Pieces)
              BY <1>3 DEF q
            <6>2. 1 \in 1 .. Len(q) /\ p = q[1]
              BY <6>1, <2>2
            <6> QED BY <6>2 DEF NoFin
          <5> QED BY <5>1, <5>2, <2>3, <2>4, <3>1
        <4>4. netconn[c] # "none"
          BY <3>1, <1>1 DEF Owned
        <4> QED
          <5>1. Chain(Flow(c), done[c])' /\ NoFin(Flow(c))' = NoFin(Tail(q))
            BY <4>1, <2>7, <3>1 DEF Chain, NoFin, End, Follows
          <5>2. End(Flow(c), done[c], Len(Flow(c)))' = End(q, done[c], Len(q))
            BY <4>1 DEF End
          <5> QED BY <5>1, <5>2, <4>2, <4>3, <4>4, <1>1, <2>3, <2>7, <3>0, <3>1 DEF FlowKept
      <3>2. CASE c # cur
        BY <1>1, <2>7, <3>0, <3>2, FlowKeptSame
      <3> QED BY <3>1, <3>2
    <2>12. replies' = replies /\ replies[cur] \in Seq(Replies)
      BY <1>1 DEF TypeOK, replied
    <2>13. \A i \in 1 .. Len(replies[cur]) : replies[cur][i].to.last \in Nat
           /\ replies[cur][i].to.last <= done[cur]
      <3>1. \A i \in 1 .. Len(replies[cur]) : replies[cur][i] \in Replies
        BY <2>12
      <3>2. \A r \in Replies : r.to \in Pieces
        BY DEF Replies
      <3> QED BY <3>1, <3>2, Fields, <1>1 DEF RepliesMatch
    <2>14. Handled'
      <3> SUFFICES ASSUME thread' = "handle"
                   PROVE  /\ msg'.words # <<>> /\ msg'.first > 0 /\ msg'.first <= msg'.last
                             /\ msg'.last = done'[cur]
                          /\ \A i \in 1 .. Len(replies[cur]) :
                               replies[cur][i].to.last < msg'.first
        BY <1>1, <2>12 DEF Handled
      <3>1. p.frame # "fin" /\ msg' = p
        BY <2>1 DEF p
      <3>2. p.first = done[cur] + 1 /\ p.first <= p.last /\ p.words # <<>>
        BY <3>1, <2>4 DEF Follows
      <3> QED BY <3>1, <3>2, <2>8, <2>13, <1>3
    <2>15. RepliesMatch'
      <3>1. \A c \in Conns : done[c] <= done'[c]
        <4>1. done[cur] <= p.last
          BY <2>4, <2>5, <1>3 DEF Follows
        <4>2. \A c \in Conns : done[c] \in Nat
          BY <2>6
        <4> QED BY <4>1, <4>2, <2>7, <2>8
      <3>2. \A c \in Conns : \A i \in 1 .. Len(replies[c]) : replies[c][i].to.last \in Nat
        <4>1. \A c \in Conns : \A i \in 1 .. Len(replies[c]) : replies[c][i] \in Replies
          BY DEF TypeOK
        <4>2. \A r \in Replies : r.to \in Pieces
          BY DEF Replies
        <4> QED BY <4>1, <4>2, Fields
      <3>3. \A c \in Conns : done[c] \in Nat /\ done'[c] \in Nat
        BY <2>6, <2>9 DEF TypeOK
      <3>4. RepliesMatch
        OBVIOUS
      <3> HIDE DEF IInv
      <3> SUFFICES ASSUME NEW c \in Conns, NEW i \in 1 .. Len(replies[c])
                   PROVE  LET r == replies[c][i] IN
                          /\ r.to.first > (IF i = 1 THEN 0 ELSE replies[c][i - 1].to.last)
                          /\ r.to.last <= done'[c]
        BY <2>12 DEF RepliesMatch
      <3>5. /\ replies[c][i].to.first > (IF i = 1 THEN 0 ELSE replies[c][i - 1].to.last)
            /\ replies[c][i].to.last <= done[c]
        BY <3>4 DEF RepliesMatch
      <3>6. replies[c][i].to.last <= done'[c]
        BY <3>1, <3>2, <3>3, <3>5
      <3> QED BY <3>5, <3>6
    <2>16. JudgedByItself'
      BY <2>12 DEF JudgedByItself
    <2> QED BY <1>2, <2>9, <2>10, <2>11, <2>14, <2>15, <2>16
  <1> QED BY <1>4, <1>5

\* What JudgedByItself asks of a reply.
Judged(kind, cmd, words) ==
  /\ Complete(words) \/ Length(words) > DataWords => (kind = "success" <=> Verified(words))
  /\ kind = "success" => cmd = words[1]

\* An answer to the piece that is handled.
LEMMA AnswerKeeps ==
  ASSUME TypeOK, Handled, RepliesMatch, JudgedByItself, thread = "handle", cur \in Conns,
         NEW kind \in {"success", "failed"}, NEW cmd \in Nat, Judged(kind, cmd, msg.words),
         UNCHANGED done, replies' = Write(replies, Reply(kind, cmd))
  PROVE  RepliesMatch' /\ JudgedByItself' /\ replies' \in [Conns -> Seq(Replies)]
  <1> DEFINE r == Reply(kind, cmd)
  <1>1. r \in Replies /\ r.to = msg /\ r.kind = kind /\ r.cmd = cmd /\ msg \in Pieces
    BY DEF Reply, Replies, TypeOK
  <1>2. replies \in [Conns -> Seq(Replies)]
    BY DEF TypeOK
  <1>3. CASE ~pcb[cur]
    <2>1. UNCHANGED replies
      BY <1>3 DEF Write
    <2> QED BY <1>2, <2>1, RepliesSame
  <1>4. CASE pcb[cur]
    <2>1. replies' = [replies EXCEPT ![cur] = Append(@, r)]
      BY <1>4 DEF Write
    <2> HIDE DEF r
    <2> DEFINE old == replies[cur]
               new == Append(old, r)
               l == Len(old)
    <2>2. /\ old \in Seq(Replies) /\ new \in Seq(Replies) /\ l \in Nat /\ Len(new) = l + 1
          /\ \A i \in 1 .. l : new[i] = old[i]
          /\ new[l + 1] = r
      BY <1>1, <1>2
    <2>3. /\ replies' \in [Conns -> Seq(Replies)]
          /\ \A c \in Conns : replies'[c] = IF c = cur THEN new ELSE replies[c]
      BY <1>2, <2>1, <2>2
    <2>4. /\ msg.first > 0 /\ msg.last = done[cur] /\ msg.first \in Nat /\ msg.last \in Nat
          /\ \A i \in 1 .. l : old[i].to.last < msg.first
      BY <1>1, Fields DEF Handled
    <2> HIDE DEF new, old, l
    <2>5. ASSUME NEW c \in Conns, NEW i \in 1 .. Len(replies'[c])
          PROVE  LET a == replies'[c][i] IN
                 /\ a.to.first > (IF i = 1 THEN 0 ELSE replies'[c][i - 1].to.last)
                 /\ a.to.last <= done'[c]
                 /\ Judged(a.kind, a.cmd, a.to.words)
      <3>1. CASE c # cur
        <4>1. replies'[c] = replies[c]
          BY <2>3, <3>1
        <4> QED BY <4>1, <2>5 DEF RepliesMatch, JudgedByItself, Judged
      <3>2. CASE c = cur /\ i \in 1 .. l
        <4>1. replies'[c] = new /\ i \in 1 .. Len(replies[c]) /\ new[i] = replies[c][i]
          BY <2>2, <2>3, <3>2 DEF l, old
        <4>2. i # 1 => i - 1 \in 1 .. l /\ new[i - 1] = replies[c][i - 1]
          BY <2>2, <3>2 DEF old
        <4>3. /\ replies[c][i].to.first > (IF i = 1 THEN 0 ELSE replies[c][i - 1].to.last)
              /\ replies[c][i].to.last <= done[c]
          BY <4>1 DEF RepliesMatch
        <4>4. Judged(replies[c][i].kind, replies[c][i].cmd, replies[c][i].to.words)
          BY <4>1 DEF JudgedByItself, Judged
        <4> HIDE DEF Judged
        <4>5. done'[c] = done[c]
          OBVIOUS
        <4>6. i # 1 => replies'[c][i - 1] = replies[c][i - 1]
          BY <4>1, <4>2
        <4>7. replies'[c][i] = replies[c][i]
          BY <4>1
        <4> QED BY <4>3, <4>4, <4>5, <4>6, <4>7
      <3>3. CASE c = cur /\ i \notin 1 .. l
        <4>1. replies'[c] = new /\ i = l + 1 /\ new[i] = r
          BY <2>2, <2>3, <2>5, <3>3
        <4>2. i # 1 => i - 1 \in 1 .. l /\ new[i - 1] = old[i - 1]
          BY <2>2, <4>1
        <4>3. msg.first > IF i = 1 THEN 0 ELSE new[i - 1].to.last
          BY <2>4, <4>2
        <4>4. msg.last <= done'[c]
          BY <2>4, <3>3
        <4>5. Judged(r.kind, r.cmd, r.to.words)
          BY <1>1
        <4> QED BY <4>1, <4>3, <4>4, <4>5, <1>1
      <3> QED BY <3>1, <3>2, <3>3
    <2>6. RepliesMatch'
      BY <2>5 DEF RepliesMatch
    <2>7. JudgedByItself'
      BY <2>5 DEF JudgedByItself, Judged
    <2> QED BY <2>3, <2>6, <2>7
  <1> QED BY <1>3, <1>4

\* netbuf_copy puts a piece where the buffer begins.
LEMMA Copied ==
  ASSUME Data \in [1 .. DataWords -> Nat], NEW words \in Seq(Nat)
  PROVE  /\ netbuf_copy(words) \in [1 .. DataWords -> Nat]
         /\ \A i \in 1 .. DataWords : i <= Len(words) => netbuf_copy(words)[i] = words[i]
  <1>1. \A i \in 1 .. DataWords : i <= Len(words) => i \in 1 .. Len(words) /\ words[i] \in Nat
    BY Sizes
  <1> QED BY <1>1 DEF netbuf_copy

\* The verdict on a complete message is by its own sum, and one whose length
\* field is too large is rejected, whatever was in the buffer.
LEMMA Places ==
  ASSUME NEW l \in Nat, NEW n \in Nat, NEW d \in Nat, l \in 3 .. n, l <= d
  PROVE  /\ l \in 1 .. d /\ l <= n /\ l - 1 \in 1 .. d /\ l - 1 <= n /\ l # 0
         /\ \A i \in 1 .. l - 2 : i \in 1 .. d /\ i <= n
  OBVIOUS

LEMMA JudgedRight ==
  ASSUME Data \in [1 .. DataWords -> Nat], NEW words \in Seq(Nat), words # <<>>,
         NEW buf, buf = netbuf_copy(words), NEW v \in Verdict(buf, buf[2]),
         NEW l \in Nat, l = Length(words)
  PROVE  /\ Complete(words) => (v = "run" <=> Verified(words))
         /\ l > DataWords => v # "run" /\ ~Verified(words)
         /\ buf[1] = words[1]
  <1>1. /\ DataWords \in Nat /\ DataWords > 1 /\ Len(words) \in Nat /\ Len(words) >= 1
    BY Sizes
  <1>2. \A i \in 1 .. DataWords : i <= Len(words) => buf[i] = words[i]
    BY Copied
  <1>3. 1 \in 1 .. DataWords /\ 2 \in 1 .. DataWords
    BY <1>1
  <1>4. buf[1] = words[1] /\ (Len(words) >= 2 => buf[2] = words[2])
    BY <1>1, <1>2, <1>3
  <1>5. (Len(words) >= 2 => l = words[2]) /\ (Len(words) < 2 => l = 0)
    BY <1>1 DEF Length
  <1>5a. l # 0 => l = buf[2]
    BY <1>1, <1>4, <1>5
  <1>6. ASSUME Complete(words)
        PROVE  v = "run" <=> Verified(words)
    <2>1. l \in 3 .. Len(words) /\ l <= DataWords /\ words[l] = Tail5E5D
      BY <1>6 DEF Complete
    <2>3. /\ l \in 1 .. DataWords /\ l <= Len(words) /\ l - 1 \in 1 .. DataWords
          /\ l - 1 <= Len(words) /\ l # 0
          /\ \A i \in 1 .. l - 2 : i \in 1 .. DataWords /\ i <= Len(words)
      BY <1>1, <2>1, Places
    <2>2. l = buf[2] /\ ~(l > DataWords)
      BY <1>1, <1>5a, <2>1, <2>3
    <2>4. Word(buf, l) = Tail5E5D /\ Word(buf, l - 1) = words[l - 1]
      BY <1>2, <2>1, <2>3 DEF Word
    <2>5. Front(buf, l - 2) = Front(words, l - 2)
      <3>1. \A i \in 1 .. l - 2 : buf[i] = words[i]
        BY <1>2, <2>3
      <3> QED BY <3>1 DEF Front
    <2>6. Verdict(buf, l) =
            IF Crs(Front(words, l - 2)) = words[l - 1] THEN {"run"} ELSE {"fail"}
      BY <2>2, <2>4, <2>5 DEF Verdict
    <2> QED BY <1>6, <2>2, <2>6 DEF Verified
  <1>7. ASSUME l > DataWords
        PROVE  v # "run" /\ ~Verified(words)
    <2>1. l = buf[2]
      BY <1>1, <1>5a, <1>7
    <2>2. v = "reject"
      BY <1>7, <2>1 DEF Verdict
    <2>3. ~(l <= DataWords)
      BY <1>1, <1>5a, <1>7
    <2> QED BY <2>2, <2>3 DEF Verified, Complete
  <1> QED BY <1>4, <1>6, <1>7

LEMMA HandleKeeps == IInv /\ Handle => IInv'
  <1> SUFFICES ASSUME IInv, Handle PROVE IInv'  OBVIOUS
  <1> USE DEF IInv
  <1> DEFINE buf == netbuf_copy(msg.words)
  <1>1. PICK v \in Verdict(buf, buf[2]) : EthernetInterfaceHandler(v, buf)
    BY DEF Handle
  <1>2. /\ thread = "handle" /\ cur \in Conns /\ msg \in Pieces
        /\ Data \in [1 .. DataWords -> Nat] /\ Rec_Comand \in Nat /\ msg' = Fin(0)
        /\ UNCHANGED <<cur, acceptmbox, netconn, pcb, keepalive, recvmbox, stream, client, sent,
                       done, packets>>
    BY <1>1 DEF EthernetInterfaceHandler, Serving, TypeOK
  <1>2a. msg.words \in Seq(Nat) /\ msg.words # <<>>
    BY <1>2, Fields DEF Handled
  <1>2b. buf \in [1 .. DataWords -> Nat]
    BY <1>2, <1>2a, Copied
  <1>3. /\ Complete(msg.words) => (v = "run" <=> Verified(msg.words))
        /\ Length(msg.words) > DataWords => v # "run" /\ ~Verified(msg.words)
        /\ buf[1] = msg.words[1]
    <2>1. buf = netbuf_copy(msg.words) /\ v \in Verdict(buf, buf[2])
      BY <1>1
    <2>2. \A words \in Seq(Nat) : Length(words) \in Nat
      BY DEF Length
    <2>3. Length(msg.words) \in Nat
      BY <1>2a, <2>2
    <2> HIDE DEF buf
    <2> QED BY <1>2, <1>2a, <2>1, <2>3, JudgedRight
  <1>3a. buf[1] \in Nat /\ Data' \in [1 .. DataWords -> Nat]
    <2>1. Cleared \in [1 .. DataWords -> Nat] /\ 1 \in 1 .. DataWords
      BY Sizes DEF Cleared
    <2>2. Data' = buf \/ Data' = Cleared
      BY <1>1 DEF EthernetInterfaceHandler
    <2> HIDE DEF buf
    <2> QED BY <2>1, <2>2, <1>2b
  <1> HIDE DEF buf
  <1>4. Queued' /\ Owned' /\ PoolKept'
    BY <1>2, NetconnsSame
  <1>5. /\ thread' \in {"send", "recv"} /\ Rec_Comand' \in Nat /\ PackCnt' \in 0 .. Packets
        /\ thread' = "send" => PackCnt' = 0
    <2>1. Rec_Comand' = buf[1] \/ Rec_Comand' = Rec_Comand
      BY <1>1 DEF EthernetInterfaceHandler
    <2>2. /\ thread' \in {"send", "recv"} /\ (PackCnt' = 0 \/ PackCnt' = PackCnt)
          /\ thread' = "send" => PackCnt' = 0
      BY <1>1 DEF EthernetInterfaceHandler
    <2>3. PackCnt' \in 0 .. Packets
      <3>1. PackCnt \in 0 .. Packets
        BY DEF TypeOK
      <3>2. 0 \in 0 .. Packets
        BY Sizes
      <3> QED BY <2>2, <3>1, <3>2
    <2> QED BY <1>2, <1>3a, <2>1, <2>2, <2>3
  <1>6. RepliesMatch' /\ JudgedByItself' /\ replies' \in [Conns -> Seq(Replies)]
    <2>1. CASE UNCHANGED replies
      BY <2>1, <1>2, RepliesSame DEF TypeOK
    <2>2. CASE v = "run" /\ replies' = Write(replies, Reply("success", buf[1]))
      <3>1. Judged("success", buf[1], msg.words)
        BY <2>2, <1>3 DEF Judged
      <3> QED BY <3>1, <2>2, <1>2, <1>3a, AnswerKeeps
    <2>3. CASE v # "run" /\ replies' = Write(replies, Reply("failed", Rec_Comand))
      <3>1. Judged("failed", Rec_Comand, msg.words)
        BY <2>3, <1>3 DEF Judged
      <3> QED BY <3>1, <2>3, <1>2, AnswerKeeps
    <2> QED BY <1>1, <1>2, <2>1, <2>2, <2>3 DEF EthernetInterfaceHandler
  <1>7. TypeOK'
    BY <1>2, <1>3a, <1>5, <1>6, FinType DEF TypeOK
  <1>8. Serving' /\ Handled'
    BY <1>2, <1>5, Sizes DEF Serving, Handled
  <1>9. Flows'
    BY <1>2, <1>5, FlowsSame
  <1> QED BY <1>4, <1>6, <1>7, <1>8, <1>9

LEMMA SendKeeps == IInv /\ SendUpData => IInv'
  <1> SUFFICES ASSUME IInv, SendUpData PROVE IInv'  OBVIOUS
  <1> USE DEF IInv
  <1>1. /\ thread = "send" /\ cur \in Conns /\ PackCnt \in Nat /\ PackCnt < Packets
        /\ thread' \in {"recv", "send", "overrun"}
        /\ UNCHANGED <<cur, msg, Data, Rec_Comand, acceptmbox, netconn, pcb, keepalive, recvmbox,
                       stream, client, sent, done, replies>>
    BY Sizes DEF SendUpData, SendPacket, Serving, TypeOK
  <1>2. PackCnt' \in 0 .. Packets /\ (thread' = "send" => PackCnt' < Packets)
    BY <1>1, Sizes DEF SendUpData, SendPacket
  <1>3. packets' \in [Conns -> Seq(PacketsSent)]
    <2> DEFINE entry == [number |-> PackCnt + 1, block |-> PackCnt]
    <2>1. entry \in PacketsSent
      BY <1>1, Sizes DEF PacketsSent
    <2>2. packets \in [Conns -> Seq(PacketsSent)]
      BY DEF TypeOK
    <2>3. packets' = packets \/ packets' = [packets EXCEPT ![cur] = Append(@, entry)]
      BY DEF SendUpData, SendPacket, Write
    <2> HIDE DEF entry
    <2>4. Append(packets[cur], entry) \in Seq(PacketsSent)
      BY <1>1, <2>1, <2>2
    <2> QED BY <2>2, <2>3, <2>4, <1>1
  <1>4. TypeOK'
    BY <1>1, <1>2, <1>3 DEF TypeOK
  <1>5. Serving' /\ Handled'
    BY <1>1, <1>2 DEF Serving, Handled
  <1>6. Queued' /\ Owned' /\ PoolKept'
    BY <1>1, NetconnsSame
  <1>7. Flows'
    BY <1>1, FlowsSame
  <1>8. RepliesMatch' /\ JudgedByItself'
    BY <1>1, RepliesSame
  <1> QED BY <1>4, <1>5, <1>6, <1>7, <1>8

\* A connection that loses its control block keeps what is in its mailbox.
LEMMA PcbLost ==
  ASSUME TypeOK, NEW c \in Conns, FlowKept(c), ~pcb'[c], stream'[c] = <<>>, client'[c] # "open",
         recvmbox'[c] = recvmbox[c], done'[c] = done[c], sent'[c] = sent[c],
         netconn'[c] = "none" => netconn[c] = "none",
         thread' = "close" /\ c = cur' => thread = "close" /\ c = cur
  PROVE  FlowKept(c)'
  <1>1. recvmbox[c] \in Seq(Pieces) /\ stream[c] \in Seq(Pieces) /\ done[c] \in Nat
    BY FlowType
  <1>2. Flow(c)' = recvmbox[c] /\ Flow(c) = recvmbox[c] \o stream[c]
    BY <1>1 DEF Flow
  <1>3. Chain(recvmbox[c], done[c])
    BY <1>1, <1>2, ChainFront DEF FlowKept
  <1>4. Chain(Flow(c), done[c])'
    BY <1>2, <1>3 DEF Chain, End, Follows
  <1>5. Flow(c) = <<>> => recvmbox[c] = <<>>
    <2>1. /\ Len(recvmbox[c]) \in Nat /\ Len(stream[c]) \in Nat
          /\ Len(Flow(c)) = Len(recvmbox[c]) + Len(stream[c])
      BY <1>1, <1>2
    <2>2. Flow(c) = <<>> => Len(Flow(c)) = 0
      OBVIOUS
    <2>3. Len(Flow(c)) = 0 => Len(recvmbox[c]) = 0
      BY <2>1, Sums
    <2> QED BY <1>1, <2>2, <2>3, NoneLeft
  <1> QED BY <1>2, <1>4, <1>5 DEF FlowKept

LEMMA CloseKeeps == IInv /\ Close => IInv'
  <1> SUFFICES ASSUME IInv, Close PROVE IInv'  OBVIOUS
  <1> USE DEF IInv
  <1>1. /\ thread = "close" /\ thread' = "delete" /\ cur \in Conns
        /\ pcb' = [pcb EXCEPT ![cur] = FALSE] /\ stream' = [stream EXCEPT ![cur] = <<>>]
        /\ UNCHANGED <<cur, command, acceptmbox, netconn, keepalive, recvmbox, client, sent,
                       done, replied>>
        /\ pcb \in [Conns -> BOOLEAN] /\ stream \in [Conns -> Seq(Pieces)]
    BY DEF Close, Serving, TypeOK
  <1>2. pcb' \in [Conns -> BOOLEAN] /\ stream' \in [Conns -> Seq(Pieces)] /\ ~pcb'[cur]
        /\ stream'[cur] = <<>>
    BY <1>1
  <1>3. TypeOK'
    BY <1>1, <1>2 DEF TypeOK, command, replied
  <1>4. Serving' /\ Handled'
    BY <1>1, <1>2 DEF Serving, Handled
  <1>5. Queued' /\ Owned' /\ PoolKept'
    <2>1. \A c \in Conns : pcb'[c] => pcb[c]
      BY <1>1
    <2> QED BY <1>1, <2>1, NetconnsSame
  <1>6. Flows'
    <2> SUFFICES ASSUME NEW c \in Conns PROVE FlowKept(c)'
      BY DEF Flows
    <2>1. FlowKept(c)
      BY DEF Flows
    <2>2. CASE c = cur
      <3>1. client[c] # "open"
        BY <1>1, <2>1, <2>2 DEF FlowKept
      <3> QED BY <1>1, <1>2, <2>1, <2>2, <3>1, PcbLost
    <2>3. CASE c # cur
      BY <1>1, <2>1, <2>3, FlowKeptSame
    <2> QED BY <2>2, <2>3
  <1>7. RepliesMatch' /\ JudgedByItself'
    BY <1>1, RepliesSame DEF replied
  <1> QED BY <1>3, <1>4, <1>5, <1>6, <1>7

LEMMA DeleteKeeps == IInv /\ Delete => IInv'
  <1> SUFFICES ASSUME IInv, Delete PROVE IInv'  OBVIOUS
  <1> USE DEF IInv
  <1>1. /\ thread = "delete" /\ thread' = "accept" /\ cur \in Conns /\ cur' = None /\ ~pcb[cur]
        /\ netconn' = [netconn EXCEPT ![cur] = "freed"]
        /\ keepalive' = [keepalive EXCEPT ![cur] = FALSE]
        /\ recvmbox' = [recvmbox EXCEPT ![cur] = <<>>]
        /\ client' = [client EXCEPT ![cur] = "gone"]
        /\ sent' = [sent EXCEPT ![cur] = 0] /\ done' = [done EXCEPT ![cur] = 0]
        /\ replies' = [replies EXCEPT ![cur] = <<>>] /\ packets' = [packets EXCEPT ![cur] = <<>>]
        /\ UNCHANGED <<command, acceptmbox, pcb, stream>>
    BY DEF Delete, DeleteTo, Serving
  <1>2. /\ netconn \in [Conns -> NetconnStates]
        /\ keepalive \in [Conns -> BOOLEAN] /\ recvmbox \in [Conns -> Seq(Pieces)]
        /\ client \in [Conns -> ClientStates]
        /\ sent \in [Conns -> Nat] /\ done \in [Conns -> Nat]
        /\ replies \in [Conns -> Seq(Replies)] /\ packets \in [Conns -> Seq(PacketsSent)]
    BY DEF TypeOK
  <1>3. /\ \A c \in Conns : c = cur =>
             /\ netconn'[c] = "freed" /\ recvmbox'[c] = <<>> /\ client'[c] = "gone"
             /\ sent'[c] = 0 /\ done'[c] = 0 /\ replies'[c] = <<>>
        /\ \A c \in Conns : c # cur =>
             /\ netconn'[c] = netconn[c] /\ recvmbox'[c] = recvmbox[c] /\ client'[c] = client[c]
             /\ sent'[c] = sent[c] /\ done'[c] = done[c] /\ replies'[c] = replies[c]
    BY <1>1, <1>2
  <1>4. TypeOK'
    <2>1. /\ netconn' \in [Conns -> NetconnStates]
          /\ keepalive' \in [Conns -> BOOLEAN] /\ client' \in [Conns -> ClientStates]
          /\ sent' \in [Conns -> Nat] /\ done' \in [Conns -> Nat]
      BY <1>1, <1>2
    <2>2. /\ recvmbox' \in [Conns -> Seq(Pieces)] /\ replies' \in [Conns -> Seq(Replies)]
          /\ packets' \in [Conns -> Seq(PacketsSent)]
      BY <1>1, <1>2
    <2>3. \A c \in Conns : Len(recvmbox'[c]) <= RecvMbox
      <3> SUFFICES ASSUME NEW c \in Conns PROVE Len(recvmbox'[c]) <= RecvMbox
        OBVIOUS
      <3>1. CASE c = cur
        BY <1>3, <3>1, Sizes
      <3>2. CASE c # cur
        BY <1>3, <3>2 DEF TypeOK
      <3> QED BY <3>1, <3>2
    <2> QED BY <1>1, <2>1, <2>2, <2>3 DEF TypeOK, command
  <1>5. Serving' /\ Handled'
    BY <1>1 DEF Serving, Handled
  <1>6. Queued'
    <2>1. \A i \in 1 .. Len(acceptmbox) : acceptmbox[i] # Abrt => acceptmbox[i] # cur
          /\ acceptmbox[i] \in Conns
      <3>1. netconn[cur] = "served"
        BY <1>1 DEF Owned
      <3>2. Queued /\ acceptmbox \in Seq(Conns \cup {Abrt})
        BY DEF TypeOK
      <3> HIDE DEF IInv
      <3> SUFFICES ASSUME NEW i \in 1 .. Len(acceptmbox), acceptmbox[i] # Abrt
                   PROVE  acceptmbox[i] # cur /\ acceptmbox[i] \in Conns
        OBVIOUS
      <3>3. netconn[acceptmbox[i]] = "queued"
        BY <3>2 DEF Queued
      <3>4. acceptmbox[i] \in Conns
        BY <3>2
      <3> QED BY <3>1, <3>3, <3>4
    <2>2. \A i \in 1 .. Len(acceptmbox) : acceptmbox[i] # Abrt =>
            netconn'[acceptmbox[i]] = "queued"
      BY <2>1, <1>3 DEF Queued
    <2>3. \A c \in Conns : netconn'[c] = "queued" => netconn[c] = "queued"
      BY <1>3
    <2>4. \A c, d \in Conns : c < d /\ netconn'[c] = "none" => netconn'[d] = "none"
      <3> SUFFICES ASSUME NEW c \in Conns, NEW d \in Conns, c < d, netconn'[c] = "none"
                   PROVE  netconn'[d] = "none"
        OBVIOUS
      <3>1. netconn[c] = "none"
        BY <1>3
      <3>2. netconn[d] = "none"
        BY <3>1 DEF Queued
      <3>3. d # cur
        BY <3>2, <1>1 DEF Owned
      <3> QED BY <3>2, <3>3, <1>3
    <2> QED BY <1>1, <2>2, <2>3, <2>4 DEF Queued
  <1>7. Owned'
    <2>1. \A c \in Conns : netconn'[c] # "served"
      BY <1>3 DEF Owned
    <2>2. \A c \in Conns : pcb[c] => c # cur /\ c \in Allocated
      BY <1>1 DEF Owned
    <2>3. \A c \in Conns : pcb'[c] => c \in Allocated'
      BY <2>2, <1>1, <1>3 DEF Allocated
    <2> QED BY <2>1, <2>3, <1>1, ConnsNat DEF Owned
  <1>8. PoolKept'
    <2>1. Allocated' \subseteq Allocated /\ Allocated \subseteq 1 .. MaxConns
      BY <1>3 DEF Allocated, Conns
    <2>2. IsFiniteSet(1 .. MaxConns)
      BY Sizes, FS_Interval
    <2>3. IsFiniteSet(Allocated)
      BY <2>1, <2>2, FS_Subset
    <2>4. /\ Cardinality(Allocated') <= Cardinality(Allocated) /\ IsFiniteSet(Allocated')
      BY <2>1, <2>3, FS_Subset
    <2>5. Cardinality(Allocated) \in Nat /\ Cardinality(Allocated') \in Nat
      BY <2>3, <2>4, FS_CardinalityType
    <2> QED BY <2>4, <2>5, Sizes DEF PoolKept
  <1>9. Flows'
    <2> SUFFICES ASSUME NEW c \in Conns PROVE FlowKept(c)'
      BY DEF Flows
    <2>1. FlowKept(c)
      BY DEF Flows
    <2>2. CASE c = cur
      <3>1. stream'[c] = <<>> /\ ~pcb'[c]
        BY <1>1, <2>1, <2>2 DEF FlowKept
      <3>2. Flow(c)' = <<>>
        BY <1>3, <2>2, <3>1 DEF Flow
      <3>3. Chain(Flow(c), done[c])'
        BY <3>2 DEF Chain
      <3> QED BY <1>1, <1>3, <2>2, <3>1, <3>2, <3>3 DEF FlowKept
    <2>3. CASE c # cur
      BY <1>1, <1>3, <2>1, <2>3, FlowKeptSame
    <2> QED BY <2>2, <2>3
  <1>10. RepliesMatch' /\ JudgedByItself'
    <2>1. RepliesMatch /\ JudgedByItself
      OBVIOUS
    <2> HIDE DEF IInv
    <2>2. \A c \in Conns : \/ replies'[c] = <<>>
                           \/ replies'[c] = replies[c] /\ done'[c] = done[c]
      BY <1>3
    <2>3. RepliesMatch'
      BY <2>1, <2>2 DEF RepliesMatch
    <2>4. JudgedByItself'
      BY <2>1, <2>2 DEF JudgedByItself
    <2> QED BY <2>3, <2>4
  <1> QED BY <1>4, <1>5, <1>6, <1>7, <1>8, <1>9, <1>10

-----------------------------------------------------------------------------
(* The steps of the TCP/IP thread.                                         *)

\* A connection that was not made yet has no data.
LEMMA NewFlow ==
  ASSUME Flows, NEW c \in Conns, netconn[c] = "none", ~pcb[c]
  PROVE  Flow(c) = <<>> /\ sent[c] = done[c] /\ recvmbox[c] = <<>> /\ stream[c] = <<>>
  <1>1. sent[c] = done[c] /\ recvmbox[c] = <<>> /\ stream[c] = <<>>
    BY DEF Flows, FlowKept
  <1>2. Flow(c) = <<>>
    BY <1>1 DEF Flow
  <1> QED BY <1>1, <1>2

LEMMA ConnectKeeps == ASSUME NEW c \in Conns PROVE IInv /\ Connect(c) => IInv'
  <1> SUFFICES ASSUME IInv, Connect(c) PROVE IInv'  OBVIOUS
  <1> USE DEF IInv
  <1> DEFINE fits == Len(acceptmbox) < AcceptMbox
             free == Cardinality(Allocated) + 1 < NumNetconn
  <1>1. /\ netconn[c] = "none" /\ \A d \in Conns : d < c => netconn[d] # "none"
        /\ UNCHANGED <<thread, cur, command, keepalive, recvmbox, stream, sent, done, replied>>
        /\ thread \notin {"returned", "fault", "overrun"}
    BY DEF Connect, accept_function, Halted
  <1>2. \/ free /\ fits /\ Queue(c)
        \/ ~(free /\ fits) /\ Refuse(c)
           /\ acceptmbox' = IF fits THEN Append(acceptmbox, Abrt) ELSE acceptmbox
    BY DEF Connect, accept_function
  <1>3. /\ acceptmbox \in Seq(Conns \cup {Abrt}) /\ Len(acceptmbox) <= AcceptMbox
           /\ Len(acceptmbox) \in Nat
        /\ netconn \in [Conns -> NetconnStates]
        /\ pcb \in [Conns -> BOOLEAN] /\ client \in [Conns -> ClientStates]
    <2>1. TypeOK
      OBVIOUS
    <2> HIDE DEF IInv
    <2>2. acceptmbox \in Seq(Conns \cup {Abrt})
      BY <2>1 DEF TypeOK
    <2>3. Len(acceptmbox) \in Nat
      BY <2>2
    <2> QED BY <2>1, <2>2, <2>3 DEF TypeOK
  <1>4. ~pcb[c] /\ c # cur /\ c \notin Allocated
    BY <1>1 DEF Owned, Allocated
  <1>5. Flow(c) = <<>> /\ sent[c] = done[c] /\ recvmbox[c] = <<>> /\ stream[c] = <<>>
    BY <1>1, <1>4, NewFlow
  <1>6. /\ c \in Nat /\ c # Abrt /\ c # None
        /\ \A d \in Conns : netconn[d] # "none" => d < c
    <2> SUFFICES ASSUME NEW d \in Conns, netconn[d] # "none" PROVE d < c
      BY ConnsNat
    <2>1. ~(c < d) /\ c # d
      BY <1>1 DEF Queued
    <2> QED BY <2>1, ConnsNat
  <1>7. \/ /\ netconn' = [netconn EXCEPT ![c] = "queued"]
           /\ client' = [client EXCEPT ![c] = "open"]
           /\ fits /\ acceptmbox' = Append(acceptmbox, c)
        \/ /\ netconn' = [netconn EXCEPT ![c] = "refused"]
           /\ client' = [client EXCEPT ![c] = "gone"]
           /\ acceptmbox' = acceptmbox \/ (fits /\ acceptmbox' = Append(acceptmbox, Abrt))
    BY <1>2 DEF Queue, Refuse
  <1>8. /\ pcb' \in [Conns -> BOOLEAN]
        /\ \A d \in Conns : d # c => netconn'[d] = netconn[d] /\ pcb'[d] = pcb[d]
           /\ client'[d] = client[d]
        /\ netconn'[c] \in {"queued", "refused"}
    BY <1>2, <1>3, <1>7 DEF Queue, Refuse
  <1>9. TypeOK'
    <2>1. /\ \A a \in Conns \cup {Abrt} : /\ Append(acceptmbox, a) \in Seq(Conns \cup {Abrt})
                                          /\ Len(Append(acceptmbox, a)) = Len(acceptmbox) + 1
          /\ fits => Len(acceptmbox) + 1 <= AcceptMbox
      BY <1>3, Sizes
    <2>2. acceptmbox' \in Seq(Conns \cup {Abrt}) /\ Len(acceptmbox') <= AcceptMbox
      <3>1. CASE acceptmbox' = acceptmbox
        BY <1>3, <3>1
      <3>2. CASE fits /\ acceptmbox' = Append(acceptmbox, Abrt)
        BY <2>1, <3>2
      <3>3. CASE fits /\ acceptmbox' = Append(acceptmbox, c)
        BY <2>1, <3>3
      <3> QED BY <1>7, <3>1, <3>2, <3>3
    <2>3. /\ netconn' \in [Conns -> NetconnStates]
          /\ client' \in [Conns -> ClientStates]
      BY <1>3, <1>7
    <2> QED BY <1>1, <1>8, <2>2, <2>3 DEF TypeOK, command, replied
  <1>10. Serving'
    BY <1>1, <1>4, <1>8 DEF Serving, command
  <1>11. Handled'
    BY <1>1 DEF Handled, command, replied
  <1>12. RepliesMatch' /\ JudgedByItself'
    BY <1>1, RepliesSame DEF replied
  <1>13. Flows'
    <2> SUFFICES ASSUME NEW d \in Conns PROVE FlowKept(d)'
      BY DEF Flows
    <2>1. FlowKept(d)
      BY DEF Flows
    <2>2. CASE d # c
      BY <1>1, <1>8, <2>1, <2>2, FlowKeptSame
    <2>3. CASE d = c
      <3>1. Flow(d)' = <<>>
        BY <1>1, <1>5, <2>3 DEF Flow
      <3>2. Chain(Flow(d), done[d])' /\ NoFin(Flow(d))'
        BY <3>1 DEF Chain, NoFin
      <3>3. End(Flow(d), done[d], Len(Flow(d)))' = done[d]
        BY <1>1, <3>1 DEF End
      <3>4. ~pcb'[d] => client'[d] # "open"
        BY <1>2, <1>3, <2>3 DEF Queue, Refuse
      <3> QED BY <1>1, <1>4, <1>5, <1>8, <2>3, <3>1, <3>2, <3>3, <3>4 DEF FlowKept
    <2> QED BY <2>2, <2>3
  <1>14. Owned'
    <2>1. \A d \in Conns : netconn'[d] = "served" <=> d = cur'
      BY <1>1, <1>4, <1>8 DEF Owned
    <2>2. \A d \in Conns : pcb'[d] => d \in Allocated'
      <3> SUFFICES ASSUME NEW d \in Conns, pcb'[d] PROVE d \in Allocated'
        OBVIOUS
      <3>1. CASE d # c
        BY <3>1, <1>8 DEF Owned, Allocated
      <3>2. CASE d = c
        <4>1. Queue(c)
          BY <3>2, <1>2, <1>4 DEF Refuse
        <4> QED BY <4>1, <3>2, <1>3 DEF Queue, Allocated
      <3> QED BY <3>1, <3>2
    <2> QED BY <2>1, <2>2 DEF Owned
  <1>15. \A d, e \in Conns : d < e /\ netconn'[d] = "none" => netconn'[e] = "none"
    <2> SUFFICES ASSUME NEW d \in Conns, NEW e \in Conns, d < e, netconn'[d] = "none"
                 PROVE  netconn'[e] = "none"
      OBVIOUS
    <2>1. d # c /\ netconn[d] = "none"
      BY <1>8
    <2>2. netconn[e] = "none" /\ ~(d < c)
      BY <1>1, <2>1 DEF Queued
    <2>3. e # c
      BY <2>2
    <2> QED BY <2>2, <2>3, <1>8
  <1>16. CASE free /\ fits /\ Queue(c)
    <2>1. netconn' = [netconn EXCEPT ![c] = "queued"] /\ acceptmbox' = Append(acceptmbox, c)
      BY <1>16 DEF Queue
    <2>2. /\ Len(acceptmbox') = Len(acceptmbox) + 1 /\ acceptmbox'[Len(acceptmbox) + 1] = c
          /\ \A i \in 1 .. Len(acceptmbox) : acceptmbox'[i] = acceptmbox[i]
      BY <1>3, <2>1
    <2>3. netconn'[c] = "queued"
      BY <1>3, <2>1
    <2>4. Queued'
      <3>1. \A i \in 1 .. Len(acceptmbox') : acceptmbox'[i] # Abrt =>
              netconn'[acceptmbox'[i]] = "queued"
        <4> SUFFICES ASSUME NEW i \in 1 .. Len(acceptmbox'), acceptmbox'[i] # Abrt
                     PROVE  netconn'[acceptmbox'[i]] = "queued"
          OBVIOUS
        <4>1. CASE i = Len(acceptmbox) + 1
          BY <4>1, <2>2, <2>3
        <4>2. CASE i # Len(acceptmbox) + 1
          <5>1. i \in 1 .. Len(acceptmbox)
            BY <4>2, <2>2, <1>3
          <5>2. acceptmbox[i] \in Conns /\ netconn[acceptmbox[i]] = "queued"
                /\ acceptmbox'[i] = acceptmbox[i]
            BY <5>1, <1>3, <2>2 DEF Queued
          <5> QED BY <5>2, <1>1, <1>8
        <4> QED BY <4>1, <4>2
      <3>2. \A d \in Conns : netconn'[d] = "queued" =>
              \E i \in 1 .. Len(acceptmbox') : acceptmbox'[i] = d
        <4> SUFFICES ASSUME NEW d \in Conns, netconn'[d] = "queued"
                     PROVE  \E i \in 1 .. Len(acceptmbox') : acceptmbox'[i] = d
          OBVIOUS
        <4>1. CASE d = c
          BY <4>1, <2>2, <1>3
        <4>2. CASE d # c
          <5>1. PICK i \in 1 .. Len(acceptmbox) : acceptmbox[i] = d
            BY <4>2, <1>8 DEF Queued
          <5>2. i \in 1 .. Len(acceptmbox') /\ acceptmbox'[i] = d
            BY <5>1, <2>2, <1>3
          <5> QED BY <5>2
        <4> QED BY <4>1, <4>2
      <3>3. \A i, j \in 1 .. Len(acceptmbox') :
              i < j /\ acceptmbox'[i] # Abrt /\ acceptmbox'[j] # Abrt =>
                acceptmbox'[i] < acceptmbox'[j]
        <4> SUFFICES ASSUME NEW i \in 1 .. Len(acceptmbox'), NEW j \in 1 .. Len(acceptmbox'), i < j,
                            acceptmbox'[i] # Abrt, acceptmbox'[j] # Abrt
                     PROVE  acceptmbox'[i] < acceptmbox'[j]
          OBVIOUS
        <4>1. i \in 1 .. Len(acceptmbox) /\ acceptmbox'[i] = acceptmbox[i]
          BY <2>2, <1>3
        <4>2. CASE j = Len(acceptmbox) + 1
          <5>1. acceptmbox[i] \in Conns /\ netconn[acceptmbox[i]] = "queued"
            BY <4>1, <1>3 DEF Queued
          <5>2. acceptmbox[i] < c
            BY <5>1, <1>6
          <5> QED BY <5>2, <4>1, <4>2, <2>2
        <4>3. CASE j # Len(acceptmbox) + 1
          <5>1. j \in 1 .. Len(acceptmbox) /\ acceptmbox'[j] = acceptmbox[j]
            BY <4>3, <2>2, <1>3
          <5> QED BY <5>1, <4>1 DEF Queued
        <4> QED BY <4>2, <4>3
      <3> QED BY <3>1, <3>2, <3>3, <1>15 DEF Queued
    <2>5. PoolKept'
      <3>1. Allocated' = Allocated \cup {c}
        <4> SUFFICES ASSUME NEW d \in Conns
                     PROVE  netconn'[d] \in {"queued", "served"} <=>
                              netconn[d] \in {"queued", "served"} \/ d = c
          BY DEF Allocated
        <4> QED BY <2>3, <1>8
      <3>2. IsFiniteSet(Allocated)
        <4>1. Allocated \subseteq 1 .. MaxConns /\ IsFiniteSet(1 .. MaxConns)
          BY Sizes, FS_Interval DEF Allocated, Conns
        <4> QED BY <4>1, FS_Subset
      <3>3. Cardinality(Allocated') = Cardinality(Allocated) + 1 /\ Cardinality(Allocated) \in Nat
        BY <3>1, <3>2, <1>4, FS_AddElement, FS_CardinalityType
      <3> QED BY <3>3, <1>16, Sizes DEF PoolKept
    <2> QED BY <1>9, <1>10, <1>11, <1>12, <1>13, <1>14, <2>4, <2>5
  <1>17. CASE ~(free /\ fits) /\ Refuse(c)
         /\ acceptmbox' = IF fits THEN Append(acceptmbox, Abrt) ELSE acceptmbox
    <2>1. netconn' = [netconn EXCEPT ![c] = "refused"] /\ netconn'[c] = "refused"
      BY <1>17, <1>3 DEF Refuse
    <2>2. /\ Len(acceptmbox') \in Nat /\ Len(acceptmbox) <= Len(acceptmbox')
          /\ \A i \in 1 .. Len(acceptmbox) : acceptmbox'[i] = acceptmbox[i]
             /\ i \in 1 .. Len(acceptmbox')
          /\ \A i \in 1 .. Len(acceptmbox') : i \notin 1 .. Len(acceptmbox) =>
               acceptmbox'[i] = Abrt
      <3>1. CASE fits
        <4>1. acceptmbox' = Append(acceptmbox, Abrt)
          BY <3>1, <1>17
        <4> QED BY <4>1, <1>3
      <3>2. CASE ~fits
        <4>1. acceptmbox' = acceptmbox
          BY <3>2, <1>17
        <4> QED BY <4>1, <1>3
      <3> QED BY <3>1, <3>2
    <2>3. Queued'
      <3>1. \A i \in 1 .. Len(acceptmbox') : acceptmbox'[i] # Abrt =>
              netconn'[acceptmbox'[i]] = "queued"
        <4> SUFFICES ASSUME NEW i \in 1 .. Len(acceptmbox'), acceptmbox'[i] # Abrt
                     PROVE  netconn'[acceptmbox'[i]] = "queued"
          OBVIOUS
        <4>1. i \in 1 .. Len(acceptmbox) /\ acceptmbox'[i] = acceptmbox[i]
          BY <2>2
        <4>2. acceptmbox[i] \in Conns /\ netconn[acceptmbox[i]] = "queued"
          BY <4>1, <1>3 DEF Queued
        <4> QED BY <4>1, <4>2, <1>1, <1>8
      <3>2. \A d \in Conns : netconn'[d] = "queued" =>
              \E i \in 1 .. Len(acceptmbox') : acceptmbox'[i] = d
        <4> SUFFICES ASSUME NEW d \in Conns, netconn'[d] = "queued"
                     PROVE  \E i \in 1 .. Len(acceptmbox') : acceptmbox'[i] = d
          OBVIOUS
        <4>1. netconn[d] = "queued"
          BY <2>1, <1>8
        <4>2. PICK i \in 1 .. Len(acceptmbox) : acceptmbox[i] = d
          BY <4>1 DEF Queued
        <4> QED BY <4>2, <2>2
      <3>3. \A i, j \in 1 .. Len(acceptmbox') :
              i < j /\ acceptmbox'[i] # Abrt /\ acceptmbox'[j] # Abrt =>
                acceptmbox'[i] < acceptmbox'[j]
        BY <2>2 DEF Queued
      <3> QED BY <3>1, <3>2, <3>3, <1>15 DEF Queued
    <2>4. PoolKept'
      <3>1. Allocated' = Allocated
        <4> SUFFICES ASSUME NEW d \in Conns
                     PROVE  netconn'[d] \in {"queued", "served"} <=>
                              netconn[d] \in {"queued", "served"}
          BY DEF Allocated
        <4> QED BY <2>1, <1>8, <1>1
      <3> QED BY <3>1 DEF PoolKept
    <2> QED BY <1>9, <1>10, <1>11, <1>12, <1>13, <1>14, <2>3, <2>4
  <1> QED BY <1>2, <1>16, <1>17

\* What moves from the stream to the mailbox stays in the flow.
LEMMA FlowMove ==
  ASSUME NEW r \in Seq(Pieces), NEW s \in Seq(Pieces), s # <<>>
  PROVE  /\ Append(r, Head(s)) \o Tail(s) = r \o s
         /\ Append(r, Head(s)) \in Seq(Pieces) /\ Tail(s) \in Seq(Pieces)
         /\ Len(Append(r, Head(s))) = Len(r) + 1 /\ r \o s # <<>> /\ r \o <<>> = r
         /\ ~NoFin(r \o s) \/ Head(s).frame # "fin"
  <1>1. Len(r) \in Nat /\ Len(s) \in Nat /\ Len(s) >= 1 /\ Head(s) = s[1] /\ Head(s) \in Pieces
    OBVIOUS
  <1>2. /\ Tail(s) \in Seq(Pieces) /\ Len(Tail(s)) = Len(s) - 1
        /\ \A i \in 1 .. Len(s) - 1 : Tail(s)[i] = s[i + 1]
    BY <1>1
  <1>3. /\ Append(r, Head(s)) \in Seq(Pieces) /\ Len(Append(r, Head(s))) = Len(r) + 1
        /\ \A i \in 1 .. Len(r) : Append(r, Head(s))[i] = r[i]
        /\ Append(r, Head(s))[Len(r) + 1] = s[1]
    BY <1>1
  <1> DEFINE a == Append(r, Head(s))
             t == Tail(s)
  <1> HIDE DEF a, t
  <1>4. /\ r \o s \in Seq(Pieces) /\ Len(r \o s) = Len(r) + Len(s)
        /\ \A i \in 1 .. Len(r) + Len(s)  :
             (r \o s)[i] = IF i <= Len(r) THEN r[i] ELSE s[i - Len(r)]
    BY <1>1
  <1>5. /\ a \o t \in Seq(Pieces) /\ Len(a \o t) = Len(r) + 1 + (Len(s) - 1)
        /\ \A i \in 1 .. Len(r) + 1 + (Len(s) - 1) :
             (a \o t)[i] = IF i <= Len(r) + 1 THEN a[i] ELSE t[i - (Len(r) + 1)]
    BY <1>1, <1>2, <1>3 DEF a, t
  <1>6. Len(a \o t) = Len(r \o s)
    BY <1>1, <1>4, <1>5
  <1>7. \A i \in 1 .. Len(a \o t) : (a \o t)[i] = (r \o s)[i]
    <2> SUFFICES ASSUME NEW i \in 1 .. Len(a \o t) PROVE (a \o t)[i] = (r \o s)[i]
      OBVIOUS
    <2>1. i \in 1 .. Len(r) + Len(s) /\ i \in 1 .. Len(r) + 1 + (Len(s) - 1)
      BY <1>1, <1>5
    <2>2. CASE i <= Len(r)
      <3>1. (r \o s)[i] = r[i]
        BY <1>4, <2>1, <2>2
      <3>2. i \in 1 .. Len(r) /\ i <= Len(r) + 1
        BY <1>1, <2>1, <2>2
      <3>3. (a \o t)[i] = a[i]
        BY <1>5, <2>1, <3>2
      <3> QED BY <3>1, <3>2, <3>3, <1>3 DEF a
    <2>3. CASE i = Len(r) + 1
      <3>1. ~(i <= Len(r)) /\ i - Len(r) = 1 /\ i <= Len(r) + 1
        BY <1>1, <2>3
      <3>2. (r \o s)[i] = s[1]
        BY <1>4, <2>1, <3>1
      <3>3. (a \o t)[i] = a[i]
        BY <1>5, <2>1, <3>1
      <3> QED BY <3>2, <3>3, <1>3, <2>3 DEF a
    <2>4. CASE i > Len(r) + 1
      <3>1. /\ ~(i <= Len(r)) /\ ~(i <= Len(r) + 1) /\ i - (Len(r) + 1) \in 1 .. Len(s) - 1
            /\ (i - (Len(r) + 1)) + 1 = i - Len(r)
        BY <1>1, <2>1, <2>4
      <3>2. (r \o s)[i] = s[i - Len(r)]
        BY <1>4, <2>1, <3>1
      <3>3. (a \o t)[i] = t[i - (Len(r) + 1)]
        BY <1>5, <2>1, <3>1
      <3>4. t[i - (Len(r) + 1)] = s[(i - (Len(r) + 1)) + 1]
        BY <1>2, <3>1 DEF t
      <3> QED BY <3>1, <3>2, <3>3, <3>4
    <2>5. i <= Len(r) \/ i = Len(r) + 1 \/ i > Len(r) + 1
      BY <1>1, <2>1
    <2> QED BY <2>2, <2>3, <2>4, <2>5, Zenon
  <1>8. a \o t = r \o s
    BY <1>4, <1>5, <1>6, <1>7, SeqEqual
  <1>9. r \o s # <<>>
    BY <1>1, <1>4
  <1>10. ~NoFin(r \o s) \/ Head(s).frame # "fin"
    <2>1. Len(r) + 1 \in 1 .. Len(r) + Len(s) /\ ~(Len(r) + 1 <= Len(r))
          /\ (Len(r) + 1) - Len(r) = 1
      BY <1>1
    <2>2. (r \o s)[Len(r) + 1] = s[1]
      BY <1>4, <2>1
    <2> QED BY <1>1, <1>4, <2>1, <2>2 DEF NoFin
  <1>11. r \o <<>> = r
    OBVIOUS
  <1> QED BY <1>2, <1>3, <1>8, <1>9, <1>10, <1>11 DEF a, t

\* A flow that stays the same, of a connection whose pcb and client do.
LEMMA FlowKeptMoved ==
  ASSUME NEW c \in Conns, FlowKept(c), Flow(c)' = Flow(c), pcb[c], netconn'[c] # "none",
         thread' = "close" /\ c = cur' => thread = "close" /\ c = cur, done'[c] = done[c],
         sent'[c] = sent[c], pcb'[c] = pcb[c], client'[c] = client[c]
  PROVE  FlowKept(c)'
  <1>1. Chain(Flow(c), done[c])' = Chain(Flow(c), done[c]) /\ NoFin(Flow(c))' = NoFin(Flow(c))
    BY DEF Chain, NoFin, End, Follows
  <1>2. End(Flow(c), done[c], Len(Flow(c)))' = End(Flow(c), done[c], Len(Flow(c)))
    BY DEF End
  <1> QED BY <1>1, <1>2 DEF FlowKept

LEMMA DeliverKeeps == ASSUME NEW c \in Conns PROVE IInv /\ Deliver(c) => IInv'
  <1> SUFFICES ASSUME IInv, Deliver(c) PROVE IInv'  OBVIOUS
  <1> USE DEF IInv
  <1> DEFINE r == recvmbox[c]
             s == stream[c]
  <1>1. /\ pcb[c] /\ s # <<>> /\ stream' = [stream EXCEPT ![c] = Tail(s)]
        /\ UNCHANGED <<thread, cur, command, acceptmbox, netconn, pcb, keepalive, client, sent,
                       done, replied>>
    BY DEF Deliver, recv_tcp
  <1>2. \/ Len(r) < RecvMbox /\ recvmbox' = [recvmbox EXCEPT ![c] = Append(r, Head(s))]
        \/ Head(s).frame = "fin" /\ UNCHANGED recvmbox
    BY DEF Deliver, recv_tcp, Room
  <1>3. /\ recvmbox \in [Conns -> Seq(Pieces)] /\ stream \in [Conns -> Seq(Pieces)]
        /\ r \in Seq(Pieces) /\ s \in Seq(Pieces) /\ Len(r) <= RecvMbox /\ Len(r) \in Nat
        /\ \A d \in Conns : Len(recvmbox[d]) <= RecvMbox
    <2>1. TypeOK
      OBVIOUS
    <2> HIDE DEF IInv
    <2>2. r \in Seq(Pieces) /\ s \in Seq(Pieces)
      BY <2>1, FlowType
    <2>3. Len(r) \in Nat
      BY <2>2
    <2>4. /\ recvmbox \in [Conns -> Seq(Pieces)] /\ stream \in [Conns -> Seq(Pieces)]
          /\ \A d \in Conns : Len(recvmbox[d]) <= RecvMbox
      BY <2>1 DEF TypeOK
    <2> QED BY <2>2, <2>3, <2>4
  <1>4. /\ Append(r, Head(s)) \o Tail(s) = r \o s
        /\ Append(r, Head(s)) \in Seq(Pieces) /\ Tail(s) \in Seq(Pieces)
        /\ Len(Append(r, Head(s))) = Len(r) + 1 /\ r \o s # <<>> /\ r \o <<>> = r
        /\ ~NoFin(r \o s) \/ Head(s).frame # "fin"
    BY <1>1, <1>3, FlowMove
  <1> DEFINE a == Append(r, Head(s))
             t == Tail(s)
  <1> HIDE DEF a, t
  <1>5. /\ stream' \in [Conns -> Seq(Pieces)] /\ recvmbox' \in [Conns -> Seq(Pieces)]
        /\ stream'[c] = t
        /\ \A d \in Conns : d # c => recvmbox'[d] = recvmbox[d] /\ stream'[d] = stream[d]
    BY <1>1, <1>2, <1>3, <1>4 DEF a, t
  <1>6. \/ recvmbox'[c] = a /\ Len(r) < RecvMbox
        \/ recvmbox'[c] = r /\ Head(s).frame = "fin"
    BY <1>2, <1>3 DEF a
  <1>7. TypeOK'
    <2>1. Len(recvmbox'[c]) <= RecvMbox
      BY <1>3, <1>4, <1>6, Sizes DEF a
    <2>2. \A d \in Conns : Len(recvmbox'[d]) <= RecvMbox
      BY <2>1, <1>3, <1>5
    <2> QED BY <1>1, <1>5, <2>2 DEF TypeOK, command, replied
  <1>8. Serving' /\ Handled'
    BY <1>1 DEF Serving, Handled, command, replied
  <1>9. Queued' /\ Owned' /\ PoolKept'
    BY <1>1, NetconnsSame
  <1>10. RepliesMatch' /\ JudgedByItself'
    BY <1>1, RepliesSame DEF replied
  <1>11. Flows'
    <2> SUFFICES ASSUME NEW d \in Conns PROVE FlowKept(d)'
      BY DEF Flows
    <2>1. FlowKept(d)
      BY DEF Flows
    <2>2. CASE d # c
      BY <1>1, <1>5, <2>1, <2>2, FlowKeptSame
    <2>3. CASE d = c /\ recvmbox'[c] = a
      <3>1. Flow(d)' = Flow(d)
        BY <1>4, <1>5, <2>3 DEF Flow, a, t
      <3>2. netconn[c] # "none"
        BY <1>1 DEF Owned, Allocated
      <3> QED BY <1>1, <2>1, <2>3, <3>1, <3>2, FlowKeptMoved
    <2>4. CASE d = c /\ recvmbox'[c] = r /\ Head(s).frame = "fin"
      <3>1. /\ Chain(r \o s, done[c]) /\ client[c] # "open"
               /\ sent[c] = End(r \o s, done[c], Len(r \o s))
            /\ ~(thread = "close" /\ c = cur) /\ done[c] \in Nat
        BY <1>1, <1>4, <2>1, <2>4, FlowType DEF FlowKept, Flow
      <3>2. Chain(r, done[c]) /\ t = <<>> /\ End(r, done[c], Len(r)) = sent[c]
        BY <1>1, <1>3, <2>4, <3>1, ChainFront DEF t
      <3>3. Flow(d)' = r
        BY <1>4, <1>5, <2>4, <3>2 DEF Flow
      <3>4. Chain(Flow(d), done[d])' /\ sent'[d] = End(Flow(d), done[d], Len(Flow(d)))'
        BY <1>1, <2>4, <3>2, <3>3 DEF Chain, End, Follows
      <3>5. netconn[c] # "none"
        BY <1>1 DEF Owned, Allocated
      <3> QED BY <1>1, <2>4, <3>1, <3>4, <3>5 DEF FlowKept
    <2> QED BY <2>2, <2>3, <2>4, <1>6
  <1> QED BY <1>7, <1>8, <1>9, <1>10, <1>11

\* A connection that is lost, with the netconn left to the thread.
LEMMA ErrKeeps ==
  ASSUME NEW c \in Conns
  PROVE  IInv /\ err_tcp(c) /\ client' = [client EXCEPT ![c] = "gone"] => IInv'
  <1> SUFFICES ASSUME IInv, err_tcp(c), client' = [client EXCEPT ![c] = "gone"] PROVE IInv'
    OBVIOUS
  <1> USE DEF IInv
  <1>1. /\ pcb[c] /\ pcb' = [pcb EXCEPT ![c] = FALSE] /\ stream' = [stream EXCEPT ![c] = <<>>]
        /\ UNCHANGED <<thread, cur, command, acceptmbox, netconn, keepalive, recvmbox, sent,
                       done, replied>>
    BY DEF err_tcp
  <1>2. /\ pcb \in [Conns -> BOOLEAN] /\ stream \in [Conns -> Seq(Pieces)]
        /\ client \in [Conns -> ClientStates]
    BY DEF TypeOK
  <1>3. /\ pcb' \in [Conns -> BOOLEAN] /\ stream' \in [Conns -> Seq(Pieces)]
        /\ client' \in [Conns -> ClientStates]
        /\ ~pcb'[c] /\ stream'[c] = <<>> /\ client'[c] = "gone"
        /\ \A d \in Conns : d # c => pcb'[d] = pcb[d] /\ stream'[d] = stream[d]
           /\ client'[d] = client[d]
    BY <1>1, <1>2
  <1>4. TypeOK'
    BY <1>1, <1>3 DEF TypeOK, command, replied
  <1>5. \A d \in Conns : pcb'[d] => pcb[d]
    BY <1>3
  <1>6. Serving' /\ Handled'
    BY <1>1, <1>5 DEF Serving, Handled, command, replied
  <1>7. Queued' /\ Owned' /\ PoolKept'
    BY <1>1, <1>5, NetconnsSame
  <1>8. RepliesMatch' /\ JudgedByItself'
    BY <1>1, RepliesSame DEF replied
  <1>9. Flows'
    <2> SUFFICES ASSUME NEW d \in Conns PROVE FlowKept(d)'
      BY DEF Flows
    <2>1. FlowKept(d)
      BY DEF Flows
    <2>2. CASE d # c
      BY <1>1, <1>3, <2>1, <2>2, FlowKeptSame
    <2>3. CASE d = c
      BY <1>1, <1>3, <2>1, <2>3, PcbLost
    <2> QED BY <2>2, <2>3
  <1> QED BY <1>4, <1>6, <1>7, <1>8, <1>9

LEMMA KeepaliveKeeps == ASSUME NEW c \in Conns PROVE IInv /\ KeepaliveTimeout(c) => IInv'
  BY ErrKeeps DEF KeepaliveTimeout

-----------------------------------------------------------------------------
(* The steps of a client.                                                  *)

LEMMA ResetKeeps == ASSUME NEW c \in Conns PROVE IInv /\ Reset(c) => IInv'
  BY ErrKeeps DEF Reset

LEMMA VanishKeeps == ASSUME NEW c \in Conns PROVE IInv /\ Vanish(c) => IInv'
  <1> SUFFICES ASSUME IInv, Vanish(c) PROVE IInv'  OBVIOUS
  <1> USE DEF IInv
  <1>1. /\ pcb[c] /\ client[c] = "open" /\ client' = [client EXCEPT ![c] = "gone"]
        /\ UNCHANGED <<thread, cur, command, acceptmbox, netconn, pcb, keepalive, recvmbox, stream,
                       sent, done, replied>>
    BY DEF Vanish
  <1>2. /\ client' \in [Conns -> ClientStates] /\ client'[c] = "gone"
        /\ \A d \in Conns : d # c => client'[d] = client[d]
    BY <1>1 DEF TypeOK
  <1>3. TypeOK'
    BY <1>1, <1>2 DEF TypeOK, command, replied
  <1>4. Serving' /\ Handled'
    BY <1>1 DEF Serving, Handled, command, replied
  <1>5. Queued' /\ Owned' /\ PoolKept'
    BY <1>1, NetconnsSame
  <1>6. RepliesMatch' /\ JudgedByItself'
    BY <1>1, RepliesSame DEF replied
  <1>7. Flows'
    <2> SUFFICES ASSUME NEW d \in Conns PROVE FlowKept(d)'
      BY DEF Flows
    <2>1. FlowKept(d)
      BY DEF Flows
    <2>2. CASE d # c
      BY <1>1, <1>2, <2>1, <2>2, FlowKeptSame
    <2>3. CASE d = c
      <3>1. Flow(d)' = Flow(d)
        BY <1>1 DEF Flow
      <3>2. Chain(Flow(d), done[d])' = Chain(Flow(d), done[d])
        BY <1>1, <3>1 DEF Chain, End, Follows
      <3>3. End(Flow(d), done[d], Len(Flow(d)))' = End(Flow(d), done[d], Len(Flow(d)))
        BY <1>1, <3>1 DEF End
      <3> QED BY <1>1, <1>2, <2>1, <2>3, <3>1, <3>2, <3>3 DEF FlowKept
    <2> QED BY <2>2, <2>3
  <1> QED BY <1>3, <1>4, <1>5, <1>6, <1>7

\* One piece that follows number e, or two.
LEMMA OnePiece ==
  ASSUME NEW e \in Nat, NEW p \in Pieces, Follows(p, e)
  PROVE  /\ <<p>> \in Seq(Pieces) /\ Len(<<p>>) = 1 /\ Chain(<<p>>, e)
         /\ End(<<p>>, e, Len(<<p>>)) = p.last
         /\ p.frame # "fin" => NoFin(<<p>>)
  <1>1. <<p>> \in Seq(Pieces) /\ Len(<<p>>) = 1 /\ <<p>>[1] = p
    OBVIOUS
  <1>2. \A i \in 1 .. Len(<<p>>) : i = 1
    BY <1>1
  <1>3. End(<<p>>, e, 1 - 1) = e /\ End(<<p>>, e, 1) = p.last
    BY <1>1 DEF End
  <1> QED BY <1>1, <1>2, <1>3 DEF Chain, NoFin

LEMMA TwoPieces ==
  ASSUME NEW e \in Nat, NEW p \in Pieces, NEW q \in Pieces, Follows(p, e), p.frame # "fin",
         Follows(q, p.last), q.frame # "fin"
  PROVE  /\ <<p, q>> \in Seq(Pieces) /\ Len(<<p, q>>) = 2 /\ Chain(<<p, q>>, e)
         /\ End(<<p, q>>, e, Len(<<p, q>>)) = q.last /\ NoFin(<<p, q>>)
  <1>1. <<p, q>> \in Seq(Pieces) /\ Len(<<p, q>>) = 2 /\ <<p, q>>[1] = p /\ <<p, q>>[2] = q
    OBVIOUS
  <1>2. \A i \in 1 .. Len(<<p, q>>) : i = 1 \/ i = 2
    BY <1>1
  <1>3. /\ End(<<p, q>>, e, 1 - 1) = e /\ End(<<p, q>>, e, 2 - 1) = p.last
        /\ End(<<p, q>>, e, 2) = q.last
    BY <1>1 DEF End
  <1>4. Chain(<<p, q>>, e)
    BY <1>1, <1>2, <1>3 DEF Chain
  <1>5. NoFin(<<p, q>>)
    BY <1>1, <1>2 DEF NoFin
  <1> QED BY <1>1, <1>3, <1>4, <1>5

\* What a client sends is made of words, and is more than one word.
LEMMA TextType ==
  /\ \A m \in Texts : m \in Seq(Nat) /\ m # <<>>
  /\ Request \in Seq(Nat) /\ Len(Request) = 4 /\ Request \in Texts
  <1>1. \A cmd, length, sum \in Nat :
          /\ Message(cmd, length, sum) \in Seq(Nat) /\ Message(cmd, length, sum) # <<>>
          /\ Len(Message(cmd, length, sum)) = 4
    BY Sizes DEF Message
  <1>2. GETDATA \in Nat /\ GETEDITION \in Nat /\ DataWords + 1 \in Nat
    BY Sizes DEF GETDATA, GETEDITION
  <1>3. GETDATA + 4 \in Nat /\ GETEDITION + 4 \in Nat
    BY <1>2
  <1>4. Request \in Seq(Nat) /\ Request # <<>> /\ Len(Request) = 4
    BY <1>1, <1>2, <1>3 DEF Request
  <1>5. \A m \in Texts : m \in Seq(Nat) /\ m # <<>>
    BY <1>1, <1>2, <1>3, <1>4 DEF Texts
  <1> QED BY <1>4, <1>5 DEF Texts

\* A message begins behind what was sent, and is not the end of the stream.
LEMMA MessageChain ==
  ASSUME NEW e \in Nat, NEW m \in Messages(e + 1)
  PROVE  /\ m \in Seq(Pieces) /\ Len(m) \in Nat /\ Chain(m, e) /\ NoFin(m)
         /\ End(m, e, Len(m)) = e + Len(m)
  <1>1. CASE \E t \in Texts : m = <<Piece(e + 1, t)>>
    <2>1. PICK t \in Texts : m = <<Piece(e + 1, t)>>
      BY <1>1
    <2> DEFINE p == Piece(e + 1, t)
    <2>2. t \in Seq(Nat) /\ t # <<>> /\ e + 1 \in Nat
      BY TextType
    <2>3. p \in Pieces /\ p.first = e + 1 /\ p.last = e + 1 /\ p.frame = "data" /\ p.words = t
      BY <2>2, PieceType
    <2> HIDE DEF p
    <2>4. Follows(p, e)
      BY <2>2, <2>3 DEF Follows
    <2>5. m = <<p>>
      BY <2>1 DEF p
    <2> QED BY <2>2, <2>3, <2>4, <2>5, OnePiece
  <1>2. CASE \E k \in 1 .. 3 :
               m = <<Piece(e + 1, SubSeq(Request, 1, k)),
                     Piece((e + 1) + 1, SubSeq(Request, k + 1, 4))>>
    <2>1. PICK k \in 1 .. 3 :
                 m = <<Piece(e + 1, SubSeq(Request, 1, k)),
                       Piece((e + 1) + 1, SubSeq(Request, k + 1, 4))>>
      BY <1>2
    <2> DEFINE front == SubSeq(Request, 1, k)
               rest == SubSeq(Request, k + 1, 4)
               p == Piece(e + 1, front)
               q == Piece((e + 1) + 1, rest)
    <2>2. /\ front \in Seq(Nat) /\ rest \in Seq(Nat) /\ front # <<>> /\ rest # <<>>
          /\ e + 1 \in Nat /\ (e + 1) + 1 \in Nat
      <3>1. \A i \in 1 .. 4 : Request[i] \in Nat
        <4>1. Request \in Seq(Nat) /\ Len(Request) = 4
          BY TextType
        <4>2. \A t \in Seq(Nat) : \A i \in 1 .. Len(t) : t[i] \in Nat
          OBVIOUS
        <4> QED BY <4>1, <4>2
      <3>2. 1 \in Int /\ k \in Int /\ k + 1 \in Int /\ 4 \in Int /\ 1 <= k /\ k + 1 <= 4
        OBVIOUS
      <3>3. /\ \A i \in 1 .. k : Request[i] \in Nat
            /\ \A i \in k + 1 .. 4 : Request[i] \in Nat
        BY <3>1
      <3>4. front \in Seq(Nat) /\ Len(front) = (k - 1) + 1
        BY <3>2, <3>3, SubSeqProperties
      <3>5. rest \in Seq(Nat) /\ Len(rest) = (4 - (k + 1)) + 1
        BY <3>2, <3>3, SubSeqProperties
      <3>6. Len(front) > 0 /\ Len(rest) > 0
        BY <3>2, <3>4, <3>5
      <3> HIDE DEF front, rest
      <3>7. front # <<>> /\ rest # <<>>
        BY <3>4, <3>5, <3>6
      <3> QED BY <3>4, <3>5, <3>7
    <2>3. /\ p \in Pieces /\ p.first = e + 1 /\ p.last = e + 1 /\ p.frame = "data"
          /\ q \in Pieces /\ q.first = (e + 1) + 1 /\ q.last = (e + 1) + 1 /\ q.frame = "data"
          /\ p.words = front /\ q.words = rest
      BY <2>2, PieceType
    <2>5. m = <<p, q>>
      BY <2>1
    <2> HIDE DEF p, q, front, rest
    <2>4. Follows(p, e) /\ Follows(q, p.last)
      BY <2>2, <2>3 DEF Follows
    <2>6. /\ m \in Seq(Pieces) /\ Len(m) = 2 /\ Chain(m, e) /\ NoFin(m)
          /\ End(m, e, Len(m)) = q.last
      BY <2>2, <2>3, <2>4, <2>5, TwoPieces
    <2> QED BY <2>3, <2>6
  <1> QED BY <1>1, <1>2 DEF Messages

\* A client adds to its stream what follows all that is on its way.
LEMMA ClientKeeps ==
  ASSUME IInv, NEW c \in Conns, pcb[c], client[c] = "open",
         NEW t \in Seq(Pieces), NEW n \in Nat, NEW g \in {"open", "fin"},
         stream' = [stream EXCEPT ![c] = t], sent' = [sent EXCEPT ![c] = n],
         client' = [client EXCEPT ![c] = g],
         UNCHANGED <<thread, cur, command, acceptmbox, netconn, pcb, keepalive, recvmbox, done, replied>>,
         Chain(recvmbox[c] \o t, done[c]),
         End(recvmbox[c] \o t, done[c], Len(recvmbox[c] \o t)) = n,
         g = "open" => NoFin(recvmbox[c] \o t)
  PROVE  IInv'
  <1> USE DEF IInv
  <1>1. /\ stream \in [Conns -> Seq(Pieces)] /\ sent \in [Conns -> Nat]
        /\ client \in [Conns -> ClientStates]
    BY DEF TypeOK
  <1>2. /\ stream' \in [Conns -> Seq(Pieces)] /\ sent' \in [Conns -> Nat]
        /\ client' \in [Conns -> ClientStates]
        /\ stream'[c] = t /\ sent'[c] = n /\ client'[c] = g
        /\ \A d \in Conns : d # c => stream'[d] = stream[d] /\ sent'[d] = sent[d]
           /\ client'[d] = client[d]
    BY <1>1
  <1>3. TypeOK'
    BY <1>2 DEF TypeOK, command, replied
  <1>4. Serving' /\ Handled'
    BY DEF Serving, Handled, command, replied
  <1>5. Queued' /\ Owned' /\ PoolKept'
    BY NetconnsSame
  <1>6. RepliesMatch' /\ JudgedByItself'
    BY RepliesSame DEF replied
  <1>7. Flows'
    <2> SUFFICES ASSUME NEW d \in Conns PROVE FlowKept(d)'
      BY DEF Flows
    <2>1. FlowKept(d)
      BY DEF Flows
    <2>2. CASE d # c
      BY <1>2, <2>1, <2>2, FlowKeptSame
    <2>3. CASE d = c
      <3>1. Flow(d)' = recvmbox[c] \o t
        BY <1>2, <2>3 DEF Flow
      <3>2. Chain(Flow(d), done[d])' /\ (g = "open" => NoFin(Flow(d))')
        BY <2>3, <3>1 DEF Chain, End, Follows, NoFin
      <3>3. sent'[d] = End(Flow(d), done[d], Len(Flow(d)))'
        BY <1>2, <2>3, <3>1 DEF End
      <3>4. netconn[c] # "none" /\ ~(thread = "close" /\ c = cur)
        BY <2>1, <2>3 DEF Owned, Allocated, FlowKept
      <3> QED BY <1>2, <2>3, <3>2, <3>3, <3>4 DEF FlowKept
    <2> QED BY <2>2, <2>3
  <1> QED BY <1>3, <1>4, <1>5, <1>6, <1>7

\* What an open connection has on its way ends with the last piece sent.
LEMMA OpenFlow ==
  ASSUME IInv, NEW c \in Conns, pcb[c], client[c] = "open"
  PROVE  /\ recvmbox[c] \in Seq(Pieces) /\ stream[c] \in Seq(Pieces)
         /\ Flow(c) = recvmbox[c] \o stream[c] /\ Flow(c) \in Seq(Pieces)
         /\ done[c] \in Nat /\ sent[c] \in Nat
         /\ Chain(Flow(c), done[c]) /\ NoFin(Flow(c))
         /\ End(Flow(c), done[c], Len(Flow(c))) = sent[c]
  <1>1. FlowKept(c) /\ TypeOK
    BY DEF IInv, Flows
  <1> QED BY <1>1, FlowType DEF FlowKept, Flow

\* Pieces put behind the stream are behind the flow.
LEMMA Behind ==
  ASSUME NEW r \in Seq(Pieces), NEW s \in Seq(Pieces), NEW m \in Seq(Pieces)
  PROVE  r \o (s \o m) = (r \o s) \o m /\ s \o m \in Seq(Pieces)
  <1>1. s \o m \in Seq(Pieces)
    OBVIOUS
  <1>2. r \o (s \o m) = (r \o s) \o m
    BY ConcatAssociative, SMTT(30)
  <1> QED BY <1>1, <1>2

LEMMA SendStepKeeps == ASSUME NEW c \in Conns PROVE IInv /\ Send(c) => IInv'
  <1> SUFFICES ASSUME IInv, Send(c) PROVE IInv'  OBVIOUS
  <1> DEFINE r == recvmbox[c]
             s == stream[c]
             e == sent[c]
  <1>1. /\ pcb[c] /\ client[c] = "open"
        /\ UNCHANGED <<thread, cur, command, acceptmbox, netconn, pcb, keepalive, recvmbox, client,
                       done, replied>>
    BY DEF Send
  <1>2. /\ r \in Seq(Pieces) /\ s \in Seq(Pieces) /\ Flow(c) = r \o s /\ Flow(c) \in Seq(Pieces)
        /\ done[c] \in Nat /\ e \in Nat
        /\ Chain(r \o s, done[c]) /\ NoFin(r \o s)
        /\ End(r \o s, done[c], Len(r \o s)) = e
    BY <1>1, OpenFlow
  <1>3. client' = [client EXCEPT ![c] = "open"]
    BY <1>1 DEF IInv, TypeOK
  <1>4. CASE \E m \in Messages(e + 1) :
               /\ sent' = [sent EXCEPT ![c] = @ + Len(m)]
                  /\ stream' = [stream EXCEPT ![c] = @ \o m]
    <2>1. PICK m \in Messages(e + 1) :
                 /\ sent' = [sent EXCEPT ![c] = @ + Len(m)]
                    /\ stream' = [stream EXCEPT ![c] = @ \o m]
      BY <1>4
    <2>2. /\ m \in Seq(Pieces) /\ Len(m) \in Nat /\ Chain(m, e) /\ NoFin(m)
          /\ End(m, e, Len(m)) = e + Len(m)
      BY <1>2, MessageChain
    <2>3. r \o (s \o m) = (r \o s) \o m /\ s \o m \in Seq(Pieces)
      <3>1. r \in Seq(Pieces) /\ s \in Seq(Pieces) /\ m \in Seq(Pieces)
        BY <1>2, <2>2
      <3> HIDE DEF r, s
      <3> QED BY <3>1, Behind
    <2>4. /\ Chain((r \o s) \o m, done[c]) /\ NoFin((r \o s) \o m)
          /\ End((r \o s) \o m, done[c], Len((r \o s) \o m)) = e + Len(m)
      <3> DEFINE q == r \o s
      <3>1. q \in Seq(Pieces) /\ Chain(q, done[c]) /\ NoFin(q) /\ End(q, done[c], Len(q)) = e
        BY <1>2
      <3> HIDE DEF q
      <3>2. /\ Chain(q \o m, done[c]) /\ NoFin(q \o m)
            /\ End(q \o m, done[c], Len(q \o m)) = e + Len(m)
        BY <1>2, <2>2, <3>1, ChainMore
      <3> QED BY <3>2 DEF q
    <2>5. e + Len(m) \in Nat
      BY <1>2, <2>2
    <2>6. stream' = [stream EXCEPT ![c] = s \o m] /\ sent' = [sent EXCEPT ![c] = e + Len(m)]
      BY <2>1
    <2> QED BY <1>1, <1>3, <2>3, <2>4, <2>5, <2>6, ClientKeeps
  <1>5. CASE /\ s # <<>> /\ sent' = [sent EXCEPT ![c] = @ + 1]
             /\ stream' = [stream EXCEPT ![c] = Joined(@, e + 1, Request)]
    <2>1. e + 1 \in Nat /\ e + 1 = End(r \o s, done[c], Len(r \o s)) + 1
      BY <1>2
    <2>2. /\ Joined(s, e + 1, Request) \in Seq(Pieces)
          /\ Chain(r \o Joined(s, e + 1, Request), done[c]) /\ NoFin(r \o Joined(s, e + 1, Request))
          /\ End(r \o Joined(s, e + 1, Request), done[c], Len(r \o Joined(s, e + 1, Request))) = e + 1
      <3>1. /\ r \in Seq(Pieces) /\ s \in Seq(Pieces) /\ s # <<>> /\ e \in Nat
            /\ End(r \o s, done[c], Len(r \o s)) = e
        BY <1>2, <1>5
      <3>2. done[c] \in Nat /\ Chain(r \o s, done[c]) /\ NoFin(r \o s) /\ Request \in Seq(Nat)
        BY <1>2, TextType
      <3> HIDE DEF r, s, e
      <3> QED BY <3>1, <3>2, ChainJoined
    <2>3. stream' = [stream EXCEPT ![c] = Joined(s, e + 1, Request)] /\ sent' = [sent EXCEPT ![c] = e + 1]
      BY <1>5
    <2> QED BY <1>1, <1>3, <2>1, <2>2, <2>3, ClientKeeps
  <1> QED BY <1>4, <1>5 DEF Send

LEMMA FinishKeeps == ASSUME NEW c \in Conns PROVE IInv /\ Finish(c) => IInv'
  <1> SUFFICES ASSUME IInv, Finish(c) PROVE IInv'  OBVIOUS
  <1> DEFINE r == recvmbox[c]
             s == stream[c]
             p == Fin(sent[c])
  <1>1. /\ pcb[c] /\ client[c] = "open" /\ client' = [client EXCEPT ![c] = "fin"]
        /\ stream' = [stream EXCEPT ![c] = Append(@, p)]
        /\ UNCHANGED <<thread, cur, command, acceptmbox, netconn, pcb, keepalive, recvmbox, sent,
                       done, replied>>
    BY DEF Finish
  <1>2. /\ r \in Seq(Pieces) /\ s \in Seq(Pieces) /\ Flow(c) = r \o s /\ Flow(c) \in Seq(Pieces)
        /\ done[c] \in Nat /\ sent[c] \in Nat
        /\ Chain(r \o s, done[c]) /\ NoFin(r \o s)
        /\ End(r \o s, done[c], Len(r \o s)) = sent[c]
    BY <1>1, OpenFlow
  <1>3. p \in Pieces /\ p.last = sent[c] /\ Follows(p, sent[c])
    BY <1>2, FinType DEF Fin, Follows
  <1>4. /\ <<p>> \in Seq(Pieces) /\ Chain(<<p>>, sent[c])
           /\ End(<<p>>, sent[c], Len(<<p>>)) = sent[c]
    <2> HIDE DEF p
    <2> QED BY <1>2, <1>3, OnePiece
  <1>5. Append(s, p) = s \o <<p>>
    BY <1>2, <1>3, AppendIsConcat
  <1> HIDE DEF p
  <1>6. r \o (s \o <<p>>) = (r \o s) \o <<p>> /\ s \o <<p>> \in Seq(Pieces)
    <2>1. r \in Seq(Pieces) /\ s \in Seq(Pieces) /\ <<p>> \in Seq(Pieces)
      BY <1>2, <1>4
    <2> HIDE DEF r, s
    <2> QED BY <2>1, Behind
  <1>7. /\ Chain((r \o s) \o <<p>>, done[c])
        /\ End((r \o s) \o <<p>>, done[c], Len((r \o s) \o <<p>>)) = sent[c]
    <2> DEFINE q == r \o s
               m == <<p>>
    <2>1. /\ q \in Seq(Pieces) /\ Chain(q, done[c]) /\ NoFin(q)
             /\ End(q, done[c], Len(q)) = sent[c]
          /\ m \in Seq(Pieces) /\ Chain(m, sent[c]) /\ End(m, sent[c], Len(m)) = sent[c]
      BY <1>2, <1>4
    <2> HIDE DEF q, m
    <2>2. Chain(q \o m, done[c]) /\ End(q \o m, done[c], Len(q \o m)) = sent[c]
      BY <1>2, <2>1, ChainMore
    <2> QED BY <2>2 DEF q, m
  <1>8. stream' = [stream EXCEPT ![c] = s \o <<p>>] /\ sent' = [sent EXCEPT ![c] = sent[c]]
    BY <1>1, <1>5 DEF IInv, TypeOK
  <1> DEFINE t == s \o <<p>>
  <1>9. t \in Seq(Pieces) /\ Chain(r \o t, done[c]) /\ End(r \o t, done[c], Len(r \o t)) = sent[c]
    BY <1>6, <1>7
  <1> HIDE DEF t
  <1>10. stream' = [stream EXCEPT ![c] = t]
    BY <1>8 DEF t
  <1>11. /\ Chain(recvmbox[c] \o t, done[c])
         /\ End(recvmbox[c] \o t, done[c], Len(recvmbox[c] \o t)) = sent[c]
    BY <1>9
  <1>12. sent' = [sent EXCEPT ![c] = sent[c]] /\ sent[c] \in Nat /\ t \in Seq(Pieces)
    BY <1>2, <1>8, <1>9
  <1> HIDE DEF r, s
  <1> QED BY <1>1, <1>10, <1>11, <1>12, ClientKeeps

-----------------------------------------------------------------------------
(* Every step.                                                             *)

LEMMA NextKeeps == IInv /\ [Next]_serverVars => IInv'
  <1>1. ASSUME IInv, UNCHANGED serverVars PROVE IInv'
    <2> USE <1>1 DEF IInv, serverVars
    <2>1. TypeOK'
      BY DEF TypeOK
    <2>2. Serving' /\ Handled'
      BY DEF Serving, Handled
    <2>3. Queued' /\ Owned' /\ PoolKept'
      BY NetconnsSame
    <2>4. Flows'
      <3> SUFFICES ASSUME NEW c \in Conns PROVE FlowKept(c)'
        BY DEF Flows
      <3>1. FlowKept(c)
        BY DEF Flows
      <3> QED BY <3>1, FlowKeptSame
    <2>5. RepliesMatch' /\ JudgedByItself'
      BY RepliesSame
    <2> QED BY <2>1, <2>2, <2>3, <2>4, <2>5
  <1>2. ASSUME IInv, ServerThread PROVE IInv'
    BY <1>2, AcceptKeeps, SetKeepAliveKeeps, ReceiveKeeps, HandleKeeps, SendKeeps, CloseKeeps,
       DeleteKeeps DEF ServerThread
  <1>3. ASSUME IInv, NEW c \in Conns, Stack(c) PROVE IInv'
    BY <1>3, ConnectKeeps, DeliverKeeps, KeepaliveKeeps DEF Stack
  <1>4. ASSUME IInv, NEW c \in Conns, Client(c) PROVE IInv'
    BY <1>4, SendStepKeeps, FinishKeeps, ResetKeeps, VanishKeeps DEF Client
  <1> QED BY <1>1, <1>2, <1>3, <1>4 DEF Next

LEMMA AlwaysIInv == Spec => []IInv
  <1>1. Init => IInv
    BY InitHolds
  <1>2. IInv /\ [Next]_serverVars => IInv'
    BY NextKeeps
  <1> QED BY <1>1, <1>2, PTL DEF Spec

-----------------------------------------------------------------------------
(* What the invariant shows.                                               *)

LEMMA AccountedHolds == IInv => NetconnsAccounted
  <1> SUFFICES ASSUME IInv PROVE NetconnsAccounted  OBVIOUS
  <1> USE DEF IInv
  <1>1. Cardinality(Allocated) + 1 <= NumNetconn
    BY DEF PoolKept
  <1>2. ASSUME NEW c \in Conns
        PROVE  Cardinality({i \in 1 .. Len(acceptmbox) : acceptmbox[i] = c})
                 = IF netconn[c] = "queued" THEN 1 ELSE 0
    <2> DEFINE S == {i \in 1 .. Len(acceptmbox) : acceptmbox[i] = c}
    <2>0. c # Abrt /\ c \in Nat /\ Len(acceptmbox) \in Nat
      BY ConnsNat DEF TypeOK
    <2>1. CASE netconn[c] = "queued"
      <3>1. PICK i \in 1 .. Len(acceptmbox) : acceptmbox[i] = c
        BY <2>1 DEF Queued
      <3>2. ASSUME NEW j \in 1 .. Len(acceptmbox), acceptmbox[j] = c PROVE i = j
        <4>1. ~(i < j)
          BY <2>0, <3>1, <3>2 DEF Queued
        <4>2. ~(j < i)
          BY <2>0, <3>1, <3>2 DEF Queued
        <4> QED BY <4>1, <4>2, <2>0
      <3>3. S = {i}
        BY <3>1, <3>2
      <3>4. Cardinality(S) = 1
        BY <3>3, FS_Singleton
      <3> QED BY <2>1, <3>4
    <2>2. CASE netconn[c] # "queued"
      <3>1. S = {}
        BY <2>0, <2>2 DEF Queued
      <3>2. Cardinality(S) = 0
        BY <3>1, FS_EmptySet
      <3> QED BY <2>2, <3>2
    <2> QED BY <2>1, <2>2
  <1> QED BY <1>1, <1>2 DEF NetconnsAccounted, Owned

LEMMA NotSkippedHolds == IInv => NothingSkipped
  <1> SUFFICES ASSUME IInv, NEW c \in Conns
               PROVE  LET flow == Flow(c) IN
                      /\ \A i \in 1 .. Len(flow) :
                           /\ flow[i].first = End(flow, done[c], i - 1) + 1
                           /\ flow[i].frame = "fin" => i = Len(flow)
                      /\ pcb[c] => sent[c] = End(flow, done[c], Len(flow))
                      /\ thread = "close" /\ c = cur => flow = <<>> /\ client[c] # "open"
    BY DEF NothingSkipped, Allocated
  <1>1. FlowKept(c)
    BY DEF IInv, Flows
  <1> QED BY <1>1 DEF FlowKept, Chain, Follows

\* The state is always of its type, and the mailboxes never hold more than
\* they can.
THEOREM ServerTypeCorrect == Spec => []TypeOK
  <1>1. IInv => TypeOK
    BY DEF IInv
  <1> QED BY <1>1, AlwaysIInv, PTL

\* The netconns in use are the ones in the accept mailbox and the one that is
\* served (netconn_new in accept_function, netconn_delete in the thread).
THEOREM NetconnsKept == Spec => []NetconnsAccounted
  BY AccountedHolds, AlwaysIInv, PTL

\* recv_tcp and netconn_recv pass on the data of a connection completely and
\* in order, and netconn_close comes behind all of it.
THEOREM NoDataSkipped == Spec => []NothingSkipped
  BY NotSkippedHolds, AlwaysIInv, PTL

\* EthernetInterfaceHandler answers the pieces that netconn_recv returned, in
\* their order and none of them twice, for any number of connections.
THEOREM RepliesAnswer == Spec => []RepliesMatch
  <1>1. IInv => RepliesMatch
    BY DEF IInv
  <1> QED BY <1>1, AlwaysIInv, PTL

\* Whatever Data[] and Rec_Comand hold from earlier pieces, of this or another
\* connection, EthernetInterfaceHandler answers a complete message by its own
\* sum, and rejects one whose length field is too large.
THEOREM JudgedAlone == Spec => []JudgedByItself
  <1>1. IInv => JudgedByItself
    BY DEF IInv
  <1> QED BY <1>1, AlwaysIInv, PTL

-----------------------------------------------------------------------------
(* The readback of the backup area.                                        *)

LEMMA Division ==
  ASSUME NEW n \in Nat, NEW d \in Nat, d > 0
  PROVE  n % d \in 0 .. d - 1 /\ n \div d \in Nat /\ n = (d * (n \div d)) + (n % d)
  OBVIOUS

LEMMA Quotient ==
  ASSUME NEW n \in Nat, NEW d \in Nat, NEW q \in Int, NEW r \in 0 .. d - 1, n = (d * q) + r
  PROVE  n % d = r /\ n \div d = q
  OBVIOUS

LEMMA NextRemainder ==
  ASSUME NEW n \in Nat, NEW d \in Nat, d > 0
  PROVE  (n + 1) % d = IF (n % d) + 1 = d THEN 0 ELSE (n % d) + 1
  <1>1. PICK q \in Nat, r \in 0 .. d - 1 : n % d = r /\ n = (d * q) + r
    BY Division
  <1>2. CASE r + 1 = d
    <2>1. PICK m \in Nat, k \in Int : m = n + 1 /\ k = q + 1
      OBVIOUS
    <2>2. m = (d * k) + 0 /\ 0 \in 0 .. d - 1
      BY <1>1, <1>2, <2>1
    <2>3. m % d = 0
      BY <2>2, Quotient
    <2> QED BY <1>1, <1>2, <2>1, <2>3
  <1>3. CASE r + 1 # d
    <2>1. PICK m \in Nat, s \in 0 .. d - 1 : m = n + 1 /\ s = r + 1
      BY <1>3
    <2>2. m = (d * q) + s
      BY <1>1, <2>1
    <2>3. m % d = s
      BY <2>2, Quotient
    <2> QED BY <1>1, <1>3, <2>1, <2>3
  <1> QED BY <1>2, <1>3

Numbered(s) ==
  \A i \in 1 .. Len(s) : s[i] = [number |-> ((i - 1) % Packets) + 1, block |-> (i - 1) % Packets]

\* What a client has got of the backup area ends at the packet SendUpData is
\* at, and at a whole readback between two of them.
ReadInv ==
  /\ \A c \in Conns : Numbered(packets[c]) /\ (c # cur => packets[c] = <<>>)
  /\ cur \in Conns /\ pcb[cur] =>
       Len(packets[cur]) % Packets = IF thread \in {"send", "overrun"} THEN PackCnt ELSE 0
  /\ thread \in {"send", "overrun"} => PackCnt \in Nat /\ PackCnt < Packets
  /\ thread = "overrun" => ~Fits

LEMMA NoneNumbered == Numbered(<<>>) /\ Len(<<>>) % Packets = 0
  <1>1. Packets \in Nat /\ 0 \in 0 .. Packets - 1 /\ 0 = (Packets * 0) + 0
    BY Sizes
  <1>2. 0 % Packets = 0
    BY <1>1, Quotient
  <1> QED BY <1>2 DEF Numbered

LEMMA InitRead == Init => ReadInv
  <1> SUFFICES ASSUME Init PROVE ReadInv
    OBVIOUS
  <1>1. cur \notin Conns
    BY ConnsNat DEF Init
  <1> QED BY <1>1, NoneNumbered DEF Init, ReadInv

\* SendUpData writes the packet that comes next.
LEMMA SendRead ==
  ASSUME IInv, ReadInv, SendUpData
  PROVE  ReadInv'
  <1>1. /\ thread = "send" /\ cur \in Conns /\ PackCnt \in Nat /\ PackCnt < Packets
        /\ UNCHANGED <<cur, pcb>> /\ packets \in [Conns -> Seq(PacketsSent)]
        /\ Packets \in Nat /\ Packets > 0
    BY Sizes DEF SendUpData, SendPacket, IInv, Serving, TypeOK, ReadInv
  <1> DEFINE entry == [number |-> PackCnt + 1, block |-> PackCnt]
             old == packets[cur]
  <1>2. CASE Fits
    <2>1. /\ packets' = Write(packets, entry) /\ PackCnt' = PackCnt + 1
          /\ thread' = IF PackCnt + 1 = Packets THEN "recv" ELSE "send"
      BY <1>2 DEF SendUpData, SendPacket
    <2>2. thread' = "send" => PackCnt' \in Nat /\ PackCnt' < Packets
      BY <1>1, <2>1
    <2>3. CASE ~pcb[cur]
      BY <1>1, <2>1, <2>2, <2>3 DEF ReadInv, Write, Numbered
    <2>4. CASE pcb[cur]
      <3>1. packets' = [packets EXCEPT ![cur] = Append(old, entry)]
        BY <2>1, <2>4 DEF Write
      <3>2. /\ Len(old) \in Nat /\ Len(old) % Packets = PackCnt /\ Numbered(old)
            /\ old \in Seq(PacketsSent)
        BY <1>1, <2>4 DEF ReadInv
      <3>3. (Len(old) + 1) % Packets = IF PackCnt + 1 = Packets THEN 0 ELSE PackCnt + 1
        BY <1>1, <3>2, NextRemainder
      <3>4. /\ Len(Append(old, entry)) = Len(old) + 1
            /\ \A i \in 1 .. Len(old) : Append(old, entry)[i] = old[i]
            /\ Append(old, entry)[Len(old) + 1] = entry
        BY <3>2
      <3>5. Numbered(Append(old, entry))
        <4> SUFFICES ASSUME NEW i \in 1 .. Len(old) + 1
                     PROVE  Append(old, entry)[i]
                              = [number |-> ((i - 1) % Packets) + 1, block |-> (i - 1) % Packets]
          BY <3>4 DEF Numbered
        <4>1. CASE i \in 1 .. Len(old)
          BY <3>2, <3>4, <4>1 DEF Numbered
        <4>2. CASE i = Len(old) + 1
          <5>1. i - 1 = Len(old)
            BY <3>2, <4>2
          <5> QED BY <3>2, <3>4, <4>2, <5>1
        <4> QED BY <3>2, <4>1, <4>2
      <3>6. packets'[cur] = Append(old, entry) /\ \A c \in Conns : c # cur => packets'[c] = packets[c]
        BY <1>1, <3>1
      <3>7. \A c \in Conns : Numbered(packets'[c]) /\ (c # cur' => packets'[c] = <<>>)
        BY <1>1, <3>5, <3>6 DEF ReadInv
      <3>8. Len(packets'[cur]) % Packets = IF thread' \in {"send", "overrun"} THEN PackCnt' ELSE 0
        BY <2>1, <3>3, <3>4, <3>6
      <3>9. thread' # "overrun"
        BY <2>1
      <3> QED BY <1>1, <2>1, <2>2, <3>7, <3>8, <3>9 DEF ReadInv, Numbered
    <2> QED BY <2>3, <2>4
  <1>3. CASE ~Fits
    <2>1. thread' = "overrun" /\ UNCHANGED <<packets, PackCnt>>
      BY <1>3 DEF SendUpData, SendPacket
    <2> QED BY <1>1, <1>3, <2>1 DEF ReadInv, Numbered, Fits
  <1> QED BY <1>2, <1>3

\* A command to read the area back begins with the first packet.
LEMMA HandleRead ==
  ASSUME IInv, ReadInv, Handle
  PROVE  ReadInv'
  <1>1. /\ thread = "handle" /\ cur \in Conns /\ UNCHANGED <<cur, pcb, packets>>
        /\ \/ thread' = "send" /\ PackCnt' = 0
           \/ thread' = "recv"
    BY DEF Handle, EthernetInterfaceHandler, IInv, Serving
  <1>2. 0 < Packets
    BY Sizes
  <1> QED BY <1>1, <1>2 DEF ReadInv, Numbered

LEMMA DeleteRead ==
  ASSUME IInv, ReadInv, Delete
  PROVE  ReadInv'
  <1>1. /\ cur \in Conns /\ cur' = None /\ thread' = "accept"
        /\ packets' = [packets EXCEPT ![cur] = <<>>] /\ packets \in [Conns -> Seq(PacketsSent)]
    BY DEF Delete, DeleteTo, IInv, Serving, TypeOK
  <1>2. None \notin Conns
    BY ConnsNat
  <1>3. \A c \in Conns : packets'[c] = <<>>
    BY <1>1 DEF ReadInv
  <1> QED BY <1>1, <1>2, <1>3, NoneNumbered DEF ReadInv, Numbered

\* A connection that is accepted has got no packets yet.
LEMMA AcceptRead ==
  ASSUME IInv, ReadInv, Accept
  PROVE  ReadInv'
  <1>1. /\ thread = "accept" /\ cur = None /\ thread' \in {"keepalive", "returned"}
        /\ UNCHANGED packets
    BY DEF Accept, AcceptEntry, IInv, Serving, replied
  <1>2. \A c \in Conns : packets[c] = <<>>
    BY <1>1, ConnsNat DEF ReadInv
  <1> QED BY <1>1, <1>2, NoneNumbered DEF ReadInv, Numbered

\* All other steps write no packet, and give no connection a control block
\* but one that is not served yet.
LEMMA ReadSame ==
  ASSUME ReadInv, UNCHANGED <<cur, packets, PackCnt>>,
         cur \in Conns /\ pcb'[cur] => pcb[cur],
         thread \in {"send", "overrun"} \/ thread' \in {"send", "overrun"} => thread' = thread
  PROVE  ReadInv'
  BY DEF ReadInv, Numbered, Fits

LEMMA ConnectRead ==
  ASSUME IInv, ReadInv, NEW c \in Conns, Connect(c)
  PROVE  ReadInv'
  <1>1. netconn[c] = "none" /\ UNCHANGED <<thread, cur, packets, PackCnt>>
        /\ (pcb' = pcb \/ pcb' = [pcb EXCEPT ![c] = TRUE])
    BY DEF Connect, accept_function, Queue, Refuse, command, replied
  <1>2. c # cur
    BY <1>1 DEF IInv, Owned
  <1>3. cur \in Conns /\ pcb'[cur] => pcb[cur]
    BY <1>1, <1>2 DEF IInv, TypeOK
  <1> QED BY <1>1, <1>3, ReadSame

LEMMA OthersRead ==
  ASSUME IInv, ReadInv,
         \/ SetKeepAlive \/ Receive \/ Close \/ UNCHANGED serverVars
         \/ \E c \in Conns : Deliver(c) \/ KeepaliveTimeout(c) \/ Client(c)
  PROVE  ReadInv'
  <1>1. CASE SetKeepAlive \/ Receive \/ Close
    <2>1. /\ thread \in {"keepalive", "recv", "close"}
          /\ thread' \in {"recv", "fault", "handle", "close", "delete"}
          /\ UNCHANGED <<cur, packets, PackCnt>>
      BY <1>1 DEF SetKeepAlive, Receive, Close, command, replied
    <2>2. pcb' = pcb \/ pcb' = [pcb EXCEPT ![cur] = FALSE]
      BY <1>1 DEF SetKeepAlive, Receive, Close
    <2>3. pcb \in [Conns -> BOOLEAN]
      BY DEF IInv, TypeOK
    <2> QED BY <2>1, <2>2, <2>3, ReadSame
  <1>2. CASE UNCHANGED serverVars
    BY <1>2, ReadSame DEF serverVars
  <1>3. ASSUME NEW c \in Conns, Deliver(c) \/ KeepaliveTimeout(c) \/ Client(c)
        PROVE  ReadInv'
    <2>1. /\ UNCHANGED <<thread, cur, packets, PackCnt>>
          /\ pcb' = pcb \/ pcb' = [pcb EXCEPT ![c] = FALSE]
      BY <1>3 DEF Deliver, recv_tcp, KeepaliveTimeout, err_tcp, Client, Send, Finish, Reset, Vanish,
                  command, replied
    <2>2. pcb \in [Conns -> BOOLEAN]
      BY DEF IInv, TypeOK
    <2> QED BY <2>1, <2>2, ReadSame
  <1> QED BY <1>1, <1>2, <1>3

LEMMA AlwaysReadInv == Spec => [](IInv /\ ReadInv)
  <1>1. IInv /\ ReadInv /\ [Next]_serverVars => ReadInv'
    BY SendRead, HandleRead, DeleteRead, AcceptRead, ConnectRead, OthersRead
       DEF Next, ServerThread, Stack
  <1> QED BY InitRead, <1>1, AlwaysIInv, PTL DEF Spec

\* The first word behind the last packet is a value of the counter.
CounterFits == Packets * PackWords < CounterValues

\* A counter that fits the whole area fits every packet.
LEMMA AllFit == CounterFits /\ PackCnt \in Nat /\ PackCnt < Packets => Fits
  <1> SUFFICES ASSUME CounterFits, PackCnt \in Nat, PackCnt < Packets PROVE Fits
    OBVIOUS
  <1>1. PICK n \in Nat : Packets = (PackCnt + 1) + n
    <2>1. Packets - (PackCnt + 1) \in Nat /\ Packets = (PackCnt + 1) + (Packets - (PackCnt + 1))
      BY Sizes
    <2> QED BY <2>1
  <1>2. Packets * PackWords = (PackCnt * PackWords + PackWords) + n * PackWords
    BY <1>1, Sizes
  <1>3. /\ n * PackWords \in Nat /\ PackCnt * PackWords + PackWords \in Nat
        /\ CounterValues \in Nat
    BY Sizes
  <1> QED BY <1>2, <1>3 DEF CounterFits, Fits

\* SendUpData sends the packets of the backup area in order, each with its
\* number, and after the last again from the first; and if its counter can
\* count the words of the whole area, every readback reaches the last packet.
\* (With 192 packets of 512 words and 16 bits, it cannot.)
THEOREM ReadbackInOrder ==
  /\ Spec => [](\A c \in Conns : Numbered(packets[c]))
  /\ CounterFits => (Spec => []ReadbackExact)
  <1>1. IInv /\ ReadInv => \A c \in Conns : Numbered(packets[c])
    BY DEF ReadInv
  <1>2. Spec => [](\A c \in Conns : Numbered(packets[c]))
    BY <1>1, AlwaysReadInv, PTL
  <1>3. ASSUME CounterFits
        PROVE  Spec => []ReadbackExact
    <2>1. IInv /\ ReadInv => ReadbackExact
      <3> SUFFICES ASSUME IInv, ReadInv PROVE ReadbackExact
        OBVIOUS
      <3>1. thread # "overrun"
        BY <1>3, AllFit DEF ReadInv
      <3>2. cur # None => cur \in Conns
        BY DEF IInv, TypeOK
      <3> QED BY <3>1, <3>2 DEF ReadInv, Numbered, ReadbackExact
    <2> QED BY <2>1, AlwaysReadInv, PTL
  <1> QED BY <1>2, <1>3

-----------------------------------------------------------------------------
(* The order in which clients are served.                                  *)

Made == {c \in Conns : netconn[c] \notin {"none", "refused"}}
Waiting == {c \in Conns : netconn[c] = "queued"}

LEMMA PromiseStays ==
  /\ Promise!Init <=> Made = {} /\ Waiting = {} /\ cur = None
  /\ UNCHANGED <<netconn, cur>> => UNCHANGED Promise!serverSpecVars
  BY DEF Promise!Init, Promise!serverSpecVars, Made, Waiting

LEMMA PromiseConnect ==
  ASSUME NEW c \in Conns, \A d \in Made : d < c,
         Made' = Made \cup {c}, Waiting' = Waiting \cup {c}, cur' = cur
  PROVE  Promise!Next
  <1>1. Promise!Connect(c)
    BY DEF Promise!Connect, Made, Waiting
  <1> QED BY <1>1 DEF Promise!Next

LEMMA PromiseServe ==
  ASSUME NEW c \in Conns, cur = None, c \in Waiting, \A d \in Waiting : c <= d,
         cur' = c, Waiting' = Waiting \ {c}, Made' = Made
  PROVE  Promise!Next
  <1>1. Promise!Serve(c)
    BY DEF Promise!Serve, Made, Waiting
  <1> QED BY <1>1 DEF Promise!Next

LEMMA PromiseLeave ==
  ASSUME cur # None, cur' = None, Made' = Made, Waiting' = Waiting
  PROVE  Promise!Next
  <1>1. Promise!Leave
    BY DEF Promise!Leave, Made, Waiting
  <1> QED BY <1>1 DEF Promise!Next

\* The client that is accepted is the one that connected first.
LEMMA AcceptInTurn == IInv /\ Accept => Promise!Next \/ UNCHANGED <<netconn, cur>>
  <1> SUFFICES ASSUME IInv, Accept, ~(UNCHANGED <<netconn, cur>>) PROVE Promise!Next
    OBVIOUS
  <1> USE DEF IInv
  <1> DEFINE c == acceptmbox[1]
  <1>1. /\ thread = "accept" /\ acceptmbox # <<>> /\ acceptmbox \in Seq(Conns \cup {Abrt})
        /\ netconn \in [Conns -> NetconnStates]
        /\ Len(acceptmbox) \in Nat /\ 1 \in 1 .. Len(acceptmbox) /\ c = Head(acceptmbox)
    BY DEF Accept, TypeOK
  <1>2. c # Abrt /\ cur' = c /\ netconn' = [netconn EXCEPT ![c] = "served"]
    BY <1>1 DEF Accept, AcceptEntry
  <1>3. c \in Conns /\ netconn[c] = "queued" /\ cur = None
    BY <1>1, <1>2 DEF Queued, Serving
  <1>4. \A d \in Waiting : c <= d
    <2> SUFFICES ASSUME NEW d \in Conns, netconn[d] = "queued" PROVE c <= d
      BY DEF Waiting
    <2>1. PICK i \in 1 .. Len(acceptmbox) : acceptmbox[i] = d
      BY DEF Queued
    <2>2. 1 < i => c < d
      BY <1>1, <1>2, <2>1, ConnsNat DEF Queued
    <2> QED BY <1>1, <1>3, <2>1, <2>2, ConnsNat
  <1> HIDE DEF c
  <1>5. Waiting' = Waiting \ {c}
    <2> SUFFICES ASSUME NEW d \in Conns
                 PROVE  netconn'[d] = "queued" <=> netconn[d] = "queued" /\ d # c
      BY DEF Waiting
    <2> QED BY <1>1, <1>2, <1>3
  <1>6. Made' = Made
    <2> SUFFICES ASSUME NEW d \in Conns
                 PROVE  netconn'[d] \in {"none", "refused"} <=> netconn[d] \in {"none", "refused"}
      BY DEF Made
    <2> QED BY <1>1, <1>2, <1>3
  <1>7. c \in Waiting
    BY <1>3 DEF Waiting
  <1> QED BY <1>2, <1>3, <1>4, <1>5, <1>6, <1>7, PromiseServe

LEMMA DeleteLeaves == IInv /\ Delete => Promise!Next
  <1> SUFFICES ASSUME IInv, Delete PROVE Promise!Next  OBVIOUS
  <1> USE DEF IInv
  <1>1. /\ cur \in Conns /\ cur' = None /\ netconn' = [netconn EXCEPT ![cur] = "freed"]
        /\ netconn[cur] = "served"
        /\ netconn \in [Conns -> NetconnStates]
    BY DEF Delete, DeleteTo, Serving, Owned, TypeOK
  <1>2. Waiting' = Waiting
    <2> SUFFICES ASSUME NEW d \in Conns PROVE netconn'[d] = "queued" <=> netconn[d] = "queued"
      BY DEF Waiting
    <2> QED BY <1>1
  <1>3. Made' = Made
    <2> SUFFICES ASSUME NEW d \in Conns
                 PROVE  netconn'[d] \in {"none", "refused"} <=> netconn[d] \in {"none", "refused"}
      BY DEF Made
    <2> QED BY <1>1
  <1>4. cur # None
    BY <1>1, ConnsNat
  <1> QED BY <1>1, <1>2, <1>3, <1>4, PromiseLeave

LEMMA ConnectWaits ==
  ASSUME NEW c \in Conns
  PROVE  IInv /\ Connect(c) => Promise!Next \/ UNCHANGED Promise!serverSpecVars
  <1> SUFFICES ASSUME IInv, Connect(c) PROVE Promise!Next \/ UNCHANGED Promise!serverSpecVars
    OBVIOUS
  <1> USE DEF IInv
  <1>1. /\ netconn[c] = "none" /\ cur' = cur
        /\ netconn \in [Conns -> NetconnStates]
        /\ \A d \in Conns : netconn[d] # "none" => ~(c < d) /\ d # c
    BY DEF Connect, accept_function, TypeOK, Queued
  <1>2. CASE Queue(c)
    <2>1. netconn' = [netconn EXCEPT ![c] = "queued"]
      BY <1>2 DEF Queue
    <2>2. \A d \in Made : d < c
      BY <1>1, ConnsNat DEF Made
    <2>3. Made' = Made \cup {c}
      <3> SUFFICES ASSUME NEW d \in Conns
                   PROVE  netconn'[d] \notin {"none", "refused"} <=>
                            netconn[d] \notin {"none", "refused"} \/ d = c
        BY DEF Made
      <3> QED BY <1>1, <2>1
    <2>4. Waiting' = Waiting \cup {c}
      <3> SUFFICES ASSUME NEW d \in Conns
                   PROVE  netconn'[d] = "queued" <=> netconn[d] = "queued" \/ d = c
        BY DEF Waiting
      <3> QED BY <1>1, <2>1
    <2> QED BY <1>1, <2>2, <2>3, <2>4, PromiseConnect
  <1>3. CASE Refuse(c)
    <2>1. netconn' = [netconn EXCEPT ![c] = "refused"]
      BY <1>3 DEF Refuse
    <2>2. Made' = Made
      <3> SUFFICES ASSUME NEW d \in Conns
                   PROVE  netconn'[d] \in {"none", "refused"} <=>
                            netconn[d] \in {"none", "refused"}
        BY DEF Made
      <3> QED BY <1>1, <2>1
    <2>3. Waiting' = Waiting
      <3> SUFFICES ASSUME NEW d \in Conns PROVE netconn'[d] = "queued" <=> netconn[d] = "queued"
        BY DEF Waiting
      <3> QED BY <1>1, <2>1
    <2>4. UNCHANGED <<Made, Waiting, cur>>
      BY <1>1, <2>2, <2>3
    <2> QED BY <2>4 DEF Promise!serverSpecVars, Made, Waiting
  <1> QED BY <1>2, <1>3 DEF Connect, accept_function

\* The thread serves its clients one at a time, in the order in which they
\* connected (netconn_accept takes the oldest of the accept mailbox).
THEOREM ClientsInTurn == Spec => ServesInTurn
  <1>1. Init => Promise!Init
    <2> SUFFICES ASSUME Init PROVE Made = {} /\ Waiting = {} /\ cur = None
      BY PromiseStays
    <2> QED BY DEF Init, Made, Waiting
  <1>2. IInv /\ [Next]_serverVars => [Promise!Next]_(Promise!serverSpecVars)
    <2> SUFFICES ASSUME IInv, [Next]_serverVars, ~(UNCHANGED <<netconn, cur>>)
                 PROVE  Promise!Next \/ UNCHANGED Promise!serverSpecVars
      BY PromiseStays
    <2>1. ServerThread \/ \E c \in Conns : Stack(c) \/ Client(c)
      BY DEF Next, serverVars
    <2>2. CASE ServerThread
      <3>1. Accept \/ Delete
        BY <2>2 DEF ServerThread, SetKeepAlive, Receive, Handle, EthernetInterfaceHandler,
                    SendUpData, SendPacket, Close
      <3> QED BY <3>1, AcceptInTurn, DeleteLeaves
    <2>3. ASSUME NEW c \in Conns, Stack(c) \/ Client(c)
          PROVE  Promise!Next \/ UNCHANGED Promise!serverSpecVars
      <3>1. Connect(c)
        BY <2>3 DEF Stack, Client, Deliver, recv_tcp, KeepaliveTimeout, err_tcp, Send, Finish,
                    Reset, Vanish
      <3> QED BY <3>1, ConnectWaits
    <2>4. CASE \E c \in Conns : Stack(c) \/ Client(c)
      <3>1. PICK c \in Conns : Stack(c) \/ Client(c)
        BY <2>4
      <3> QED BY <3>1, <2>3
    <2> QED BY <2>1, <2>2, <2>4
  <1> QED BY <1>1, <1>2, AlwaysIInv, PTL DEF Spec, ServesInTurn, Promise!Spec
=============================================================================
