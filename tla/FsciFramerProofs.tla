-------------------------- MODULE FsciFramerProofs --------------------------
(***************************************************************************)
(* What the framer of FsciFramer keeps and delivers, for any boards, any   *)
(* streams and any chunks.                                                 *)
(*                                                                         *)
(* From the state alone: the queue is the piece of the stream between two  *)
(* places, pos and got; the frame under way holds what the stream holds    *)
(* from its SYNC on (Matches).  From the steps: each reads the piece of the *)
(* stream it takes as Read does, so that the frames due and those still to *)
(* be read make up the frames of the stream (Accounts); and no frame lies  *)
(* in the chunks whose announcement is used up (Covered).                  *)
(***************************************************************************)
EXTENDS FsciFramer, LeastAndGreatest, SequenceTheorems, TLAPS

-----------------------------------------------------------------------------
(* Induction over sequences.                                               *)

\* A set that has the empty sequence, and what it has with an element more, has them all.
LEMMA AppendInduction ==
  ASSUME NEW X, NEW T, <<>> \in T,
         \A s \in Seq(X), e \in X : s \in T => Append(s, e) \in T
  PROVE  \A s \in Seq(X) : s \in T
  <1> DEFINE S == {n \in Nat : \A s \in Seq(X) : Len(s) = n => s \in T}
  <1>1. 0 \in S
    OBVIOUS
  <1>2. ASSUME NEW n \in S PROVE n + 1 \in S
    <2> SUFFICES ASSUME NEW s \in Seq(X), Len(s) = n + 1 PROVE s \in T
      OBVIOUS
    <2>1. s # <<>>
      OBVIOUS
    <2>2. PICK r \in Seq(X), e \in X : s = Append(r, e)
      BY <2>1, SequenceEmptyOrAppend
    <2>3. Len(r) = n
      BY <2>2, AppendProperties
    <2> QED BY <2>2, <2>3
  <1>3. \A n \in Nat : n \in S
    <2>1. S \in SUBSET Nat
      OBVIOUS
    <2> HIDE DEF S
    <2> QED BY <1>1, <1>2, <2>1, Induction
  <1> QED BY <1>3

-----------------------------------------------------------------------------
(* The bytes of a queue.                                                   *)

Upto(q) == CHOOSE f : f = [k \in 0 .. Len(q) |-> IF k = 0 THEN <<>> ELSE f[k - 1] \o q[k]]

LEMMA BytesAre == \A q : Bytes(q) = Upto(q)[Len(q)]
  BY DEF Bytes, Upto

LEMMA UptoIs ==
  ASSUME NEW X, NEW q \in Seq(Seq(X))
  PROVE  Upto(q) = [k \in 0 .. Len(q) |-> IF k = 0 THEN <<>> ELSE Upto(q)[k - 1] \o q[k]]
  <1> DEFINE D == 0 .. Len(q)
             R == Seq(X)
             F == [f \in [D -> R] |-> [k \in D |-> IF k = 0 THEN <<>> ELSE f[k - 1] \o q[k]]]
             m == [k \in D |-> k]
  <1>1. Len(q) \in Nat /\ R # {} /\ m \in [D -> 0 .. Len(q)]
    <2>1. <<>> \in R
      OBVIOUS
    <2> QED BY <2>1
  <1>2. F \in [[D -> R] -> [D -> R]]
    <2> SUFFICES ASSUME NEW f \in [D -> R], NEW k \in D
                 PROVE  (IF k = 0 THEN <<>> ELSE f[k - 1] \o q[k]) \in R
      OBVIOUS
    <2>1. k # 0 => k - 1 \in D /\ k \in 1 .. Len(q)
      BY <1>1
    <2>2. k # 0 => q[k] \in Seq(X) /\ f[k - 1] \in Seq(X)
      BY <2>1, ElementOfSeq
    <2>3. k # 0 => f[k - 1] \o q[k] \in Seq(X)
      BY <2>2
    <2> QED BY <2>3
  <1>3. ASSUME NEW f \in [D -> R], NEW g \in [D -> R], NEW k \in D,
               \A j \in D : m[j] < m[k] => f[j] = g[j]
        PROVE  F[f][k] = F[g][k]
    <2>1. k # 0 => k - 1 \in D /\ m[k - 1] < m[k]
      BY <1>1
    <2> QED BY <1>3, <2>1
  <1>4. \E f \in [D -> R] : F[f] = f
    <2> HIDE DEF F, D, R, m
    <2>1. Recursive(D, R, Len(q), m, F)
      BY <1>1, <1>2, <1>3 DEF Recursive
    <2> QED BY <2>1, Recursion
  <1>5. \E f : f = [k \in 0 .. Len(q) |-> IF k = 0 THEN <<>> ELSE f[k - 1] \o q[k]]
    BY <1>4
  <1> QED BY <1>5 DEF Upto

LEMMA UptoAt ==
  ASSUME NEW X, NEW q \in Seq(Seq(X))
  PROVE  /\ Upto(q)[0] = <<>>
         /\ \A k \in 1 .. Len(q) : Upto(q)[k] = Upto(q)[k - 1] \o q[k]
  <1> DEFINE f == Upto(q)
             g == [k \in 0 .. Len(q) |-> IF k = 0 THEN <<>> ELSE f[k - 1] \o q[k]]
  <1>1. f = g
    BY UptoIs
  <1>2. Len(q) \in Nat
    OBVIOUS
  <1> HIDE DEF f
  <1>3. g[0] = <<>> /\ \A k \in 1 .. Len(q) : g[k] = f[k - 1] \o q[k]
    <2>1. 0 \in 0 .. Len(q) /\ \A k \in 1 .. Len(q) : k \in 0 .. Len(q) /\ k # 0
      BY <1>2
    <2> QED BY <2>1, Zenon
  <1> HIDE DEF g
  <1>4. f[0] = <<>> /\ \A k \in 1 .. Len(q) : f[k] = f[k - 1] \o q[k]
    BY <1>1, <1>3
  <1> QED BY <1>4 DEF f

\* It depends on the chunks taken only.
LEMMA UptoPrefix ==
  ASSUME NEW X, NEW q \in Seq(Seq(X)), NEW c \in Seq(X)
  PROVE  \A k \in 0 .. Len(q) : Upto(Append(q, c))[k] = Upto(q)[k] /\ Upto(q)[k] \in Seq(X)
  <1> DEFINE r == Append(q, c)
             S == {k \in Nat : k <= Len(q) => Upto(r)[k] = Upto(q)[k] /\ Upto(q)[k] \in Seq(X)}
  <1>1. r \in Seq(Seq(X)) /\ Len(r) = Len(q) + 1 /\ \A k \in 1 .. Len(q) : r[k] = q[k]
    BY AppendProperties
  <1> HIDE DEF r
  <1>2. Upto(q)[0] = <<>> /\ \A k \in 1 .. Len(q) : Upto(q)[k] = Upto(q)[k - 1] \o q[k]
    BY UptoAt
  <1>3. Upto(r)[0] = <<>> /\ \A k \in 1 .. Len(r) : Upto(r)[k] = Upto(r)[k - 1] \o r[k]
    BY <1>1, UptoAt
  <1>4. 0 \in S
    <2>1. <<>> \in Seq(X)
      OBVIOUS
    <2> QED BY <2>1, <1>2, <1>3
  <1>5. ASSUME NEW k \in S PROVE k + 1 \in S
    <2> SUFFICES ASSUME k + 1 <= Len(q)
                 PROVE  Upto(r)[k + 1] = Upto(q)[k + 1] /\ Upto(q)[k + 1] \in Seq(X)
      OBVIOUS
    <2>1. k \in Nat /\ k + 1 \in 1 .. Len(q) /\ Len(q) \in Nat /\ (k + 1) - 1 = k
      OBVIOUS
    <2>2. q[k + 1] \in Seq(X) /\ r[k + 1] = q[k + 1]
      BY <1>1, <2>1, ElementOfSeq
    <2>3. Upto(q)[k + 1] = Upto(q)[k] \o q[k + 1]
      BY <1>2, <2>1
    <2>4. k + 1 \in 1 .. Len(r)
      BY <1>1, <2>1
    <2>5. Upto(r)[k + 1] = Upto(r)[k] \o r[k + 1]
      BY <1>3, <2>1, <2>4
    <2>6. Upto(r)[k] = Upto(q)[k] /\ Upto(q)[k] \in Seq(X)
      BY <2>1
    <2> QED BY <2>2, <2>3, <2>5, <2>6
  <1>6. \A k \in Nat : k \in S
    <2>1. S \in SUBSET Nat
      OBVIOUS
    <2> HIDE DEF S
    <2> QED BY <1>4, <1>5, <2>1, Induction
  <1> QED BY <1>6 DEF r

LEMMA BytesOfNone == Bytes(<<>>) = <<>>
  <1>1. <<>> \in Seq(Seq({})) /\ Len(<<>>) = 0
    OBVIOUS
  <1>2. Upto(<<>>)[0] = <<>>
    BY <1>1, UptoAt
  <1> QED BY <1>1, <1>2, BytesAre

LEMMA BytesType ==
  ASSUME NEW X, NEW q \in Seq(Seq(X))
  PROVE  Bytes(q) \in Seq(X)
  <1>1. <<>> \in Seq(X) /\ Len(q) \in 0 .. Len(q)
    OBVIOUS
  <1>2. Upto(q)[Len(q)] \in Seq(X)
    BY <1>1, UptoPrefix
  <1> QED BY <1>2, BytesAre

LEMMA BytesOfAppend ==
  ASSUME NEW X, NEW q \in Seq(Seq(X)), NEW c \in Seq(X)
  PROVE  Bytes(Append(q, c)) = Bytes(q) \o c
  <1> DEFINE r == Append(q, c)
  <1>1. r \in Seq(Seq(X)) /\ Len(r) = Len(q) + 1 /\ r[Len(q) + 1] = c /\ Len(q) \in Nat
    BY AppendProperties
  <1>2. Upto(r)[Len(q)] = Upto(q)[Len(q)]
    BY <1>1, UptoPrefix
  <1> HIDE DEF r
  <1>3. \A k \in 1 .. Len(r) : Upto(r)[k] = Upto(r)[k - 1] \o r[k]
    BY <1>1, UptoAt
  <1>4. Len(r) \in 1 .. Len(r) /\ Len(r) - 1 = Len(q)
    BY <1>1
  <1>5. Upto(r)[Len(r)] = Upto(r)[Len(q)] \o c
    BY <1>1, <1>3, <1>4
  <1>6. Bytes(r) = Upto(r)[Len(r)] /\ Bytes(q) = Upto(q)[Len(q)]
    BY BytesAre
  <1> QED BY <1>2, <1>5, <1>6 DEF r

LEMMA BytesOfConcat ==
  ASSUME NEW X, NEW q \in Seq(Seq(X))
  PROVE  \A r \in Seq(Seq(X)) : Bytes(q \o r) = Bytes(q) \o Bytes(r)
  <1> DEFINE T == {r \in Seq(Seq(X)) : Bytes(q \o r) = Bytes(q) \o Bytes(r)}
  <1>1. Bytes(q) \in Seq(X)
    BY BytesType
  <1>2. <<>> \in T
    BY <1>1, BytesOfNone, ConcatEmptySeq
  <1>3. ASSUME NEW r \in Seq(Seq(X)), NEW c \in Seq(X), r \in T PROVE Append(r, c) \in T
    <2>1. Append(r, c) \in Seq(Seq(X)) /\ q \o r \in Seq(Seq(X))
      OBVIOUS
    <2>2. q \o Append(r, c) = Append(q \o r, c)
      OBVIOUS
    <2>3. Bytes(Append(q \o r, c)) = Bytes(q \o r) \o c
      BY <2>1, BytesOfAppend
    <2>4. Bytes(Append(r, c)) = Bytes(r) \o c /\ Bytes(r) \in Seq(X)
      BY BytesOfAppend, BytesType
    <2>5. (Bytes(q) \o Bytes(r)) \o c = Bytes(q) \o (Bytes(r) \o c)
      BY <1>1, <2>4, ConcatAssociative
    <2> QED BY <1>3, <2>1, <2>2, <2>3, <2>4, <2>5
  <1>4. \A r \in Seq(Seq(X)) : r \in T
    <2> HIDE DEF T
    <2> QED BY <1>2, <1>3, AppendInduction
  <1> QED BY <1>4

LEMMA BytesOfOne ==
  ASSUME NEW X, NEW c \in Seq(X)
  PROVE  Bytes(<<c>>) = c
  <1>1. <<>> \in Seq(Seq(X)) /\ Append(<<>>, c) = <<c>>
    OBVIOUS
  <1>2. Bytes(Append(<<>>, c)) = Bytes(<<>>) \o c
    BY <1>1, BytesOfAppend
  <1>3. <<>> \o c = c
    BY ConcatEmptySeq
  <1> QED BY <1>1, <1>2, <1>3, BytesOfNone

LEMMA BytesOfCons ==
  ASSUME NEW X, NEW q \in Seq(Seq(X)), NEW c \in Seq(X)
  PROVE  Bytes(<<c>> \o q) = c \o Bytes(q)
  <1>1. <<c>> \in Seq(Seq(X))
    OBVIOUS
  <1>2. \A r \in Seq(Seq(X)) : Bytes(<<c>> \o r) = Bytes(<<c>>) \o Bytes(r)
    BY <1>1, BytesOfConcat
  <1>3. Bytes(<<c>> \o q) = Bytes(<<c>>) \o Bytes(q)
    BY <1>2
  <1> QED BY <1>3, BytesOfOne

-----------------------------------------------------------------------------
(* A queue and its chunks.                                                 *)

Chunk == Seq(Byte) \ {<<>>}

\* The bytes of a queue in all but its last e chunks.
Old(q, e) == Len(Bytes(SubSeq(q, 1, Len(q) - e)))

LEMMA ChunkFacts == \A c \in Chunk : c \in Seq(Byte) /\ Len(c) \in Nat /\ Len(c) >= 1
  <1> SUFFICES ASSUME NEW c \in Chunk PROVE c \in Seq(Byte) /\ Len(c) \in Nat /\ Len(c) >= 1
    OBVIOUS
  <1>1. c \in Seq(Byte) /\ c # <<>>
    BY DEF Chunk
  <1> HIDE DEF Chunk
  <1> QED BY <1>1, EmptySeq

LEMMA QueueFacts ==
  ASSUME NEW q \in Seq(Chunk)
  PROVE  /\ q \in Seq(Seq(Byte)) /\ Len(q) \in Nat
         /\ Bytes(q) \in Seq(Byte) /\ Len(Bytes(q)) \in Nat
  <1>1. Chunk \subseteq Seq(Byte)
    BY ChunkFacts
  <1>2. q \in Seq(Seq(Byte))
    BY <1>1, SeqMonotonic
  <1>3. Bytes(q) \in Seq(Byte)
    BY <1>2, BytesType
  <1> QED BY <1>2, <1>3

LEMMA ChunksAreNotEmpty == \A q \in Seq(Chunk) : Len(q) <= Len(Bytes(q))
  <1> DEFINE T == {q \in Seq(Chunk) : Len(q) <= Len(Bytes(q))}
  <1>1. <<>> \in T
    BY BytesOfNone
  <1>2. ASSUME NEW q \in Seq(Chunk), NEW c \in Chunk, q \in T PROVE Append(q, c) \in T
    <2>1. c \in Seq(Byte) /\ Len(c) \in Nat /\ Len(c) >= 1
      BY ChunkFacts
    <2>2. q \in Seq(Seq(Byte)) /\ Bytes(q) \in Seq(Byte) /\ Len(q) \in Nat /\ Len(Bytes(q)) \in Nat
      BY QueueFacts
    <2>3. Bytes(Append(q, c)) = Bytes(q) \o c
      BY <2>1, <2>2, BytesOfAppend
    <2>4. Len(Bytes(q) \o c) = Len(Bytes(q)) + Len(c)
      BY <2>1, <2>2
    <2>5. Append(q, c) \in Seq(Chunk) /\ Len(Append(q, c)) = Len(q) + 1
      BY AppendProperties
    <2> QED BY <1>2, <2>1, <2>2, <2>3, <2>4, <2>5
  <1> HIDE DEF T
  <1>3. \A q \in Seq(Chunk) : q \in T
    BY <1>1, <1>2, AppendInduction
  <1> QED BY <1>3 DEF T

\* A queue cut between two chunks.
LEMMA CutFacts ==
  ASSUME NEW q \in Seq(Chunk), NEW k \in 0 .. Len(q)
  PROVE  /\ SubSeq(q, 1, k) \in Seq(Chunk) /\ Len(SubSeq(q, 1, k)) = k
         /\ SubSeq(q, k + 1, Len(q)) \in Seq(Chunk)
         /\ q = SubSeq(q, 1, k) \o SubSeq(q, k + 1, Len(q))
         /\ Bytes(q) = Bytes(SubSeq(q, 1, k)) \o Bytes(SubSeq(q, k + 1, Len(q)))
         /\ Len(Bytes(q)) = Len(Bytes(SubSeq(q, 1, k))) + Len(Bytes(SubSeq(q, k + 1, Len(q))))
  <1>1. Len(q) \in Nat /\ k \in Nat
    OBVIOUS
  <1>2. SubSeq(q, 1, k) \in Seq(Chunk) /\ Len(SubSeq(q, 1, k)) = k
    BY <1>1
  <1>3. SubSeq(q, k + 1, Len(q)) \in Seq(Chunk)
    BY <1>1
  <1>4. q = SubSeq(q, 1, k) \o SubSeq(q, k + 1, Len(q))
    <2>1. 1 \in 1 .. Len(q) + 1 /\ k \in 1 - 1 .. Len(q) /\ Len(q) \in k .. Len(q)
      BY <1>1
    <2>2. SubSeq(q, 1, k) \o SubSeq(q, k + 1, Len(q)) = SubSeq(q, 1, Len(q))
      BY <2>1, ConcatAdjacentSubSeq
    <2> QED BY <2>2, SubSeqFull
  <1> DEFINE a == SubSeq(q, 1, k)
             b == SubSeq(q, k + 1, Len(q))
  <1>5. a \in Seq(Chunk) /\ b \in Seq(Chunk) /\ q = a \o b
    BY <1>2, <1>3, <1>4
  <1> HIDE DEF a, b
  <1>6. a \in Seq(Seq(Byte)) /\ b \in Seq(Seq(Byte))
    BY <1>5, QueueFacts
  <1>7. \A r \in Seq(Seq(Byte)) : Bytes(a \o r) = Bytes(a) \o Bytes(r)
    BY <1>6, BytesOfConcat
  <1>8. Bytes(q) = Bytes(a) \o Bytes(b)
    BY <1>5, <1>6, <1>7
  <1>9. Bytes(a) \in Seq(Byte) /\ Bytes(b) \in Seq(Byte)
    BY <1>5, QueueFacts
  <1>10. Len(Bytes(q)) = Len(Bytes(a)) + Len(Bytes(b))
    BY <1>8, <1>9
  <1> QED BY <1>2, <1>3, <1>4, <1>8, <1>10 DEF a, b

LEMMA OldFacts ==
  ASSUME NEW q \in Seq(Chunk), NEW e \in Nat
  PROVE  /\ Old(q, e) \in Nat /\ Old(q, e) <= Len(Bytes(q))
         /\ Old(q, 0) = Len(Bytes(q))
         /\ Old(q, e) = 0 <=> Len(q) <= e
         /\ Old(q, e + 1) <= Old(q, e)
  <1>1. Len(q) \in Nat
    OBVIOUS
  <1>2. ASSUME Len(q) <= e PROVE Old(q, e) = 0 /\ Old(q, e + 1) = 0
    <2>1. SubSeq(q, 1, Len(q) - e) = <<>> /\ SubSeq(q, 1, Len(q) - (e + 1)) = <<>>
      BY <1>1, <1>2, SubSeqEmpty
    <2>2. Len(Bytes(<<>>)) = 0
      BY BytesOfNone, EmptySeq
    <2> QED BY <2>1, <2>2, Zenon DEF Old
  <1>3. Old(q, 0) = Len(Bytes(q))
    <2>1. Len(q) - 0 = Len(q) /\ SubSeq(q, 1, Len(q)) = q
      BY <1>1, SubSeqFull
    <2> QED BY <2>1 DEF Old
  <1>4. ASSUME Len(q) > e
        PROVE  Old(q, e) \in Nat /\ 0 < Old(q, e) /\ Old(q, e) <= Len(Bytes(q)) /\ Old(q, e + 1) <= Old(q, e)
    <2> DEFINE k == Len(q) - e
               a == SubSeq(q, 1, k)
    <2>1. k \in 0 .. Len(q) /\ k - 1 \in 0 .. k /\ k \in Nat /\ k > 0 /\ Len(q) - (e + 1) = k - 1
      BY <1>1, <1>4
    <2> HIDE DEF k
    <2>2. a \in Seq(Chunk) /\ Len(a) = k /\ SubSeq(q, k + 1, Len(q)) \in Seq(Chunk)
          /\ Len(Bytes(q)) = Len(Bytes(a)) + Len(Bytes(SubSeq(q, k + 1, Len(q))))
      BY <2>1, CutFacts
    <2>3. Len(Bytes(a)) \in Nat /\ Len(Bytes(SubSeq(q, k + 1, Len(q)))) \in Nat /\ k <= Len(Bytes(a))
      BY <2>2, QueueFacts, ChunksAreNotEmpty
    <2>4. SubSeq(a, 1, k - 1) = SubSeq(q, 1, k - 1)
      BY <2>1
    <2> HIDE DEF a
    <2>5. SubSeq(a, 1, k - 1) \in Seq(Chunk) /\ SubSeq(a, k - 1 + 1, Len(a)) \in Seq(Chunk)
          /\ Len(Bytes(a)) = Len(Bytes(SubSeq(a, 1, k - 1))) + Len(Bytes(SubSeq(a, k - 1 + 1, Len(a))))
      BY <2>1, <2>2, CutFacts
    <2>6. Len(Bytes(SubSeq(a, 1, k - 1))) \in Nat /\ Len(Bytes(SubSeq(a, k - 1 + 1, Len(a)))) \in Nat
      BY <2>5, QueueFacts
    <2>7. Old(q, e) = Len(Bytes(a)) /\ Old(q, e + 1) = Len(Bytes(SubSeq(a, 1, k - 1)))
      BY <2>1, <2>4 DEF Old, k, a
    <2> QED BY <2>1, <2>2, <2>3, <2>5, <2>6, <2>7
  <1>5. Len(Bytes(q)) \in Nat
    BY QueueFacts
  <1> QED BY <1>1, <1>2, <1>3, <1>4, <1>5

LEMMA OldOfAppend ==
  ASSUME NEW q \in Seq(Chunk), NEW c \in Chunk, NEW e \in Nat
  PROVE  Old(Append(q, c), e + 1) = Old(q, e)
  <1> DEFINE r == Append(q, c)
  <1>1. r \in Seq(Chunk) /\ Len(r) = Len(q) + 1 /\ Len(q) \in Nat
    BY AppendProperties
  <1>2. SubSeq(r, 1, Len(q) - e) = SubSeq(q, 1, Len(q) - e)
    OBVIOUS
  <1>3. Len(r) - (e + 1) = Len(q) - e
    BY <1>1
  <1> QED BY <1>2, <1>3 DEF Old

LEMMA OldOfCons ==
  ASSUME NEW q \in Seq(Chunk), NEW c \in Chunk, NEW e \in Nat
  PROVE  Old(<<c>> \o q, e) = IF e <= Len(q) THEN Len(c) + Old(q, e) ELSE 0
  <1> DEFINE r == <<c>> \o q
  <1>1. r \in Seq(Chunk) /\ Len(r) = Len(q) + 1 /\ Len(q) \in Nat
    OBVIOUS
  <1>2. CASE e > Len(q)
    <2>1. Len(r) - e < 1
      BY <1>1, <1>2
    <2>2. SubSeq(r, 1, Len(r) - e) = <<>>
      BY <1>1, <2>1, SubSeqEmpty
    <2>3. Len(Bytes(<<>>)) = 0
      BY BytesOfNone, EmptySeq
    <2>4. Old(r, e) = 0
      BY <2>2, <2>3, Zenon DEF Old
    <2>5. ~ (e <= Len(q))
      BY <1>1, <1>2
    <2> QED BY <2>4, <2>5
  <1>3. CASE e <= Len(q)
    <2> DEFINE s == SubSeq(q, 1, Len(q) - e)
    <2>1. s \in Seq(Chunk)
      BY <1>1, <1>3
    <2>2. SubSeq(r, 1, Len(r) - e) = <<c>> \o s
      BY <1>1, <1>3
    <2> HIDE DEF s
    <2>3. c \in Seq(Byte) /\ s \in Seq(Seq(Byte)) /\ Bytes(s) \in Seq(Byte)
      BY <2>1, ChunkFacts, QueueFacts
    <2>4. Bytes(<<c>> \o s) = c \o Bytes(s)
      BY <2>3, BytesOfCons
    <2>5. Len(c \o Bytes(s)) = Len(c) + Len(Bytes(s))
      BY <2>3
    <2>6. Old(r, e) = Len(c) + Len(Bytes(s))
      BY <2>2, <2>4, <2>5 DEF Old
    <2>7. Old(q, e) = Len(Bytes(s))
      BY Zenon DEF Old, s
    <2> QED BY <1>3, <2>6, <2>7
  <1> QED BY <1>1, <1>2, <1>3

\* The oldest chunk is what is old but for all the others.
LEMMA OldOfHead ==
  ASSUME NEW q \in Seq(Chunk), NEW e \in Nat, Len(q) = e + 1
  PROVE  Old(q, e) = Len(q[1])
  <1>1. SubSeq(q, 1, Len(q) - e) = <<q[1]>> /\ q[1] \in Chunk
    <2>1. Len(q) - e = 1 /\ 1 \in 1 .. Len(q)
      OBVIOUS
    <2>2. q[1] \in Chunk
      BY <2>1, ElementOfSeq
    <2> DEFINE a == SubSeq(q, 1, 1)
               b == <<q[1]>>
    <2>3. a \in Seq(Chunk) /\ Len(a) = 1 /\ a[1] = q[1]
      BY <2>1, <2>2
    <2>4. b \in Seq(Chunk) /\ Len(b) = 1 /\ b[1] = q[1]
      BY <2>2
    <2> HIDE DEF a, b
    <2>5. a = b
      <3>1. Len(a) = Len(b) /\ \A i \in 1 .. Len(a) : a[i] = b[i]
        BY <2>3, <2>4
      <3> QED BY <2>3, <2>4, <3>1, SeqEqual
    <2> QED BY <2>1, <2>2, <2>5 DEF a, b
  <1>2. q[1] \in Seq(Byte)
    BY <1>1, ChunkFacts
  <1> QED BY <1>1, <1>2, BytesOfOne DEF Old

-----------------------------------------------------------------------------
(* Reading from a queue.                                                   *)

Before(q, k) == Len(Bytes(SubSeq(q, 1, k)))

\* What Drop leaves: nothing, or the rest of the chunk that holds the first byte left and the
\* chunks behind it.
LEMMA DropIs ==
  ASSUME NEW q \in Seq(Chunk), NEW n \in 0 .. Len(Bytes(q))
  PROVE  \/ Drop(q, n) = <<>> /\ n = Len(Bytes(q))
         \/ \E k \in 0 .. Len(q) - 1 :
              /\ Before(q, k) <= n /\ n < Before(q, k + 1)
              /\ Drop(q, n) = <<SubSeq(q[k + 1], n - Before(q, k) + 1, Len(q[k + 1]))>>
                                \o SubSeq(q, k + 2, Len(q))
  <1> DEFINE P(k) == Before(q, k) <= n /\ (k < Len(q) => n < Before(q, k + 1))
             T == {j \in 0 .. Len(q) : \E k \in 0 .. Len(q) : k = Len(q) - j /\ n < Before(q, k)}
             used == CHOOSE k \in 0 .. Len(q) : P(k)
  <1>1. Len(q) \in Nat /\ n \in Nat
    BY QueueFacts
  <1>2. Before(q, 0) = 0 /\ Before(q, Len(q)) = Len(Bytes(q))
    <2>1. SubSeq(q, 1, 0) = <<>> /\ SubSeq(q, 1, Len(q)) = q
      BY SubSeqEmpty, SubSeqFull
    <2>2. Len(<<>>) = 0
      BY EmptySeq
    <2> QED BY <2>1, <2>2, BytesOfNone, Zenon DEF Before
  <1>3. \A k \in 0 .. Len(q) : Before(q, k) \in Nat
    <2> SUFFICES ASSUME NEW k \in 0 .. Len(q) PROVE Before(q, k) \in Nat
      OBVIOUS
    <2>1. SubSeq(q, 1, k) \in Seq(Chunk)
      BY CutFacts
    <2> QED BY <2>1, QueueFacts DEF Before
  <1> HIDE DEF Before
  <1>4. \E k \in 0 .. Len(q) : P(k)
    <2> DEFINE S == {k \in Nat : k <= Len(q) => Before(q, k) <= n}
    <2> SUFFICES ASSUME \A k \in 0 .. Len(q) : ~P(k) PROVE FALSE
      OBVIOUS
    <2>1. 0 \in S
      BY <1>1, <1>2
    <2>2. ASSUME NEW k \in S PROVE k + 1 \in S
      <3> SUFFICES ASSUME k + 1 <= Len(q) PROVE Before(q, k + 1) <= n
        OBVIOUS
      <3>1. k \in 0 .. Len(q) /\ k + 1 \in 0 .. Len(q) /\ Before(q, k) <= n
        BY <1>1
      <3> QED BY <1>1, <1>3, <3>1
    <2>3. \A k \in Nat : k \in S
      <3>1. S \in SUBSET Nat
        OBVIOUS
      <3> HIDE DEF S
      <3> QED BY <2>1, <2>2, <3>1, Induction
    <2>4. P(Len(q))
      BY <1>1, <2>3
    <2> QED BY <1>1, <2>4
  <1>5. used \in 0 .. Len(q) /\ P(used)
    <2> HIDE DEF P
    <2> QED BY <1>4
  <1>6. Drop(q, n) = IF used = Len(q) THEN <<>>
                     ELSE <<SubSeq(q[used + 1], n - Before(q, used) + 1, Len(q[used + 1]))>>
                            \o SubSeq(q, used + 2, Len(q))
    BY DEF Drop, Before
  <1> HIDE DEF used
  <1>7. CASE used = Len(q)
    <2>1. n = Len(Bytes(q))
      BY <1>1, <1>2, <1>3, <1>5, <1>7, QueueFacts
    <2> QED BY <1>6, <1>7, <2>1
  <1>8. CASE used # Len(q)
    <2>1. used \in 0 .. Len(q) - 1 /\ Before(q, used) <= n /\ n < Before(q, used + 1)
      BY <1>1, <1>5, <1>8
    <2> QED BY <1>6, <1>8, <2>1
  <1> QED BY <1>7, <1>8

LEMMA OldOfConcat ==
  ASSUME NEW p \in Seq(Chunk), NEW q \in Seq(Chunk), NEW e \in 0 .. Len(q)
  PROVE  Old(p \o q, e) = Len(Bytes(p)) + Old(q, e)
  <1> DEFINE r == p \o q
             s == SubSeq(q, 1, Len(q) - e)
  <1>1. r \in Seq(Chunk) /\ Len(r) = Len(p) + Len(q) /\ Len(q) \in Nat /\ Len(p) \in Nat
    OBVIOUS
  <1>2. s \in Seq(Chunk)
    BY <1>1
  <1>3. SubSeq(r, 1, Len(r) - e) = p \o s
    BY <1>1
  <1> HIDE DEF s
  <1>4. p \in Seq(Seq(Byte)) /\ s \in Seq(Seq(Byte)) /\ Bytes(s) \in Seq(Byte) /\ Bytes(p) \in Seq(Byte)
    BY <1>2, QueueFacts
  <1>5. \A t \in Seq(Seq(Byte)) : Bytes(p \o t) = Bytes(p) \o Bytes(t)
    BY <1>4, BytesOfConcat
  <1>6. Bytes(p \o s) = Bytes(p) \o Bytes(s)
    BY <1>4, <1>5
  <1>7. Len(Bytes(p) \o Bytes(s)) = Len(Bytes(p)) + Len(Bytes(s))
    BY <1>4
  <1>8. Old(r, e) = Len(Bytes(p)) + Len(Bytes(s))
    BY <1>3, <1>6, <1>7 DEF Old
  <1>9. Old(q, e) = Len(Bytes(s))
    BY Zenon DEF Old, s
  <1> QED BY <1>8, <1>9

\* The fewer chunks are left out, the more bytes are old.
LEMMA OldDecreases ==
  ASSUME NEW q \in Seq(Chunk), NEW e \in Nat, NEW d \in Nat, e <= d
  PROVE  Old(q, d) <= Old(q, e)
  <1> DEFINE p == SubSeq(q, 1, Len(q) - e)
  <1>1. Len(q) \in Nat
    OBVIOUS
  <1>2. CASE Len(q) <= d
    <2>1. Old(q, d) = 0 /\ Old(q, e) \in Nat
      BY <1>2, OldFacts
    <2> QED BY <2>1
  <1>3. CASE d < Len(q)
    <2>1. p \in Seq(Chunk) /\ Len(p) = Len(q) - e /\ Len(q) - d \in 0 .. Len(p)
      BY <1>1, <1>3
    <2>2. SubSeq(p, 1, Len(q) - d) = SubSeq(q, 1, Len(q) - d)
      BY <1>1, <1>3
    <2> HIDE DEF p
    <2> DEFINE k == Len(q) - d
    <2>3. SubSeq(p, 1, k) \in Seq(Chunk) /\ SubSeq(p, k + 1, Len(p)) \in Seq(Chunk)
          /\ Len(Bytes(p)) = Len(Bytes(SubSeq(p, 1, k))) + Len(Bytes(SubSeq(p, k + 1, Len(p))))
      <3>1. k \in 0 .. Len(p)
        BY <2>1
      <3> HIDE DEF k
      <3> QED BY <2>1, <3>1, CutFacts
    <2>4. Len(Bytes(SubSeq(p, 1, k))) \in Nat /\ Len(Bytes(SubSeq(p, k + 1, Len(p)))) \in Nat
      BY <2>3, QueueFacts
    <2>5. Old(q, d) = Len(Bytes(SubSeq(p, 1, k))) /\ Old(q, e) = Len(Bytes(p))
      BY <2>2 DEF Old, p
    <2> HIDE DEF k
    <2> QED BY <2>3, <2>4, <2>5
  <1> QED BY <1>1, <1>2, <1>3

\* Drop takes the first n bytes, the oldest ones first.
Dropped(r, q, n) ==
  /\ r \in Seq(Chunk)
  /\ Bytes(r) = SubSeq(Bytes(q), n + 1, Len(Bytes(q)))
  /\ \A e \in Nat : Old(r, e) = IF Old(q, e) <= n THEN 0 ELSE Old(q, e) - n

LEMMA MiddleOfConcat ==
  ASSUME NEW X, NEW x \in Seq(X), NEW c \in Seq(X), NEW y \in Seq(X), NEW j \in 1 .. Len(c) + Len(y)
  PROVE  (x \o (c \o y))[Len(x) + j] = (c \o y)[j]
  <1> DEFINE t == c \o y
  <1>1. t \in Seq(X) /\ Len(t) = Len(c) + Len(y)
    BY ConcatProperties
  <1> HIDE DEF t
  <1>2. Len(x) \in Nat /\ Len(t) \in Nat /\ j \in 1 .. Len(t)
    BY <1>1
  <1>3. Len(x) + j \in 1 .. Len(x) + Len(t) /\ ~ (Len(x) + j <= Len(x)) /\ Len(x) + j - Len(x) = j
    BY <1>2
  <1>4. (x \o t)[Len(x) + j] = t[Len(x) + j - Len(x)]
    BY <1>1, <1>3, ConcatProperties
  <1> QED BY <1>3, <1>4 DEF t

\* What follows n bytes of x, c and y when those bytes end m bytes into c.
EndsWithin(x, c, y, m, n) ==
  SubSeq(x \o (c \o y), n + 1, Len(x \o (c \o y))) = SubSeq(c, m + 1, Len(c)) \o y

\* The end of three parts read in a row, from within the middle one.
LEMMA CutOfConcat ==
  ASSUME NEW x \in Seq(Byte), NEW c \in Seq(Byte), NEW y \in Seq(Byte), NEW m \in 0 .. Len(c),
         NEW n \in Nat, n = Len(x) + m
  PROVE  EndsWithin(x, c, y, m, n)
  <1> DEFINE b == x \o (c \o y)
             t == c \o y
             a == SubSeq(c, m + 1, Len(c))
             u == a \o y
             v == SubSeq(b, n + 1, Len(b))
  <1>1. /\ Len(x) \in Nat /\ Len(c) \in Nat /\ Len(y) \in Nat /\ m \in Nat /\ m <= Len(c)
    OBVIOUS
  <1>2. t \in Seq(Byte) /\ Len(t) = Len(c) + Len(y)
    BY ConcatProperties
  <1>3. a \in Seq(Byte) /\ Len(a) = Len(c) - m /\ \A i \in 1 .. Len(c) - m : a[i] = c[m + i]
    OBVIOUS
  <1>4. b \in Seq(Byte) /\ Len(b) = Len(x) + Len(c) + Len(y)
    <2>1. Len(x \o t) = Len(x) + Len(t) /\ x \o t \in Seq(Byte)
      BY <1>2, ConcatProperties
    <2> QED BY <1>1, <1>2, <2>1
  <1> HIDE DEF a, b
  <1>5. u \in Seq(Byte) /\ Len(u) = Len(c) - m + Len(y)
    <2>1. Len(u) = Len(a) + Len(y) /\ u \in Seq(Byte)
      BY <1>3, ConcatProperties
    <2> QED BY <1>1, <1>3, <2>1
  <1>6. n + 1 \in Nat /\ n + 1 <= Len(b) + 1 /\ Len(b) \in Nat /\ n + 1 >= 1
    BY <1>1, <1>4
  <1>7. v \in Seq(Byte) /\ Len(v) = Len(b) - n /\ \A i \in 1 .. Len(b) - n : v[i] = b[n + i]
    BY <1>4, <1>6
  <1> HIDE DEF u, v
  <1>8. Len(b) - n = Len(c) - m + Len(y)
    BY <1>1, <1>4
  <1>9. ASSUME NEW i \in 1 .. Len(u) PROVE u[i] = v[i]
    <2>1. i \in 1 .. Len(b) - n /\ i \in Nat /\ i >= 1 /\ i <= Len(c) - m + Len(y)
      BY <1>1, <1>5, <1>8
    <2>2. v[i] = b[n + i]
      BY <1>7, <2>1
    <2>3. n + i = Len(x) + (m + i) /\ m + i \in 1 .. Len(c) + Len(y)
      BY <1>1, <2>1
    <2>4. b[n + i] = t[m + i]
      <3>1. (x \o (c \o y))[Len(x) + (m + i)] = (c \o y)[m + i]
        BY <2>3, MiddleOfConcat
      <3> QED BY <2>3, <3>1 DEF b
    <2>5. CASE i <= Len(c) - m
      <3>1. m + i \in 1 .. Len(c) /\ i \in 1 .. Len(a) /\ i \in 1 .. Len(c) - m
        BY <1>1, <1>3, <2>1, <2>5
      <3>2. t[m + i] = c[m + i]
        BY <3>1, ConcatProperties
      <3>3. (a \o y)[i] = a[i]
        BY <1>3, <3>1, ConcatProperties
      <3>4. a[i] = c[m + i]
        BY <1>3, <3>1
      <3> HIDE DEF t
      <3> QED BY <2>2, <2>4, <3>2, <3>3, <3>4 DEF u
    <2>6. CASE ~ (i <= Len(c) - m)
      <3>1. /\ ~ (m + i <= Len(c)) /\ m + i - Len(c) = i - (Len(c) - m)
            /\ i \in 1 .. Len(a) + Len(y) /\ ~ (i <= Len(a))
        BY <1>1, <1>3, <2>1, <2>6
      <3>2. t[m + i] = y[m + i - Len(c)]
        BY <2>3, <3>1, ConcatProperties
      <3>3. (a \o y)[i] = y[i - Len(a)]
        BY <1>3, <3>1, ConcatProperties
      <3> HIDE DEF t
      <3> QED BY <1>3, <2>2, <2>4, <3>1, <3>2, <3>3 DEF u
    <2> QED BY <2>5, <2>6
  <1>10. v = u
    <2>1. Len(u) = Len(v)
      BY <1>5, <1>7, <1>8
    <2> QED BY <1>5, <1>7, <1>9, <2>1, SeqEqual
  <1> QED BY <1>10 DEF a, b, u, v, EndsWithin

LEMMA DropFacts ==
  ASSUME NEW q \in Seq(Chunk), NEW n \in 0 .. Len(Bytes(q))
  PROVE  Dropped(Drop(q, n), q, n)
  <1>1. Len(q) \in Nat /\ n \in Nat /\ Bytes(q) \in Seq(Byte) /\ Len(Bytes(q)) \in Nat
    BY QueueFacts
  <1>2. CASE Drop(q, n) = <<>> /\ n = Len(Bytes(q))
    <2>1. SubSeq(Bytes(q), n + 1, Len(Bytes(q))) = <<>>
      BY <1>1, <1>2, SubSeqEmpty
    <2>2. <<>> \in Seq(Chunk) /\ Bytes(<<>>) = <<>>
      BY BytesOfNone, EmptySeq
    <2>3. ASSUME NEW e \in Nat PROVE Old(<<>>, e) = 0 /\ Old(q, e) <= n
      <3>1. Len(<<>>) <= e
        BY EmptySeq
      <3>2. Old(<<>>, e) = 0
        BY <2>2, <3>1, OldFacts
      <3>3. Old(q, e) <= Len(Bytes(q))
        BY OldFacts
      <3> QED BY <1>2, <3>2, <3>3
    <2> QED BY <1>2, <2>1, <2>2, <2>3 DEF Dropped
  <1>3. ASSUME NEW k \in 0 .. Len(q) - 1, Before(q, k) <= n, n < Before(q, k + 1),
               Drop(q, n) = <<SubSeq(q[k + 1], n - Before(q, k) + 1, Len(q[k + 1]))>>
                              \o SubSeq(q, k + 2, Len(q))
        PROVE  Dropped(Drop(q, n), q, n)
    <2> DEFINE p == SubSeq(q, 1, k)
               c == q[k + 1]
               r == SubSeq(q, k + 2, Len(q))
               m == n - Before(q, k)
               cut == SubSeq(c, m + 1, Len(c))
    <2>1. k \in 0 .. Len(q) /\ k \in Nat /\ k + 1 \in 1 .. Len(q) /\ k + 1 <= Len(q)
      BY <1>1
    <2>2. p \in Seq(Chunk) /\ Len(p) = k /\ q = p \o SubSeq(q, k + 1, Len(q))
      BY <2>1, CutFacts
    <2>3. c \in Chunk
      BY <2>1, ElementOfSeq
    <2>4. r \in Seq(Chunk) /\ Len(r) = Len(q) - k - 1
      BY <1>1, <2>1
    <2>5. SubSeq(q, k + 1, Len(q)) = <<c>> \o r
      <3>1. Len(q) \in k + 1 .. Len(q) /\ k + 1 + 1 = k + 2
        BY <2>1
      <3> QED BY <2>1, <3>1, SubSeqRecursiveFirst
    <2>6. Drop(q, n) = <<cut>> \o r
      BY <1>3
    <2>7. q = p \o (<<c>> \o r)
      BY <2>2, <2>5
    <2>8. Before(q, k) = Len(Bytes(p)) /\ Before(q, k) \in Nat
      <3>1. Len(Bytes(p)) \in Nat
        BY <2>2, QueueFacts
      <3> QED BY <3>1 DEF Before
    <2>9. Before(q, k + 1) = Old(q, Len(r))
      <3>1. Len(q) - Len(r) = k + 1
        <4> HIDE DEF r
        <4> QED BY <1>1, <2>1, <2>4
      <3> QED BY <3>1, Zenon DEF Before, Old
    <2>10. \A e \in Nat : e >= Len(r) + 1 => Old(q, e) <= Before(q, k)
      <3>1. Len(q) - (Len(r) + 1) = k
        <4> HIDE DEF r
        <4> QED BY <1>1, <2>1, <2>4
      <3>2. Before(q, k) = Old(q, Len(r) + 1)
        BY <3>1, Zenon DEF Before, Old
      <3>3. Len(r) + 1 \in Nat
        BY <2>4
      <3> HIDE DEF r
      <3> QED BY <3>2, <3>3, OldDecreases
    <2> HIDE DEF p, c, r
    <2>11. <<c>> \o r \in Seq(Chunk) /\ Len(<<c>> \o r) = Len(r) + 1
      BY <2>3, <2>4
    <2>12. \A e \in 0 .. Len(r) : Old(q, e) = Before(q, k) + Len(c) + Old(r, e)
      <3> SUFFICES ASSUME NEW e \in 0 .. Len(r) PROVE Old(q, e) = Before(q, k) + Len(c) + Old(r, e)
        OBVIOUS
      <3>1. e \in Nat /\ e <= Len(r) /\ e \in 0 .. Len(<<c>> \o r) /\ Len(c) \in Nat /\ Old(r, e) \in Nat
        <4>1. Len(r) \in Nat /\ Len(c) \in Nat
          BY <2>3, <2>4, ChunkFacts
        <4>2. e \in Nat /\ e <= Len(r) /\ e \in 0 .. Len(<<c>> \o r)
          BY <2>11, <4>1
        <4>3. Old(r, e) \in Nat
          BY <2>4, <4>2, OldFacts
        <4> QED BY <4>1, <4>2, <4>3
      <3>2. Old(<<c>> \o r, e) = Len(c) + Old(r, e)
        BY <2>3, <2>4, <3>1, OldOfCons
      <3>3. Old(q, e) = Len(Bytes(p)) + Old(<<c>> \o r, e)
        BY <2>2, <2>7, <2>11, <3>1, OldOfConcat
      <3> QED BY <2>8, <3>1, <3>2, <3>3
    <2>13. c \in Seq(Byte) /\ Len(c) \in Nat /\ Len(r) \in Nat
      BY <2>3, <2>4, ChunkFacts
    <2>14. Before(q, k + 1) = Before(q, k) + Len(c)
      <3>1. Len(r) \in 0 .. Len(r) /\ Len(r) <= Len(r)
        BY <2>13
      <3>2. Old(r, Len(r)) = 0
        BY <2>4, <2>13, <3>1, OldFacts
      <3> QED BY <2>8, <2>9, <2>12, <2>13, <3>1, <3>2
    <2>15. m \in 0 .. Len(c) - 1 /\ m \in Nat
      BY <1>1, <1>3, <2>8, <2>13, <2>14
    <2>16. cut \in Chunk /\ cut \in Seq(Byte) /\ Len(cut) = Len(c) - m
      <3> HIDE DEF m
      <3>1. cut \in Seq(Byte) /\ Len(cut) = Len(c) - m
        BY <2>13, <2>15
      <3>2. cut # <<>>
        <4> HIDE DEF cut
        <4>1. Len(cut) # 0
          BY <2>13, <2>15, <3>1
        <4> QED BY <4>1, EmptySeq
      <3> QED BY <3>1, <3>2 DEF Chunk
    <2>17. Drop(q, n) \in Seq(Chunk)
      <3> HIDE DEF cut
      <3> QED BY <2>4, <2>6, <2>16
    <2>18. Bytes(Drop(q, n)) = SubSeq(Bytes(q), n + 1, Len(Bytes(q)))
      <3>1. p \in Seq(Seq(Byte)) /\ r \in Seq(Seq(Byte)) /\ <<c>> \o r \in Seq(Seq(Byte))
            /\ Bytes(p) \in Seq(Byte) /\ Bytes(r) \in Seq(Byte)
        BY <2>2, <2>4, <2>11, QueueFacts
      <3>2. \A t \in Seq(Seq(Byte)) : Bytes(p \o t) = Bytes(p) \o Bytes(t)
        BY <3>1, BytesOfConcat
      <3>3. Bytes(<<c>> \o r) = c \o Bytes(r)
        BY <2>13, <3>1, BytesOfCons
      <3>4. Bytes(q) = Bytes(p) \o (c \o Bytes(r))
        BY <2>7, <3>1, <3>2, <3>3
      <3>5. Bytes(Drop(q, n)) = cut \o Bytes(r)
        <4> HIDE DEF cut
        <4> QED BY <2>6, <2>16, <3>1, BytesOfCons
      <3> DEFINE x == Bytes(p)
                 y == Bytes(r)
      <3>6. x \in Seq(Byte) /\ y \in Seq(Byte) /\ n = Len(x) + m /\ Len(x) \in Nat /\ Len(y) \in Nat
        BY <1>1, <2>8, <3>1
      <3> HIDE DEF x, y, m
      <3>7. SubSeq(x \o (c \o y), n + 1, Len(x \o (c \o y))) = SubSeq(c, m + 1, Len(c)) \o y
        <4>1. m \in 0 .. Len(c) /\ n \in Nat /\ n = Len(x) + m
          BY <1>1, <2>13, <2>15, <3>6
        <4>2. x \in Seq(Byte) /\ c \in Seq(Byte) /\ y \in Seq(Byte)
          BY <2>13, <3>6
        <4>3. EndsWithin(x, c, y, m, n)
          BY <4>1, <4>2, CutOfConcat, Zenon
        <4> QED BY <4>3 DEF EndsWithin
      <3> QED BY <3>4, <3>5, <3>7 DEF x, y
    <2>19. ASSUME NEW e \in Nat
           PROVE  Old(Drop(q, n), e) = IF Old(q, e) <= n THEN 0 ELSE Old(q, e) - n
      <3> HIDE DEF cut
      <3>1. Old(<<cut>> \o r, e) = IF e <= Len(r) THEN Len(cut) + Old(r, e) ELSE 0
        BY <2>4, <2>16, OldOfCons
      <3>2. CASE e <= Len(r)
        <4>1. Old(q, e) = Before(q, k) + Len(c) + Old(r, e) /\ Old(r, e) \in Nat
          <5>1. e \in 0 .. Len(r)
            BY <2>13, <3>2
          <5> QED BY <2>4, <2>12, <5>1, OldFacts
        <4>2. Len(cut) + Old(r, e) = Old(q, e) - n /\ ~ (Old(q, e) <= n)
          BY <1>1, <2>8, <2>13, <2>15, <2>16, <4>1
        <4> QED BY <2>6, <3>1, <3>2, <4>2
      <3>3. CASE e > Len(r)
        <4>1. e >= Len(r) + 1 /\ ~ (e <= Len(r))
          BY <2>13, <3>3
        <4>2. Old(q, e) <= Before(q, k) /\ Old(q, e) \in Nat
          BY <2>10, <4>1, OldFacts
        <4>3. Old(q, e) <= n
          BY <1>1, <1>3, <2>8, <4>2
        <4> QED BY <2>6, <3>1, <4>1, <4>3
      <3> QED BY <2>13, <3>2, <3>3
    <2> QED BY <2>17, <2>18, <2>19 DEF Dropped
  <1> QED BY <1>2, <1>3, DropIs

\* Junk stops at the first SYNC, or where the queue ends.
LEMMA JunkFacts ==
  ASSUME NEW q \in Seq(Chunk)
  PROVE  /\ Junk(q) \in 0 .. Len(Bytes(q))
         /\ \A i \in 1 .. Junk(q) : Bytes(q)[i] # SYNC
         /\ Junk(q) < Len(Bytes(q)) => Bytes(q)[Junk(q) + 1] = SYNC
  <1> DEFINE b == Bytes(q)
             P(n) == (\A i \in 1 .. n : b[i] # SYNC) /\ (n < Len(b) => b[n + 1] = SYNC)
  <1>1. Len(b) \in Nat
    BY QueueFacts
  <1>2. Junk(q) = CHOOSE n \in 0 .. Len(b) : P(n)
    BY DEF Junk
  <1> HIDE DEF b
  <1>3. \E n \in 0 .. Len(b) : P(n)
    <2> DEFINE S == {n \in Nat : n <= Len(b) => \A i \in 1 .. n : b[i] # SYNC}
    <2> SUFFICES ASSUME \A n \in 0 .. Len(b) : ~P(n) PROVE FALSE
      OBVIOUS
    <2>1. 0 \in S
      OBVIOUS
    <2>2. ASSUME NEW n \in S PROVE n + 1 \in S
      <3> SUFFICES ASSUME n + 1 <= Len(b), NEW i \in 1 .. n + 1 PROVE b[i] # SYNC
        OBVIOUS
      <3>1. n \in 0 .. Len(b) /\ n < Len(b) /\ \A j \in 1 .. n : b[j] # SYNC
        BY <1>1
      <3>2. b[n + 1] # SYNC
        BY <3>1
      <3> QED BY <3>1, <3>2
    <2>3. \A n \in Nat : n \in S
      <3>1. S \in SUBSET Nat
        OBVIOUS
      <3> HIDE DEF S
      <3> QED BY <2>1, <2>2, <3>1, Induction
    <2>4. P(Len(b))
      BY <1>1, <2>3
    <2> QED BY <1>1, <2>4
  <1>4. Junk(q) \in 0 .. Len(b) /\ P(Junk(q))
    <2> HIDE DEF P
    <2> QED BY <1>2, <1>3
  <1> QED BY <1>4 DEF b

Peeking(q, n) == CHOOSE f : f =
  [k \in 0 .. n |->
     IF k = n THEN <<>>
     ELSE IF k >= Len(q) THEN [i \in 1 .. n - k |-> 0]
     ELSE IF Len(q[k + 1]) <= n - k THEN q[k + 1] \o f[k + Len(q[k + 1])]
     ELSE SubSeq(q[k + 1], 1, n - k)]

LEMMA PeekIs == \A q, n : Peek(q, n) = Peeking(q, n)[0]
  BY DEF Peek, Peeking

LEMMA PeekingIs ==
  ASSUME NEW q \in Seq(Chunk), NEW n \in Nat
  PROVE  Peeking(q, n) =
           [k \in 0 .. n |->
              IF k = n THEN <<>>
              ELSE IF k >= Len(q) THEN [i \in 1 .. n - k |-> 0]
              ELSE IF Len(q[k + 1]) <= n - k THEN q[k + 1] \o Peeking(q, n)[k + Len(q[k + 1])]
              ELSE SubSeq(q[k + 1], 1, n - k)]
  <1> DEFINE D == 0 .. n
             R == Seq(Byte)
             G(f, k) == IF k = n THEN <<>>
                        ELSE IF k >= Len(q) THEN [i \in 1 .. n - k |-> 0]
                        ELSE IF Len(q[k + 1]) <= n - k THEN q[k + 1] \o f[k + Len(q[k + 1])]
                        ELSE SubSeq(q[k + 1], 1, n - k)
             F == [f \in [D -> R] |-> [k \in D |-> G(f, k)]]
             m == [k \in D |-> n - k]
  <1>1. Len(q) \in Nat /\ R # {} /\ m \in [D -> 0 .. n]
    <2>1. <<>> \in R
      OBVIOUS
    <2>2. \A k \in D : n - k \in 0 .. n
      OBVIOUS
    <2>3. m \in [D -> 0 .. n]
      <3> HIDE DEF D
      <3> QED BY <2>2
    <2>4. Len(q) \in Nat
      OBVIOUS
    <2> HIDE DEF D, R, m
    <2> QED BY <2>1, <2>3, <2>4
  <1>2. \A k \in D : k # n /\ k < Len(q) =>
          q[k + 1] \in Seq(Byte) /\ Len(q[k + 1]) \in Nat /\ Len(q[k + 1]) >= 1
    <2> SUFFICES ASSUME NEW k \in D, k # n, k < Len(q)
                 PROVE  q[k + 1] \in Seq(Byte) /\ Len(q[k + 1]) \in Nat /\ Len(q[k + 1]) >= 1
      OBVIOUS
    <2>1. k + 1 \in 1 .. Len(q)
      BY <1>1
    <2>2. q[k + 1] \in Chunk
      BY <2>1, ElementOfSeq
    <2> QED BY <2>2, ChunkFacts
  <1>3. \A f \in [D -> R], k \in D : G(f, k) \in R
    <2> SUFFICES ASSUME NEW f \in [D -> R], NEW k \in D PROVE G(f, k) \in R
      OBVIOUS
    <2>1. CASE k = n
      BY <2>1
    <2>2. CASE k # n /\ k >= Len(q)
      <3>1. [i \in 1 .. n - k |-> 0] \in Seq(Byte)
        <4>1. n - k \in Nat
          BY <2>2
        <4>2. [i \in 1 .. n - k |-> 0] \in [1 .. n - k -> Byte]
          BY DEF Byte
        <4>3. Seq(Byte) = UNION {[1 .. j -> Byte] : j \in Nat}
          BY SeqDef
        <4>4. [1 .. n - k -> Byte] \in {[1 .. j -> Byte] : j \in Nat}
          BY <4>1
        <4> QED BY <4>2, <4>3, <4>4, Zenon
      <3> QED BY <2>2, <3>1
    <2>3. CASE k # n /\ k < Len(q) /\ Len(q[k + 1]) <= n - k
      <3>1. k + Len(q[k + 1]) \in D
        BY <1>2, <2>3
      <3>2. q[k + 1] \o f[k + Len(q[k + 1])] \in Seq(Byte)
        BY <1>2, <2>3, <3>1
      <3> QED BY <1>1, <2>3, <3>2
    <2>4. CASE k # n /\ k < Len(q) /\ Len(q[k + 1]) > n - k
      <3>1. SubSeq(q[k + 1], 1, n - k) \in Seq(Byte)
        BY <1>2, <2>4
      <3> QED BY <1>1, <1>2, <2>4, <3>1
    <2>5. k = n \/ (k # n /\ k >= Len(q)) \/ (k # n /\ k < Len(q) /\ Len(q[k + 1]) <= n - k)
          \/ (k # n /\ k < Len(q) /\ Len(q[k + 1]) > n - k)
      BY <1>1, <1>2
    <2> HIDE DEF G
    <2> QED BY <2>1, <2>2, <2>3, <2>4, <2>5
  <1>4. F \in [[D -> R] -> [D -> R]]
    <2> HIDE DEF G, D, R
    <2> QED BY <1>3
  <1>5. ASSUME NEW f \in [D -> R], NEW g \in [D -> R], NEW k \in D,
               \A j \in D : m[j] < m[k] => f[j] = g[j]
        PROVE  F[f][k] = F[g][k]
    <2>1. G(f, k) = G(g, k)
      <3>1. CASE k # n /\ k < Len(q) /\ Len(q[k + 1]) <= n - k
        <4> DEFINE j == k + Len(q[k + 1])
        <4>1. j \in D /\ n - j < n - k
          <5>1. Len(q[k + 1]) \in Nat /\ Len(q[k + 1]) >= 1 /\ Len(q[k + 1]) <= n - k
            BY <1>2, <3>1
          <5> DEFINE l == Len(q[k + 1])
          <5> HIDE DEF l
          <5>2. l \in Nat /\ l >= 1 /\ l <= n - k
            BY <5>1 DEF l
          <5>3. k + l \in 0 .. n /\ n - (k + l) < n - k
            BY <5>2
          <5> QED BY <5>3 DEF l
        <4>2. m[j] < m[k]
          BY <4>1
        <4>3. f[j] = g[j]
          BY <1>5, <4>1, <4>2
        <4> QED BY <4>3
      <3>2. CASE ~ (k # n /\ k < Len(q) /\ Len(q[k + 1]) <= n - k)
        BY <1>1, <3>2
      <3> QED BY <3>1, <3>2
    <2> HIDE DEF G, D, R
    <2> QED BY <2>1
  <1>6. \E f \in [D -> R] : F[f] = f
    <2> HIDE DEF F, D, R, m
    <2>1. Recursive(D, R, n, m, F)
      BY <1>1, <1>4, <1>5 DEF Recursive
    <2> QED BY <2>1, Recursion
  <1>7. \E f : f = [k \in D |-> G(f, k)]
    <2> HIDE DEF D, R, G
    <2> QED BY <1>6
  <1> QED BY <1>7 DEF Peeking

\* A first chunk that is long enough is all that Peek looks at.
LEMMA PeekFacts ==
  ASSUME NEW q \in Seq(Chunk), NEW n \in Nat \ {0}, Len(q) >= 1, Len(q[1]) >= n
  PROVE  Peek(q, n) = SubSeq(q[1], 1, n)
  <1> DEFINE f == Peeking(q, n)
             g == [k \in 0 .. n |->
              IF k = n THEN <<>>
              ELSE IF k >= Len(q) THEN [i \in 1 .. n - k |-> 0]
              ELSE IF Len(q[k + 1]) <= n - k THEN q[k + 1] \o f[k + Len(q[k + 1])]
              ELSE SubSeq(q[k + 1], 1, n - k)]
  <1>1. f = g
    BY PeekingIs
  <1>2. 1 \in 1 .. Len(q) /\ Len(q) \in Nat
    OBVIOUS
  <1>3. q[1] \in Seq(Byte) /\ Len(q[1]) \in Nat
    <2>1. q[1] \in Chunk
      BY <1>2, ElementOfSeq
    <2> QED BY <2>1, ChunkFacts
  <1> HIDE DEF f
  <1>4. g[n] = <<>>
    OBVIOUS
  <1>5. g[0] = IF Len(q[1]) <= n THEN q[1] \o f[Len(q[1])] ELSE SubSeq(q[1], 1, n)
    <2>1. 0 \in 0 .. n /\ 0 # n /\ ~ (0 >= Len(q)) /\ n - 0 = n /\ 0 + 1 = 1 /\ 0 + Len(q[1]) = Len(q[1])
      BY <1>2, <1>3
    <2>2. g[0] = IF 0 = n THEN <<>>
              ELSE IF 0 >= Len(q) THEN [i \in 1 .. n - 0 |-> 0]
              ELSE IF Len(q[0 + 1]) <= n - 0 THEN q[0 + 1] \o f[0 + Len(q[0 + 1])]
              ELSE SubSeq(q[0 + 1], 1, n - 0)
      BY <2>1, Zenon
    <2> HIDE DEF g
    <2> QED BY <2>1, <2>2
  <1> HIDE DEF g
  <1>6. Peek(q, n) = f[0]
    BY PeekIs DEF f
  <1>7. CASE Len(q[1]) <= n
    <2>1. Len(q[1]) = n
      BY <1>3, <1>7
    <2>2. q[1] \o <<>> = q[1] /\ SubSeq(q[1], 1, Len(q[1])) = q[1]
      BY <1>3, ConcatEmptySeq, SubSeqFull
    <2> QED BY <1>1, <1>4, <1>5, <1>6, <1>7, <2>1, <2>2
  <1>8. CASE ~ (Len(q[1]) <= n)
    BY <1>1, <1>5, <1>6, <1>8
  <1> QED BY <1>7, <1>8

-----------------------------------------------------------------------------
(* Checksums.                                                              *)

BitOf(n, w) == (n \div w) % 2
Weights == {1, 2, 4, 8, 16, 32, 64, 128}

\* A byte is the sum of its bits, and any eight bits make a byte.
LEMMA ByteOfBits ==
  ASSUME NEW n \in Byte
  PROVE  /\ \A w \in Weights : BitOf(n, w) \in {0, 1}
         /\ n = BitOf(n, 1) + 2 * BitOf(n, 2) + 4 * BitOf(n, 4) + 8 * BitOf(n, 8) + 16 * BitOf(n, 16)
                  + 32 * BitOf(n, 32) + 64 * BitOf(n, 64) + 128 * BitOf(n, 128)
  BY SMTT(30) DEF Byte, BitOf, Weights

LEMMA BitsOfByte ==
  ASSUME NEW a \in {0, 1}, NEW b \in {0, 1}, NEW c \in {0, 1}, NEW d \in {0, 1},
         NEW e \in {0, 1}, NEW f \in {0, 1}, NEW g \in {0, 1}, NEW h \in {0, 1},
         NEW n, n = a + 2 * b + 4 * c + 8 * d + 16 * e + 32 * f + 64 * g + 128 * h
  PROVE  /\ n \in Byte
         /\ BitOf(n, 1) = a /\ BitOf(n, 2) = b /\ BitOf(n, 4) = c /\ BitOf(n, 8) = d
         /\ BitOf(n, 16) = e /\ BitOf(n, 32) = f /\ BitOf(n, 64) = g /\ BitOf(n, 128) = h
  BY SMTT(30) DEF Byte, BitOf

\* A bit of an exclusive or.
Odd(m, n, w) == (m \div w + n \div w) % 2

LEMMA OddFacts ==
  ASSUME NEW m \in Byte, NEW n \in Byte, NEW w \in Weights
  PROVE  Odd(m, n, w) \in {0, 1} /\ Odd(m, n, w) = (IF BitOf(m, w) = BitOf(n, w) THEN 0 ELSE 1)
  BY SMTT(30) DEF Byte, BitOf, Odd, Weights

LEMMA XorIs ==
  ASSUME NEW m \in Byte, NEW n \in Byte
  PROVE  /\ Xor(m, n) = 1 * Odd(m, n, 1) + 2 * Odd(m, n, 2) + 4 * Odd(m, n, 4) + 8 * Odd(m, n, 8)
                   + 16 * Odd(m, n, 16) + 32 * Odd(m, n, 32) + 64 * Odd(m, n, 64) + 128 * Odd(m, n, 128)
  BY DEF Xor, XorTable, Odd

LEMMA XorFacts ==
  ASSUME NEW m \in Byte, NEW n \in Byte
  PROVE  /\ Xor(m, n) \in Byte
         /\ \A w \in Weights : BitOf(Xor(m, n), w) = IF BitOf(m, w) = BitOf(n, w) THEN 0 ELSE 1
  <1> DEFINE O(w) == Odd(m, n, w)
  <1>1. \A w \in Weights : O(w) \in {0, 1} /\ O(w) = IF BitOf(m, w) = BitOf(n, w) THEN 0 ELSE 1
    BY OddFacts
  <1>2. 1 \in Weights /\ 2 \in Weights /\ 4 \in Weights /\ 8 \in Weights /\ 16 \in Weights
        /\ 32 \in Weights /\ 64 \in Weights /\ 128 \in Weights
    BY DEF Weights
  <1>3. Xor(m, n) = 1 * O(1) + 2 * O(2) + 4 * O(4) + 8 * O(8) + 16 * O(16) + 32 * O(32) + 64 * O(64)
                      + 128 * O(128)
    BY XorIs
  <1> HIDE DEF O
  <1>4. O(1) \in {0, 1} /\ O(2) \in {0, 1} /\ O(4) \in {0, 1} /\ O(8) \in {0, 1} /\ O(16) \in {0, 1}
        /\ O(32) \in {0, 1} /\ O(64) \in {0, 1} /\ O(128) \in {0, 1}
    BY <1>1, <1>2
  <1>5. 1 * O(1) = O(1)
    BY <1>4
  <1>6. Xor(m, n) = O(1) + 2 * O(2) + 4 * O(4) + 8 * O(8) + 16 * O(16) + 32 * O(32) + 64 * O(64)
                      + 128 * O(128)
    BY <1>3, <1>5
  <1>7. /\ Xor(m, n) \in Byte
        /\ BitOf(Xor(m, n), 1) = O(1) /\ BitOf(Xor(m, n), 2) = O(2) /\ BitOf(Xor(m, n), 4) = O(4)
        /\ BitOf(Xor(m, n), 8) = O(8) /\ BitOf(Xor(m, n), 16) = O(16) /\ BitOf(Xor(m, n), 32) = O(32)
        /\ BitOf(Xor(m, n), 64) = O(64) /\ BitOf(Xor(m, n), 128) = O(128)
    BY <1>4, <1>6, BitsOfByte
  <1>8. \A w \in Weights : BitOf(Xor(m, n), w) = O(w)
    BY <1>7 DEF Weights
  <1> QED BY <1>1, <1>7, <1>8

\* Bytes with the same bits are the same.
LEMMA SameBits ==
  ASSUME NEW m \in Byte, NEW n \in Byte, \A w \in Weights : BitOf(m, w) = BitOf(n, w)
  PROVE  m = n
  <1>1. 1 \in Weights /\ 2 \in Weights /\ 4 \in Weights /\ 8 \in Weights /\ 16 \in Weights
        /\ 32 \in Weights /\ 64 \in Weights /\ 128 \in Weights
    BY DEF Weights
  <1> QED BY <1>1, ByteOfBits

LEMMA XorOfZero == \A n \in Byte : 0 \in Byte /\ Xor(0, n) = n
  <1> SUFFICES ASSUME NEW n \in Byte PROVE 0 \in Byte /\ Xor(0, n) = n
    OBVIOUS
  <1>1. 0 \in Byte
    BY DEF Byte
  <1>2. \A w \in Weights : BitOf(0, w) = 0
    BY DEF Weights, BitOf
  <1>3. \A w \in Weights : BitOf(n, w) \in {0, 1}
    BY ByteOfBits
  <1>4. Xor(0, n) \in Byte /\ \A w \in Weights : BitOf(Xor(0, n), w) = BitOf(n, w)
    BY <1>1, <1>2, <1>3, XorFacts
  <1> QED BY <1>1, <1>4, SameBits

\* What is undone by being done again.
LEMMA XorTwice == \A m, n \in Byte : Xor(m, Xor(m, n)) = n
  <1> SUFFICES ASSUME NEW m \in Byte, NEW n \in Byte PROVE Xor(m, Xor(m, n)) = n
    OBVIOUS
  <1>1. \A w \in Weights : BitOf(n, w) \in {0, 1} /\ BitOf(m, w) \in {0, 1}
    BY ByteOfBits
  <1>2. Xor(m, n) \in Byte /\ \A w \in Weights : BitOf(Xor(m, n), w) = IF BitOf(m, w) = BitOf(n, w) THEN 0 ELSE 1
    BY XorFacts
  <1> DEFINE x == Xor(m, n)
  <1> HIDE DEF x
  <1>3. Xor(m, x) \in Byte /\ \A w \in Weights : BitOf(Xor(m, x), w) = IF BitOf(m, w) = BitOf(x, w) THEN 0 ELSE 1
    BY <1>2, XorFacts DEF x
  <1>4. \A w \in Weights : BitOf(Xor(m, x), w) = BitOf(n, w)
    BY <1>1, <1>2, <1>3 DEF x
  <1>5. Xor(m, x) = n
    BY <1>3, <1>4, SameBits
  <1> QED BY <1>5 DEF x

CrcUpto(s) == CHOOSE f : f = [i \in 0 .. Len(s) |-> IF i = 0 THEN 0 ELSE Xor(f[i - 1], s[i])]

LEMMA CrcAre == \A s : CalculateCRC(s) = CrcUpto(s)[Len(s)]
  BY DEF CalculateCRC, CrcUpto

LEMMA CrcUptoIs ==
  ASSUME NEW s \in Seq(Byte)
  PROVE  /\ CrcUpto(s) \in [0 .. Len(s) -> Byte]
         /\ CrcUpto(s)[0] = 0
         /\ \A i \in 1 .. Len(s) : CrcUpto(s)[i] = Xor(CrcUpto(s)[i - 1], s[i])
  <1> DEFINE D == 0 .. Len(s)
             G(f, i) == IF i = 0 THEN 0 ELSE Xor(f[i - 1], s[i])
             F == [f \in [D -> Byte] |-> [i \in D |-> G(f, i)]]
             m == [i \in D |-> i]
  <1>1. Len(s) \in Nat /\ 0 \in Byte
    BY DEF Byte
  <1>2. m \in [D -> 0 .. Len(s)]
    <2>1. \A i \in D : i \in 0 .. Len(s)
      OBVIOUS
    <2> HIDE DEF D
    <2> QED BY <2>1
  <1>3. \A f \in [D -> Byte], i \in D : G(f, i) \in Byte
    <2> SUFFICES ASSUME NEW f \in [D -> Byte], NEW i \in D, i # 0 PROVE G(f, i) \in Byte
      BY <1>1
    <2>1. i - 1 \in D /\ i \in 1 .. Len(s)
      BY <1>1
    <2>2. f[i - 1] \in Byte /\ s[i] \in Byte
      BY <2>1, ElementOfSeq
    <2> QED BY <2>2, XorFacts
  <1>4. F \in [[D -> Byte] -> [D -> Byte]]
    <2> HIDE DEF G, D
    <2> QED BY <1>3
  <1>5. ASSUME NEW f \in [D -> Byte], NEW g \in [D -> Byte], NEW i \in D,
               \A j \in D : m[j] < m[i] => f[j] = g[j]
        PROVE  F[f][i] = F[g][i]
    <2>1. i # 0 => i - 1 \in D /\ m[i - 1] < m[i]
      BY <1>1
    <2>2. G(f, i) = G(g, i)
      BY <1>5, <2>1
    <2> HIDE DEF G, D
    <2> QED BY <2>2
  <1>6. \E f \in [D -> Byte] : F[f] = f
    <2>1. Byte # {}
      BY <1>1
    <2> HIDE DEF F, D, m
    <2>2. Recursive(D, Byte, Len(s), m, F)
      BY <1>1, <1>2, <1>4, <1>5, <2>1 DEF Recursive
    <2> QED BY <2>2, Recursion
  <1> DEFINE h == CrcUpto(s)
  <1>7. h = [i \in D |-> G(h, i)]
    <2>1. \E f : f = [i \in D |-> G(f, i)]
      <3> HIDE DEF D, G
      <3> QED BY <1>6
    <2> QED BY <2>1 DEF CrcUpto
  <1> HIDE DEF h
  <1>8. h[0] = 0 /\ \A i \in 1 .. Len(s) : h[i] = Xor(h[i - 1], s[i])
    <2>1. 0 \in D /\ \A i \in 1 .. Len(s) : i \in D /\ i # 0
      BY <1>1
    <2>2. \A i \in D : h[i] = G(h, i)
      <3> HIDE DEF D, G
      <3> QED BY <1>7
    <2> QED BY <2>1, <2>2
  <1>9. h \in [D -> Byte]
    <2> DEFINE S == {i \in Nat : i <= Len(s) => h[i] \in Byte}
    <2>1. 0 \in S
      BY <1>1, <1>8
    <2>2. ASSUME NEW i \in S PROVE i + 1 \in S
      <3> SUFFICES ASSUME i + 1 <= Len(s) PROVE h[i + 1] \in Byte
        OBVIOUS
      <3>1. i \in Nat /\ i <= Len(s) /\ h[i] \in Byte /\ i + 1 \in 1 .. Len(s) /\ (i + 1) - 1 = i
        BY <1>1
      <3>2. s[i + 1] \in Byte /\ h[i + 1] = Xor(h[i], s[i + 1])
        BY <1>8, <3>1, ElementOfSeq
      <3> QED BY <3>1, <3>2, XorFacts
    <2>3. \A i \in Nat : i \in S
      <3>1. S \in SUBSET Nat
        OBVIOUS
      <3> HIDE DEF S
      <3> QED BY <2>1, <2>2, <3>1, Induction
    <2>4. \A i \in D : h[i] \in Byte
      BY <1>1, <2>3
    <2> HIDE DEF D, G
    <2> QED BY <1>7, <2>4
  <1> QED BY <1>8, <1>9 DEF h

LEMMA CrcType == \A s \in Seq(Byte) : CalculateCRC(s) \in Byte
  <1> SUFFICES ASSUME NEW s \in Seq(Byte) PROVE CalculateCRC(s) \in Byte
    OBVIOUS
  <1>1. Len(s) \in 0 .. Len(s)
    OBVIOUS
  <1>2. CrcUpto(s)[Len(s)] \in Byte
    BY <1>1, CrcUptoIs
  <1> QED BY <1>2, CrcAre

LEMMA CrcOfOne ==
  ASSUME NEW s \in Seq(Byte), Len(s) = 1
  PROVE  CalculateCRC(s) = s[1]
  <1>1. s[1] \in Byte
    OBVIOUS
  <1>2. CrcUpto(s)[0] = 0 /\ CrcUpto(s)[1] = Xor(CrcUpto(s)[1 - 1], s[1])
    BY CrcUptoIs
  <1>3. CrcUpto(s)[1] = Xor(0, s[1])
    BY <1>2
  <1> QED BY <1>1, <1>3, CrcAre, XorOfZero

LEMMA CrcOfTwo ==
  ASSUME NEW s \in Seq(Byte), Len(s) = 2
  PROVE  CalculateCRC(s) = Xor(s[1], s[2])
  <1>1. s[1] \in Byte /\ s[2] \in Byte
    OBVIOUS
  <1>2. /\ CrcUpto(s)[0] = 0 /\ CrcUpto(s)[1] = Xor(CrcUpto(s)[1 - 1], s[1])
        /\ CrcUpto(s)[2] = Xor(CrcUpto(s)[2 - 1], s[2])
    BY CrcUptoIs
  <1>3. CrcUpto(s)[1] = Xor(0, s[1])
    BY <1>2
  <1>4. CrcUpto(s)[2] = Xor(s[1], s[2])
    BY <1>1, <1>2, <1>3, XorOfZero
  <1> QED BY <1>4, CrcAre

-----------------------------------------------------------------------------
(* What the bytes of a board read as.                                      *)

FrameType == Byte \X Byte \X Seq(Byte)
Reading   == [frames : Seq(FrameType), halts : BOOLEAN]

LEMMA BoardFacts ==
  ASSUME NEW b \in Boards
  PROVE  /\ b.lengthSize \in {1, 2} /\ b.crcSize \in {1, 2} /\ b.bytes \in Seq(Byte)
         /\ Header(b) = 3 + b.lengthSize /\ Header(b) \in {4, 5} /\ Len(b.bytes) \in Nat
  BY FramerAssumption DEF Header

LEMMA PartFacts ==
  ASSUME NEW b \in Boards, NEW i \in Nat \ {0}, NEW n \in Nat, i + n <= Len(b.bytes) + 1
  PROVE  /\ Part(b, i, n) \in Seq(Byte) /\ Len(Part(b, i, n)) = n
         /\ \A j \in 1 .. n : Part(b, i, n)[j] = b.bytes[i + j - 1]
  <1>1. b.bytes \in Seq(Byte) /\ Len(b.bytes) \in Nat
    BY BoardFacts
  <1> DEFINE s == b.bytes
  <1> HIDE DEF s
  <1>2. s \in Seq(Byte) /\ i + n - 1 <= Len(s) /\ Len(s) \in Nat
    BY <1>1 DEF s
  <1>3. /\ SubSeq(s, i, i + n - 1) \in Seq(Byte) /\ Len(SubSeq(s, i, i + n - 1)) = n
        /\ \A j \in 1 .. n : SubSeq(s, i, i + n - 1)[j] = s[i + j - 1]
    BY <1>2
  <1> QED BY <1>3 DEF Part, s

\* A header within the bytes holds a length.
LEMMA LengthFacts ==
  ASSUME NEW b \in Boards, NEW i \in Nat \ {0}, i + Header(b) <= Len(b.bytes) + 1
  PROVE  /\ LengthAt(b, i) \in Nat
         /\ b.lengthSize = 1 => LengthAt(b, i) = b.bytes[i + 3]
         /\ b.lengthSize = 2 => LengthAt(b, i) = b.bytes[i + 3] + 256 * b.bytes[i + 4]
         /\ \A j \in 0 .. Header(b) - 1 : b.bytes[i + j] \in Byte
         /\ EndAt(b, i) \in Nat /\ EndAt(b, i) >= i + Header(b) + 1
         /\ EndAt(b, i) = i + Header(b) + LengthAt(b, i) + b.crcSize
  <1>1. b.lengthSize \in {1, 2} /\ b.crcSize \in {1, 2} /\ b.bytes \in Seq(Byte)
         /\ Header(b) = 3 + b.lengthSize /\ Len(b.bytes) \in Nat
    BY BoardFacts
  <1>2. \A j \in 0 .. Header(b) - 1 : b.bytes[i + j] \in Byte
    BY <1>1
  <1> DEFINE s == b.bytes
             n == LengthAt(b, i)
  <1>3. ASSUME b.lengthSize = 1 PROVE n \in Nat /\ n = s[i + 3]
    <2>1. n = s[i + 3]
      BY <1>3 DEF LengthAt
    <2>2. 3 \in 0 .. Header(b) - 1
      BY <1>1, <1>3
    <2>3. s[i + 3] \in Byte
      BY <1>2, <2>2
    <2>4. \A x \in Byte : x \in Nat
      BY DEF Byte
    <2> HIDE DEF n, s
    <2> QED BY <2>1, <2>3, <2>4
  <1>4. ASSUME b.lengthSize = 2 PROVE n \in Nat /\ n = s[i + 3] + 256 * s[i + 4]
    <2>1. i + 3 \in Nat \ {0} /\ 2 \in Nat /\ i + 3 + 2 <= Len(b.bytes) + 1
      BY <1>1, <1>4
    <2>2. \A j \in 1 .. 2 : Part(b, i + 3, 2)[j] = b.bytes[i + 3 + j - 1]
      BY <2>1, PartFacts
    <2>3. i + 3 + 1 - 1 = i + 3 /\ i + 3 + 2 - 1 = i + 4
      OBVIOUS
    <2>4. Part(b, i + 3, 2)[1] = s[i + 3] /\ Part(b, i + 3, 2)[2] = s[i + 4]
      BY <2>2, <2>3
    <2>5. n = s[i + 3] + 256 * s[i + 4]
      BY <1>4, <2>4 DEF LengthAt, Read16
    <2>6. 3 \in 0 .. Header(b) - 1 /\ 4 \in 0 .. Header(b) - 1
      BY <1>1, <1>4
    <2>7. s[i + 3] \in Byte /\ s[i + 4] \in Byte
      BY <1>2, <2>6
    <2>8. \A x, y \in Byte : x + 256 * y \in Nat
      BY DEF Byte
    <2> HIDE DEF n, s
    <2> QED BY <2>5, <2>7, <2>8
  <1>5. n \in Nat /\ (b.lengthSize = 1 => n = s[i + 3])
        /\ (b.lengthSize = 2 => n = s[i + 3] + 256 * s[i + 4])
    <2> HIDE DEF n, s
    <2> QED BY <1>1, <1>3, <1>4
  <1>6. EndAt(b, i) = i + Header(b) + n + b.crcSize
    BY DEF EndAt
  <1>7. n \in Nat
    <2> HIDE DEF n
    <2> QED BY <1>5
  <1>8. EndAt(b, i) \in Nat /\ EndAt(b, i) >= i + Header(b) + 1
    <2> HIDE DEF n
    <2> QED BY <1>1, <1>6, <1>7
  <1> QED BY <1>2, <1>5, <1>6, <1>8

\* A frame within the bytes is a frame.
LEMMA FrameFacts ==
  ASSUME NEW b \in Boards, NEW i \in Nat \ {0}, i + Header(b) <= Len(b.bytes) + 1,
         EndAt(b, i) <= Len(b.bytes) + 1
  PROVE  FrameAt(b, i) \in FrameType
  <1>1. /\ LengthAt(b, i) \in Nat /\ EndAt(b, i) = i + Header(b) + LengthAt(b, i) + b.crcSize
        /\ \A j \in 0 .. Header(b) - 1 : b.bytes[i + j] \in Byte
    BY LengthFacts
  <1>2. b.crcSize \in {1, 2} /\ Header(b) \in {4, 5} /\ Len(b.bytes) \in Nat
    BY BoardFacts
  <1>3. b.bytes[i + 1] \in Byte /\ b.bytes[i + 2] \in Byte
    <2>1. 1 \in 0 .. Header(b) - 1 /\ 2 \in 0 .. Header(b) - 1
      BY <1>2
    <2> QED BY <1>1, <2>1
  <1>4. i + Header(b) \in Nat \ {0} /\ i + Header(b) + LengthAt(b, i) <= Len(b.bytes) + 1
    BY <1>1, <1>2
  <1>5. Part(b, i + Header(b), LengthAt(b, i)) \in Seq(Byte)
    BY <1>1, <1>4, PartFacts
  <1> QED BY <1>3, <1>5 DEF FrameAt, FrameType

\* The definition of Read, and the type of what it gives.
Step(b, g, i, f) ==
  IF i > g THEN Nothing
  ELSE IF b.bytes[i] # SYNC THEN f[i + 1]
  ELSE IF i + Header(b) > g + 1 THEN Nothing
  ELSE IF LengthAt(b, i) > MTU THEN f[i + Header(b)]
  ELSE IF EndAt(b, i) > g + 1 THEN Nothing
  ELSE IF ~ValidAt(b, i) THEN f[EndAt(b, i)]
  ELSE [frames |-> <<FrameAt(b, i)>> \o f[EndAt(b, i)].frames,
        halts  |-> Overlong(b, g, EndAt(b, i)) \/ f[EndAt(b, i)].halts]

LEMMA ReadIsChosen ==
  \A b, g : Read(b, g) = CHOOSE f : f = [i \in 1 .. g + 1 |-> Step(b, g, i, f)]
  BY DEF Read, Step

\* A step looks only at places behind its own.
LEMMA StepLooksBehind ==
  ASSUME NEW b \in Boards, NEW g \in 0 .. Len(b.bytes), NEW i \in 1 .. g + 1,
         NEW f, NEW e, \A j \in i + 1 .. g + 1 : f[j] = e[j]
  PROVE  Step(b, g, i, f) = Step(b, g, i, e)
  <1>1. Header(b) \in {4, 5} /\ Len(b.bytes) \in Nat
    BY BoardFacts
  <1>2. i \in Nat \ {0} /\ g \in Nat
    BY <1>1
  <1>3. i <= g => i + 1 \in i + 1 .. g + 1
    BY <1>1, <1>2
  <1>4. ~ (i + Header(b) > g + 1) => i + Header(b) \in i + 1 .. g + 1
    BY <1>1, <1>2
  <1>5. ~ (i + Header(b) > g + 1) /\ ~ (EndAt(b, i) > g + 1) => EndAt(b, i) \in i + 1 .. g + 1
    <2> SUFFICES ASSUME ~ (i + Header(b) > g + 1), ~ (EndAt(b, i) > g + 1)
                 PROVE  EndAt(b, i) \in i + 1 .. g + 1
      OBVIOUS
    <2>1. i + Header(b) <= Len(b.bytes) + 1
      BY <1>1, <1>2
    <2>2. EndAt(b, i) \in Nat /\ EndAt(b, i) >= i + Header(b) + 1
      BY <1>2, <2>1, LengthFacts
    <2> QED BY <1>1, <1>2, <2>2
  <1>6. i <= g => f[i + 1] = e[i + 1]
    BY <1>3
  <1>7. ~ (i + Header(b) > g + 1) => f[i + Header(b)] = e[i + Header(b)]
    BY <1>4
  <1>8. ~ (i + Header(b) > g + 1) /\ ~ (EndAt(b, i) > g + 1) => f[EndAt(b, i)] = e[EndAt(b, i)]
    BY <1>5
  <1>9. ~ (i > g) => i <= g
    BY <1>2
  <1> QED BY <1>6, <1>7, <1>8, <1>9, Zenon DEF Step

LEMMA StepType ==
  ASSUME NEW b \in Boards, NEW g \in 0 .. Len(b.bytes), NEW i \in 1 .. g + 1,
         NEW f, \A j \in i + 1 .. g + 1 : f[j] \in Reading
  PROVE  Step(b, g, i, f) \in Reading
  <1>1. Header(b) \in {4, 5} /\ Len(b.bytes) \in Nat
    BY BoardFacts
  <1>2. i \in Nat \ {0} /\ g \in Nat
    BY <1>1
  <1>3. Nothing \in Reading
    BY EmptySeq DEF Nothing, Reading
  <1>4. ~ (i > g) => f[i + 1] \in Reading
    BY <1>1, <1>2
  <1>5. ASSUME ~ (i + Header(b) > g + 1) PROVE f[i + Header(b)] \in Reading
    <2>1. i + Header(b) \in i + 1 .. g + 1
      BY <1>1, <1>2, <1>5
    <2> QED BY <2>1
  <1>6. ASSUME ~ (i + Header(b) > g + 1), ~ (EndAt(b, i) > g + 1)
        PROVE  /\ f[EndAt(b, i)] \in Reading
               /\ [frames |-> <<FrameAt(b, i)>> \o f[EndAt(b, i)].frames,
                   halts  |-> Overlong(b, g, EndAt(b, i)) \/ f[EndAt(b, i)].halts] \in Reading
    <2>1. i + Header(b) <= Len(b.bytes) + 1
      BY <1>1, <1>2, <1>6
    <2>2. EndAt(b, i) \in Nat /\ EndAt(b, i) >= i + Header(b) + 1
      BY <1>2, <2>1, LengthFacts
    <2>3. EndAt(b, i) \in i + 1 .. g + 1 /\ EndAt(b, i) <= Len(b.bytes) + 1
      BY <1>1, <1>2, <1>6, <2>2
    <2>4. f[EndAt(b, i)] \in Reading
      BY <2>3
    <2>5. FrameAt(b, i) \in FrameType
      BY <1>2, <2>1, <2>3, FrameFacts
    <2>6. f[EndAt(b, i)].frames \in Seq(FrameType) /\ f[EndAt(b, i)].halts \in BOOLEAN
      BY <2>4 DEF Reading
    <2>7. <<FrameAt(b, i)>> \o f[EndAt(b, i)].frames \in Seq(FrameType)
      BY <2>5, <2>6
    <2>8. (Overlong(b, g, EndAt(b, i)) \/ f[EndAt(b, i)].halts) \in BOOLEAN
      OBVIOUS
    <2> QED BY <2>4, <2>7, <2>8 DEF Reading
  <1> QED BY <1>3, <1>4, <1>5, <1>6, Zenon DEF Step

LEMMA ReadIs ==
  ASSUME NEW b \in Boards, NEW g \in 0 .. Len(b.bytes)
  PROVE  \A i \in 1 .. g + 1 : /\ Read(b, g)[i] \in Reading
                               /\ Read(b, g)[i] = Step(b, g, i, Read(b, g))
  <1> DEFINE D == 1 .. g + 1
             F == [f \in [D -> Reading] |-> [i \in D |-> Step(b, g, i, f)]]
             m == [i \in D |-> g + 1 - i]
  <1>1. g \in Nat
    BY BoardFacts
  <1>2. m \in [D -> 0 .. g]
    <2>1. \A i \in D : g + 1 - i \in 0 .. g
      BY <1>1
    <2> HIDE DEF D
    <2> QED BY <2>1
  <1>3. F \in [[D -> Reading] -> [D -> Reading]]
    <2> SUFFICES ASSUME NEW f \in [D -> Reading], NEW i \in D PROVE Step(b, g, i, f) \in Reading
      <3> HIDE DEF D
      <3> QED OBVIOUS
    <2>1. \A j \in i + 1 .. g + 1 : f[j] \in Reading
      BY <1>1
    <2> QED BY <2>1, StepType
  <1>4. ASSUME NEW f \in [D -> Reading], NEW e \in [D -> Reading], NEW i \in D,
               \A j \in D : m[j] < m[i] => f[j] = e[j]
        PROVE  F[f][i] = F[e][i]
    <2>1. \A j \in i + 1 .. g + 1 : f[j] = e[j]
      <3> SUFFICES ASSUME NEW j \in i + 1 .. g + 1 PROVE f[j] = e[j]
        OBVIOUS
      <3>1. j \in D /\ g + 1 - j < g + 1 - i
        BY <1>1
      <3> QED BY <1>4, <3>1
    <2>2. Step(b, g, i, f) = Step(b, g, i, e)
      BY <2>1, StepLooksBehind
    <2> HIDE DEF D
    <2> QED BY <2>2
  <1>5. PICK f \in [D -> Reading] : F[f] = f
    <2>1. Reading # {}
      <3>1. [frames |-> <<>>, halts |-> FALSE] \in Reading
        BY EmptySeq DEF Reading
      <3> QED BY <3>1
    <2> HIDE DEF F, D, m
    <2>2. Recursive(D, Reading, g, m, F)
      BY <1>1, <1>2, <1>3, <1>4, <2>1 DEF Recursive
    <2> QED BY <2>2, Recursion
  <1>6. \E e : e = [i \in D |-> Step(b, g, i, e)]
    <2> HIDE DEF D
    <2> QED BY <1>5
  <1> DEFINE h == Read(b, g)
  <1>7. h = [i \in D |-> Step(b, g, i, h)]
    BY <1>6, ReadIsChosen
  <1> HIDE DEF h
  <1>8. \A i \in D : h[i] = Step(b, g, i, h)
    <2> HIDE DEF D
    <2> QED BY <1>7
  <1> DEFINE S == {n \in Nat : n <= g => h[g + 1 - n] \in Reading}
  <1>9. \A n \in Nat : (\A k \in Nat : k < n => k \in S) => n \in S
    <2> SUFFICES ASSUME NEW n \in Nat, \A k \in Nat : k < n => k \in S, n <= g
                 PROVE  h[g + 1 - n] \in Reading
      OBVIOUS
    <2>1. g + 1 - n \in 1 .. g + 1
      BY <1>1
    <2>2. \A j \in g + 1 - n + 1 .. g + 1 : h[j] \in Reading
      <3> SUFFICES ASSUME NEW j \in g + 1 - n + 1 .. g + 1 PROVE h[j] \in Reading
        OBVIOUS
      <3>1. g + 1 - j \in Nat /\ g + 1 - j < n /\ g + 1 - j <= g /\ g + 1 - (g + 1 - j) = j
        BY <1>1
      <3> QED BY <3>1
    <2> HIDE DEF S
    <2> QED BY <1>8, <2>1, <2>2, StepType
  <1>10. \A n \in Nat : n \in S
    <2>1. S \in SUBSET Nat
      OBVIOUS
    <2> HIDE DEF S
    <2> QED BY <1>9, <2>1, StrongInduction
  <1>11. \A i \in D : h[i] \in Reading
    <2> SUFFICES ASSUME NEW i \in D PROVE h[i] \in Reading
      OBVIOUS
    <2>1. g + 1 - i \in Nat /\ g + 1 - i <= g /\ g + 1 - (g + 1 - i) = i
      BY <1>1
    <2> QED BY <1>10, <2>1
  <1> QED BY <1>8, <1>11 DEF h

\* The cases of a step.
LEMMA NothingIs == Nothing.frames = <<>> /\ Nothing.halts = FALSE
  BY DEF Nothing

LEMMA ReadAtEnd ==
  ASSUME NEW b \in Boards, NEW g \in 0 .. Len(b.bytes)
  PROVE  Read(b, g)[g + 1] = Nothing
  <1>1. g \in Nat /\ g + 1 \in 1 .. g + 1 /\ g + 1 > g
    BY BoardFacts
  <1>2. Read(b, g)[g + 1] = Step(b, g, g + 1, Read(b, g))
    BY <1>1, ReadIs
  <1> QED BY <1>1, <1>2 DEF Step

LEMMA ReadJunk ==
  ASSUME NEW b \in Boards, NEW g \in 0 .. Len(b.bytes), NEW i \in 1 .. g, b.bytes[i] # SYNC
  PROVE  Read(b, g)[i] = Read(b, g)[i + 1]
  <1>1. g \in Nat /\ i \in 1 .. g + 1 /\ ~ (i > g)
    BY BoardFacts
  <1>2. Read(b, g)[i] = Step(b, g, i, Read(b, g))
    BY <1>1, ReadIs
  <1> QED BY <1>1, <1>2 DEF Step

LEMMA ReadPart ==
  ASSUME NEW b \in Boards, NEW g \in 0 .. Len(b.bytes), NEW i \in 1 .. g + 1, b.bytes[i] = SYNC,
         i + Header(b) > g + 1 \/ (~ (LengthAt(b, i) > MTU) /\ EndAt(b, i) > g + 1)
  PROVE  Read(b, g)[i] = Nothing
  <1>1. Read(b, g)[i] = Step(b, g, i, Read(b, g))
    BY ReadIs
  <1> QED BY <1>1 DEF Step

LEMMA ReadOverlong ==
  ASSUME NEW b \in Boards, NEW g \in 0 .. Len(b.bytes), NEW i \in 1 .. g, b.bytes[i] = SYNC,
         i + Header(b) <= g + 1, LengthAt(b, i) > MTU
  PROVE  Read(b, g)[i] = Read(b, g)[i + Header(b)]
  <1>1. g \in Nat /\ i \in 1 .. g + 1 /\ ~ (i > g) /\ ~ (i + Header(b) > g + 1)
    BY BoardFacts
  <1>2. Read(b, g)[i] = Step(b, g, i, Read(b, g))
    BY <1>1, ReadIs
  <1> QED BY <1>1, <1>2 DEF Step

\* A frame of b from i on is whole within g bytes.
Whole(b, g, i) ==
  /\ b.bytes[i] = SYNC /\ i + Header(b) <= g + 1 /\ ~ (LengthAt(b, i) > MTU)
  /\ EndAt(b, i) <= g + 1

LEMMA WholeFacts ==
  ASSUME NEW b \in Boards, NEW g \in 0 .. Len(b.bytes), NEW i \in 1 .. g + 1, Whole(b, g, i)
  PROVE  /\ i \in 1 .. g /\ EndAt(b, i) \in i + 1 .. g + 1 /\ ~ (i + Header(b) > g + 1)
         /\ ~ (EndAt(b, i) > g + 1) /\ EndAt(b, i) \in 1 .. g + 1 /\ g \in Nat
         /\ FrameAt(b, i) \in FrameType /\ EndAt(b, i) >= i + Header(b) + 1
  <1>1. Header(b) \in {4, 5} /\ Len(b.bytes) \in Nat /\ g \in Nat /\ i \in Nat \ {0}
    BY BoardFacts
  <1>2. i + Header(b) <= g + 1 /\ EndAt(b, i) <= g + 1
    BY DEF Whole
  <1>3. i + Header(b) <= Len(b.bytes) + 1
    BY <1>1, <1>2
  <1>4. EndAt(b, i) \in Nat /\ EndAt(b, i) >= i + Header(b) + 1
    BY <1>1, <1>3, LengthFacts
  <1>5. EndAt(b, i) <= Len(b.bytes) + 1
    BY <1>1, <1>2, <1>4
  <1>6. FrameAt(b, i) \in FrameType
    BY <1>1, <1>3, <1>5, FrameFacts
  <1> QED BY <1>1, <1>2, <1>4, <1>6

LEMMA ReadInvalid ==
  ASSUME NEW b \in Boards, NEW g \in 0 .. Len(b.bytes), NEW i \in 1 .. g + 1, Whole(b, g, i),
         ~ValidAt(b, i)
  PROVE  Read(b, g)[i] = Read(b, g)[EndAt(b, i)]
  <1>1. i \in 1 .. g /\ ~ (i + Header(b) > g + 1) /\ ~ (EndAt(b, i) > g + 1) /\ ~ (i > g)
    BY WholeFacts
  <1>2. Read(b, g)[i] = Step(b, g, i, Read(b, g))
    BY ReadIs
  <1> QED BY <1>1, <1>2 DEF Step, Whole

LEMMA ReadValid ==
  ASSUME NEW b \in Boards, NEW g \in 0 .. Len(b.bytes), NEW i \in 1 .. g + 1, Whole(b, g, i),
         ValidAt(b, i)
  PROVE  /\ Read(b, g)[i].frames = <<FrameAt(b, i)>> \o Read(b, g)[EndAt(b, i)].frames
         /\ Read(b, g)[i].halts = (Overlong(b, g, EndAt(b, i)) \/ Read(b, g)[EndAt(b, i)].halts)
  <1>1. i \in 1 .. g /\ ~ (i + Header(b) > g + 1) /\ ~ (EndAt(b, i) > g + 1) /\ ~ (i > g)
    BY WholeFacts
  <1>2. Read(b, g)[i] = Step(b, g, i, Read(b, g))
    BY ReadIs
  <1>3. Read(b, g)[i] = [frames |-> <<FrameAt(b, i)>> \o Read(b, g)[EndAt(b, i)].frames,
                         halts  |-> Overlong(b, g, EndAt(b, i)) \/ Read(b, g)[EndAt(b, i)].halts]
    BY <1>1, <1>2, Zenon DEF Step, Whole
  <1> DEFINE x == <<FrameAt(b, i)>> \o Read(b, g)[EndAt(b, i)].frames
             y == Overlong(b, g, EndAt(b, i)) \/ Read(b, g)[EndAt(b, i)].halts
  <1>4. Read(b, g)[i] = [frames |-> x, halts |-> y]
    BY <1>3
  <1> HIDE DEF x, y
  <1>5. Read(b, g)[i].frames = x /\ Read(b, g)[i].halts = y
    BY <1>4
  <1> QED BY <1>5 DEF x, y

LEMMA ReadType ==
  ASSUME NEW b \in Boards, NEW g \in 0 .. Len(b.bytes), NEW i \in 1 .. g + 1
  PROVE  Read(b, g)[i].frames \in Seq(FrameType) /\ Read(b, g)[i].halts \in BOOLEAN
  <1>1. Read(b, g)[i] \in Reading
    BY ReadIs
  <1> QED BY <1>1 DEF Reading

\* A stretch of junk is skipped.
LEMMA SkipJunk ==
  ASSUME NEW b \in Boards, NEW g \in 0 .. Len(b.bytes), NEW i \in 1 .. g + 1, NEW n \in Nat,
         i + n <= g + 1, \A j \in i .. i + n - 1 : b.bytes[j] # SYNC
  PROVE  Read(b, g)[i] = Read(b, g)[i + n]
  <1> DEFINE S == {k \in Nat : k <= n => Read(b, g)[i] = Read(b, g)[i + k]}
  <1>1. g \in Nat /\ i \in Nat
    BY BoardFacts
  <1>2. 0 \in S
    BY <1>1
  <1>3. ASSUME NEW k \in S PROVE k + 1 \in S
    <2> SUFFICES ASSUME k + 1 <= n PROVE Read(b, g)[i] = Read(b, g)[i + (k + 1)]
      OBVIOUS
    <2>1. k \in Nat /\ k <= n /\ Read(b, g)[i] = Read(b, g)[i + k]
      OBVIOUS
    <2>2. i + k \in 1 .. g /\ i + k \in i .. i + n - 1 /\ i + k + 1 = i + (k + 1)
      BY <1>1, <2>1
    <2>3. Read(b, g)[i + k] = Read(b, g)[i + k + 1]
      BY <2>2, ReadJunk
    <2> QED BY <2>1, <2>2, <2>3
  <1>4. \A k \in Nat : k \in S
    <2>1. S \in SUBSET Nat
      OBVIOUS
    <2> HIDE DEF S
    <2> QED BY <1>2, <1>3, <2>1, Induction
  <1> QED BY <1>4

\* Each place is at the end, or holds no SYNC, or a header that ends outside, or too great a
\* length, or a frame that ends outside, or one that is whole.
LEMMA ReadCases ==
  ASSUME NEW b \in Boards, NEW g \in 0 .. Len(b.bytes), NEW i \in 1 .. g + 1
  PROVE  \/ i = g + 1
         \/ i \in 1 .. g /\ b.bytes[i] # SYNC
         \/ i \in 1 .. g /\ b.bytes[i] = SYNC
              /\ (i + Header(b) > g + 1 \/ (~ (LengthAt(b, i) > MTU) /\ EndAt(b, i) > g + 1))
         \/ i \in 1 .. g /\ b.bytes[i] = SYNC /\ i + Header(b) <= g + 1 /\ LengthAt(b, i) > MTU
         \/ Whole(b, g, i)
  <1>1. g \in Nat /\ i \in Nat \ {0} /\ Header(b) \in Nat /\ Len(b.bytes) \in Nat
    BY BoardFacts
  <1>2. ASSUME i + Header(b) <= g + 1 PROVE EndAt(b, i) \in Nat
    <2>1. i + Header(b) <= Len(b.bytes) + 1
      BY <1>1, <1>2
    <2> QED BY <1>1, <2>1, LengthFacts
  <1> QED BY <1>1, <1>2 DEF Whole

\* In no more bytes than a header has there is no frame.
LEMMA TooShort ==
  ASSUME NEW b \in Boards, NEW g \in 0 .. Len(b.bytes)
  PROVE  \A i \in 1 .. g + 1 : g + 1 - i <= Header(b) => Read(b, g)[i].frames = <<>>
  <1> DEFINE R(i) == Read(b, g)[i]
             S == {n \in Nat : n <= g /\ n <= Header(b) => R(g + 1 - n).frames = <<>>}
  <1>1. g \in Nat /\ Header(b) \in {4, 5}
    BY BoardFacts
  <1> HIDE DEF R
  <1>2. \A n \in Nat : (\A k \in Nat : k < n => k \in S) => n \in S
    <2> SUFFICES ASSUME NEW n \in Nat, \A k \in Nat : k < n => k \in S, n <= g, n <= Header(b)
                 PROVE  R(g + 1 - n).frames = <<>>
      OBVIOUS
    <2> DEFINE i == g + 1 - n
    <2>1. i \in 1 .. g + 1
      BY <1>1
    <2>2. \A j \in i + 1 .. g + 1 : R(j).frames = <<>>
      <3> SUFFICES ASSUME NEW j \in i + 1 .. g + 1 PROVE R(j).frames = <<>>
        OBVIOUS
      <3>1. g + 1 - j \in Nat /\ g + 1 - j < n /\ g + 1 - j <= g /\ g + 1 - j <= Header(b)
            /\ g + 1 - (g + 1 - j) = j
        BY <1>1
      <3> QED BY <3>1
    <2>3. g + 1 <= i + Header(b)
      BY <1>1
    <2> HIDE DEF i
    <2> SUFFICES R(i).frames = <<>>
      BY DEF i
    <2>4. CASE i = g + 1
      BY <2>4, ReadAtEnd, NothingIs DEF R
    <2>5. CASE i \in 1 .. g /\ b.bytes[i] # SYNC
      <3>1. R(i) = R(i + 1) /\ i + 1 \in i + 1 .. g + 1
        BY <1>1, <2>5, ReadJunk DEF R
      <3> QED BY <2>2, <3>1
    <2>6. CASE i \in 1 .. g /\ b.bytes[i] = SYNC
              /\ (i + Header(b) > g + 1 \/ (~ (LengthAt(b, i) > MTU) /\ EndAt(b, i) > g + 1))
      BY <2>1, <2>6, ReadPart, NothingIs DEF R
    <2>7. CASE i \in 1 .. g /\ b.bytes[i] = SYNC /\ i + Header(b) <= g + 1 /\ LengthAt(b, i) > MTU
      <3>1. R(i) = R(i + Header(b)) /\ i + Header(b) \in i + 1 .. g + 1
        BY <1>1, <2>7, ReadOverlong DEF R
      <3> QED BY <2>2, <3>1
    <2>8. CASE Whole(b, g, i)
      <3>1. EndAt(b, i) >= i + Header(b) + 1 /\ EndAt(b, i) \in 1 .. g + 1
        BY <2>1, <2>8, WholeFacts
      <3> QED BY <1>1, <2>1, <2>3, <3>1
    <2> QED BY <2>1, <2>4, <2>5, <2>6, <2>7, <2>8, ReadCases
  <1>3. \A n \in Nat : n \in S
    <2>1. S \in SUBSET Nat
      OBVIOUS
    <2> HIDE DEF S
    <2> QED BY <1>2, <2>1, StrongInduction
  <1> SUFFICES ASSUME NEW i \in 1 .. g + 1, g + 1 - i <= Header(b) PROVE R(i).frames = <<>>
    BY DEF R
  <1>4. g + 1 - i \in Nat /\ g + 1 - i <= g /\ g + 1 - (g + 1 - i) = i
    BY <1>1
  <1> QED BY <1>3, <1>4

\* Where reading halts it halts too when there are more bytes.
LEMMA HaltsGrow ==
  ASSUME NEW b \in Boards, NEW g \in 0 .. Len(b.bytes), NEW h \in g .. Len(b.bytes)
  PROVE  \A i \in 1 .. g + 1 : Read(b, g)[i].halts => Read(b, h)[i].halts
  <1> DEFINE R(i) == Read(b, g)[i]
             Q(i) == Read(b, h)[i]
             S == {n \in Nat : n <= g => (R(g + 1 - n).halts => Q(g + 1 - n).halts)}
  <1>1. g \in Nat /\ h \in Nat /\ g <= h /\ Header(b) \in {4, 5} /\ h \in 0 .. Len(b.bytes)
    BY BoardFacts
  <1> HIDE DEF R, Q
  <1>2. \A n \in Nat : (\A k \in Nat : k < n => k \in S) => n \in S
    <2> SUFFICES ASSUME NEW n \in Nat, \A k \in Nat : k < n => k \in S, n <= g, R(g + 1 - n).halts
                 PROVE  Q(g + 1 - n).halts
      OBVIOUS
    <2> DEFINE i == g + 1 - n
    <2>1. i \in 1 .. g + 1 /\ i \in 1 .. h + 1
      BY <1>1
    <2>2. \A j \in i + 1 .. g + 1 : R(j).halts => Q(j).halts
      <3> SUFFICES ASSUME NEW j \in i + 1 .. g + 1 PROVE R(j).halts => Q(j).halts
        OBVIOUS
      <3>1. g + 1 - j \in Nat /\ g + 1 - j < n /\ g + 1 - j <= g /\ g + 1 - (g + 1 - j) = j
        BY <1>1
      <3> QED BY <3>1
    <2> HIDE DEF i
    <2>3. R(i).halts
      BY DEF i
    <2> SUFFICES Q(i).halts
      BY DEF i
    <2>4. CASE i = g + 1
      BY <2>3, <2>4, ReadAtEnd, NothingIs DEF R
    <2>5. CASE i \in 1 .. g /\ b.bytes[i] # SYNC
      <3>1. R(i) = R(i + 1) /\ i + 1 \in i + 1 .. g + 1
        BY <1>1, <2>5, ReadJunk DEF R
      <3>2. i \in 1 .. h
        BY <1>1, <2>5
      <3>3. Q(i) = Q(i + 1)
        BY <1>1, <2>5, <3>2, ReadJunk DEF Q
      <3> QED BY <2>2, <2>3, <3>1, <3>3
    <2>6. CASE i \in 1 .. g /\ b.bytes[i] = SYNC
              /\ (i + Header(b) > g + 1 \/ (~ (LengthAt(b, i) > MTU) /\ EndAt(b, i) > g + 1))
      BY <2>1, <2>3, <2>6, ReadPart, NothingIs DEF R
    <2>7. CASE i \in 1 .. g /\ b.bytes[i] = SYNC /\ i + Header(b) <= g + 1 /\ LengthAt(b, i) > MTU
      <3>1. R(i) = R(i + Header(b)) /\ i + Header(b) \in i + 1 .. g + 1
        BY <1>1, <2>7, ReadOverlong DEF R
      <3>2. i \in 1 .. h /\ i + Header(b) <= h + 1
        BY <1>1, <2>7
      <3>3. Q(i) = Q(i + Header(b))
        BY <1>1, <2>7, <3>2, ReadOverlong DEF Q
      <3> QED BY <2>2, <2>3, <3>1, <3>3
    <2>8. CASE Whole(b, g, i)
      <3> DEFINE e == EndAt(b, i)
      <3>1. e \in i + 1 .. g + 1 /\ e \in Nat
        BY <2>1, <2>8, WholeFacts
      <3>2. Whole(b, h, i)
        <4>1. i + Header(b) <= h + 1 /\ EndAt(b, i) <= h + 1
          BY <1>1, <2>1, <2>8, <3>1 DEF Whole
        <4> QED BY <2>8, <4>1 DEF Whole
      <3>3. CASE ValidAt(b, i)
        <4>1. R(i).halts = (Overlong(b, g, e) \/ R(e).halts)
          <5>1. Read(b, g)[i].halts = (Overlong(b, g, EndAt(b, i)) \/ Read(b, g)[EndAt(b, i)].halts)
            BY <2>1, <2>8, <3>3, ReadValid, Zenon
          <5> QED BY <5>1, Zenon DEF R
        <4>2. Q(i).halts = (Overlong(b, h, e) \/ Q(e).halts)
          <5>1. Read(b, h)[i].halts = (Overlong(b, h, EndAt(b, i)) \/ Read(b, h)[EndAt(b, i)].halts)
            BY <1>1, <2>1, <3>2, <3>3, ReadValid, Zenon
          <5> QED BY <5>1, Zenon DEF Q
        <4>3. Overlong(b, g, e) => Overlong(b, h, e)
          <5> HIDE DEF e
          <5> QED BY <1>1, <3>1 DEF Overlong
        <4>4. R(e).halts => Q(e).halts
          <5> HIDE DEF e
          <5> QED BY <2>2, <3>1
        <4> QED BY <2>3, <4>1, <4>2, <4>3, <4>4, Zenon
      <3>4. CASE ~ValidAt(b, i)
        <4>1. R(i) = R(e)
          BY <2>1, <2>8, <3>4, ReadInvalid DEF R
        <4>2. Q(i) = Q(e)
          BY <1>1, <2>1, <3>2, <3>4, ReadInvalid DEF Q
        <4> HIDE DEF e
        <4> QED BY <2>2, <2>3, <3>1, <4>1, <4>2
      <3> QED BY <3>3, <3>4
    <2> QED BY <2>1, <2>4, <2>5, <2>6, <2>7, <2>8, ReadCases
  <1>3. \A n \in Nat : n \in S
    <2>1. S \in SUBSET Nat
      OBVIOUS
    <2> HIDE DEF S
    <2> QED BY <1>2, <2>1, StrongInduction
  <1> SUFFICES ASSUME NEW i \in 1 .. g + 1 PROVE R(i).halts => Q(i).halts
    BY DEF R, Q
  <1>4. g + 1 - i \in Nat /\ g + 1 - i <= g /\ g + 1 - (g + 1 - i) = i
    BY <1>1
  <1> QED BY <1>3, <1>4

-----------------------------------------------------------------------------
(* The stream, and the queue as a piece of it.                             *)

LEMMA CutOfCut ==
  ASSUME NEW X, NEW s \in Seq(X), NEW a \in Nat, NEW c \in Nat, 1 <= a, a <= c + 1, c <= Len(s),
         NEW i \in Nat, NEW j \in Nat, 1 <= i, i <= j + 1, j <= c - a + 1
  PROVE  SubSeq(SubSeq(s, a, c), i, j) = SubSeq(s, a + i - 1, a + j - 1)
  <1> DEFINE t == SubSeq(s, a, c)
             u == SubSeq(t, i, j)
             v == SubSeq(s, a + i - 1, a + j - 1)
  <1>1. t \in Seq(X) /\ Len(t) = c - a + 1 /\ \A k \in 1 .. c - a + 1 : t[k] = s[a + k - 1]
    OBVIOUS
  <1>2. v \in Seq(X) /\ Len(v) = j - i + 1 /\ \A k \in 1 .. j - i + 1 : v[k] = s[a + i - 1 + k - 1]
    OBVIOUS
  <1>3. u \in Seq(X) /\ Len(u) = j - i + 1 /\ \A k \in 1 .. j - i + 1 : u[k] = t[i + k - 1]
    <2> HIDE DEF t
    <2> QED BY <1>1
  <1>4. \A k \in 1 .. j - i + 1 : u[k] = v[k]
    <2> SUFFICES ASSUME NEW k \in 1 .. j - i + 1 PROVE u[k] = v[k]
      OBVIOUS
    <2>1. i + k - 1 \in 1 .. c - a + 1 /\ a + (i + k - 1) - 1 = a + i - 1 + k - 1
      OBVIOUS
    <2> HIDE DEF t, u, v
    <2> QED BY <1>1, <1>2, <1>3, <2>1
  <1> HIDE DEF t, u, v
  <1>5. u = v
    BY <1>2, <1>3, <1>4, SeqEqual
  <1> QED BY <1>5 DEF t, u, v

\* The bytes read so far, and those of them that are not queued any more.
got == Len(board.bytes) - Len(toRead)
pos == got - Len(Bytes(queue))

Stream ==
  /\ board \in Boards /\ got \in 0 .. Len(board.bytes)
  /\ toRead = SubSeq(board.bytes, got + 1, Len(board.bytes))
  /\ queue \in Seq(Chunk) /\ pos \in 0 .. got
  /\ Bytes(queue) = SubSeq(board.bytes, pos + 1, got)

LEMMA StreamFacts ==
  ASSUME Stream
  PROVE  /\ board.bytes \in Seq(Byte) /\ Len(board.bytes) \in Nat /\ got \in Nat /\ pos \in Nat
         /\ got <= Len(board.bytes) /\ pos <= got /\ queue \in Seq(Chunk)
         /\ Len(queue) \in Nat /\ Bytes(queue) \in Seq(Byte) /\ Len(Bytes(queue)) = got - pos
         /\ toRead \in Seq(Byte) /\ Len(toRead) = Len(board.bytes) - got
         /\ \A i \in 1 .. got - pos : Bytes(queue)[i] = board.bytes[pos + i]
  <1>1. board.bytes \in Seq(Byte) /\ Len(board.bytes) \in Nat
    BY BoardFacts DEF Stream
  <1>2. Len(queue) \in Nat /\ Bytes(queue) \in Seq(Byte) /\ Len(Bytes(queue)) \in Nat
    BY QueueFacts DEF Stream
  <1>3. got \in Nat /\ pos \in Nat /\ got <= Len(board.bytes) /\ pos <= got
    BY <1>1 DEF Stream
  <1> DEFINE s == board.bytes
             q == Bytes(queue)
  <1>4. toRead = SubSeq(s, got + 1, Len(s)) /\ q = SubSeq(s, pos + 1, got)
    BY DEF Stream
  <1>5. s \in Seq(Byte) /\ Len(s) \in Nat /\ got <= Len(s)
    BY <1>1, <1>3
  <1> HIDE DEF s, q, got, pos
  <1>6. toRead \in Seq(Byte) /\ Len(toRead) = Len(s) - got
    BY <1>3, <1>4, <1>5
  <1>7. Len(q) = got - pos /\ \A i \in 1 .. got - pos : q[i] = s[pos + i]
    BY <1>3, <1>4, <1>5
  <1>8. queue \in Seq(Chunk)
    BY DEF Stream
  <1> QED BY <1>1, <1>2, <1>3, <1>6, <1>7, <1>8 DEF s, q

\* The first bytes of the queue are those of the stream from the place it has got to.
LEMMA FieldIs ==
  ASSUME Stream, NEW n \in 0 .. Len(Bytes(queue))
  PROVE  /\ Field(n) = Part(board, pos + 1, n)
         /\ Field(n) \in Seq(Byte) /\ Len(Field(n)) = n
         /\ \A i \in 1 .. n : Field(n)[i] = board.bytes[pos + i] /\ Field(n)[i] \in Byte
  <1> DEFINE s == board.bytes
             q == Bytes(queue)
             f == SubSeq(q, 1, n)
  <1>1. /\ s \in Seq(Byte) /\ Len(s) \in Nat /\ got \in Nat /\ pos \in Nat /\ got <= Len(s)
        /\ pos <= got /\ q \in Seq(Byte) /\ Len(q) = got - pos
        /\ \A i \in 1 .. got - pos : q[i] = s[pos + i]
    BY StreamFacts
  <1>2. q = SubSeq(s, pos + 1, got) /\ n \in 0 .. Len(q)
    BY DEF Stream
  <1> HIDE DEF s, q, got, pos
  <1>3. f = SubSeq(s, pos + 1 + 1 - 1, pos + 1 + n - 1)
    BY <1>1, <1>2, CutOfCut
  <1>4. f = SubSeq(s, pos + 1, pos + 1 + n - 1)
    BY <1>1, <1>3
  <1>5. f \in Seq(Byte) /\ Len(f) = n /\ \A i \in 1 .. n : f[i] = q[i] /\ f[i] \in Byte
    BY <1>1, <1>2
  <1>6. \A i \in 1 .. n : f[i] = s[pos + i]
    BY <1>1, <1>2, <1>5
  <1>7. f = Field(n) /\ SubSeq(s, pos + 1, pos + 1 + n - 1) = Part(board, pos + 1, n)
    BY DEF Field, Part, s, q
  <1> QED BY <1>4, <1>5, <1>6, <1>7 DEF s

\* A step that takes n bytes from the queue.
Moves(n) ==
  /\ n \in 0 .. Len(Bytes(queue)) /\ Dropped(queue', queue, n) /\ left' = left - n
  /\ UNCHANGED <<deviceVars, avail, event, saved, delivered>>

LEMMA ConsumeMoves ==
  ASSUME Stream, NEW n \in 0 .. Len(Bytes(queue)), Consume(n),
         UNCHANGED <<deviceVars, avail, event, saved, delivered>>
  PROVE  Moves(n)
  <1>1. Dropped(Drop(queue, n), queue, n)
    BY DropFacts DEF Stream
  <1> QED BY <1>1 DEF Moves, Consume

LEMMA StayMoves ==
  ASSUME Stream, UNCHANGED <<deviceVars, queue, left, avail, event, saved, delivered>>, left \in Int
  PROVE  Moves(0)
  <1>1. /\ queue \in Seq(Chunk) /\ Bytes(queue) \in Seq(Byte) /\ Len(Bytes(queue)) \in Nat
    BY QueueFacts DEF Stream
  <1>2. Bytes(queue) = SubSeq(Bytes(queue), 0 + 1, Len(Bytes(queue)))
    BY <1>1, SubSeqFull
  <1>3. \A e \in Nat : Old(queue, e) = IF Old(queue, e) <= 0 THEN 0 ELSE Old(queue, e) - 0
    <2> SUFFICES ASSUME NEW e \in Nat
                 PROVE  Old(queue, e) = IF Old(queue, e) <= 0 THEN 0 ELSE Old(queue, e) - 0
      OBVIOUS
    <2>1. Old(queue, e) \in Nat
      BY <1>1, OldFacts
    <2> QED BY <2>1
  <1>4. Dropped(queue, queue, 0)
    BY <1>1, <1>2, <1>3 DEF Dropped
  <1> QED BY <1>1, <1>4 DEF Moves

LEMMA StreamMoves ==
  ASSUME Stream, NEW n, Moves(n)
  PROVE  /\ Stream' /\ pos' = pos + n /\ got' = got /\ n \in Nat
         /\ Len(Bytes(queue')) = Len(Bytes(queue)) - n
         /\ \A e \in Nat : Old(queue', e) = IF Old(queue, e) <= n THEN 0 ELSE Old(queue, e) - n
  <1> DEFINE s == board.bytes
             q == Bytes(queue)
             r == Bytes(queue')
  <1>1. /\ s \in Seq(Byte) /\ Len(s) \in Nat /\ got \in Nat /\ pos \in Nat /\ got <= Len(s)
        /\ pos <= got /\ q \in Seq(Byte) /\ Len(q) = got - pos
    BY StreamFacts
  <1>2. /\ q = SubSeq(s, pos + 1, got) /\ n \in 0 .. Len(q) /\ r = SubSeq(q, n + 1, Len(q))
        /\ \A e \in Nat : Old(queue', e) = IF Old(queue, e) <= n THEN 0 ELSE Old(queue, e) - n
        /\ queue' \in Seq(Chunk) /\ board' = board /\ toRead' = toRead
    BY DEF Stream, Moves, Dropped, deviceVars
  <1>3. got' = got
    BY <1>2 DEF got
  <1>4. pos' = got' - Len(r)
    BY DEF pos
  <1> HIDE DEF s, q, r
  <1>5. Len(r) = Len(q) - n
    BY <1>1, <1>2
  <1>6. pos' = pos + n
    BY <1>1, <1>2, <1>3, <1>4, <1>5
  <1>7. r = SubSeq(s, pos + n + 1, got)
    <2>1. r = SubSeq(s, pos + 1 + (n + 1) - 1, pos + 1 + Len(q) - 1)
      BY <1>1, <1>2, CutOfCut
    <2>2. pos + 1 + (n + 1) - 1 = pos + n + 1 /\ pos + 1 + Len(q) - 1 = got
      BY <1>1, <1>2
    <2> QED BY <2>1, <2>2
  <1>8. pos + n \in 0 .. got /\ n \in Nat
    BY <1>1, <1>2
  <1>9. Stream'
    <2>1. board' \in Boards /\ got' \in 0 .. Len(board'.bytes)
          /\ toRead' = SubSeq(board'.bytes, got' + 1, Len(board'.bytes))
      BY <1>2, <1>3 DEF Stream
    <2>2. pos' \in 0 .. got'
      BY <1>3, <1>6, <1>8
    <2>3. Bytes(queue') = SubSeq(board'.bytes, pos' + 1, got')
      BY <1>2, <1>3, <1>6, <1>7 DEF r, s
    <2> QED BY <1>2, <2>1, <2>2, <2>3 DEF Stream
  <1> QED BY <1>2, <1>3, <1>5, <1>6, <1>8, <1>9 DEF q, r

\* A chunk that the device thread reads and puts.
LEMMA StreamPut ==
  ASSUME Stream, avail \in Nat, PutChunk
  PROVE  /\ Stream' /\ pos' = pos /\ got' \in got .. Len(board.bytes) /\ board' = board
         /\ Len(Bytes(queue')) - Len(Bytes(queue)) = avail' - avail
         /\ \A e \in Nat : Old(queue', e + 1) = Old(queue, e)
  <1> DEFINE s == board.bytes
             q == Bytes(queue)
             t == toRead
             r == Bytes(queue')
  <1>1. /\ s \in Seq(Byte) /\ Len(s) \in Nat /\ got \in Nat /\ pos \in Nat /\ got <= Len(s)
        /\ pos <= got /\ q \in Seq(Byte) /\ Len(q) = got - pos
        /\ t \in Seq(Byte) /\ Len(t) = Len(s) - got
    BY StreamFacts
  <1>2. /\ q = SubSeq(s, pos + 1, got) /\ t = SubSeq(s, got + 1, Len(s))
        /\ queue \in Seq(Chunk) /\ board' = board
    BY DEF Stream, PutChunk
  <1>3. PICK n \in 1 .. Len(t) : /\ queue' = Append(queue, SubSeq(t, 1, n)) /\ avail' = avail + n
                                 /\ toRead' = SubSeq(t, n + 1, Len(t))
    BY DEF PutChunk
  <1> DEFINE c == SubSeq(t, 1, n)
             u == SubSeq(t, n + 1, Len(t))
  <1> HIDE DEF s, q, t
  <1>4. c \in Seq(Byte) /\ Len(c) = n /\ n \in Nat \ {0}
    BY <1>1
  <1>5. c \in Chunk
    BY <1>4, EmptySeq DEF Chunk
  <1>6. Len(u) = Len(t) - n
    BY <1>1, <1>4
  <1>7. c = SubSeq(s, got + 1, got + n) /\ u = SubSeq(s, got + n + 1, Len(s)) /\ n <= Len(s) - got
    <2>1. c = SubSeq(s, got + 1 + 1 - 1, got + 1 + n - 1)
      BY <1>1, <1>2, <1>4, CutOfCut
    <2>2. u = SubSeq(s, got + 1 + (n + 1) - 1, got + 1 + Len(t) - 1)
      BY <1>1, <1>2, <1>4, CutOfCut
    <2>3. got + 1 + 1 - 1 = got + 1 /\ got + 1 + n - 1 = got + n /\ got + 1 + Len(t) - 1 = Len(s)
          /\ got + 1 + (n + 1) - 1 = got + n + 1
      BY <1>1, <1>4
    <2> QED BY <1>1, <2>1, <2>2, <2>3
  <1> HIDE DEF c, u
  <1>8. got' = got + n
    <2>1. got' = Len(s) - Len(u) /\ got = Len(s) - Len(t)
      BY <1>2, <1>3 DEF got, s, u, t
    <2> HIDE DEF got
    <2> QED BY <1>1, <1>4, <1>6, <2>1
  <1>9. r = q \o c /\ queue' \in Seq(Chunk)
    <2>1. queue \in Seq(Seq(Byte)) /\ queue' = Append(queue, c)
      BY <1>2, <1>3, QueueFacts DEF c
    <2>2. Bytes(Append(queue, c)) = Bytes(queue) \o c
      BY <1>4, <2>1, BytesOfAppend
    <2>3. Append(queue, c) \in Seq(Chunk)
      BY <1>2, <1>5, AppendProperties
    <2> QED BY <2>1, <2>2, <2>3 DEF q
  <1> HIDE DEF r
  <1>10. Len(r) = Len(q) + n
    <2>1. Len(q \o c) = Len(q) + Len(c)
      BY <1>1, <1>4, ConcatProperties
    <2> QED BY <1>4, <1>9, <2>1
  <1>11. pos' = pos
    <2>1. pos' = got' - Len(r) /\ pos = got - Len(q)
      BY DEF pos, r, q
    <2> QED BY <1>1, <1>4, <1>8, <1>10, <2>1
  <1>12. r = SubSeq(s, pos + 1, got + n)
    <2>1. pos + 1 \in 1 .. Len(s) + 1 /\ got \in pos + 1 - 1 .. Len(s) /\ got + n \in got .. Len(s)
      BY <1>1, <1>4, <1>7
    <2>2. SubSeq(s, pos + 1, got) \o SubSeq(s, got + 1, got + n) = SubSeq(s, pos + 1, got + n)
      BY <1>1, <2>1, ConcatAdjacentSubSeq
    <2> QED BY <1>2, <1>7, <1>9, <2>2
  <1>13. Stream'
    <2>1. board' \in Boards /\ got' \in 0 .. Len(s) /\ pos' \in 0 .. got'
      <3>1. board' \in Boards
        BY <1>2 DEF Stream
      <3> QED BY <1>1, <1>4, <1>7, <1>8, <1>11, <3>1
    <2>2. toRead' = SubSeq(s, got' + 1, Len(s)) /\ r = SubSeq(s, pos' + 1, got')
      <3>1. toRead' = u
        BY <1>3 DEF u
      <3> QED BY <1>7, <1>8, <1>11, <1>12, <3>1
    <2>3. s = board'.bytes
      BY <1>2 DEF s
    <2> QED BY <1>9, <2>1, <2>2, <2>3 DEF Stream, r
  <1>14. \A e \in Nat : Old(queue', e + 1) = Old(queue, e)
    BY <1>2, <1>3, <1>5, OldOfAppend DEF c
  <1>15. got' \in got .. Len(s)
    BY <1>1, <1>4, <1>7, <1>8
  <1>16. avail' - avail = n
    BY <1>3, <1>4
  <1>17. Len(r) - Len(q) = n
    <2>1. Len(q) \in Nat
      BY <1>1
    <2> QED BY <1>4, <1>10, <2>1
  <1> QED BY <1>1, <1>2, <1>4, <1>10, <1>11, <1>13, <1>14, <1>15, <1>16, <1>17 DEF s, q, r

-----------------------------------------------------------------------------
(* Types, and where the framer thread is.                                  *)

Framing == [og : Byte, oc : Byte, length : Nat, data : Seq(Byte), crc : Byte, new : BOOLEAN]

Types ==
  /\ chunks \in 0 .. MaxChunks /\ announce \in BOOLEAN /\ running \in BOOLEAN
  /\ avail \in Nat /\ event \in Nat /\ left \in Int /\ saved \in Nat
  /\ state \in {"junk", "sync", "og", "oc", "length", "data", "crc", "crc2", "finished"}
  /\ status \in {"none", "INSUFFICIENT_DATA", "JUNK_DATA", "VALID_FRAME", "INVALID_CRC"}
  /\ frame \in Framing /\ delivered \in Seq(FrameType)

\* What the machine's state says of the thread, the count and the frame.
Control ==
  /\ running => status = "none" /\ 0 <= left /\ left <= Len(Bytes(queue)) /\ state # "finished"
  /\ ~frame.new => ~running /\ status = "none" /\ state = "junk"
  /\ state = "finished" => status \in {"JUNK_DATA", "VALID_FRAME", "INVALID_CRC"}
  /\ status = "JUNK_DATA" => state \in {"junk", "finished"}
  /\ status \in {"VALID_FRAME", "INVALID_CRC"} => state = "finished" /\ left >= 0
  /\ status \in {"none", "INSUFFICIENT_DATA"} /\ ~running => state # "sync"
  /\ status = "INSUFFICIENT_DATA" => state # "junk"
  /\ running /\ state \in {"junk", "sync", "crc2"} => left > 0

Shape == Types /\ Stream /\ Control

LEMMA ConstantTypes ==
  /\ MTU \in Nat /\ MaxChunks \in Nat /\ 0 \in Byte
  /\ NoFrame \in Framing /\ NewFrame \in Framing /\ ~NoFrame.new /\ NewFrame.new
  <1>1. MTU \in Nat /\ MaxChunks \in Nat
    BY FramerAssumption
  <1>2. 0 \in Byte
    BY DEF Byte
  <1>3. <<>> \in Seq(Byte)
    BY EmptySeq
  <1>4. NoFrame \in Framing /\ NewFrame \in Framing /\ ~NoFrame.new /\ NewFrame.new
    BY <1>2, <1>3 DEF NoFrame, NewFrame, Framing
  <1> QED BY <1>1, <1>2, <1>4

LEMMA BoardSizes ==
  ASSUME Stream
  PROVE  /\ LengthSize \in {1, 2} /\ CrcSize \in {1, 2} /\ HeaderSize = 3 + LengthSize
         /\ HeaderSize \in {4, 5} /\ HeaderSize = Header(board)
         /\ LengthSize = board.lengthSize /\ CrcSize = board.crcSize
  <1>1. board \in Boards
    BY DEF Stream
  <1> QED BY <1>1, BoardFacts DEF LengthSize, CrcSize, HeaderSize, Header

LEMMA FieldLength ==
  ASSUME Stream, LengthSize <= Len(Bytes(queue))
  PROVE  /\ Length(Field(LengthSize)) \in Nat
         /\ LengthSize = 1 => Length(Field(LengthSize)) = board.bytes[pos + 1]
         /\ LengthSize = 2 => Length(Field(LengthSize)) = board.bytes[pos + 1] + 256 * board.bytes[pos + 2]
  <1>1. LengthSize \in {1, 2} /\ Len(Bytes(queue)) \in Nat
    BY BoardSizes, QueueFacts DEF Stream
  <1>2. LengthSize \in 0 .. Len(Bytes(queue))
    BY <1>1
  <1> DEFINE f == Field(LengthSize)
  <1>3. \A i \in 1 .. LengthSize : f[i] = board.bytes[pos + i] /\ f[i] \in Byte
    BY <1>2, FieldIs
  <1>4. \A x, y \in Byte : x \in Nat /\ x + 256 * y \in Nat
    BY DEF Byte
  <1> HIDE DEF f
  <1>5. CASE LengthSize = 1
    <2>1. Length(f) = f[1]
      BY <1>5 DEF Length
    <2>2. f[1] = board.bytes[pos + 1] /\ f[1] \in Byte
      BY <1>3, <1>5
    <2> QED BY <1>4, <1>5, <2>1, <2>2 DEF f
  <1>6. CASE LengthSize = 2
    <2>1. Length(f) = f[1] + 256 * f[2]
      BY <1>6 DEF Length, Read16
    <2>2. f[1] = board.bytes[pos + 1] /\ f[1] \in Byte /\ f[2] = board.bytes[pos + 2] /\ f[2] \in Byte
      BY <1>3, <1>6
    <2>3. f[1] + 256 * f[2] \in Nat
      BY <1>4, <2>2
    <2> QED BY <1>6, <2>1, <2>2, <2>3 DEF f
  <1> QED BY <1>1, <1>5, <1>6

\* The first n bytes of the queue are there when the count has n.
LEMMA EnoughFacts ==
  ASSUME Shape, NEW n \in Nat, Enough(n)
  PROVE  /\ running /\ left >= n /\ n \in 0 .. Len(Bytes(queue)) /\ left \in Nat
         /\ left <= Len(Bytes(queue)) /\ Len(Bytes(queue)) \in Nat /\ status = "none"
         /\ frame.new /\ frame \in Framing
  <1>1. Len(Bytes(queue)) \in Nat
    BY QueueFacts DEF Shape, Stream
  <1> QED BY <1>1 DEF Shape, Types, Control, Enough

-----------------------------------------------------------------------------
(* The steps of the machine: what each takes, and that it leaves the shape. *)

LEMMA TypesMove ==
  ASSUME Shape, NEW n, Moves(n), running' \in BOOLEAN, frame' \in Framing,
         state' \in {"junk", "sync", "og", "oc", "length", "data", "crc", "crc2", "finished"},
         status' \in {"none", "INSUFFICIENT_DATA", "JUNK_DATA", "VALID_FRAME", "INVALID_CRC"}
  PROVE  /\ Types' /\ Stream' /\ n \in Nat /\ Len(Bytes(queue)) \in Nat /\ n <= Len(Bytes(queue))
         /\ Len(Bytes(queue')) = Len(Bytes(queue)) - n /\ left' = left - n /\ left \in Int
  <1>1. Stream' /\ Len(Bytes(queue')) = Len(Bytes(queue)) - n /\ n \in Nat
    BY StreamMoves DEF Shape
  <1>2. Len(Bytes(queue)) \in Nat
    BY QueueFacts DEF Shape, Stream
  <1>3. n <= Len(Bytes(queue)) /\ left' = left - n /\ left \in Int
    BY <1>2 DEF Moves, Shape, Types
  <1>4. Types'
    BY <1>1, <1>3 DEF Moves, Shape, Types, deviceVars
  <1> QED BY <1>1, <1>2, <1>3, <1>4

LEMMA JunkMoves ==
  ASSUME Shape, JunkData
  PROVE  Moves(Junk(queue)) /\ Shape'
  <1> DEFINE n == Junk(queue)
  <1>1. n \in 0 .. Len(Bytes(queue)) /\ Consume(n)
        /\ UNCHANGED <<deviceVars, avail, event, saved, frame, delivered>>
    BY JunkFacts DEF JunkData, Shape, Stream
  <1>2. Moves(n)
    BY <1>1, ConsumeMoves DEF Shape
  <1>3. frame \in Framing /\ frame' = frame /\ running /\ state = "junk" /\ status = "none"
        /\ frame.new /\ left > 0 /\ left <= Len(Bytes(queue)) /\ running \in BOOLEAN
    BY <1>1 DEF Shape, Types, Control, JunkData
  <1>4. \/ n = 0 /\ state' = "sync" /\ running' = running /\ status' = status
        \/ n # 0 /\ state' = "finished" /\ running' = FALSE /\ status' = "JUNK_DATA"
    BY DEF JunkData, Return
  <1> HIDE DEF n
  <1>5. Types' /\ Stream' /\ left' = left - n /\ Len(Bytes(queue')) = Len(Bytes(queue)) - n
        /\ n \in Nat /\ Len(Bytes(queue)) \in Nat /\ left \in Int
    BY <1>2, <1>3, <1>4, TypesMove
  <1>6. Control'
    <2>1. frame'.new
      BY <1>3
    <2>2. CASE n = 0 /\ state' = "sync" /\ running' = running /\ status' = status
      <3>1. left' = left /\ left' <= Len(Bytes(queue')) /\ 0 <= left'
        BY <1>3, <1>5, <2>2
      <3> QED BY <1>3, <2>1, <2>2, <3>1 DEF Control
    <2>3. CASE n # 0 /\ state' = "finished" /\ running' = FALSE /\ status' = "JUNK_DATA"
      BY <2>1, <2>3 DEF Control
    <2> QED BY <1>4, <2>2, <2>3
  <1> QED BY <1>2, <1>5, <1>6 DEF Shape, n

LEMMA InsufficientMoves ==
  ASSUME Shape, InsufficientData
  PROVE  Moves(0) /\ Shape'
  <1>1. /\ running /\ state # "junk" /\ left < Needed /\ running' = FALSE
        /\ status' = "INSUFFICIENT_DATA" /\ state' = state /\ frame' = frame /\ queue' = queue
        /\ left' = left /\ UNCHANGED <<deviceVars, avail, event, saved, delivered>>
    BY DEF InsufficientData, Return
  <1>2. Moves(0)
    BY <1>1, StayMoves DEF Shape, Types
  <1>3. /\ frame \in Framing /\ status = "none" /\ frame.new /\ state # "finished"
        /\ state \in {"junk", "sync", "og", "oc", "length", "data", "crc", "crc2", "finished"}
    BY <1>1 DEF Shape, Types, Control
  <1>4. state # "sync"
    BY <1>1 DEF Shape, Types, Control, Needed
  <1>5. Types' /\ Stream'
    BY <1>1, <1>2, <1>3, TypesMove
  <1>6. Control'
    BY <1>1, <1>3, <1>4 DEF Control
  <1> QED BY <1>2, <1>5, <1>6 DEF Shape

\* A field of n bytes is read, and the machine goes on to the next state or stops.
LEMMA FieldMoves ==
  ASSUME Shape, NEW n \in Nat, Enough(n), Consume(n),
         UNCHANGED <<deviceVars, avail, event, saved, delivered>>,
         frame' \in Framing, frame'.new,
         \/ running' = running /\ status' = status /\ state' \in {"og", "oc", "length", "data", "crc"}
         \/ running' = running /\ status' = status /\ state' = "crc2" /\ left' > 0
         \/ running' = FALSE /\ status' = "INSUFFICIENT_DATA" /\ state' = "crc2"
         \/ running' = FALSE /\ status' = "JUNK_DATA" /\ state' = "junk"
         \/ running' = FALSE /\ status' \in {"VALID_FRAME", "INVALID_CRC"} /\ state' = "finished"
  PROVE  Moves(n) /\ Shape'
  <1>1. /\ running /\ left >= n /\ n \in 0 .. Len(Bytes(queue)) /\ left \in Nat
        /\ left <= Len(Bytes(queue)) /\ Len(Bytes(queue)) \in Nat /\ status = "none"
    BY EnoughFacts
  <1>2. Moves(n)
    BY <1>1, ConsumeMoves DEF Shape
  <1>3. Types' /\ Stream' /\ left' = left - n /\ Len(Bytes(queue')) = Len(Bytes(queue)) - n
    <2>1. running' \in BOOLEAN
      BY <1>1
    <2>2. state' \in {"junk", "sync", "og", "oc", "length", "data", "crc", "crc2", "finished"}
      OBVIOUS
    <2>3. status' \in {"none", "INSUFFICIENT_DATA", "JUNK_DATA", "VALID_FRAME", "INVALID_CRC"}
      BY <1>1
    <2> QED BY <1>2, <2>1, <2>2, <2>3, TypesMove
  <1>4. Control'
    <2>1. 0 <= left' /\ left' <= Len(Bytes(queue'))
      BY <1>1, <1>3
    <2>2. CASE running' = running /\ status' = status /\ state' \in {"og", "oc", "length", "data", "crc"}
      BY <1>1, <2>1, <2>2 DEF Control
    <2>3. CASE running' = running /\ status' = status /\ state' = "crc2" /\ left' > 0
      BY <1>1, <2>1, <2>3 DEF Control
    <2>4. CASE running' = FALSE /\ status' = "INSUFFICIENT_DATA" /\ state' = "crc2"
      BY <2>4 DEF Control
    <2>5. CASE running' = FALSE /\ status' = "JUNK_DATA" /\ state' = "junk"
      BY <2>5 DEF Control
    <2>6. CASE running' = FALSE /\ status' \in {"VALID_FRAME", "INVALID_CRC"} /\ state' = "finished"
      BY <2>1, <2>6 DEF Control
    <2> QED BY <2>2, <2>3, <2>4, <2>5, <2>6
  <1> QED BY <1>2, <1>3, <1>4 DEF Shape

\* The byte at the head of the queue.
LEMMA FieldByte ==
  ASSUME Stream, 1 \in 0 .. Len(Bytes(queue))
  PROVE  Field(1)[1] = board.bytes[pos + 1] /\ Field(1)[1] \in Byte
  <1>1. 1 \in 1 .. 1
    OBVIOUS
  <1> QED BY <1>1, FieldIs

LEMMA SyncMoves ==
  ASSUME Shape, SyncField
  PROVE  Moves(1) /\ Shape'
  <1>1. Enough(1) /\ Consume(1) /\ frame' = frame /\ running' = running /\ status' = status
        /\ state' = "og" /\ UNCHANGED <<deviceVars, avail, event, saved, delivered>>
    BY DEF SyncField
  <1>2. frame.new /\ frame \in Framing
    BY <1>1, EnoughFacts
  <1> QED BY <1>1, <1>2, FieldMoves

LEMMA OpGroupMoves ==
  ASSUME Shape, OpGroupField
  PROVE  /\ Moves(1) /\ Shape'
         /\ frame' = [frame EXCEPT !.og = board.bytes[pos + 1]]
  <1>1. Enough(1) /\ Consume(1) /\ running' = running /\ status' = status
        /\ state' = "oc" /\ UNCHANGED <<deviceVars, avail, event, saved, delivered>>
        /\ frame' = [frame EXCEPT !.og = Field(1)[1]]
    BY DEF OpGroupField
  <1>2. frame.new /\ frame \in Framing /\ 1 \in 0 .. Len(Bytes(queue))
    BY <1>1, EnoughFacts
  <1>3. Field(1)[1] = board.bytes[pos + 1] /\ Field(1)[1] \in Byte
    BY <1>2, FieldByte DEF Shape
  <1>4. frame' \in Framing /\ frame'.new
    BY <1>1, <1>2, <1>3 DEF Framing
  <1>5. Moves(1) /\ Shape'
    BY <1>1, <1>4, FieldMoves
  <1> QED BY <1>1, <1>3, <1>5

LEMMA OpCodeMoves ==
  ASSUME Shape, OpCodeField
  PROVE  /\ Moves(1) /\ Shape'
         /\ frame' = [frame EXCEPT !.oc = board.bytes[pos + 1]]
  <1>1. Enough(1) /\ Consume(1) /\ running' = running /\ status' = status
        /\ state' = "length" /\ UNCHANGED <<deviceVars, avail, event, saved, delivered>>
        /\ frame' = [frame EXCEPT !.oc = Field(1)[1]]
    BY DEF OpCodeField
  <1>2. frame.new /\ frame \in Framing /\ 1 \in 0 .. Len(Bytes(queue))
    BY <1>1, EnoughFacts
  <1>3. Field(1)[1] = board.bytes[pos + 1] /\ Field(1)[1] \in Byte
    BY <1>2, FieldByte DEF Shape
  <1>4. frame' \in Framing /\ frame'.new
    BY <1>1, <1>2, <1>3 DEF Framing
  <1>5. Moves(1) /\ Shape'
    BY <1>1, <1>4, FieldMoves
  <1> QED BY <1>1, <1>3, <1>5

LEMMA LengthMoves ==
  ASSUME Shape, LengthField
  PROVE  /\ Moves(LengthSize) /\ Shape' /\ frame' = [frame EXCEPT !.length = frame'.length]
         /\ LengthSize = 1 => frame'.length = board.bytes[pos + 1]
         /\ LengthSize = 2 => frame'.length = board.bytes[pos + 1] + 256 * board.bytes[pos + 2]
  <1>1. Enough(LengthSize) /\ Consume(LengthSize)
        /\ UNCHANGED <<deviceVars, avail, event, saved, delivered>>
        /\ frame' = [frame EXCEPT !.length = Length(Field(LengthSize))]
        /\ \/ running' = FALSE /\ status' = "JUNK_DATA" /\ state' = "junk"
           \/ running' = running /\ status' = status /\ state' = "data"
    BY DEF LengthField, Return
  <1>2. LengthSize \in Nat
    BY BoardSizes DEF Shape
  <1>3. frame.new /\ frame \in Framing /\ LengthSize \in 0 .. Len(Bytes(queue))
    BY <1>1, <1>2, EnoughFacts
  <1>4. /\ Length(Field(LengthSize)) \in Nat
        /\ LengthSize = 1 => Length(Field(LengthSize)) = board.bytes[pos + 1]
        /\ LengthSize = 2 => Length(Field(LengthSize)) = board.bytes[pos + 1] + 256 * board.bytes[pos + 2]
    <2>1. LengthSize <= Len(Bytes(queue))
      BY <1>2, <1>3
    <2> QED BY <2>1, FieldLength DEF Shape
  <1>5. frame' \in Framing /\ frame'.new /\ frame'.length = Length(Field(LengthSize))
    BY <1>1, <1>3, <1>4 DEF Framing
  <1>6. Moves(LengthSize) /\ Shape'
    BY <1>1, <1>2, <1>5, FieldMoves
  <1> QED BY <1>1, <1>4, <1>5, <1>6

LEMMA DataMoves ==
  ASSUME Shape, DataField
  PROVE  /\ Moves(frame.length) /\ Shape' /\ frame.length \in Nat
         /\ frame' = [frame EXCEPT !.data = Part(board, pos + 1, frame.length)]
  <1>1. Enough(frame.length) /\ Consume(frame.length) /\ running' = running /\ status' = status
        /\ state' = "crc" /\ UNCHANGED <<deviceVars, avail, event, saved, delivered>>
        /\ frame' = [frame EXCEPT !.data = Field(frame.length)]
    BY DEF DataField
  <1>2. frame.length \in Nat
    BY DEF Shape, Types, Framing
  <1>3. frame.new /\ frame \in Framing /\ frame.length \in 0 .. Len(Bytes(queue))
    BY <1>1, <1>2, EnoughFacts
  <1>4. Field(frame.length) = Part(board, pos + 1, frame.length) /\ Field(frame.length) \in Seq(Byte)
    BY <1>3, FieldIs DEF Shape
  <1>5. frame' \in Framing /\ frame'.new
    BY <1>1, <1>3, <1>4 DEF Framing
  <1>6. Moves(frame.length) /\ Shape'
    BY <1>1, <1>2, <1>5, FieldMoves
  <1> QED BY <1>1, <1>2, <1>4, <1>6

LEMMA CrcMoves ==
  ASSUME Shape, CrcField
  PROVE  /\ Moves(1) /\ Shape'
         /\ frame' = [frame EXCEPT !.crc = board.bytes[pos + 1]]
  <1>1. Enough(1) /\ Consume(1) /\ UNCHANGED <<deviceVars, avail, event, saved, delivered>>
        /\ frame' = [frame EXCEPT !.crc = Field(1)[1]]
        /\ \/ running' = running /\ status' = status /\ state' = "crc2" /\ left' > 0
           \/ running' = FALSE /\ status' = "INSUFFICIENT_DATA" /\ state' = "crc2"
           \/ running' = FALSE /\ status' \in {"VALID_FRAME", "INVALID_CRC"} /\ state' = "finished"
    BY DEF CrcField, Return
  <1>2. frame.new /\ frame \in Framing /\ 1 \in 0 .. Len(Bytes(queue))
    BY <1>1, EnoughFacts
  <1>3. Field(1)[1] = board.bytes[pos + 1] /\ Field(1)[1] \in Byte
    BY <1>2, FieldByte DEF Shape
  <1>4. frame' \in Framing /\ frame'.new
    BY <1>1, <1>2, <1>3 DEF Framing
  <1>5. Moves(1) /\ Shape'
    BY <1>1, <1>4, FieldMoves
  <1> QED BY <1>1, <1>3, <1>5

LEMMA SecondCrcMoves ==
  ASSUME Shape, SecondCrcField
  PROVE  Moves(1) /\ Shape' /\ frame' = frame
  <1>1. Enough(1) /\ Consume(1) /\ UNCHANGED <<deviceVars, avail, event, saved, delivered>>
        /\ frame' = frame /\ running' = FALSE /\ status' \in {"VALID_FRAME", "INVALID_CRC"}
        /\ state' = "finished"
    BY DEF SecondCrcField, Return
  <1>2. frame.new /\ frame \in Framing
    BY <1>1, EnoughFacts
  <1>3. Moves(1) /\ Shape'
    BY <1>1, <1>2, FieldMoves
  <1> QED BY <1>1, <1>3

-----------------------------------------------------------------------------
(* What is counted.                                                        *)

\* Announcements of chunks that the framer thread has not waked up for yet.
Pending == IF announce THEN event + 1 ELSE event

\* At work the thread has counted all chunks but the ones whose announcement is pending.
Counted ==
  running \/ status # "none" => Old(queue, Pending) = 0 \/ Old(queue, Pending) <= left

Basics == Shape /\ SizeMatches /\ Counted

LEMMA PendingType ==
  ASSUME Types
  PROVE  Pending \in Nat
  BY DEF Types, Pending

LEMMA PendingOfNext == Types => Pending \in Nat
  BY PendingType

LEMMA BasicsMove ==
  ASSUME Basics, running, NEW n, Moves(n), Shape', running' \/ status' # "none"
  PROVE  Basics'
  <1>1. /\ Len(Bytes(queue')) = Len(Bytes(queue)) - n /\ n \in Nat
        /\ \A e \in Nat : Old(queue', e) = IF Old(queue, e) <= n THEN 0 ELSE Old(queue, e) - n
    BY StreamMoves DEF Basics, Shape
  <1>2. /\ left \in Int /\ saved \in Nat /\ avail \in Nat /\ Len(Bytes(queue)) \in Nat
        /\ left' = left - n /\ saved' = saved /\ avail' = avail /\ Pending' = Pending
        /\ Pending \in Nat
    BY PendingType, QueueFacts DEF Basics, Shape, Types, Stream, Moves, deviceVars, Pending
  <1>3. avail = Len(Bytes(queue)) + (saved - left)
    BY DEF Basics, SizeMatches
  <1>4. avail' = Len(Bytes(queue')) + (saved' - left')
    BY <1>1, <1>2, <1>3
  <1>5. SizeMatches'
    BY <1>4 DEF SizeMatches
  <1>6. Old(queue, Pending) = 0 \/ Old(queue, Pending) <= left
    BY DEF Basics, Counted
  <1>7. Old(queue, Pending) \in Nat
    BY <1>2, OldFacts DEF Basics, Shape, Stream
  <1>8. Old(queue', Pending) = 0 \/ Old(queue', Pending) <= left'
    BY <1>1, <1>2, <1>6, <1>7
  <1>9. Counted'
    BY <1>2, <1>8 DEF Counted
  <1> QED BY <1>5, <1>9 DEF Basics

LEMMA DispatchBasics ==
  ASSUME Basics, Dispatch
  PROVE  Basics'
  <1>1. ASSUME NEW n, Moves(n), Shape', running, running' \/ status' # "none" PROVE Basics'
    BY <1>1, BasicsMove
  <1>2. CASE JunkData
    <2>1. Moves(Junk(queue)) /\ Shape'
      BY <1>2, JunkMoves DEF Basics
    <2>2. running /\ (running' \/ status' # "none")
      BY <1>2 DEF JunkData, Return
    <2> QED BY <1>1, <2>1, <2>2
  <1>3. CASE InsufficientData
    <2>1. Moves(0) /\ Shape'
      BY <1>3, InsufficientMoves DEF Basics
    <2>2. running /\ (running' \/ status' # "none")
      BY <1>3 DEF InsufficientData, Return
    <2> QED BY <1>1, <2>1, <2>2
  <1>4. CASE SyncField
    <2>1. Moves(1) /\ Shape'
      BY <1>4, SyncMoves DEF Basics
    <2>2. running /\ (running' \/ status' # "none")
      BY <1>4 DEF SyncField, Enough
    <2> QED BY <1>1, <2>1, <2>2
  <1>5. CASE OpGroupField
    <2>1. Moves(1) /\ Shape'
      BY <1>5, OpGroupMoves DEF Basics
    <2>2. running /\ (running' \/ status' # "none")
      BY <1>5 DEF OpGroupField, Enough
    <2> QED BY <1>1, <2>1, <2>2
  <1>6. CASE OpCodeField
    <2>1. Moves(1) /\ Shape'
      BY <1>6, OpCodeMoves DEF Basics
    <2>2. running /\ (running' \/ status' # "none")
      BY <1>6 DEF OpCodeField, Enough
    <2> QED BY <1>1, <2>1, <2>2
  <1>7. CASE LengthField
    <2>1. Moves(LengthSize) /\ Shape'
      BY <1>7, LengthMoves DEF Basics
    <2>2. running /\ (running' \/ status' # "none")
      BY <1>7 DEF LengthField, Enough, Return
    <2> QED BY <1>1, <2>1, <2>2
  <1>8. CASE DataField
    <2>1. Moves(frame.length) /\ Shape'
      BY <1>8, DataMoves DEF Basics
    <2>2. running /\ (running' \/ status' # "none")
      BY <1>8 DEF DataField, Enough
    <2> QED BY <1>1, <2>1, <2>2
  <1>9. CASE CrcField
    <2>1. Moves(1) /\ Shape'
      BY <1>9, CrcMoves DEF Basics
    <2>2. running /\ (running' \/ status' # "none")
      BY <1>9 DEF CrcField, Enough, Return
    <2> QED BY <1>1, <2>1, <2>2
  <1>10. CASE SecondCrcField
    <2>1. Moves(1) /\ Shape'
      BY <1>10, SecondCrcMoves DEF Basics
    <2>2. running /\ (running' \/ status' # "none")
      BY <1>10 DEF SecondCrcField, Enough, Return
    <2> QED BY <1>1, <2>1, <2>2
  <1> QED BY <1>2, <1>3, <1>4, <1>5, <1>6, <1>7, <1>8, <1>9, <1>10 DEF Dispatch

LEMMA PutBasics ==
  ASSUME Basics, PutChunk
  PROVE  Basics'
  <1>1. Types /\ Stream /\ Control /\ SizeMatches /\ Counted
    BY DEF Basics, Shape
  <1>2. /\ Stream' /\ Len(Bytes(queue')) - Len(Bytes(queue)) = avail' - avail
        /\ \A e \in Nat : Old(queue', e + 1) = Old(queue, e)
    BY <1>1, StreamPut DEF Types
  <1>3. /\ announce' = TRUE /\ ~announce /\ chunks < MaxChunks /\ chunks' = chunks + 1
        /\ UNCHANGED <<event, running, state, frame, left, saved, status, delivered>>
    BY DEF PutChunk
  <1>4. /\ avail \in Nat /\ avail' \in Nat /\ avail <= avail'
    <2>1. PICK n \in 1 .. Len(toRead) : avail' = avail + n
      BY DEF PutChunk
    <2> QED BY <1>1, <2>1 DEF Types
  <1>5. Len(Bytes(queue)) \in Nat /\ Len(Bytes(queue')) \in Nat
    BY <1>1, <1>2, QueueFacts DEF Stream
  <1>6. Types'
    <2>1. chunks' \in 0 .. MaxChunks
      BY <1>1, <1>3, ConstantTypes DEF Types
    <2> QED BY <1>1, <1>3, <1>4, <2>1 DEF Types
  <1>7. Len(Bytes(queue)) <= Len(Bytes(queue'))
    BY <1>2, <1>4, <1>5
  <1>8. Control'
    <2>1. running => left' <= Len(Bytes(queue'))
      BY <1>1, <1>3, <1>5, <1>7 DEF Control, Types
    <2> QED BY <1>1, <1>3, <2>1 DEF Control
  <1>9. SizeMatches'
    <2> DEFINE d == IF running \/ status # "none" THEN saved - left ELSE 0
    <2>1. avail = Len(Bytes(queue)) + d /\ d \in Int
      BY <1>1 DEF SizeMatches, Types
    <2>2. d' = d
      BY <1>3
    <2> HIDE DEF d
    <2>3. avail' = Len(Bytes(queue')) + d
      <3>1. Len(Bytes(queue')) - Len(Bytes(queue)) = avail' - avail
        BY <1>2
      <3> QED BY <1>4, <1>5, <2>1, <3>1
    <2> QED BY <2>2, <2>3 DEF SizeMatches, d
  <1>10. Counted'
    <2>1. Pending \in Nat /\ Pending' = Pending + 1
      BY <1>1, <1>3, PendingType DEF Pending, Types
    <2>2. Old(queue', Pending') = Old(queue, Pending)
      BY <1>2, <2>1
    <2> QED BY <1>1, <1>3, <2>2 DEF Counted
  <1> QED BY <1>2, <1>6, <1>8, <1>9, <1>10 DEF Basics, Shape

LEMMA SignalBasics ==
  ASSUME Basics, SignalChunk
  PROVE  Basics' /\ Pending' = Pending
  <1>1. Types /\ Stream /\ Control /\ SizeMatches /\ Counted
    BY DEF Basics, Shape
  <1>2. /\ announce' = FALSE /\ announce /\ event' = event + 1
        /\ UNCHANGED <<board, toRead, chunks, queue, state, frame, left, status, running, avail,
                       saved, delivered>>
    BY DEF SignalChunk, machineVars
  <1>3. Types' /\ Control' /\ SizeMatches'
    <2>1. Types'
      <3>1. event' \in Nat
        BY <1>1, <1>2 DEF Types
      <3> QED BY <1>1, <1>2, <3>1 DEF Types
    <2>2. Control'
      BY <1>1, <1>2 DEF Control
    <2>3. SizeMatches'
      BY <1>1, <1>2 DEF SizeMatches
    <2> QED BY <2>1, <2>2, <2>3
  <1>4. Stream'
    BY <1>1, <1>2 DEF Stream, got, pos
  <1>5. Pending' = Pending
    BY <1>2 DEF Pending
  <1>6. Counted'
    BY <1>1, <1>2, <1>5 DEF Counted
  <1> QED BY <1>3, <1>4, <1>5, <1>6 DEF Basics, Shape

LEMMA WakeBasics ==
  ASSUME Basics, Wake
  PROVE  Basics' /\ Stream' /\ got' = got /\ pos' = pos
  <1>1. Types /\ Stream /\ Control /\ SizeMatches /\ Counted
    BY DEF Basics, Shape
  <1>2. /\ ~running /\ status = "none" /\ event > 0 /\ event' = event - 1
        /\ UNCHANGED <<board, toRead, chunks, announce, queue, avail, status, delivered>>
    BY DEF Wake, deviceVars
  <1>3. Stream' /\ got' = got /\ pos' = pos
    BY <1>1, <1>2 DEF Stream, got, pos
  <1>4. Len(Bytes(queue)) \in Nat /\ avail = Len(Bytes(queue)) /\ event' \in Nat
    BY <1>1, <1>2, QueueFacts DEF Stream, SizeMatches, Types
  <1>5. CASE avail = 0 /\ UNCHANGED <<running, left, saved, frame, state>>
    <2>1. Types' /\ Control' /\ SizeMatches' /\ Counted'
      BY <1>1, <1>2, <1>4, <1>5 DEF Types, Control, SizeMatches, Counted
    <2> QED BY <1>3, <2>1 DEF Basics, Shape
  <1>6. CASE /\ avail # 0 /\ running' = TRUE /\ left' = avail /\ saved' = avail
             /\ frame' = IF frame.new THEN frame ELSE NewFrame
             /\ state' = IF frame.new THEN state ELSE "junk"
    <2>1. frame' \in Framing /\ frame'.new /\ state' = state
      BY <1>1, <1>6, ConstantTypes DEF Types, Control
    <2>2. Types'
      BY <1>1, <1>2, <1>4, <1>6, <2>1 DEF Types
    <2>3. Control'
      <3>1. 0 <= left' /\ left' <= Len(Bytes(queue')) /\ left' > 0
        BY <1>2, <1>4, <1>6
      <3>2. state # "finished"
        BY <1>1, <1>2 DEF Control
      <3> QED BY <1>1, <1>2, <1>6, <2>1, <3>1, <3>2 DEF Control
    <2>4. SizeMatches'
      <3>1. avail' = Len(Bytes(queue')) + (saved' - left')
        BY <1>2, <1>4, <1>6
      <3> QED BY <1>6, <3>1 DEF SizeMatches
    <2>5. Counted'
      <3>1. Old(queue', Pending') <= Len(Bytes(queue'))
        <4>1. (Pending \in Nat)'
          BY <2>2, PendingOfNext, PTL
        <4>2. queue' \in Seq(Chunk)
          BY <1>3 DEF Stream
        <4> QED BY <4>1, <4>2, OldFacts
      <3> QED BY <1>2, <1>4, <1>6, <3>1 DEF Counted
    <2> QED BY <1>3, <2>2, <2>3, <2>4, <2>5 DEF Basics, Shape
  <1> QED BY <1>3, <1>5, <1>6 DEF Wake

LEMMA HandleBasics ==
  ASSUME Basics, Handle
  PROVE  Basics' /\ Stream' /\ got' = got /\ pos' = pos
  <1>1. Types /\ Stream /\ Control /\ SizeMatches /\ Counted
    BY DEF Basics, Shape
  <1>2. /\ status # "none" /\ status' = "none"
        /\ avail' = IF avail < saved - left THEN avail ELSE avail - (saved - left)
        /\ state' = IF state = "finished" THEN "junk" ELSE state
        /\ event' \in {event, event + 1}
        /\ UNCHANGED <<board, toRead, chunks, announce, queue, running, left, saved>>
        /\ \/ /\ status = "VALID_FRAME" /\ frame' = NoFrame
              /\ delivered' = Append(delivered, <<frame.og, frame.oc, frame.data>>)
           \/ status # "VALID_FRAME" /\ frame' = frame /\ delivered' = delivered
    BY DEF Handle, deviceVars
  <1>3. Stream' /\ got' = got /\ pos' = pos
    BY <1>1, <1>2 DEF Stream, got, pos
  <1>4. ~running
    BY <1>1, <1>2 DEF Control
  <1>5. Len(Bytes(queue)) \in Nat /\ avail = Len(Bytes(queue)) + (saved - left)
        /\ saved \in Nat /\ left \in Int /\ avail \in Nat
    BY <1>1, <1>2, QueueFacts DEF Stream, SizeMatches, Types
  <1>6. avail' = Len(Bytes(queue))
    BY <1>2, <1>5
  <1>7. SizeMatches' /\ Counted'
    BY <1>2, <1>4, <1>6 DEF SizeMatches, Counted
  <1>8. Control'
    BY <1>1, <1>2, <1>4, ConstantTypes DEF Control, Types
  <1>9. delivered' \in Seq(FrameType) /\ frame' \in Framing
    <2>1. <<frame.og, frame.oc, frame.data>> \in FrameType
      BY <1>1 DEF Types, Framing, FrameType
    <2>2. delivered \in Seq(FrameType) /\ frame \in Framing
      BY <1>1 DEF Types
    <2> QED BY <1>2, <2>1, <2>2, ConstantTypes, AppendProperties
  <1>10. Types'
    BY <1>1, <1>2, <1>5, <1>6, <1>9 DEF Types
  <1> QED BY <1>3, <1>7, <1>8, <1>10 DEF Basics, Shape

-----------------------------------------------------------------------------
(* The frame under way and the bytes it was read from.                     *)

\* Bytes of the frame that the machine has taken, and where the frame began in the stream.
DoneIn(b, s, f) ==
  CASE s \in {"junk", "sync", "finished"} -> 0
    [] s = "og" -> 1 [] s = "oc" -> 2 [] s = "length" -> 3
    [] s = "data" -> Header(b)
    [] s = "crc" -> Header(b) + f.length
    [] s = "crc2" -> Header(b) + f.length + 1
Start(b, s, f, p) == p + 1 - DoneIn(b, s, f)
start == Start(board, state, frame, pos)

Between == {"junk", "sync", "finished"}

\* What frame f holds of the bytes of b in state s, behind the first p of them.
MatchesAt(b, s, f, p) ==
  /\ s = "sync" => b.bytes[p + 1] = SYNC
  /\ s \notin Between => Start(b, s, f, p) >= 1 /\ b.bytes[Start(b, s, f, p)] = SYNC
  /\ s \notin Between \union {"og"} => f.og = b.bytes[Start(b, s, f, p) + 1]
  /\ s \notin Between \union {"og", "oc"} => f.oc = b.bytes[Start(b, s, f, p) + 2]
  /\ s \in {"data", "crc", "crc2"} =>
       f.length = LengthAt(b, Start(b, s, f, p)) /\ ~ (f.length > MTU)
  /\ s \in {"crc", "crc2"} => f.data = Part(b, Start(b, s, f, p) + Header(b), f.length)
  /\ s = "crc2" => f.crc = b.bytes[p] /\ b.crcSize = 2

Matches == MatchesAt(board, state, frame, pos)

LEMMA StartIs ==
  ASSUME NEW b \in Boards, NEW s, NEW f, f.length \in Nat, NEW p \in Nat
  PROVE  /\ s \in Between => Start(b, s, f, p) = p + 1
         /\ s = "og" => Start(b, s, f, p) = p
         /\ s = "oc" => Start(b, s, f, p) = p - 1
         /\ s = "length" => Start(b, s, f, p) = p - 2
         /\ s = "data" => Start(b, s, f, p) = p + 1 - Header(b)
         /\ s = "crc" => Start(b, s, f, p) = p + 1 - Header(b) - f.length
         /\ s = "crc2" => Start(b, s, f, p) = p - Header(b) - f.length
  <1>1. Header(b) \in Nat
    BY BoardFacts
  <1>2. /\ s \in Between => DoneIn(b, s, f) = 0
        /\ s = "og" => DoneIn(b, s, f) = 1
        /\ s = "oc" => DoneIn(b, s, f) = 2
        /\ s = "length" => DoneIn(b, s, f) = 3
        /\ s = "data" => DoneIn(b, s, f) = Header(b)
        /\ s = "crc" => DoneIn(b, s, f) = Header(b) + f.length
        /\ s = "crc2" => DoneIn(b, s, f) = Header(b) + f.length + 1
    BY DEF DoneIn, Between
  <1> QED BY <1>1, <1>2 DEF Start

\* While a frame is under way with too few bytes behind it, nothing more is read from them.
Lacking(b, s, f, p, g) ==
  \/ g = p
  \/ s = "length" /\ g < p + b.lengthSize
  \/ s = "data" /\ g < p + f.length

LEMMA Partial ==
  ASSUME NEW b \in Boards, NEW s, NEW f, f.length \in Nat, NEW p \in Nat, NEW g \in p .. Len(b.bytes),
         s \in {"junk", "sync", "og", "oc", "length", "data", "crc", "crc2", "finished"},
         MatchesAt(b, s, f, p), Lacking(b, s, f, p, g)
  PROVE  Read(b, g)[Start(b, s, f, p)].frames = <<>>
  <1> DEFINE i == Start(b, s, f, p)
  <1>1. /\ Header(b) \in {4, 5} /\ Header(b) = 3 + b.lengthSize /\ b.lengthSize \in {1, 2}
        /\ b.crcSize \in {1, 2} /\ Len(b.bytes) \in Nat
    BY BoardFacts
  <1>2. g \in Nat /\ p <= g /\ g \in 0 .. Len(b.bytes)
    BY <1>1
  <1>3. /\ s \in Between => i = p + 1
        /\ s = "og" => i = p
        /\ s = "oc" => i = p - 1
        /\ s = "length" => i = p - 2
        /\ s = "data" => i = p + 1 - Header(b)
        /\ s = "crc" => i = p + 1 - Header(b) - f.length
        /\ s = "crc2" => i = p - Header(b) - f.length
    BY StartIs
  <1>4. /\ s \notin Between => i >= 1 /\ b.bytes[i] = SYNC
        /\ s \in {"data", "crc", "crc2"} => f.length = LengthAt(b, i) /\ ~ (f.length > MTU)
        /\ s = "crc2" => b.crcSize = 2
    BY DEF MatchesAt
  <1> SUFFICES Read(b, g)[i].frames = <<>>
    OBVIOUS
  <1> HIDE DEF i
  <1>5. CASE s \in Between
    <2>1. g = p
      BY <1>5 DEF Lacking, Between
    <2>2. i = g + 1
      BY <1>3, <1>5, <2>1
    <2> QED BY <1>2, <2>2, ReadAtEnd, NothingIs
  <1>6. CASE s \in {"og", "oc"}
    <2>1. g = p
      BY <1>6 DEF Lacking
    <2>2. i >= 1 /\ b.bytes[i] = SYNC /\ i \in {p, p - 1}
      BY <1>3, <1>4, <1>6 DEF Between
    <2>3. i \in 1 .. g + 1 /\ i + Header(b) > g + 1
      BY <1>1, <1>2, <2>1, <2>2
    <2> QED BY <1>2, <2>2, <2>3, ReadPart, NothingIs
  <1>7. CASE s = "length"
    <2>1. g < p + b.lengthSize
      BY <1>1, <1>2, <1>7 DEF Lacking
    <2>2. i >= 1 /\ b.bytes[i] = SYNC /\ i = p - 2
      BY <1>3, <1>4, <1>7 DEF Between
    <2>3. i \in 1 .. g + 1 /\ i + Header(b) > g + 1
      BY <1>1, <1>2, <2>1, <2>2
    <2> QED BY <1>2, <2>2, <2>3, ReadPart, NothingIs
  <1>8. CASE s \in {"data", "crc", "crc2"}
    <2>1. i >= 1 /\ b.bytes[i] = SYNC /\ f.length = LengthAt(b, i) /\ ~ (f.length > MTU)
      BY <1>4, <1>8 DEF Between
    <2>2. EndAt(b, i) = i + Header(b) + f.length + b.crcSize
      BY <2>1 DEF EndAt
    <2>3. \/ s = "data" /\ i = p + 1 - Header(b) /\ (g = p \/ g < p + f.length)
          \/ s = "crc" /\ i = p + 1 - Header(b) - f.length /\ g = p
          \/ s = "crc2" /\ i = p - Header(b) - f.length /\ g = p /\ b.crcSize = 2
      BY <1>3, <1>4, <1>8 DEF Lacking
    <2>4. i \in 1 .. g + 1 /\ i + Header(b) + f.length + b.crcSize > g + 1
      <3> DEFINE n == f.length
                 c == b.crcSize
                 h == Header(b)
      <3>1. n \in Nat /\ c \in {1, 2} /\ h \in {4, 5} /\ i >= 1
        BY <1>1, <2>1
      <3>2. \/ i = p + 1 - h /\ (g = p \/ g < p + n)
            \/ i = p + 1 - h - n /\ g = p
            \/ i = p - h - n /\ g = p /\ c = 2
        BY <2>3
      <3> HIDE DEF n, c, h
      <3>3. i \in 1 .. g + 1 /\ i + h + n + c > g + 1
        BY <1>2, <3>1, <3>2
      <3> QED BY <3>3 DEF n, c, h
    <2> QED BY <1>2, <2>1, <2>2, <2>4, ReadPart, NothingIs
  <1> QED BY <1>5, <1>6, <1>7, <1>8 DEF Between

-----------------------------------------------------------------------------
(* What the machine keeps of a frame is what its checksum is taken of.     *)

LEMMA PartIsConcat ==
  ASSUME NEW b \in Boards, NEW i \in Nat \ {0}, NEW m \in Nat, NEW n \in Nat,
         i + m + n <= Len(b.bytes) + 1
  PROVE  Part(b, i, m + n) = Part(b, i, m) \o Part(b, i + m, n)
  <1> DEFINE s == b.bytes
  <1>1. s \in Seq(Byte) /\ Len(s) \in Nat
    BY BoardFacts
  <1>2. Part(b, i, m) = SubSeq(s, i, i + m - 1) /\ Part(b, i + m, n) = SubSeq(s, i + m, i + m + n - 1)
        /\ Part(b, i, m + n) = SubSeq(s, i, i + (m + n) - 1)
    BY DEF Part
  <1> HIDE DEF s
  <1>3. i \in 1 .. Len(s) + 1 /\ i + m - 1 \in i - 1 .. Len(s) /\ i + m + n - 1 \in i + m - 1 .. Len(s)
    BY <1>1 DEF s
  <1>4. SubSeq(s, i, i + m - 1) \o SubSeq(s, i + m - 1 + 1, i + m + n - 1) = SubSeq(s, i, i + m + n - 1)
    BY <1>1, <1>3, ConcatAdjacentSubSeq
  <1>5. i + m - 1 + 1 = i + m /\ i + (m + n) - 1 = i + m + n - 1
    OBVIOUS
  <1> QED BY <1>2, <1>4, <1>5

LEMMA PairsAreEqual ==
  ASSUME NEW s \in Seq(Byte), Len(s) = 2, NEW x \in Byte, NEW y \in Byte, s[1] = x, s[2] = y
  PROVE  s = <<x, y>>
  <1> DEFINE t == <<x, y>>
  <1>1. t \in Seq(Byte) /\ Len(t) = 2 /\ t[1] = x /\ t[2] = y
    OBVIOUS
  <1> HIDE DEF t
  <1>2. \A k \in 1 .. Len(s) : s[k] = t[k]
    BY <1>1
  <1>3. s = t
    BY <1>1, <1>2, SeqEqual
  <1> QED BY <1>3 DEF t

LEMMA SinglesAreEqual ==
  ASSUME NEW s \in Seq(Byte), Len(s) = 1, NEW x \in Byte, s[1] = x
  PROVE  s = <<x>>
  <1> DEFINE t == <<x>>
  <1>1. t \in Seq(Byte) /\ Len(t) = 1 /\ t[1] = x
    OBVIOUS
  <1> HIDE DEF t
  <1>2. \A k \in 1 .. Len(s) : s[k] = t[k]
    BY <1>1
  <1>3. s = t
    BY <1>1, <1>2, SeqEqual
  <1> QED BY <1>3 DEF t

\* The length bytes made of a length are those it was read from.
LEMMA LengthBytesAre ==
  ASSUME Stream, NEW i \in Nat \ {0}, i + Header(board) <= Len(board.bytes) + 1
  PROVE  LengthBytes(LengthAt(board, i)) = Part(board, i + 3, LengthSize)
  <1> DEFINE b == board
             n == LengthAt(board, i)
             p == Part(board, i + 3, LengthSize)
  <1>1. b \in Boards /\ LengthSize \in {1, 2} /\ LengthSize = b.lengthSize /\ Header(b) = 3 + LengthSize
        /\ Len(b.bytes) \in Nat
    BY BoardSizes, BoardFacts DEF Stream
  <1>2. /\ b.lengthSize = 1 => n = b.bytes[i + 3]
        /\ b.lengthSize = 2 => n = b.bytes[i + 3] + 256 * b.bytes[i + 4]
        /\ \A j \in 0 .. Header(b) - 1 : b.bytes[i + j] \in Byte
    BY <1>1, LengthFacts
  <1>3. i + 3 \in Nat \ {0} /\ LengthSize \in Nat /\ i + 3 + LengthSize <= Len(b.bytes) + 1
    BY <1>1
  <1>4. /\ p \in Seq(Byte) /\ Len(p) = LengthSize
        /\ \A j \in 1 .. LengthSize : p[j] = b.bytes[i + 3 + j - 1]
    BY <1>1, <1>3, PartFacts
  <1>5. i + 3 + 1 - 1 = i + 3 /\ i + 3 + 2 - 1 = i + 4
    OBVIOUS
  <1> HIDE DEF n, p
  <1>6. CASE LengthSize = 1
    <2>1. LengthBytes(n) = <<n>>
      BY <1>6 DEF LengthBytes
    <2>2. 3 \in 0 .. Header(b) - 1
      BY <1>1
    <2>3. n = b.bytes[i + 3] /\ b.bytes[i + 3] \in Byte
      BY <1>1, <1>2, <1>6, <2>2
    <2>4. p[1] = n
      BY <1>4, <1>5, <1>6, <2>3
    <2> HIDE DEF b
    <2>5. p = <<n>>
      BY <1>4, <1>6, <2>3, <2>4, SinglesAreEqual
    <2> QED BY <2>1, <2>5 DEF n, p
  <1>7. CASE LengthSize = 2
    <2> DEFINE x == b.bytes[i + 3]
               y == b.bytes[i + 4]
    <2>1. LengthBytes(n) = <<n % 256, n \div 256>>
      BY <1>7 DEF LengthBytes
    <2>2. 3 \in 0 .. Header(b) - 1 /\ 4 \in 0 .. Header(b) - 1
      BY <1>1, <1>7
    <2>3. n = x + 256 * y /\ x \in Byte /\ y \in Byte
      BY <1>1, <1>2, <1>7, <2>2
    <2>4. p[1] = x /\ p[2] = y
      BY <1>4, <1>5, <1>7
    <2> HIDE DEF b, x, y
    <2>5. n % 256 = x /\ n \div 256 = y
      BY <2>3 DEF Byte
    <2>6. p = <<x, y>>
      BY <1>4, <1>7, <2>3, <2>4, PairsAreEqual
    <2> QED BY <2>1, <2>5, <2>6 DEF n, p
  <1> QED BY <1>1, <1>6, <1>7

\* The checksum of a frame that holds what was read from i on.
LEMMA FrameCrcIs ==
  ASSUME Stream, NEW i \in Nat \ {0}, i + Header(board) <= Len(board.bytes) + 1,
         EndAt(board, i) <= Len(board.bytes) + 1, NEW f,
         f.og = board.bytes[i + 1], f.oc = board.bytes[i + 2], f.length = LengthAt(board, i),
         f.data = Part(board, i + Header(board), f.length)
  PROVE  /\ FrameCRC(f) = CalculateCRC(Part(board, i + 1, Header(board) - 1 + LengthAt(board, i)))
         /\ FrameCRC(f) \in Byte
         /\ FrameAt(board, i) = <<f.og, f.oc, f.data>>
  <1> DEFINE b == board
             h == Header(board)
             n == LengthAt(board, i)
             s == Part(board, i + 1, 2)
             t == Part(board, i + 3, LengthSize)
             u == Part(board, i + Header(board), LengthAt(board, i))
  <1>1. b \in Boards /\ LengthSize \in {1, 2} /\ h = 3 + LengthSize /\ Len(b.bytes) \in Nat
        /\ b.crcSize \in {1, 2}
    BY BoardSizes, BoardFacts DEF Stream
  <1>2. /\ n \in Nat /\ EndAt(b, i) = i + h + n + b.crcSize
        /\ \A j \in 0 .. h - 1 : b.bytes[i + j] \in Byte
    BY <1>1, LengthFacts
  <1>3. i + h + n <= Len(b.bytes) + 1 /\ i + h <= Len(b.bytes) + 1
    <2> HIDE DEF h, n
    <2>1. b.crcSize >= 1 /\ EndAt(b, i) <= Len(b.bytes) + 1
      BY <1>1
    <2>2. i + h <= Len(b.bytes) + 1
      BY DEF h
    <2> QED BY <1>1, <1>2, <2>1, <2>2
  <1>4. Part(b, i + 1, 2 + LengthSize) = s \o t
    <2>1. i + 1 \in Nat \ {0} /\ 2 \in Nat /\ LengthSize \in Nat /\ i + 1 + 2 + LengthSize <= Len(b.bytes) + 1
          /\ i + 1 + 2 = i + 3
      <3> HIDE DEF h
      <3> QED BY <1>1, <1>3
    <2> HIDE DEF b
    <2>2. Part(b, i + 1, 2 + LengthSize) = Part(b, i + 1, 2) \o Part(b, i + 1 + 2, LengthSize)
      BY <1>1, <2>1, PartIsConcat
    <2> QED BY <2>1, <2>2 DEF b
  <1>5. Part(b, i + 1, h - 1 + n) = Part(b, i + 1, h - 1) \o u
    <2>1. i + 1 \in Nat \ {0} /\ h - 1 \in Nat /\ i + 1 + (h - 1) + n <= Len(b.bytes) + 1
          /\ i + 1 + (h - 1) = i + h
      <3> HIDE DEF h, n
      <3> QED BY <1>1, <1>2, <1>3
    <2>2. Part(b, i + 1, h - 1 + n) = Part(b, i + 1, h - 1) \o Part(b, i + 1 + (h - 1), n)
      <3> HIDE DEF b, h, n
      <3> QED BY <1>1, <1>2, <2>1, PartIsConcat
    <2> QED BY <2>1, <2>2
  <1>6. h - 1 = 2 + LengthSize
    <2> HIDE DEF h
    <2> QED BY <1>1
  <1>7. /\ i + 1 \in Nat \ {0} /\ 2 \in Nat /\ i + 1 + 2 <= Len(b.bytes) + 1
        /\ i + 3 \in Nat \ {0} /\ LengthSize \in Nat /\ i + 3 + LengthSize <= Len(b.bytes) + 1
        /\ i + h \in Nat \ {0}
    <2> HIDE DEF h
    <2> QED BY <1>1, <1>3
  <1>8. s \in Seq(Byte) /\ Len(s) = 2 /\ \A j \in 1 .. 2 : s[j] = b.bytes[i + 1 + j - 1]
    BY <1>1, <1>7, PartFacts
  <1>9. b.bytes[i + 1] \in Byte /\ b.bytes[i + 2] \in Byte
    <2>1. 1 \in 0 .. h - 1 /\ 2 \in 0 .. h - 1
      <3> HIDE DEF h
      <3> QED BY <1>1
    <2> QED BY <1>2, <2>1
  <1>10. s = <<f.og, f.oc>>
    <2>1. s[1] = b.bytes[i + 1] /\ s[2] = b.bytes[i + 2]
      <3>1. i + 1 + 1 - 1 = i + 1 /\ i + 1 + 2 - 1 = i + 2
        OBVIOUS
      <3> HIDE DEF s
      <3> QED BY <1>8, <3>1
    <2> HIDE DEF s
    <2> QED BY <1>8, <1>9, <2>1, PairsAreEqual
  <1>11. LengthBytes(f.length) = t
    BY <1>1, LengthBytesAre
  <1>12. f.data = u
    OBVIOUS
  <1>13. FrameCRC(f) = CalculateCRC(<<f.og, f.oc>> \o LengthBytes(f.length) \o f.data)
    BY DEF FrameCRC
  <1>14. FrameCRC(f) = CalculateCRC(Part(b, i + 1, h - 1 + n))
    <2> HIDE DEF s, t, u, h, n, b
    <2> QED BY <1>4, <1>5, <1>6, <1>10, <1>11, <1>12, <1>13
  <1>15. i + 1 + (h - 1 + n) <= Len(b.bytes) + 1 /\ h - 1 + n \in Nat
    <2> HIDE DEF h, n
    <2> QED BY <1>1, <1>2, <1>3
  <1>16. Part(b, i + 1, h - 1 + n) \in Seq(Byte)
    <2> HIDE DEF h, n
    <2> QED BY <1>1, <1>7, <1>15, PartFacts
  <1>17. FrameCRC(f) \in Byte
    BY <1>14, <1>16, CrcType
  <1>18. FrameAt(b, i) = <<f.og, f.oc, f.data>>
    BY DEF FrameAt
  <1> QED BY <1>14, <1>17, <1>18

\* When a frame is valid, by the size of its checksum.
LEMMA ValidIs ==
  ASSUME NEW b \in Boards, NEW i \in Nat \ {0}, i + Header(b) <= Len(b.bytes) + 1,
         EndAt(b, i) <= Len(b.bytes) + 1, NEW c \in Byte, NEW k,
         k = i + Header(b) + LengthAt(b, i),
         c = CalculateCRC(Part(b, i + 1, Header(b) - 1 + LengthAt(b, i)))
  PROVE  /\ b.crcSize = 1 => (ValidAt(b, i) <=> b.bytes[k] = c)
         /\ b.crcSize = 2 => (ValidAt(b, i) <=> Xor(b.bytes[k], c) = b.bytes[k + 1])
         /\ k \in Nat \ {0} /\ EndAt(b, i) = k + b.crcSize
  <1> DEFINE t == Part(b, k, b.crcSize)
  <1>1. /\ b.crcSize \in {1, 2} /\ Header(b) \in {4, 5} /\ b.bytes \in Seq(Byte) /\ Len(b.bytes) \in Nat
        /\ LengthAt(b, i) \in Nat /\ EndAt(b, i) = k + b.crcSize
    BY BoardFacts, LengthFacts
  <1>2. k \in Nat \ {0} /\ k + b.crcSize <= Len(b.bytes) + 1 /\ b.crcSize \in Nat
    BY <1>1
  <1>3. /\ t \in Seq(Byte) /\ Len(t) = b.crcSize
        /\ \A j \in 1 .. b.crcSize : t[j] = b.bytes[k + j - 1]
    BY <1>2, PartFacts
  <1>4. ValidAt(b, i) <=> c = CalculateCRC(t)
    BY DEF ValidAt
  <1>5. k + 1 - 1 = k /\ k + 2 - 1 = k + 1
    BY <1>2
  <1>6. b.bytes[k] \in Byte
    <2>1. k \in 1 .. Len(b.bytes)
      BY <1>1, <1>2
    <2> QED BY <1>1, <2>1, ElementOfSeq
  <1> HIDE DEF t
  <1>7. ASSUME b.crcSize = 1 PROVE ValidAt(b, i) <=> b.bytes[k] = c
    <2>1. t[1] = b.bytes[k]
      BY <1>3, <1>5, <1>7
    <2>2. CalculateCRC(t) = t[1]
      BY <1>3, <1>7, CrcOfOne
    <2> QED BY <1>4, <2>1, <2>2
  <1>8. ASSUME b.crcSize = 2 PROVE ValidAt(b, i) <=> Xor(b.bytes[k], c) = b.bytes[k + 1]
    <2> DEFINE x == b.bytes[k]
               y == b.bytes[k + 1]
    <2>1. t[1] = x /\ t[2] = y
      BY <1>3, <1>5, <1>8
    <2>2. CalculateCRC(t) = Xor(t[1], t[2])
      BY <1>3, <1>8, CrcOfTwo
    <2>3. y \in Byte
      <3>1. k + 1 \in 1 .. Len(b.bytes)
        BY <1>1, <1>2, <1>8
      <3> QED BY <1>1, <3>1, ElementOfSeq
    <2>4. Xor(x, Xor(x, y)) = y /\ Xor(x, Xor(x, c)) = c
      BY <1>6, <2>3, XorTwice
    <2> HIDE DEF x, y
    <2>5. ValidAt(b, i) <=> c = Xor(x, y)
      BY <1>4, <2>1, <2>2
    <2>6. ValidAt(b, i) <=> Xor(x, c) = y
      BY <2>4, <2>5
    <2> QED BY <2>6 DEF x, y
  <1> QED BY <1>1, <1>2, <1>7, <1>8

-----------------------------------------------------------------------------
(* A step of the machine reads as the definition reads.                    *)

\* The frames behind are those that were behind.
Skips == \A g \in pos' .. Len(board.bytes) : Read(board, g)[start'] = Read(board, g)[start]

\* The frame behind is delivered.
Delivers ==
  \A g \in pos' .. Len(board.bytes) :
    /\ Read(board, g)[start].frames
         = <<<<frame'.og, frame'.oc, frame'.data>>>> \o Read(board, g)[start'].frames
    /\ Read(board, g)[start'].halts => Read(board, g)[start].halts
    /\ Overlong(board, g, start') => Read(board, g)[start].halts

LEMMA MoveFacts ==
  ASSUME Shape, NEW n, Moves(n), Shape'
  PROVE  /\ board \in Boards /\ board' = board /\ pos' = pos + n /\ pos \in Nat /\ n \in Nat
         /\ pos' \in Nat /\ pos' <= got /\ got <= Len(board.bytes) /\ got \in Nat
         /\ Len(board.bytes) \in Nat /\ frame.length \in Nat /\ frame'.length \in Nat
         /\ frame \in Framing /\ frame' \in Framing
         /\ \A g \in pos' .. Len(board.bytes) : g \in 0 .. Len(board.bytes) /\ g \in Nat /\ g >= pos + n
  <1>1. pos' = pos + n /\ got' = got /\ n \in Nat /\ Stream' /\ board' = board
    BY StreamMoves DEF Shape, Moves, deviceVars
  <1>2. /\ Len(board.bytes) \in Nat /\ got \in Nat /\ pos \in Nat /\ got <= Len(board.bytes)
    BY StreamFacts DEF Shape
  <1>3. pos' \in Nat /\ pos' <= got
    <2>1. pos' \in 0 .. got'
      BY <1>1 DEF Stream
    <2> QED BY <1>1, <1>2, <2>1
  <1>4. frame \in Framing /\ frame' \in Framing
    BY DEF Shape, Types
  <1>5. frame.length \in Nat /\ frame'.length \in Nat
    BY <1>4 DEF Framing
  <1>6. \A g \in pos' .. Len(board.bytes) : g \in 0 .. Len(board.bytes) /\ g \in Nat /\ g >= pos + n
    BY <1>1, <1>2, <1>3
  <1>7. board \in Boards
    BY DEF Shape, Stream
  <1> QED BY <1>1, <1>2, <1>3, <1>4, <1>5, <1>6, <1>7

LEMMA JunkReads ==
  ASSUME Shape, Matches, JunkData
  PROVE  Matches' /\ Skips
  <1> DEFINE n == Junk(queue)
  <1>1. Moves(n) /\ Shape'
    BY JunkMoves
  <1>2. /\ board \in Boards /\ board' = board /\ pos' = pos + n /\ pos \in Nat /\ n \in Nat
        /\ frame.length \in Nat /\ frame'.length \in Nat /\ pos' \in Nat
        /\ \A g \in pos' .. Len(board.bytes) : g \in 0 .. Len(board.bytes) /\ g \in Nat /\ g >= pos + n
    BY <1>1, MoveFacts
  <1>3. state = "junk" /\ left > 0 /\ left <= Len(Bytes(queue)) /\ left \in Int
    BY DEF JunkData, Shape, Control, Types
  <1>4. \/ n = 0 /\ state' = "sync"
        \/ n # 0 /\ state' = "finished"
    BY DEF JunkData, Return
  <1>5. /\ \A k \in 1 .. n : Bytes(queue)[k] # SYNC
        /\ n < Len(Bytes(queue)) => Bytes(queue)[n + 1] = SYNC
        /\ n \in 0 .. Len(Bytes(queue))
    BY JunkFacts DEF Shape, Stream
  <1>6. /\ \A k \in 1 .. got - pos : Bytes(queue)[k] = board.bytes[pos + k]
        /\ Len(Bytes(queue)) = got - pos /\ got \in Nat
    BY StreamFacts DEF Shape
  <1>7. start = pos + 1 /\ start' = pos' + 1
    <2>1. state \in Between /\ state' \in Between
      BY <1>3, <1>4 DEF Between
    <2>2. Start(board, state, frame, pos) = pos + 1
      <3>1. board \in Boards /\ pos \in Nat /\ frame.length \in Nat
        BY <1>2
      <3> QED BY <2>1, <3>1, StartIs
    <2>3. Start(board', state', frame', pos') = pos' + 1
      <3>1. board' \in Boards /\ pos' \in Nat /\ frame'.length \in Nat
        BY <1>2
      <3> QED BY <2>1, <3>1, StartIs
    <2> QED BY <2>2, <2>3 DEF start
  <1> HIDE DEF n
  <1>8. Matches'
    <2>1. state' = "sync" => board'.bytes[pos' + 1] = SYNC
      <3> SUFFICES ASSUME n = 0 PROVE board.bytes[pos + 1] = SYNC
        BY <1>2, <1>4
      <3>1. 1 \in 1 .. got - pos /\ n < Len(Bytes(queue))
        BY <1>2, <1>3, <1>6
      <3> QED BY <1>5, <1>6, <3>1
    <2>2. state' \in Between
      BY <1>4 DEF Between
    <2> QED BY <2>1, <2>2 DEF Matches, MatchesAt, Between
  <1>9. Skips
    <2> SUFFICES ASSUME NEW g \in pos' .. Len(board.bytes)
                 PROVE  Read(board, g)[start'] = Read(board, g)[start]
      BY DEF Skips
    <2>1. g \in 0 .. Len(board.bytes) /\ g \in Nat /\ g >= pos + n
      BY <1>2
    <2>2. \A j \in pos + 1 .. pos + 1 + n - 1 : board.bytes[j] # SYNC
      <3> SUFFICES ASSUME NEW j \in pos + 1 .. pos + 1 + n - 1 PROVE board.bytes[j] # SYNC
        OBVIOUS
      <3>1. j - pos \in 1 .. n /\ j - pos \in 1 .. got - pos /\ pos + (j - pos) = j
        BY <1>2, <1>5, <1>6
      <3> QED BY <1>5, <1>6, <3>1
    <2>3. pos + 1 \in 1 .. g + 1 /\ pos + 1 + n <= g + 1
      BY <1>2, <2>1
    <2>4. Read(board, g)[pos + 1] = Read(board, g)[pos + 1 + n]
      BY <1>2, <2>1, <2>2, <2>3, SkipJunk
    <2>5. pos + 1 + n = pos' + 1
      BY <1>2
    <2> QED BY <1>7, <2>4, <2>5
  <1> QED BY <1>8, <1>9

LEMMA InsufficientReads ==
  ASSUME Shape, Matches, InsufficientData
  PROVE  Matches' /\ Skips
  <1>1. Moves(0) /\ Shape'
    BY InsufficientMoves
  <1>2. board' = board /\ pos' = pos + 0 /\ pos \in Nat
    BY <1>1, MoveFacts
  <1>3. pos' = pos
    BY <1>2
  <1>4. state' = state /\ frame' = frame
    BY DEF InsufficientData
  <1> QED BY <1>2, <1>3, <1>4 DEF Matches, Skips, start

LEMMA SyncReads ==
  ASSUME Shape, Matches, SyncField
  PROVE  Matches' /\ Skips
  <1>1. Moves(1) /\ Shape'
    BY SyncMoves
  <1>2. /\ board \in Boards /\ board' = board /\ pos' = pos + 1 /\ pos \in Nat /\ pos' \in Nat
        /\ frame.length \in Nat /\ frame'.length \in Nat
    BY <1>1, MoveFacts
  <1>3. state = "sync" /\ state' = "og"
    BY DEF SyncField
  <1>4. start = pos + 1 /\ start' = pos' /\ Start(board', state', frame', pos') = pos'
    BY <1>2, <1>3, StartIs DEF start, Between
  <1>5. board.bytes[pos + 1] = SYNC
    BY <1>3 DEF Matches, MatchesAt
  <1>6. pos' >= 1 /\ board'.bytes[pos'] = SYNC
    BY <1>2, <1>5
  <1>7. Matches'
    BY <1>3, <1>4, <1>6 DEF Matches, MatchesAt, Between
  <1> QED BY <1>2, <1>4, <1>7 DEF Skips

LEMMA OpGroupReads ==
  ASSUME Shape, Matches, OpGroupField
  PROVE  Matches' /\ Skips
  <1> DEFINE i == Start(board, state, frame, pos)
             j == Start(board', state', frame', pos')
  <1>1. Moves(1) /\ Shape' /\ frame' = [frame EXCEPT !.og = board.bytes[pos + 1]]
    BY OpGroupMoves
  <1>2. /\ board \in Boards /\ board' = board /\ pos' = pos + 1 /\ pos \in Nat /\ pos' \in Nat
        /\ frame.length \in Nat /\ frame'.length \in Nat /\ frame \in Framing
    BY <1>1, MoveFacts
  <1>3. state = "og" /\ state' = "oc"
    BY DEF OpGroupField
  <1>4. i = pos /\ j = pos' - 1
    <2>1. i = pos
      BY <1>2, <1>3, StartIs
    <2>2. j = pos' - 1
      BY <1>2, <1>3, StartIs
    <2> QED BY <2>1, <2>2
  <1>5. i >= 1 /\ board.bytes[i] = SYNC
    BY <1>3 DEF Matches, MatchesAt, Between
  <1> HIDE DEF i, j
  <1>6. j = i
    BY <1>2, <1>4
  <1>7. frame'.og = board.bytes[i + 1]
    BY <1>1, <1>2, <1>4 DEF Framing
  <1>8. Matches'
    BY <1>2, <1>3, <1>5, <1>6, <1>7 DEF Matches, MatchesAt, Between, j
  <1> QED BY <1>6, <1>8 DEF Skips, start, i, j

LEMMA OpCodeReads ==
  ASSUME Shape, Matches, OpCodeField
  PROVE  Matches' /\ Skips
  <1> DEFINE i == Start(board, state, frame, pos)
             j == Start(board', state', frame', pos')
  <1>1. Moves(1) /\ Shape' /\ frame' = [frame EXCEPT !.oc = board.bytes[pos + 1]]
    BY OpCodeMoves
  <1>2. /\ board \in Boards /\ board' = board /\ pos' = pos + 1 /\ pos \in Nat /\ pos' \in Nat
        /\ frame.length \in Nat /\ frame'.length \in Nat /\ frame \in Framing
    BY <1>1, MoveFacts
  <1>3. state = "oc" /\ state' = "length"
    BY DEF OpCodeField
  <1>4. i = pos - 1 /\ j = pos' - 2
    <2>1. i = pos - 1
      BY <1>2, <1>3, StartIs
    <2>2. j = pos' - 2
      <3>1. board' \in Boards /\ pos' \in Nat /\ frame'.length \in Nat
        BY <1>2
      <3>2. DoneIn(board', state', frame') = 3
        BY <1>3 DEF DoneIn
      <3> QED BY <3>1, <3>2 DEF Start
    <2> QED BY <2>1, <2>2
  <1>5. i >= 1 /\ board.bytes[i] = SYNC /\ frame.og = board.bytes[i + 1]
    BY <1>3 DEF Matches, MatchesAt, Between
  <1> HIDE DEF i, j
  <1>6. j = i /\ i + 2 = pos + 1
    BY <1>2, <1>4
  <1>7. frame'.oc = board.bytes[i + 2] /\ frame'.og = frame.og
    BY <1>1, <1>2, <1>6 DEF Framing
  <1>8. Matches'
    BY <1>2, <1>3, <1>5, <1>6, <1>7 DEF Matches, MatchesAt, Between, j
  <1> QED BY <1>6, <1>8 DEF Skips, start, i, j

LEMMA LengthReads ==
  ASSUME Shape, Matches, LengthField
  PROVE  Matches' /\ Skips
  <1> DEFINE i == Start(board, state, frame, pos)
             j == Start(board', state', frame', pos')
             n == LengthAt(board, Start(board, state, frame, pos))
  <1>1. /\ Moves(LengthSize) /\ Shape' /\ frame' = [frame EXCEPT !.length = frame'.length]
        /\ LengthSize = 1 => frame'.length = board.bytes[pos + 1]
        /\ LengthSize = 2 => frame'.length = board.bytes[pos + 1] + 256 * board.bytes[pos + 2]
    BY LengthMoves
  <1>2. /\ board \in Boards /\ board' = board /\ pos' = pos + LengthSize /\ pos \in Nat /\ pos' \in Nat
        /\ frame.length \in Nat /\ frame'.length \in Nat /\ frame \in Framing
        /\ pos' <= Len(board.bytes) /\ Len(board.bytes) \in Nat
    <2>1. pos' <= got /\ got <= Len(board.bytes) /\ got \in Nat
      BY <1>1, MoveFacts
    <2> QED BY <1>1, <2>1, MoveFacts
  <1>3. /\ state = "length"
        /\ \/ frame'.length > MTU /\ state' = "junk"
           \/ ~ (frame'.length > MTU) /\ state' = "data"
    BY DEF LengthField
  <1>4. LengthSize \in {1, 2} /\ Header(board) = 3 + LengthSize /\ LengthSize = board.lengthSize
    BY BoardSizes DEF Shape
  <1>5. i = pos - 2
    <2>1. DoneIn(board, state, frame) = 3
      BY <1>3 DEF DoneIn
    <2> QED BY <1>2, <2>1 DEF Start
  <1>6. /\ i >= 1 /\ board.bytes[i] = SYNC /\ frame.og = board.bytes[i + 1]
        /\ frame.oc = board.bytes[i + 2]
    BY <1>3 DEF Matches, MatchesAt, Between
  <1>7. frame'.og = frame.og /\ frame'.oc = frame.oc
    BY <1>1, <1>2 DEF Framing
  <1> HIDE DEF i, j
  <1>8. i \in Nat \ {0} /\ i + Header(board) = pos' + 1 /\ i + 3 = pos + 1 /\ i + 4 = pos + 2
    BY <1>2, <1>4, <1>5, <1>6
  <1>9. frame'.length = n
    <2>1. i + Header(board) <= Len(board.bytes) + 1
      BY <1>2, <1>8
    <2>2. /\ board.lengthSize = 1 => LengthAt(board, i) = board.bytes[i + 3]
          /\ board.lengthSize = 2 => LengthAt(board, i) = board.bytes[i + 3] + 256 * board.bytes[i + 4]
      BY <1>2, <1>8, <2>1, LengthFacts
    <2>3. frame'.length = LengthAt(board, i)
      BY <1>1, <1>4, <1>8, <2>2
    <2> QED BY <2>3 DEF i
  <1> HIDE DEF n
  <1>10. CASE frame'.length > MTU /\ state' = "junk"
    <2>1. j = pos' + 1
      <3>1. DoneIn(board', state', frame') = 0
        BY <1>10 DEF DoneIn
      <3> QED BY <1>2, <3>1 DEF Start, j
    <2>2. Matches'
      BY <1>10 DEF Matches, MatchesAt, Between
    <2>3. ASSUME NEW g \in pos' .. Len(board.bytes)
          PROVE  Read(board, g)[j] = Read(board, g)[i]
      <3>1. g \in 0 .. Len(board.bytes) /\ i \in 1 .. g /\ i + Header(board) <= g + 1
        BY <1>2, <1>4, <1>8
      <3>2. LengthAt(board, i) > MTU
        BY <1>9, <1>10 DEF n, i
      <3>3. Read(board, g)[i] = Read(board, g)[i + Header(board)]
        BY <1>2, <1>6, <3>1, <3>2, ReadOverlong
      <3> QED BY <1>8, <2>1, <3>3
    <2> QED BY <2>2, <2>3 DEF Skips, start, i, j
  <1>11. CASE ~ (frame'.length > MTU) /\ state' = "data"
    <2>1. j = i
      <3>1. DoneIn(board', state', frame') = Header(board')
        BY <1>11 DEF DoneIn
      <3>2. j = pos' + 1 - Header(board)
        BY <1>2, <3>1 DEF Start, j
      <3> QED BY <1>2, <1>4, <1>8, <3>2
    <2>2. frame'.length = LengthAt(board, i)
      BY <1>9 DEF n, i
    <2>3. Matches'
      BY <1>2, <1>6, <1>7, <1>11, <2>1, <2>2 DEF Matches, MatchesAt, Between, j
    <2> QED BY <2>1, <2>3 DEF Skips, start, i, j
  <1> QED BY <1>3, <1>10, <1>11

LEMMA DataReads ==
  ASSUME Shape, Matches, DataField
  PROVE  Matches' /\ Skips
  <1> DEFINE i == Start(board, state, frame, pos)
             j == Start(board', state', frame', pos')
             n == frame.length
  <1>1. /\ Moves(n) /\ Shape' /\ n \in Nat
        /\ frame' = [frame EXCEPT !.data = Part(board, pos + 1, n)]
    BY DataMoves
  <1>2. /\ board \in Boards /\ board' = board /\ pos' = pos + n /\ pos \in Nat /\ pos' \in Nat
        /\ frame'.length \in Nat /\ frame \in Framing
    BY <1>1, MoveFacts
  <1>3. state = "data" /\ state' = "crc"
    BY DEF DataField
  <1>4. Header(board) \in Nat
    BY <1>2, BoardFacts
  <1>5. i = pos + 1 - Header(board)
    <2>1. DoneIn(board, state, frame) = Header(board)
      BY <1>3 DEF DoneIn
    <2> QED BY <1>2, <2>1 DEF Start
  <1>6. /\ i >= 1 /\ board.bytes[i] = SYNC /\ frame.og = board.bytes[i + 1]
        /\ frame.oc = board.bytes[i + 2] /\ n = LengthAt(board, i) /\ ~ (n > MTU)
    BY <1>3 DEF Matches, MatchesAt, Between
  <1>7. /\ frame'.og = frame.og /\ frame'.oc = frame.oc /\ frame'.length = n
        /\ frame'.data = Part(board, pos + 1, n)
    BY <1>1, <1>2 DEF Framing
  <1>8. j = pos' + 1 - (Header(board) + n)
    <2>1. DoneIn(board', state', frame') = Header(board') + frame'.length
      BY <1>3 DEF DoneIn
    <2> QED BY <1>2, <1>7, <2>1 DEF Start
  <1> HIDE DEF i, j, n
  <1>9. j = i /\ pos + 1 = i + Header(board)
    BY <1>1, <1>2, <1>4, <1>5, <1>8
  <1>10. Matches'
    BY <1>2, <1>3, <1>6, <1>7, <1>9 DEF Matches, MatchesAt, Between, j
  <1> QED BY <1>9, <1>10 DEF Skips, start, i, j

\* What is known of a frame when the machine reads its checksum.
LEMMA FrameIsRead ==
  ASSUME Shape, Matches, state \in {"crc", "crc2"}, NEW i, i = Start(board, state, frame, pos)
  PROVE  /\ i \in Nat \ {0} /\ board.bytes[i] = SYNC /\ frame.og = board.bytes[i + 1]
         /\ frame.oc = board.bytes[i + 2] /\ frame.length = LengthAt(board, i) /\ ~ (frame.length > MTU)
         /\ frame.data = Part(board, i + Header(board), frame.length)
         /\ state = "crc" => i + Header(board) + frame.length = pos + 1
         /\ state = "crc2" => /\ i + Header(board) + frame.length = pos
                              /\ frame.crc = board.bytes[pos] /\ board.crcSize = 2
         /\ Header(board) \in {4, 5} /\ frame.length \in Nat
  <1>1. board \in Boards /\ frame.length \in Nat /\ pos \in Nat
    BY StreamFacts DEF Shape, Stream, Types, Framing
  <1>2. Header(board) \in {4, 5}
    BY <1>1, BoardFacts
  <1>3. /\ i >= 1 /\ board.bytes[i] = SYNC /\ frame.og = board.bytes[i + 1]
        /\ frame.oc = board.bytes[i + 2] /\ frame.length = LengthAt(board, i) /\ ~ (frame.length > MTU)
        /\ frame.data = Part(board, i + Header(board), frame.length)
        /\ state = "crc2" => frame.crc = board.bytes[pos] /\ board.crcSize = 2
    BY DEF Matches, MatchesAt, Between
  <1>4. CASE state = "crc"
    <2>1. DoneIn(board, state, frame) = Header(board) + frame.length
      BY <1>4 DEF DoneIn
    <2>2. i = pos + 1 - (Header(board) + frame.length)
      BY <2>1 DEF Start
    <2> DEFINE n == frame.length
               h == Header(board)
    <2>3. n \in Nat /\ h \in {4, 5} /\ i = pos + 1 - (h + n)
      BY <1>1, <1>2, <2>2
    <2> HIDE DEF n, h
    <2>4. i + h + n = pos + 1 /\ i \in Int
      BY <1>1, <2>3
    <2>5. i \in Nat \ {0}
      BY <1>3, <2>4
    <2> QED BY <1>1, <1>2, <1>3, <1>4, <2>4, <2>5 DEF n, h
  <1>5. CASE state = "crc2"
    <2>1. DoneIn(board, state, frame) = Header(board) + frame.length + 1
      BY <1>5 DEF DoneIn
    <2>2. i = pos + 1 - (Header(board) + frame.length + 1)
      BY <2>1 DEF Start
    <2> DEFINE n == frame.length
               h == Header(board)
    <2>3. n \in Nat /\ h \in {4, 5} /\ i = pos + 1 - (h + n + 1)
      BY <1>1, <1>2, <2>2
    <2> HIDE DEF n, h
    <2>4. i + h + n = pos /\ i \in Int
      BY <1>1, <2>3
    <2>5. i \in Nat \ {0}
      BY <1>3, <2>4
    <2> QED BY <1>1, <1>2, <1>3, <1>5, <2>4, <2>5 DEF n, h
  <1> QED BY <1>4, <1>5

LEMMA FinishReads ==
  ASSUME Shape, Matches, state \in {"crc", "crc2"}, Moves(1), Shape', state' = "finished",
         NEW i, i = Start(board, state, frame, pos), EndAt(board, i) = pos' + 1,
         frame'.og = frame.og, frame'.oc = frame.oc, frame'.data = frame.data,
         status' = "VALID_FRAME" <=> ValidAt(board, i)
  PROVE  Matches' /\ (status' = "VALID_FRAME" => Delivers) /\ (status' # "VALID_FRAME" => Skips)
  <1>1. /\ i \in Nat \ {0} /\ board.bytes[i] = SYNC /\ frame.og = board.bytes[i + 1]
        /\ frame.oc = board.bytes[i + 2] /\ frame.length = LengthAt(board, i) /\ ~ (frame.length > MTU)
        /\ frame.data = Part(board, i + Header(board), frame.length)
        /\ Header(board) \in {4, 5} /\ frame.length \in Nat
    BY FrameIsRead
  <1>2. /\ board \in Boards /\ board' = board /\ pos' = pos + 1 /\ pos \in Nat /\ pos' \in Nat
        /\ \A g \in pos' .. Len(board.bytes) : g \in 0 .. Len(board.bytes) /\ g \in Nat /\ g >= pos + 1
    BY MoveFacts
  <1>3. Matches'
    BY DEF Matches, MatchesAt, Between
  <1>4. start = i /\ start' = pos' + 1
    <2>1. DoneIn(board', state', frame') = 0
      BY DEF DoneIn
    <2>2. start' = pos' + 1
      BY <1>2, <2>1 DEF Start, start
    <2> QED BY <2>2 DEF start
  <1>5. board.crcSize \in {1, 2} /\ EndAt(board, i) = i + Header(board) + frame.length + board.crcSize
    BY <1>1, <1>2, BoardFacts DEF EndAt
  <1>6. ASSUME NEW g \in pos' .. Len(board.bytes)
        PROVE  /\ g \in 0 .. Len(board.bytes) /\ i \in 1 .. g + 1 /\ Whole(board, g, i)
    <2>1. g \in 0 .. Len(board.bytes) /\ g \in Nat /\ g >= pos'
      BY <1>2
    <2>2. EndAt(board, i) <= g + 1
      BY <1>2, <2>1
    <2>3. i + Header(board) <= g + 1 /\ i <= g + 1
      BY <1>1, <1>5, <2>1, <2>2
    <2>4. i \in 1 .. g + 1
      BY <1>1, <2>1, <2>3
    <2> QED BY <1>1, <2>1, <2>2, <2>3, <2>4 DEF Whole
  <1>7. ASSUME ValidAt(board, i) PROVE Delivers
    <2> SUFFICES ASSUME NEW g \in pos' .. Len(board.bytes)
                 PROVE  /\ Read(board, g)[start].frames
                             = <<<<frame'.og, frame'.oc, frame'.data>>>> \o Read(board, g)[start'].frames
                        /\ Read(board, g)[start'].halts => Read(board, g)[start].halts
                        /\ Overlong(board, g, start') => Read(board, g)[start].halts
      BY DEF Delivers
    <2>1. /\ Read(board, g)[i].frames = <<FrameAt(board, i)>> \o Read(board, g)[EndAt(board, i)].frames
          /\ Read(board, g)[i].halts
               = (Overlong(board, g, EndAt(board, i)) \/ Read(board, g)[EndAt(board, i)].halts)
      BY <1>2, <1>6, <1>7, ReadValid, Zenon
    <2>2. FrameAt(board, i) = <<frame'.og, frame'.oc, frame'.data>>
      BY <1>1 DEF FrameAt
    <2>3. EndAt(board, i) = start'
      BY <1>4
    <2> QED BY <1>4, <2>1, <2>2, <2>3, Zenon
  <1>8. ASSUME ~ValidAt(board, i) PROVE Skips
    <2> SUFFICES ASSUME NEW g \in pos' .. Len(board.bytes)
                 PROVE  Read(board, g)[start'] = Read(board, g)[start]
      BY DEF Skips
    <2>1. Read(board, g)[i] = Read(board, g)[EndAt(board, i)]
      BY <1>2, <1>6, <1>8, ReadInvalid
    <2> QED BY <1>4, <2>1
  <1> QED BY <1>3, <1>7, <1>8

LEMMA CrcReads ==
  ASSUME Shape, Matches, CrcField
  PROVE  Matches' /\ (status' = "VALID_FRAME" => Delivers) /\ (status' # "VALID_FRAME" => Skips)
  <1> DEFINE i == Start(board, state, frame, pos)
             j == Start(board', state', frame', pos')
  <1>1. Moves(1) /\ Shape' /\ frame' = [frame EXCEPT !.crc = board.bytes[pos + 1]]
    BY CrcMoves
  <1>2. /\ board \in Boards /\ board' = board /\ pos' = pos + 1 /\ pos \in Nat /\ pos' \in Nat
        /\ frame'.length \in Nat /\ frame \in Framing
        /\ pos' <= Len(board.bytes) /\ Len(board.bytes) \in Nat
    <2>1. pos' <= got /\ got <= Len(board.bytes) /\ got \in Nat
      BY <1>1, MoveFacts
    <2> QED BY <1>1, <2>1, MoveFacts
  <1>3. state = "crc"
    BY DEF CrcField
  <1>4. /\ i \in Nat \ {0} /\ board.bytes[i] = SYNC /\ frame.og = board.bytes[i + 1]
        /\ frame.oc = board.bytes[i + 2] /\ frame.length = LengthAt(board, i) /\ ~ (frame.length > MTU)
        /\ frame.data = Part(board, i + Header(board), frame.length)
        /\ i + Header(board) + frame.length = pos + 1
        /\ Header(board) \in {4, 5} /\ frame.length \in Nat
    BY <1>3, FrameIsRead
  <1>5. /\ frame'.og = frame.og /\ frame'.oc = frame.oc /\ frame'.length = frame.length
        /\ frame'.data = frame.data /\ frame'.crc = board.bytes[pos + 1]
    BY <1>1, <1>2 DEF Framing
  <1>6. CrcSize = board.crcSize /\ CrcSize \in {1, 2}
    BY BoardSizes DEF Shape
  <1>7. CASE CrcSize = 2
    <2>1. state' = "crc2" /\ status' # "VALID_FRAME"
      BY <1>7 DEF CrcField, Return, Enough, Shape, Control
    <2>2. DoneIn(board', state', frame') = Header(board) + frame.length + 1
      BY <1>2, <1>5, <2>1 DEF DoneIn
    <2>3. j = pos' + 1 - (Header(board) + frame.length + 1)
      BY <2>2 DEF Start
    <2> DEFINE n == frame.length
               h == Header(board)
    <2>4. n \in Nat /\ h \in {4, 5} /\ j = pos' + 1 - (h + n + 1) /\ i + h + n = pos + 1
      BY <1>4, <2>3
    <2>5. i \in Nat
      BY <1>4
    <2> HIDE DEF i, j, n, h
    <2>6. j = i
      BY <1>2, <2>4, <2>5
    <2> USE DEF n, h
    <2>7. frame'.crc = board'.bytes[pos'] /\ board'.crcSize = 2 /\ i >= 1
      BY <1>2, <1>4, <1>5, <1>6, <1>7
    <2>8. Matches'
      BY <1>2, <1>4, <1>5, <2>1, <2>6, <2>7 DEF Matches, MatchesAt, Between, j
    <2> QED BY <2>1, <2>6, <2>8 DEF Skips, start, i, j
  <1>8. CASE CrcSize = 1
    <2>1. state' = "finished" /\ (status' = "VALID_FRAME" <=> frame'.crc = FrameCRC(frame))
      BY <1>8 DEF CrcField, Return
    <2> HIDE DEF i, j
    <2>2. EndAt(board, i) = pos' + 1
      <3>1. EndAt(board, i) = i + Header(board) + frame.length + 1
        BY <1>4, <1>6, <1>8 DEF EndAt
      <3> QED BY <1>2, <1>4, <3>1
    <2>3. i + Header(board) <= Len(board.bytes) + 1 /\ EndAt(board, i) <= Len(board.bytes) + 1
      BY <1>2, <1>4, <2>2
    <2>4. /\ FrameCRC(frame) = CalculateCRC(Part(board, i + 1, Header(board) - 1 + LengthAt(board, i)))
          /\ FrameCRC(frame) \in Byte
      BY <1>4, <2>3, FrameCrcIs DEF Shape
    <2>5. pos + 1 = i + Header(board) + LengthAt(board, i)
      BY <1>4
    <2>6. ValidAt(board, i) <=> board.bytes[pos + 1] = FrameCRC(frame)
      <3> DEFINE k == pos + 1
                 c == FrameCRC(frame)
      <3>1. board.crcSize = 1 /\ i \in Nat \ {0}
        BY <1>4, <1>6, <1>8
      <3> HIDE DEF k, c
      <3>2. ValidAt(board, i) <=> board.bytes[k] = c
        BY <1>2, <2>3, <2>4, <2>5, <3>1, ValidIs DEF k, c
      <3> QED BY <3>2 DEF k, c
    <2>7. status' = "VALID_FRAME" <=> ValidAt(board, i)
      BY <1>5, <2>1, <2>6
    <2> QED BY <1>1, <1>3, <1>5, <2>1, <2>2, <2>7, FinishReads DEF i
  <1> QED BY <1>6, <1>7, <1>8

LEMMA SecondCrcReads ==
  ASSUME Shape, Matches, SecondCrcField
  PROVE  Matches' /\ (status' = "VALID_FRAME" => Delivers) /\ (status' # "VALID_FRAME" => Skips)
  <1> DEFINE i == Start(board, state, frame, pos)
  <1>1. Moves(1) /\ Shape' /\ frame' = frame
    BY SecondCrcMoves
  <1>2. /\ board \in Boards /\ board' = board /\ pos' = pos + 1 /\ pos \in Nat /\ pos' \in Nat
        /\ pos' <= Len(board.bytes) /\ Len(board.bytes) \in Nat
    <2>1. pos' <= got /\ got <= Len(board.bytes) /\ got \in Nat
      BY <1>1, MoveFacts
    <2> QED BY <1>1, <2>1, MoveFacts
  <1>3. state = "crc2" /\ state' = "finished" /\ Enough(1)
        /\ (status' = "VALID_FRAME" <=> Xor(frame.crc, FrameCRC(frame)) = Field(1)[1])
    BY DEF SecondCrcField, Return
  <1>4. /\ i \in Nat \ {0} /\ board.bytes[i] = SYNC /\ frame.og = board.bytes[i + 1]
        /\ frame.oc = board.bytes[i + 2] /\ frame.length = LengthAt(board, i) /\ ~ (frame.length > MTU)
        /\ frame.data = Part(board, i + Header(board), frame.length)
        /\ i + Header(board) + frame.length = pos /\ frame.crc = board.bytes[pos] /\ board.crcSize = 2
        /\ Header(board) \in {4, 5} /\ frame.length \in Nat
    BY <1>3, FrameIsRead
  <1>5. Field(1)[1] = board.bytes[pos + 1]
    <2>1. 1 \in 0 .. Len(Bytes(queue))
      BY <1>3, EnoughFacts
    <2> QED BY <2>1, FieldByte DEF Shape
  <1> HIDE DEF i
  <1>6. EndAt(board, i) = pos' + 1
    <2>1. EndAt(board, i) = i + Header(board) + frame.length + 2
      BY <1>4 DEF EndAt
    <2> QED BY <1>2, <1>4, <2>1
  <1>7. i + Header(board) <= Len(board.bytes) + 1 /\ EndAt(board, i) <= Len(board.bytes) + 1
    BY <1>2, <1>4, <1>6
  <1>8. /\ FrameCRC(frame) = CalculateCRC(Part(board, i + 1, Header(board) - 1 + LengthAt(board, i)))
        /\ FrameCRC(frame) \in Byte
    BY <1>4, <1>7, FrameCrcIs DEF Shape
  <1>9. pos = i + Header(board) + LengthAt(board, i)
    BY <1>4
  <1>10. ValidAt(board, i) <=> Xor(board.bytes[pos], FrameCRC(frame)) = board.bytes[pos + 1]
    BY <1>2, <1>4, <1>7, <1>8, <1>9, ValidIs
  <1>11. status' = "VALID_FRAME" <=> ValidAt(board, i)
    BY <1>3, <1>4, <1>5, <1>10
  <1> QED BY <1>1, <1>3, <1>6, <1>11, FinishReads DEF i

-----------------------------------------------------------------------------
(* The frames delivered and to come are those of the bytes read.           *)

\* The frames delivered, with the one that is about to be.
Due == IF status = "VALID_FRAME"
       THEN Append(delivered, <<frame.og, frame.oc, frame.data>>) ELSE delivered

\* However many bytes are read in the end, their frames are those due and those that begin
\* where the machine is; it halts where reading on does, and behind a frame with the header of
\* an overlong one behind it.
Accounts ==
  \A g \in pos .. Len(board.bytes) :
    /\ Read(board, g)[1].frames = Due \o Read(board, g)[start].frames
    /\ Read(board, g)[start].halts => Read(board, g)[1].halts
    /\ status = "VALID_FRAME" /\ Overlong(board, g, pos + 1) => Read(board, g)[1].halts

LEMMA AccountsSkip ==
  ASSUME Shape, Accounts, NEW n, Moves(n), Shape', Skips,
         status # "VALID_FRAME", status' # "VALID_FRAME"
  PROVE  Accounts'
  <1>1. /\ board' = board /\ pos' = pos + n /\ pos \in Nat /\ n \in Nat /\ Len(board.bytes) \in Nat
        /\ pos' \in Nat
    BY MoveFacts
  <1>2. Due' = Due
    BY DEF Due, Moves
  <1> SUFFICES ASSUME NEW g \in pos' .. Len(board.bytes)
               PROVE  /\ Read(board, g)[1].frames = Due \o Read(board, g)[start'].frames
                      /\ Read(board, g)[start'].halts => Read(board, g)[1].halts
    BY <1>1, <1>2, Zenon DEF Accounts
  <1>3. g \in pos .. Len(board.bytes)
    BY <1>1
  <1>4. /\ Read(board, g)[1].frames = Due \o Read(board, g)[start].frames
        /\ Read(board, g)[start].halts => Read(board, g)[1].halts
    BY <1>3, Zenon DEF Accounts
  <1>5. Read(board, g)[start'] = Read(board, g)[start]
    BY DEF Skips
  <1> QED BY <1>4, <1>5, Zenon

LEMMA AccountsDeliver ==
  ASSUME Shape, Accounts, NEW n, Moves(n), Shape', Delivers,
         status # "VALID_FRAME", status' = "VALID_FRAME"
  PROVE  Accounts'
  <1> DEFINE x == <<frame'.og, frame'.oc, frame'.data>>
  <1>1. /\ board \in Boards /\ board' = board /\ pos' = pos + n /\ pos \in Nat /\ n \in Nat
        /\ Len(board.bytes) \in Nat /\ pos' \in Nat /\ frame' \in Framing /\ frame'.length \in Nat
        /\ \A g \in pos' .. Len(board.bytes) : g \in 0 .. Len(board.bytes) /\ g \in Nat
    BY MoveFacts
  <1>2. Due = delivered /\ Due' = Append(delivered, x) /\ delivered \in Seq(FrameType)
    BY DEF Due, Moves, Shape, Types
  <1>3. x \in FrameType
    BY <1>1 DEF Framing, FrameType
  <1>4. start' = pos' + 1
    <2>1. state' = "finished"
      BY DEF Shape, Control
    <2>2. DoneIn(board', state', frame') = 0
      BY <2>1 DEF DoneIn
    <2> QED BY <1>1, <2>2 DEF start, Start
  <1> HIDE DEF x
  <1>5. Due' = delivered \o <<x>> /\ <<x>> \in Seq(FrameType)
    <2>1. Append(delivered, x) = delivered \o <<x>>
      BY <1>2, <1>3, AppendIsConcat
    <2>2. <<x>> \in Seq(FrameType)
      BY <1>3
    <2> QED BY <1>2, <2>1, <2>2
  <1> SUFFICES ASSUME NEW g \in pos' .. Len(board.bytes)
               PROVE  /\ Read(board, g)[1].frames = Due' \o Read(board, g)[start'].frames
                      /\ Read(board, g)[start'].halts => Read(board, g)[1].halts
                      /\ Overlong(board, g, pos' + 1) => Read(board, g)[1].halts
    BY <1>1, Zenon DEF Accounts
  <1>6. g \in pos .. Len(board.bytes)
    BY <1>1
  <1>7. /\ Read(board, g)[1].frames = Due \o Read(board, g)[start].frames
        /\ Read(board, g)[start].halts => Read(board, g)[1].halts
    BY <1>6, Zenon DEF Accounts
  <1>8. /\ Read(board, g)[start].frames = <<x>> \o Read(board, g)[start'].frames
        /\ Read(board, g)[start'].halts => Read(board, g)[start].halts
        /\ Overlong(board, g, start') => Read(board, g)[start].halts
    BY Zenon DEF Delivers, x
  <1>9. Read(board, g)[start'].frames \in Seq(FrameType)
    <2>1. g \in 0 .. Len(board.bytes) /\ pos' + 1 \in 1 .. g + 1
      BY <1>1
    <2> QED BY <1>1, <1>4, <2>1, ReadType
  <1> DEFINE r == Read(board, g)[start'].frames
             t == <<x>>
  <1>10. (delivered \o t) \o r = delivered \o (t \o r)
    <2>1. delivered \in Seq(FrameType) /\ t \in Seq(FrameType) /\ r \in Seq(FrameType)
      BY <1>2, <1>5, <1>9
    <2> HIDE DEF t, r
    <2> QED BY <2>1, ConcatAssociative
  <1>11. Read(board, g)[1].frames = Due' \o Read(board, g)[start'].frames
    BY <1>2, <1>5, <1>7, <1>8, <1>10, Zenon
  <1> QED BY <1>4, <1>7, <1>8, <1>11, Zenon

\* A step of another kind: the machine stays where it is, or begins a frame there.
LEMMA StillMatches ==
  ASSUME Stream, Matches, board' = board, pos' = pos, frame.length \in Nat, frame'.length \in Nat,
         \/ state' = state /\ frame' = frame
         \/ state \in {"junk", "finished"} /\ state' \in {"junk", "finished"}
  PROVE  Matches' /\ start' = start
  <1>1. CASE state' = state /\ frame' = frame
    BY <1>1 DEF Matches, start
  <1>2. CASE state \in {"junk", "finished"} /\ state' \in {"junk", "finished"}
    <2>1. Matches'
      BY <1>2 DEF Matches, MatchesAt, Between
    <2>2. DoneIn(board, state, frame) = 0 /\ DoneIn(board', state', frame') = 0
      BY <1>2 DEF DoneIn
    <2>3. start' = start
      BY <2>2 DEF Start, start
    <2> QED BY <2>1, <2>3
  <1> QED BY <1>1, <1>2

LEMMA StillAccounts ==
  ASSUME Accounts, board' = board, pos' = pos, start' = start, Due' = Due,
         status' # "VALID_FRAME" \/ status' = status
  PROVE  Accounts'
  BY Zenon DEF Accounts

-----------------------------------------------------------------------------
(* What is announced.                                                      *)

\* The thread looks at the bytes counted once more when it has done with some of them.
AtWork    == running \/ status \in {"JUNK_DATA", "INVALID_CRC", "VALID_FRAME"}
Announced == IF AtWork THEN Pending + 1 ELSE Pending

\* Nothing more is read before the chunks are looked at whose announcement is pending.
Covered ==
  \/ Read(board, got)[1].halts
  \/ /\ Read(board, pos + Old(queue, Announced))[start].frames = <<>>
     /\ status = "VALID_FRAME" => Old(queue, Announced) = 0

LEMMA AnnouncedFacts ==
  ASSUME Shape
  PROVE  /\ Pending \in Nat /\ Announced \in Nat
         /\ Old(queue, Announced) \in Nat /\ Old(queue, Pending) \in Nat
         /\ pos + Old(queue, Announced) <= got /\ pos + Old(queue, Pending) <= got
         /\ pos \in Nat /\ got \in Nat /\ got <= Len(board.bytes) /\ Len(board.bytes) \in Nat
         /\ board \in Boards /\ queue \in Seq(Chunk) /\ frame.length \in Nat
  <1>1. Pending \in Nat /\ Announced \in Nat
    BY PendingType DEF Shape, Announced
  <1>2. /\ queue \in Seq(Chunk) /\ pos \in Nat /\ got \in Nat /\ got <= Len(board.bytes)
        /\ Len(board.bytes) \in Nat /\ Len(Bytes(queue)) = got - pos /\ board \in Boards
    BY StreamFacts DEF Shape, Stream
  <1>3. /\ Old(queue, Announced) \in Nat /\ Old(queue, Announced) <= Len(Bytes(queue))
        /\ Old(queue, Pending) \in Nat /\ Old(queue, Pending) <= Len(Bytes(queue))
    BY <1>1, <1>2, OldFacts
  <1>4. frame.length \in Nat
    BY DEF Shape, Types, Framing
  <1>5. pos + Old(queue, Announced) <= got /\ pos + Old(queue, Pending) <= got
    BY <1>2, <1>3
  <1> QED BY <1>1, <1>2, <1>3, <1>4, <1>5

LEMMA AnnouncedType == Shape => Announced \in Nat
  BY AnnouncedFacts

LEMMA LackingCovered ==
  ASSUME Shape, Matches, Lacking(board, state, frame, pos, pos + Old(queue, Announced)),
         status = "VALID_FRAME" => Old(queue, Announced) = 0
  PROVE  Covered
  <1> DEFINE g == pos + Old(queue, Announced)
  <1>1. /\ board \in Boards /\ pos \in Nat /\ frame.length \in Nat /\ g \in pos .. Len(board.bytes)
    BY AnnouncedFacts
  <1>2. state \in {"junk", "sync", "og", "oc", "length", "data", "crc", "crc2", "finished"}
    BY DEF Shape, Types
  <1>3. Read(board, g)[Start(board, state, frame, pos)].frames = <<>>
    <2> HIDE DEF g
    <2>1. Lacking(board, state, frame, pos, g)
      BY DEF g
    <2>2. MatchesAt(board, state, frame, pos)
      BY DEF Matches
    <2> QED BY <1>1, <1>2, <2>1, <2>2, Partial
  <1> QED BY <1>3 DEF Covered, start

\* When all bytes queued are in chunks whose announcement is pending.
LEMMA NoneOldCovered == Shape /\ Matches /\ Old(queue, Announced) = 0 => Covered
  <1> SUFFICES ASSUME Shape, Matches, Old(queue, Announced) = 0 PROVE Covered
    OBVIOUS
  <1>1. pos + Old(queue, Announced) = pos
    BY AnnouncedFacts
  <1>2. Lacking(board, state, frame, pos, pos + Old(queue, Announced))
    BY <1>1 DEF Lacking
  <1> QED BY <1>2, LackingCovered

\* When the machine has stopped for want of bytes.
Starved ==
  /\ status = "INSUFFICIENT_DATA" /\ ~running
  /\ \/ left <= 0
     \/ state = "length" /\ left < LengthSize
     \/ state = "data" /\ left < frame.length

LEMMA StarvedCovered == Shape /\ Matches /\ Counted /\ Starved => Covered
  <1> SUFFICES ASSUME Shape, Matches, Counted, Starved PROVE Covered
    OBVIOUS
  <1> DEFINE o == Old(queue, Announced)
  <1>1. Announced = Pending
    BY DEF Starved, Announced, AtWork
  <1>2. o = 0 \/ o <= left
    BY <1>1 DEF Counted, Starved
  <1>3. o \in Nat /\ pos \in Nat /\ left \in Int /\ frame.length \in Nat /\ LengthSize \in {1, 2}
        /\ LengthSize = board.lengthSize
    BY AnnouncedFacts, BoardSizes DEF Shape, Types
  <1>4. status # "VALID_FRAME"
    BY DEF Starved
  <1>5. Lacking(board, state, frame, pos, pos + o)
    <2> HIDE DEF o
    <2>1. \/ o = 0
          \/ state = "length" /\ o < board.lengthSize
          \/ state = "data" /\ o < frame.length
      BY <1>2, <1>3 DEF Starved
    <2>2. \/ pos + o = pos
          \/ state = "length" /\ pos + o < pos + board.lengthSize
          \/ state = "data" /\ pos + o < pos + frame.length
      BY <1>3, <2>1
    <2> QED BY <2>2 DEF Lacking
  <1> QED BY <1>4, <1>5, LackingCovered

-----------------------------------------------------------------------------
(* The machine's steps leave the rest announced.                           *)

LEMMA MoveAnnounced ==
  ASSUME Shape, running, NEW n, Moves(n), Shape'
  PROVE  /\ Pending' = Pending /\ Announced = Pending + 1 /\ AtWork
         /\ AtWork' => Announced' = Announced
         /\ got' = got /\ board' = board
         /\ AtWork' => Old(queue', Announced')
              = IF Old(queue, Announced) <= n THEN 0 ELSE Old(queue, Announced) - n
  <1>1. got' = got /\ \A e \in Nat : Old(queue', e) = IF Old(queue, e) <= n THEN 0 ELSE Old(queue, e) - n
    BY StreamMoves DEF Shape
  <1>2. Pending' = Pending /\ board' = board
    BY DEF Moves, deviceVars, Pending
  <1>3. AtWork /\ Announced = Pending + 1
    BY DEF AtWork, Announced
  <1>4. AtWork' => Announced' = Announced
    BY <1>2, <1>3 DEF Announced
  <1>5. Announced \in Nat
    BY AnnouncedFacts
  <1> QED BY <1>1, <1>2, <1>3, <1>4, <1>5

LEMMA CoveredSkip ==
  ASSUME Shape, Matches, Covered, running, NEW n, Moves(n), Shape', Matches', Skips,
         AtWork', status' # "VALID_FRAME"
  PROVE  Covered'
  <1> DEFINE o == Old(queue, Announced)
             m == Old(queue', Announced')
  <1>1. /\ got' = got /\ board' = board /\ m = IF o <= n THEN 0 ELSE o - n
    BY MoveAnnounced
  <1>2. o \in Nat /\ pos + o <= got /\ got \in Nat /\ got <= Len(board.bytes) /\ Len(board.bytes) \in Nat
    BY AnnouncedFacts
  <1>3. pos' = pos + n /\ pos \in Nat /\ n \in Nat /\ pos' \in Nat
    BY MoveFacts
  <1>4. CASE Read(board, got)[1].halts
    BY <1>1, <1>4, Zenon DEF Covered
  <1>5. CASE m = 0
    <2>1. (Old(queue, Announced) = 0)'
      BY <1>5
    <2>2. (Shape /\ Matches /\ Old(queue, Announced) = 0 => Covered)'
      BY NoneOldCovered, PTL
    <2> QED BY <2>1, <2>2
  <1>6. CASE ~Read(board, got)[1].halts /\ m # 0
    <2> HIDE DEF o, m
    <2>1. pos' + m = pos + o /\ pos + o \in pos' .. Len(board.bytes)
      BY <1>1, <1>2, <1>3, <1>6
    <2>2. Read(board, pos + o)[start'] = Read(board, pos + o)[start]
      BY <2>1 DEF Skips
    <2>3. Read(board, pos + o)[start].frames = <<>>
      BY <1>6, Zenon DEF Covered, o
    <2>4. Read(board', pos' + m)[start'].frames = <<>>
      BY <1>1, <2>1, <2>2, <2>3
    <2> QED BY <2>4 DEF Covered, m
  <1> QED BY <1>4, <1>5, <1>6

LEMMA CoveredDeliver ==
  ASSUME Shape, Matches, Covered, running, Moves(1), Shape', Matches', Delivers,
         status' = "VALID_FRAME"
  PROVE  Covered'
  <1> DEFINE o == Old(queue, Announced)
             m == Old(queue', Announced')
             x == <<frame'.og, frame'.oc, frame'.data>>
  <1>1. AtWork'
    BY DEF AtWork
  <1>2. /\ got' = got /\ board' = board /\ m = IF o <= 1 THEN 0 ELSE o - 1
    BY <1>1, MoveAnnounced
  <1>3. o \in Nat /\ pos + o <= got /\ got \in Nat /\ got <= Len(board.bytes) /\ Len(board.bytes) \in Nat
    BY AnnouncedFacts
  <1>4. pos' = pos + 1 /\ pos \in Nat /\ pos' \in Nat
    BY MoveFacts
  <1>5. CASE Read(board, got)[1].halts
    BY <1>2, <1>5, Zenon DEF Covered
  <1>6. CASE m = 0
    <2>1. (Old(queue, Announced) = 0)'
      BY <1>6
    <2>2. (Shape /\ Matches /\ Old(queue, Announced) = 0 => Covered)'
      BY NoneOldCovered, PTL
    <2> QED BY <2>1, <2>2
  <1>7. CASE ~Read(board, got)[1].halts /\ m # 0
    <2> HIDE DEF o, m, x
    <2>1. pos + o \in pos' .. Len(board.bytes)
      BY <1>2, <1>3, <1>4, <1>7
    <2>2. Read(board, pos + o)[start].frames = <<x>> \o Read(board, pos + o)[start'].frames
      BY <2>1, Zenon DEF Delivers, x
    <2>3. Read(board, pos + o)[start].frames = <<>>
      BY <1>7, Zenon DEF Covered, o
    <2>4. x \in FrameType
      <3>1. frame' \in Framing
        BY MoveFacts
      <3> QED BY <3>1 DEF x, Framing, FrameType
    <2>5. Read(board, pos + o)[start'].frames \in Seq(FrameType)
      <3>1. state' = "finished"
        BY DEF Shape, Control
      <3>2. DoneIn(board', state', frame') = 0
        BY <3>1 DEF DoneIn
      <3>3. start' = pos' + 1
        BY <1>4, <3>2 DEF start, Start
      <3>4. pos + o \in 0 .. Len(board.bytes) /\ pos' + 1 \in 1 .. pos + o + 1
        BY <1>3, <1>4, <2>1
      <3>5. board \in Boards
        BY AnnouncedFacts
      <3> QED BY <3>3, <3>4, <3>5, ReadType
    <2> DEFINE r == Read(board, pos + o)[start'].frames
    <2> HIDE DEF r
    <2>6. <<x>> \o r # <<>>
      <3>1. r \in Seq(FrameType) /\ <<x>> \in Seq(FrameType) /\ Len(<<x>>) = 1
        BY <2>4, <2>5 DEF r
      <3> DEFINE t == <<x>>
      <3> HIDE DEF t
      <3>2. Len(t \o r) = Len(t) + Len(r) /\ Len(r) \in Nat /\ Len(t) = 1
        BY <3>1, ConcatProperties DEF t
      <3>3. t \o r # <<>>
        BY <3>2
      <3> QED BY <3>3 DEF t
    <2> QED BY <2>2, <2>3, <2>6 DEF r
  <1> QED BY <1>5, <1>6, <1>7

-----------------------------------------------------------------------------
(* The inductive invariant, and the machine's steps.                       *)

\* The state is of its types and the queue the part of the stream that is read and not taken,
\* with all of it counted or announced; the frame under way is the one that begins in the
\* stream where the machine began it; the frames delivered and those to come are the frames of
\* the stream; and what could still be read is announced.
Inv == Basics /\ Matches /\ Accounts /\ Covered

LEMMA SkipInv ==
  ASSUME Inv, Dispatch, running, status = "none", NEW n, Moves(n), Shape', Matches', Skips,
         status' # "VALID_FRAME", AtWork' \/ Starved'
  PROVE  Inv'
  <1>1. Shape /\ Matches /\ Accounts /\ Covered /\ Basics
    BY DEF Inv, Basics
  <1>2. Basics'
    BY <1>1, DispatchBasics
  <1>3. Accounts'
    BY <1>1, AccountsSkip
  <1>4. CASE AtWork'
    <2>1. Covered'
      BY <1>1, <1>4, CoveredSkip
    <2> QED BY <1>2, <1>3, <2>1 DEF Inv
  <1>5. CASE Starved'
    <2>1. Counted'
      BY <1>2 DEF Basics
    <2>2. (Shape /\ Matches /\ Counted /\ Starved => Covered)'
      BY StarvedCovered, PTL
    <2> QED BY <1>2, <1>3, <1>5, <2>1, <2>2 DEF Inv
  <1> QED BY <1>4, <1>5

LEMMA DeliverInv ==
  ASSUME Inv, Dispatch, running, status = "none", Moves(1), Shape', Matches', Delivers,
         status' = "VALID_FRAME"
  PROVE  Inv'
  <1>1. Shape /\ Matches /\ Accounts /\ Covered /\ Basics
    BY DEF Inv, Basics
  <1>2. Basics'
    BY <1>1, DispatchBasics
  <1>3. Accounts'
    BY <1>1, AccountsDeliver
  <1>4. Covered'
    BY <1>1, CoveredDeliver
  <1> QED BY <1>2, <1>3, <1>4 DEF Inv

LEMMA DispatchInv ==
  ASSUME Inv, Dispatch
  PROVE  Inv'
  <1>1. Shape /\ Matches /\ Basics
    BY DEF Inv, Basics
  <1>2. running /\ status = "none"
    <2>1. running
      BY DEF Dispatch, JunkData, InsufficientData, SyncField, OpGroupField, OpCodeField, LengthField,
             DataField, CrcField, SecondCrcField, Enough
    <2> QED BY <1>1, <2>1 DEF Shape, Control
  <1>3. ASSUME NEW n, Moves(n), Shape', Matches' /\ Skips, status' # "VALID_FRAME", AtWork' \/ Starved'
        PROVE  Inv'
    BY <1>2, <1>3, SkipInv
  <1>4. CASE JunkData
    <2>1. Moves(Junk(queue)) /\ Shape' /\ Matches' /\ Skips
      BY <1>1, <1>4, JunkMoves, JunkReads
    <2>2. status' # "VALID_FRAME" /\ AtWork'
      BY <1>2, <1>4 DEF JunkData, Return, AtWork
    <2> QED BY <1>3, <2>1, <2>2
  <1>5. CASE InsufficientData
    <2>1. Moves(0) /\ Shape' /\ Matches' /\ Skips
      BY <1>1, <1>5, InsufficientMoves, InsufficientReads
    <2>2. status' = "INSUFFICIENT_DATA" /\ ~running' /\ left' = left /\ state' = state /\ frame' = frame
          /\ board' = board /\ left < Needed
      BY <1>5 DEF InsufficientData, Return, deviceVars
    <2>3. Starved'
      <3>1. left \in Int
        BY <1>1 DEF Shape, Types
      <3>2. \/ left <= 0
            \/ state = "length" /\ left < LengthSize
            \/ state = "data" /\ left < frame.length
        <4>1. CASE state = "length"
          BY <2>2, <4>1 DEF Needed
        <4>2. CASE state = "data"
          BY <2>2, <4>2 DEF Needed
        <4>3. CASE state \in {"sync", "og", "oc", "crc"}
          <5>1. Needed = 1
            BY <4>3 DEF Needed
          <5> QED BY <2>2, <3>1, <5>1
        <4>4. CASE state \notin {"sync", "og", "oc", "crc", "length", "data"}
          <5>1. Needed = 0
            BY <4>4 DEF Needed
          <5> QED BY <2>2, <3>1, <5>1
        <4> QED BY <4>1, <4>2, <4>3, <4>4
      <3>3. LengthSize' = LengthSize
        BY <2>2 DEF LengthSize
      <3> QED BY <2>2, <3>2, <3>3 DEF Starved
    <2>4. status' # "VALID_FRAME"
      BY <2>2
    <2> QED BY <1>3, <2>1, <2>3, <2>4
  <1>6. CASE SyncField
    <2>1. Moves(1) /\ Shape' /\ Matches' /\ Skips
      BY <1>1, <1>6, SyncMoves, SyncReads
    <2>2. status' # "VALID_FRAME" /\ AtWork'
      BY <1>2, <1>6 DEF SyncField, AtWork
    <2> QED BY <1>3, <2>1, <2>2
  <1>7. CASE OpGroupField
    <2>1. Moves(1) /\ Shape' /\ Matches' /\ Skips
      BY <1>1, <1>7, OpGroupMoves, OpGroupReads
    <2>2. status' # "VALID_FRAME" /\ AtWork'
      BY <1>2, <1>7 DEF OpGroupField, AtWork
    <2> QED BY <1>3, <2>1, <2>2
  <1>8. CASE OpCodeField
    <2>1. Moves(1) /\ Shape' /\ Matches' /\ Skips
      BY <1>1, <1>8, OpCodeMoves, OpCodeReads
    <2>2. status' # "VALID_FRAME" /\ AtWork'
      BY <1>2, <1>8 DEF OpCodeField, AtWork
    <2> QED BY <1>3, <2>1, <2>2
  <1>9. CASE LengthField
    <2>1. Moves(LengthSize) /\ Shape' /\ Matches' /\ Skips
      BY <1>1, <1>9, LengthMoves, LengthReads
    <2>2. status' # "VALID_FRAME" /\ AtWork'
      BY <1>2, <1>9 DEF LengthField, Return, AtWork
    <2> QED BY <1>3, <2>1, <2>2
  <1>10. CASE DataField
    <2>1. Moves(frame.length) /\ Shape' /\ Matches' /\ Skips
      BY <1>1, <1>10, DataMoves, DataReads
    <2>2. status' # "VALID_FRAME" /\ AtWork'
      BY <1>2, <1>10 DEF DataField, AtWork
    <2> QED BY <1>3, <2>1, <2>2
  <1>11. CASE CrcField
    <2>1. Moves(1) /\ Shape' /\ Matches'
      BY <1>1, <1>11, CrcMoves, CrcReads
    <2>2. CASE status' = "VALID_FRAME"
      <3>1. Delivers
        BY <1>1, <1>11, <2>2, CrcReads
      <3> QED BY <1>2, <2>1, <2>2, <3>1, DeliverInv
    <2>3. CASE status' # "VALID_FRAME"
      <3>1. Skips
        BY <1>1, <1>11, <2>3, CrcReads
      <3>2. AtWork' \/ Starved'
        <4>1. \/ running' = running
              \/ running' = FALSE /\ status' = "INSUFFICIENT_DATA" /\ ~(left' > 0)
              \/ running' = FALSE /\ status' = "INVALID_CRC"
          BY <1>11, <2>3 DEF CrcField, Return
        <4>2. left' \in Int
          BY <2>1 DEF Shape, Types
        <4>3. ~(left' > 0) => left' <= 0
          BY <4>2
        <4> QED BY <1>2, <4>1, <4>3 DEF AtWork, Starved
      <3> QED BY <1>3, <2>1, <2>3, <3>1, <3>2
    <2> QED BY <2>2, <2>3
  <1>12. CASE SecondCrcField
    <2>1. Moves(1) /\ Shape' /\ Matches'
      BY <1>1, <1>12, SecondCrcMoves, SecondCrcReads
    <2>2. CASE status' = "VALID_FRAME"
      <3>1. Delivers
        BY <1>1, <1>12, <2>2, SecondCrcReads
      <3> QED BY <1>2, <2>1, <2>2, <3>1, DeliverInv
    <2>3. CASE status' # "VALID_FRAME"
      <3>1. Skips
        BY <1>1, <1>12, <2>3, SecondCrcReads
      <3>2. AtWork'
        BY <1>12, <2>3 DEF SecondCrcField, Return, AtWork
      <3> QED BY <1>3, <2>1, <2>3, <3>1, <3>2
    <2> QED BY <2>2, <2>3
  <1> QED BY <1>4, <1>5, <1>6, <1>7, <1>8, <1>9, <1>10, <1>11, <1>12 DEF Dispatch

-----------------------------------------------------------------------------
(* The other steps.                                                        *)

LEMMA PutInv ==
  ASSUME Inv, PutChunk
  PROVE  Inv'
  <1>1. Basics /\ Shape /\ Stream /\ Types /\ Matches /\ Accounts /\ Covered /\ avail \in Nat
    BY DEF Inv, Basics, Shape, Types
  <1>2. Basics'
    BY <1>1, PutBasics
  <1>3. /\ Stream' /\ pos' = pos /\ got' \in got .. Len(board.bytes) /\ board' = board
        /\ \A e \in Nat : Old(queue', e + 1) = Old(queue, e)
    BY <1>1, StreamPut
  <1>4. /\ announce' = TRUE /\ ~announce
        /\ UNCHANGED <<event, running, state, frame, status, delivered>>
    BY DEF PutChunk
  <1>5. /\ Announced \in Nat /\ Pending \in Nat /\ frame.length \in Nat /\ board \in Boards
        /\ got \in Nat /\ got <= Len(board.bytes) /\ Len(board.bytes) \in Nat
    BY <1>1, AnnouncedFacts
  <1>6. Matches' /\ start' = start
    BY <1>1, <1>3, <1>4, <1>5, StillMatches
  <1>7. Due' = Due
    BY <1>4 DEF Due
  <1>8. Accounts'
    BY <1>1, <1>3, <1>4, <1>6, <1>7, StillAccounts
  <1>9. Announced' = Announced + 1
    BY <1>1, <1>4, <1>5 DEF Announced, AtWork, Pending, Types
  <1>10. Old(queue', Announced') = Old(queue, Announced)
    BY <1>3, <1>5, <1>9
  <1>11. Covered'
    <2>1. CASE Read(board, got)[1].halts
      <3>1. got \in 0 .. Len(board.bytes) /\ 1 \in 1 .. got + 1
        BY <1>5
      <3>2. Read(board, got')[1].halts
        BY <1>3, <1>5, <2>1, <3>1, HaltsGrow
      <3> QED BY <1>3, <3>2, Zenon DEF Covered
    <2>2. CASE ~Read(board, got)[1].halts
      <3>1. /\ Read(board, pos + Old(queue, Announced))[start].frames = <<>>
            /\ status = "VALID_FRAME" => Old(queue, Announced) = 0
        BY <1>1, <2>2, Zenon DEF Covered
      <3>2. Read(board', pos' + Old(queue', Announced'))[start'].frames = <<>>
        BY <1>3, <1>6, <1>10, <3>1
      <3> QED BY <1>4, <1>10, <3>1, <3>2 DEF Covered
    <2> QED BY <2>1, <2>2
  <1> QED BY <1>2, <1>6, <1>8, <1>11 DEF Inv

LEMMA SignalInv ==
  ASSUME Inv, SignalChunk
  PROVE  Inv'
  <1>1. Basics' /\ Pending' = Pending
    BY SignalBasics DEF Inv
  <1>2. UNCHANGED <<board, toRead, queue, running, state, frame, left, status, delivered>>
    BY DEF SignalChunk, machineVars
  <1>3. got' = got /\ pos' = pos /\ start' = start /\ Due' = Due /\ Announced' = Announced
    BY <1>1, <1>2 DEF got, pos, start, Due, Announced, AtWork
  <1>4. Matches'
    BY <1>2, <1>3 DEF Inv, Matches
  <1>5. Accounts'
    BY <1>2, <1>3, StillAccounts DEF Inv
  <1>6. Covered'
    BY <1>2, <1>3 DEF Inv, Covered
  <1> QED BY <1>1, <1>4, <1>5, <1>6 DEF Inv

\* A step that leaves the bytes as they are, and what is announced of them.
LEMMA StillCovered ==
  ASSUME Covered, board' = board, got' = got, pos' = pos, start' = start, queue' = queue,
         Announced' = Announced, status' # "VALID_FRAME"
  PROVE  Covered'
  <1>1. CASE Read(board, got)[1].halts
    BY <1>1, Zenon DEF Covered
  <1>2. CASE ~Read(board, got)[1].halts
    <2>1. Read(board, pos + Old(queue, Announced))[start].frames = <<>>
      BY <1>2, Zenon DEF Covered
    <2>2. Read(board', pos' + Old(queue', Announced'))[start'].frames = <<>>
      BY <2>1
    <2> QED BY <2>2 DEF Covered
  <1> QED BY <1>1, <1>2

LEMMA WakeInv ==
  ASSUME Inv, Wake
  PROVE  Inv'
  <1>1. Basics /\ Shape /\ Stream /\ Types /\ Control /\ Matches /\ Accounts /\ Covered /\ SizeMatches
    BY DEF Inv, Basics, Shape
  <1>2. Basics' /\ Stream' /\ got' = got /\ pos' = pos
    BY <1>1, WakeBasics
  <1>3. Shape' /\ Types'
    BY <1>2 DEF Basics, Shape
  <1>4. /\ ~running /\ status = "none" /\ event > 0 /\ event' = event - 1
        /\ UNCHANGED <<board, toRead, announce, queue, status, delivered>>
    BY DEF Wake, deviceVars
  <1>5. \/ avail = 0 /\ UNCHANGED <<running, frame, state>>
        \/ /\ avail # 0 /\ running' = TRUE
           /\ frame' = IF frame.new THEN frame ELSE NewFrame
           /\ state' = IF frame.new THEN state ELSE "junk"
    BY DEF Wake
  <1>6. frame.length \in Nat /\ frame'.length \in Nat
    BY <1>1, <1>3 DEF Types, Framing
  <1>7. Matches' /\ start' = start
    <2>1. \/ state' = state /\ frame' = frame
          \/ state \in {"junk", "finished"} /\ state' \in {"junk", "finished"}
      BY <1>1, <1>5 DEF Control
    <2> QED BY <1>1, <1>2, <1>4, <1>6, <2>1, StillMatches
  <1>8. Due' = Due
    BY <1>4 DEF Due
  <1>9. Accounts'
    BY <1>1, <1>2, <1>4, <1>7, <1>8, StillAccounts
  <1>10. CASE avail = 0
    <2>1. Len(Bytes(queue')) = 0
      BY <1>1, <1>4, <1>10, QueueFacts DEF SizeMatches, Stream
    <2>2. queue' \in Seq(Chunk) /\ (Announced \in Nat)'
      <3>1. (Shape => Announced \in Nat)'
        BY AnnouncedType, PTL
      <3> QED BY <1>2, <1>3, <3>1 DEF Stream
    <2>3. (Old(queue, Announced) = 0)'
      <3>1. Old(queue', Announced') \in Nat /\ Old(queue', Announced') <= Len(Bytes(queue'))
        BY <2>2, OldFacts
      <3> QED BY <2>1, <3>1
    <2>4. (Shape /\ Matches /\ Old(queue, Announced) = 0 => Covered)'
      BY NoneOldCovered, PTL
    <2> QED BY <1>2, <1>3, <1>7, <1>9, <2>3, <2>4 DEF Inv
  <1>11. CASE avail # 0
    <2>1. running'
      BY <1>5, <1>11
    <2>2. Announced' = Announced
      BY <1>1, <1>4, <2>1 DEF Announced, AtWork, Pending, Types
    <2>3. Covered'
      BY <1>1, <1>2, <1>4, <1>7, <2>2, StillCovered
    <2> QED BY <1>2, <1>7, <1>9, <2>3 DEF Inv
  <1> QED BY <1>10, <1>11

\* A chunk at the head of the queue begins the bytes queued.
LEMMA HeadIs ==
  ASSUME NEW q \in Seq(Chunk), Len(q) >= 1
  PROVE  /\ q[1] \in Chunk /\ Len(q[1]) \in Nat /\ Len(q[1]) <= Len(Bytes(q))
         /\ \A i \in 1 .. Len(q[1]) : q[1][i] = Bytes(q)[i]
  <1> DEFINE c == q[1]
             r == SubSeq(q, 2, Len(q))
  <1>1. 1 \in 0 .. Len(q) /\ 1 \in 1 .. Len(q)
    OBVIOUS
  <1>2. c \in Chunk /\ c \in Seq(Byte) /\ Len(c) \in Nat
    BY <1>1, ElementOfSeq, ChunkFacts
  <1>3. Bytes(SubSeq(q, 1, 1)) = c
    <2>1. Len(q) = (Len(q) - 1) + 1 /\ Len(q) - 1 \in Nat
      BY <1>1
    <2> DEFINE a == SubSeq(q, 1, 1)
               b == <<c>>
    <2>2. a \in Seq(Chunk) /\ Len(a) = 1 /\ a[1] = c
      BY <1>1, <1>2
    <2>3. b \in Seq(Chunk) /\ Len(b) = 1 /\ b[1] = c
      BY <1>2
    <2> HIDE DEF a, b, c
    <2>4. a = b
      <3>1. Len(a) = Len(b) /\ \A i \in 1 .. Len(a) : a[i] = b[i]
        BY <2>2, <2>3
      <3> QED BY <2>2, <2>3, <3>1, SeqEqual
    <2>5. Bytes(b) = c
      BY <1>2, BytesOfOne DEF b
    <2> QED BY <2>4, <2>5 DEF a
  <1>4. Bytes(q) = Bytes(SubSeq(q, 1, 1)) \o Bytes(SubSeq(q, 1 + 1, Len(q)))
        /\ SubSeq(q, 1 + 1, Len(q)) \in Seq(Chunk)
    BY <1>1, CutFacts
  <1> DEFINE t == Bytes(SubSeq(q, 1 + 1, Len(q)))
  <1>5. t \in Seq(Byte) /\ Len(t) \in Nat
    BY <1>4, QueueFacts
  <1>6. Bytes(q) = c \o t
    BY <1>3, <1>4
  <1> HIDE DEF c, t
  <1>7. Len(c \o t) = Len(c) + Len(t) /\ \A i \in 1 .. Len(c) : (c \o t)[i] = c[i]
    BY <1>2, <1>5, ConcatProperties
  <1>8. Len(c) <= Len(Bytes(q))
    BY <1>2, <1>5, <1>6, <1>7
  <1>9. \A i \in 1 .. Len(c) : c[i] = Bytes(q)[i]
    BY <1>6, <1>7
  <1> QED BY <1>2, <1>8, <1>9 DEF c

\* What QueueDataVerification looks at when the whole header is in the first chunk.
LEMMA PeekIsHeader ==
  ASSUME Stream, Len(queue) >= 1, Len(queue[1]) >= HeaderSize
  PROVE  /\ Peek(queue, HeaderSize)[1] = board.bytes[pos + 1]
         /\ Length(SubSeq(Peek(queue, HeaderSize), 4, HeaderSize)) = LengthAt(board, pos + 1)
         /\ pos + 1 + Header(board) <= got + 1
         /\ LengthAt(board, pos + 1) \in Nat
  <1> DEFINE c == queue[1]
             h == HeaderSize
             p == Peek(queue, h)
             s == board.bytes
             l == SubSeq(p, 4, h)
  <1>1. /\ s \in Seq(Byte) /\ Len(s) \in Nat /\ got \in Nat /\ pos \in Nat /\ got <= Len(s)
        /\ pos <= got /\ queue \in Seq(Chunk) /\ Len(Bytes(queue)) = got - pos /\ board \in Boards
        /\ \A i \in 1 .. got - pos : Bytes(queue)[i] = s[pos + i]
    BY StreamFacts DEF Stream
  <1>2. /\ LengthSize \in {1, 2} /\ h = 3 + LengthSize /\ h \in {4, 5} /\ h = Header(board)
        /\ LengthSize = board.lengthSize
    BY BoardSizes
  <1>3. /\ c \in Chunk /\ Len(c) \in Nat /\ Len(c) <= Len(Bytes(queue)) /\ c \in Seq(Byte)
        /\ \A i \in 1 .. Len(c) : c[i] = Bytes(queue)[i]
    BY <1>1, HeadIs, ChunkFacts
  <1>4. p = SubSeq(c, 1, h)
    <2>1. h \in Nat \ {0}
      BY <1>2
    <2> HIDE DEF h
    <2> QED BY <1>1, <2>1, PeekFacts DEF h
  <1> HIDE DEF c, h, p, s, l
  <1>5. h <= Len(c) /\ pos + 1 + h <= got + 1
    <2>1. h <= Len(c)
      BY <1>2, <1>3 DEF h, c
    <2> QED BY <1>1, <1>2, <1>3, <2>1
  <1>6. p \in Seq(Byte) /\ Len(p) = h /\ \A i \in 1 .. h : p[i] = c[i]
    <2>1. h \in Nat
      BY <1>2
    <2> QED BY <1>3, <1>4, <1>5, <2>1
  <1>7. \A i \in 1 .. h : p[i] = s[pos + i]
    <2> SUFFICES ASSUME NEW i \in 1 .. h PROVE p[i] = s[pos + i]
      OBVIOUS
    <2>1. i \in 1 .. Len(c) /\ i \in 1 .. got - pos
      BY <1>1, <1>2, <1>3, <1>5
    <2> QED BY <1>1, <1>3, <1>6, <2>1
  <1>8. p[1] = s[pos + 1]
    <2>1. 1 \in 1 .. h
      BY <1>2
    <2> QED BY <1>7, <2>1
  <1>9. l \in Seq(Byte) /\ Len(l) = h - 3 /\ \A i \in 1 .. h - 3 : l[i] = p[i + 3]
    <2>1. 4 \in 1 .. Len(p) + 1 /\ h \in 3 .. Len(p)
      BY <1>2, <1>6
    <2> QED BY <1>2, <1>6, <2>1 DEF l
  <1>10. Length(l) = LengthAt(board, pos + 1)
    <2>1. CASE LengthSize = 1
      <3>1. Length(l) = l[1] /\ LengthAt(board, pos + 1) = s[pos + 1 + 3]
        BY <1>2, <2>1 DEF Length, LengthAt, s
      <3>2. 1 \in 1 .. h - 3 /\ 1 + 3 \in 1 .. h
        BY <1>2, <2>1
      <3>3. l[1] = s[pos + (1 + 3)]
        BY <1>7, <1>9, <3>2
      <3>4. pos + (1 + 3) = pos + 1 + 3
        BY <1>1
      <3> QED BY <3>1, <3>3, <3>4
    <2>2. CASE LengthSize = 2
      <3> DEFINE a == s[pos + 4]
                 b == s[pos + 5]
      <3>1. Length(l) = l[1] + 256 * l[2]
        BY <2>2 DEF Length, Read16
      <3>2. l[1] = a /\ l[2] = b
        <4>1. 1 \in 1 .. h - 3 /\ 4 \in 1 .. h /\ 2 \in 1 .. h - 3 /\ 5 \in 1 .. h /\ 1 + 3 = 4 /\ 2 + 3 = 5
          BY <1>2, <2>2
        <4>2. l[1] = p[1 + 3] /\ l[2] = p[2 + 3]
          BY <1>9, <4>1
        <4>3. p[4] = s[pos + 4] /\ p[5] = s[pos + 5]
          BY <1>7, <4>1
        <4> QED BY <4>1, <4>2, <4>3
      <3>3. LengthAt(board, pos + 1) = s[pos + 1 + 3] + 256 * s[pos + 1 + 4]
        <4>1. pos + 1 \in Nat \ {0} /\ pos + 1 + Header(board) <= Len(s) + 1
          BY <1>1, <1>2, <1>5
        <4> QED BY <1>1, <1>2, <2>2, <4>1, LengthFacts DEF s
      <3>4. pos + 1 + 3 = pos + 4 /\ pos + 1 + 4 = pos + 5
        BY <1>1
      <3> QED BY <3>1, <3>2, <3>3, <3>4
    <2> QED BY <1>2, <2>1, <2>2
  <1>11. LengthAt(board, pos + 1) \in Nat
    <2>1. pos + 1 \in Nat \ {0} /\ pos + 1 + Header(board) <= Len(s) + 1
      BY <1>1, <1>2, <1>5
    <2> QED BY <1>1, <2>1, LengthFacts DEF s
  <1>12. pos + 1 + Header(board) <= got + 1
    BY <1>2, <1>5
  <1> QED BY <1>8, <1>10, <1>11, <1>12 DEF p, h, l, s

\* The bytes counted hold no frame when QueueDataVerification finds none, unless reading halts.
LEMMA VerificationReads ==
  ASSUME Shape, Counted, Accounts, status = "VALID_FRAME", Old(queue, Announced) = 0,
         ~QueueDataVerification, NEW g, g = pos + Old(queue, Pending)
  PROVE  Read(board, got)[1].halts \/ Read(board, g)[pos + 1].frames = <<>>
  <1> DEFINE c == Old(queue, Pending)
             h == HeaderSize
             n == LengthAt(board, pos + 1)
  <1>1. /\ Pending \in Nat /\ c \in Nat /\ g \in Nat /\ g <= got /\ g = pos + c
        /\ pos \in Nat /\ got \in Nat /\ got <= Len(board.bytes) /\ Len(board.bytes) \in Nat
        /\ board \in Boards /\ queue \in Seq(Chunk) /\ Len(queue) \in Nat /\ left \in Int
    <2>1. g \in Nat
      BY AnnouncedFacts
    <2>2. Len(queue) \in Nat /\ left \in Int
      BY AnnouncedFacts, QueueFacts DEF Shape, Types
    <2> QED BY <2>1, <2>2, AnnouncedFacts
  <1>2. /\ h \in {4, 5} /\ h = Header(board) /\ CrcSize \in {1, 2} /\ CrcSize = board.crcSize
    BY BoardSizes DEF Shape
  <1>3. Announced = Pending + 1
    BY DEF Announced, AtWork
  <1>4. c = 0 \/ c <= left
    BY DEF Counted
  <1>5. Len(queue) <= Pending + 1
    BY <1>1, <1>3, OldFacts
  <1> HIDE DEF c, h, n
  <1>6. g \in 0 .. Len(board.bytes) /\ pos + 1 \in 1 .. g + 1
    BY <1>1
  <1>7. ASSUME c <= h PROVE Read(board, g)[pos + 1].frames = <<>>
    <2>1. g + 1 - (pos + 1) <= Header(board)
      BY <1>1, <1>2, <1>7
    <2> QED BY <1>1, <1>6, <2>1, TooShort
  <1>8. CASE c <= h
    BY <1>7, <1>8
  <1>9. CASE ~(c <= h)
    <2>1. Len(queue) = Pending + 1
      <3>1. ~(Len(queue) <= Pending)
        <4>1. c = 0 <=> Len(queue) <= Pending
          BY <1>1, OldFacts DEF c
        <4> QED BY <1>2, <1>9, <4>1
      <3> QED BY <1>1, <1>5, <3>1
    <2>2. c = Len(queue[1]) /\ Len(queue) >= 1
      BY <1>1, <2>1, OldOfHead DEF c
    <2>3. Len(queue[1]) >= HeaderSize
      BY <1>1, <1>2, <1>9, <2>2 DEF h
    <2>4. /\ Peek(queue, HeaderSize)[1] = board.bytes[pos + 1]
          /\ Length(SubSeq(Peek(queue, HeaderSize), 4, HeaderSize)) = n
          /\ pos + 1 + Header(board) <= got + 1 /\ n \in Nat
      BY <2>2, <2>3, PeekIsHeader DEF Shape, n
    <2>5. left >= HeaderSize + MaxCrcSize
      BY <1>1, <1>2, <1>4, <1>9 DEF MaxCrcSize, h
    <2>6. board.bytes[pos + 1] = SYNC /\ ~(left >= Uint8(HeaderSize + MaxCrcSize + n))
      BY <2>4, <2>5 DEF QueueDataVerification
    <2>7. CASE n > MTU
      <3>1. Overlong(board, got, pos + 1)
        BY <2>4, <2>6, <2>7 DEF Overlong, n
      <3>2. got \in pos .. Len(board.bytes)
        BY <1>1
      <3>3. Read(board, got)[1].halts
        BY <3>1, <3>2, Zenon DEF Accounts
      <3> QED BY <3>3
    <2>8. CASE ~(n > MTU)
      <3>1. left < h + 1 + n
        <4>1. Uint8(h + 1 + n) <= h + 1 + n /\ Uint8(h + 1 + n) \in Nat
          BY <1>2, <2>4 DEF Uint8
        <4>2. ~(left >= Uint8(h + 1 + n))
          BY <2>6 DEF MaxCrcSize, h
        <4> QED BY <1>1, <1>2, <2>4, <4>1, <4>2
      <3>2. EndAt(board, pos + 1) = pos + 1 + h + n + CrcSize
        BY <1>2 DEF EndAt, n
      <3>3. c < h + 1 + n
        BY <1>1, <1>2, <1>4, <1>9, <2>4, <3>1
      <3>4. EndAt(board, pos + 1) > g + 1
        <4> DEFINE k == CrcSize
        <4>1. k >= 1 /\ k \in Nat /\ EndAt(board, pos + 1) = pos + 1 + h + n + k
          BY <1>2, <3>2
        <4> HIDE DEF k
        <4> QED BY <1>1, <1>2, <2>4, <3>3, <4>1
      <3>5. Read(board, g)[pos + 1] = Nothing
        BY <1>1, <1>6, <2>6, <2>8, <3>4, ReadPart DEF n
      <3> QED BY <3>5, NothingIs
    <2> QED BY <2>7, <2>8
  <1> QED BY <1>8, <1>9

LEMMA HandleCovers ==
  ASSUME Inv, Handle, Shape', Matches', board' = board, got' = got, pos' = pos, start' = start
  PROVE  Covered'
  <1>1. Basics /\ Shape /\ Types /\ Control /\ Matches /\ Accounts /\ Covered /\ Counted
    BY DEF Inv, Basics, Shape
  <1>2. /\ status # "none" /\ status' = "none" /\ event' = IF KeepGoing THEN event + 1 ELSE event
        /\ UNCHANGED <<announce, queue, running, left>>
    BY DEF Handle, deviceVars
  <1>3. ~running /\ Pending \in Nat /\ event \in Nat /\ announce \in BOOLEAN
    BY <1>1, <1>2, AnnouncedFacts DEF Control, Types
  <1>4. Announced' = Pending' /\ Pending' = IF KeepGoing THEN Pending + 1 ELSE Pending
    BY <1>2, <1>3 DEF Announced, AtWork, Pending
  <1>5. CASE status = "INSUFFICIENT_DATA"
    <2>1. ~KeepGoing
      BY <1>5 DEF KeepGoing
    <2>2. Announced = Pending
      BY <1>3, <1>5 DEF Announced, AtWork
    <2>3. Announced' = Announced
      BY <1>4, <2>1, <2>2
    <2> QED BY <1>1, <1>2, <2>3, StillCovered
  <1>6. CASE status # "INSUFFICIENT_DATA" /\ KeepGoing
    <2>1. Announced = Pending + 1
      BY <1>1, <1>2, <1>6 DEF Announced, AtWork, Types
    <2>2. Announced' = Announced
      BY <1>4, <1>6, <2>1
    <2> QED BY <1>1, <1>2, <2>2, StillCovered
  <1>7. CASE status # "INSUFFICIENT_DATA" /\ ~KeepGoing
    <2>1. Announced' = Pending
      BY <1>4, <1>7
    <2>2. CASE left = 0
      <3>1. Old(queue, Pending) = 0
        <4>1. Old(queue, Pending) = 0 \/ Old(queue, Pending) <= 0
          BY <1>1, <1>2, <2>2 DEF Counted
        <4>2. Old(queue, Pending) \in Nat
          BY <1>1, AnnouncedFacts
        <4> QED BY <4>1, <4>2
      <3>2. (Old(queue, Announced) = 0)'
        BY <1>2, <2>1, <3>1
      <3>3. (Shape /\ Matches /\ Old(queue, Announced) = 0 => Covered)'
        BY NoneOldCovered, PTL
      <3> QED BY <3>2, <3>3
    <2>3. CASE left # 0
      <3>1. status = "VALID_FRAME" /\ ~QueueDataVerification
        BY <1>1, <1>2, <1>7, <2>3 DEF KeepGoing, Types
      <3>2. CASE Read(board, got)[1].halts
        BY <3>2, Zenon DEF Covered
      <3>3. CASE ~Read(board, got)[1].halts
        <4>1. Old(queue, Announced) = 0
          BY <1>1, <3>1, <3>3, Zenon DEF Covered
        <4>2. Read(board, pos + Old(queue, Pending))[pos + 1].frames = <<>>
          BY <1>1, <3>1, <3>3, <4>1, VerificationReads
        <4>3. start = pos + 1
          <5>1. state = "finished"
            BY <1>1, <3>1 DEF Control
          <5>2. DoneIn(board, state, frame) = 0
            BY <5>1 DEF DoneIn
          <5>3. pos \in Nat
            BY <1>1, AnnouncedFacts
          <5> QED BY <5>2, <5>3 DEF start, Start
        <4>4. Read(board', pos' + Old(queue', Announced'))[start'].frames = <<>>
          BY <1>2, <2>1, <4>2, <4>3
        <4> QED BY <1>2, <4>4 DEF Covered
      <3> QED BY <3>2, <3>3
    <2> QED BY <2>2, <2>3
  <1> QED BY <1>5, <1>6, <1>7

LEMMA HandleInv ==
  ASSUME Inv, Handle
  PROVE  Inv'
  <1>1. Basics /\ Shape /\ Stream /\ Types /\ Control /\ Matches /\ Accounts /\ Covered
    BY DEF Inv, Basics, Shape
  <1>2. Basics' /\ Stream' /\ got' = got /\ pos' = pos
    BY <1>1, HandleBasics
  <1>3. Shape' /\ Types'
    BY <1>2 DEF Basics, Shape
  <1>4. /\ status # "none" /\ status' = "none" /\ board' = board
        /\ state' = IF state = "finished" THEN "junk" ELSE state
        /\ \/ /\ status = "VALID_FRAME" /\ frame' = NoFrame
              /\ delivered' = Append(delivered, <<frame.og, frame.oc, frame.data>>)
           \/ status # "VALID_FRAME" /\ frame' = frame /\ delivered' = delivered
    BY DEF Handle, deviceVars
  <1>5. frame.length \in Nat /\ frame'.length \in Nat
    BY <1>1, <1>3 DEF Types, Framing
  <1>6. Matches' /\ start' = start
    <2>1. \/ state' = state /\ frame' = frame
          \/ state \in {"junk", "finished"} /\ state' \in {"junk", "finished"}
      BY <1>1, <1>4 DEF Control
    <2> QED BY <1>1, <1>2, <1>4, <1>5, <2>1, StillMatches
  <1>7. Due' = Due
    BY <1>4 DEF Due
  <1>8. Accounts'
    <2>1. status' # "VALID_FRAME"
      BY <1>4
    <2> QED BY <1>1, <1>2, <1>4, <1>6, <1>7, <2>1, StillAccounts
  <1>9. Covered'
    BY <1>2, <1>3, <1>4, <1>6, HandleCovers
  <1> QED BY <1>2, <1>6, <1>8, <1>9 DEF Inv

-----------------------------------------------------------------------------
(* The invariant holds, and what follows from it.                          *)

LEMMA InitInv == Init => Inv
  <1> SUFFICES ASSUME Init PROVE Inv
    OBVIOUS
  <1>1. /\ board \in Boards /\ toRead = board.bytes /\ chunks = 0 /\ announce = FALSE
        /\ queue = <<>> /\ avail = 0 /\ event = 0 /\ running = FALSE /\ state = "junk"
        /\ frame = NoFrame /\ left = 0 /\ saved = 0 /\ status = "none" /\ delivered = <<>>
    BY DEF Init
  <1>2. board.bytes \in Seq(Byte) /\ Len(board.bytes) \in Nat
    BY <1>1, BoardFacts
  <1>3. Bytes(queue) = <<>> /\ Len(Bytes(queue)) = 0 /\ queue \in Seq(Chunk)
    BY <1>1, BytesOfNone, EmptySeq
  <1>4. got = 0
    BY <1>1, <1>2 DEF got
  <1>5. pos = 0
    <2>1. Len(Bytes(queue)) = 0
      BY <1>3
    <2>2. pos = got - Len(Bytes(queue))
      BY DEF pos
    <2> QED BY <1>4, <2>1, <2>2
  <1>6. Stream
    <2>1. toRead = SubSeq(board.bytes, got + 1, Len(board.bytes))
      BY <1>1, <1>2, <1>4, SubSeqFull
    <2>2. Bytes(queue) = SubSeq(board.bytes, pos + 1, got)
      <3>1. SubSeq(board.bytes, 1, 0) = <<>>
        BY <1>2, SubSeqEmpty
      <3> QED BY <1>3, <1>4, <1>5, <3>1
    <2>3. got \in 0 .. Len(board.bytes) /\ pos \in 0 .. got
      BY <1>2, <1>4, <1>5
    <2> QED BY <1>1, <1>3, <2>1, <2>2, <2>3 DEF Stream
  <1>7. Types
    <2>1. delivered \in Seq(FrameType)
      BY <1>1
    <2>2. chunks \in 0 .. MaxChunks
      BY <1>1, ConstantTypes
    <2>3. avail \in Nat /\ event \in Nat /\ left \in Int /\ saved \in Nat
      BY <1>1
    <2>4. announce \in BOOLEAN /\ running \in BOOLEAN /\ frame \in Framing
      BY <1>1, ConstantTypes
    <2> QED BY <1>1, <2>1, <2>2, <2>3, <2>4 DEF Types
  <1>8. Control
    BY <1>1 DEF Control
  <1>9. Shape
    BY <1>6, <1>7, <1>8 DEF Shape
  <1>10. SizeMatches
    BY <1>1, <1>3 DEF SizeMatches
  <1>11. Counted
    BY <1>1 DEF Counted
  <1>12. Matches
    BY <1>1 DEF Matches, MatchesAt, Between
  <1>13. start = 1
    <2>1. DoneIn(board, state, frame) = 0
      BY <1>1 DEF DoneIn
    <2> QED BY <1>5, <2>1 DEF start, Start
  <1>14. Accounts
    <2>1. Due = <<>> /\ status # "VALID_FRAME"
      BY <1>1 DEF Due
    <2>2. ASSUME NEW g \in pos .. Len(board.bytes)
          PROVE  Read(board, g)[1].frames = Due \o Read(board, g)[start].frames
      <3>1. g \in 0 .. Len(board.bytes) /\ 1 \in 1 .. g + 1
        BY <1>2, <1>5
      <3>2. Read(board, g)[1].frames \in Seq(FrameType)
        BY <1>1, <3>1, ReadType
      <3> DEFINE r == Read(board, g)[1].frames
      <3> HIDE DEF r
      <3>3. r = <<>> \o r
        BY <3>2, ConcatEmptySeq DEF r
      <3> QED BY <1>13, <2>1, <3>3 DEF r
    <2> QED BY <1>13, <2>1, <2>2, Zenon DEF Accounts
  <1>15. Covered
    <2>1. Old(queue, Announced) = 0
      <3>1. Announced \in Nat
        BY <1>9, AnnouncedType
      <3>2. Old(queue, Announced) \in Nat /\ Old(queue, Announced) <= Len(Bytes(queue))
        BY <1>3, <3>1, OldFacts
      <3> QED BY <1>3, <3>2
    <2> QED BY <1>9, <1>12, <2>1, NoneOldCovered
  <1> QED BY <1>9, <1>10, <1>11, <1>12, <1>14, <1>15 DEF Inv, Basics

LEMMA NextInv == Inv /\ [Next]_vars => Inv'
  <1> SUFFICES ASSUME Inv, [Next]_vars PROVE Inv'
    OBVIOUS
  <1>1. CASE PutChunk
    BY <1>1, PutInv
  <1>2. CASE SignalChunk
    BY <1>2, SignalInv
  <1>3. CASE Wake
    BY <1>3, WakeInv
  <1>4. CASE Dispatch
    BY <1>4, DispatchInv
  <1>5. CASE Handle
    BY <1>5, HandleInv
  <1>6. CASE UNCHANGED vars
    <2>1. UNCHANGED <<board, toRead, chunks, announce, queue, avail, event, running, state, frame,
                      left, saved, status, delivered>>
      BY <1>6 DEF vars, deviceVars, machineVars
    <2>2. got' = got /\ pos' = pos /\ start' = start /\ Due' = Due /\ Pending' = Pending
          /\ Announced' = Announced
      BY <2>1 DEF got, pos, start, Due, Pending, Announced, AtWork
    <2>3. Basics' /\ Matches'
      BY <2>1, <2>2 DEF Inv, Basics, Shape, Types, Stream, Control, SizeMatches, Counted, Matches
    <2>4. Accounts'
      BY <2>1, <2>2, StillAccounts DEF Inv
    <2>5. Covered'
      BY <2>1, <2>2 DEF Inv, Covered
    <2> QED BY <2>3, <2>4, <2>5 DEF Inv
  <1> QED BY <1>1, <1>2, <1>3, <1>4, <1>5, <1>6 DEF Next, Device, Framer

LEMMA InvInvariance == Spec => []Inv
  <1> QED BY InitInv, NextInv, PTL DEF Spec

-----------------------------------------------------------------------------
(* Types.                                                                  *)

LEMMA RestIsSuffix ==
  ASSUME NEW X, NEW s \in Seq(X), NEW g \in 0 .. Len(s)
  PROVE  IsSuffix(SubSeq(s, g + 1, Len(s)), s)
  <1> DEFINE t == SubSeq(s, g + 1, Len(s))
             a == Reverse(t)
             b == Reverse(s)
             n == Len(s) - g
  <1>1. Len(s) \in Nat /\ g \in Nat /\ n \in Nat /\ n <= Len(s)
    OBVIOUS
  <1>2. t \in Seq(X) /\ Len(t) = n /\ \A i \in 1 .. n : t[i] = s[g + i]
    BY <1>1
  <1>3. b \in Seq(X) /\ Len(b) = Len(s) /\ \A i \in 1 .. Len(s) : b[i] = s[Len(s) - i + 1]
    BY <1>1 DEF Reverse
  <1> HIDE DEF t
  <1>4. a \in Seq(X) /\ Len(a) = n /\ \A i \in 1 .. n : a[i] = t[n - i + 1]
    BY <1>1, <1>2 DEF Reverse
  <1> HIDE DEF a, b
  <1>5. \A i \in 1 .. n : a[i] = b[i]
    <2> SUFFICES ASSUME NEW i \in 1 .. n PROVE a[i] = b[i]
      OBVIOUS
    <2>1. n - i + 1 \in 1 .. n /\ g + (n - i + 1) = Len(s) - i + 1 /\ i \in 1 .. Len(s)
      BY <1>1
    <2> HIDE DEF n
    <2>2. a[i] = s[g + (n - i + 1)]
      BY <1>2, <1>4, <2>1
    <2> QED BY <1>3, <2>1, <2>2
  <1> DEFINE c == SubSeq(b, 1, n)
  <1>6. c \in Seq(X) /\ Len(c) = n /\ \A i \in 1 .. n : c[i] = b[i]
    BY <1>1, <1>3
  <1> HIDE DEF c
  <1>7. a = c
    <2> HIDE DEF n
    <2> QED BY <1>4, <1>5, <1>6, SeqEqual
  <1>8. SubSeq(a, 1, Len(a)) = a
    BY <1>4, SubSeqFull
  <1>9. Len(a) <= Len(b) /\ SubSeq(a, 1, Len(a)) = SubSeq(b, 1, Len(a))
    BY <1>1, <1>3, <1>4, <1>7, <1>8 DEF c
  <1> QED BY <1>9 DEF IsSuffix, IsPrefix, a, b, t

\* Every variable has a value of its type: what is still to be sent is the end of the
\* board's bytes, no empty chunk is queued, and no counter goes below zero but left.
THEOREM TypeCorrect == Spec => []TypeOK
  <1>1. Inv => TypeOK
    <2> SUFFICES ASSUME Inv PROVE TypeOK
      OBVIOUS
    <2>1. Types /\ Stream
      BY DEF Inv, Basics, Shape
    <2>2. IsSuffix(toRead, board.bytes)
      <3>1. board.bytes \in Seq(Byte) /\ got \in 0 .. Len(board.bytes)
            /\ toRead = SubSeq(board.bytes, got + 1, Len(board.bytes))
        BY <2>1, StreamFacts DEF Stream
      <3> QED BY <3>1, RestIsSuffix
    <2> QED BY <2>1, <2>2 DEF TypeOK, Types, Stream, Framing, Chunk
  <1> QED BY <1>1, InvInvariance, PTL

-----------------------------------------------------------------------------
(* The size and the frames.                                                *)

\* cAvailableData is the number of bytes queued, with those that a running dispatch has taken:
\* the refusal of MessageQueueDecrementSize never happens.
THEOREM SizeMatchesCorrect == Spec => []SizeMatches
  <1>1. Inv => SizeMatches
    BY DEF Inv, Basics
  <1> QED BY <1>1, InvInvariance, PTL

LEMMA ReceivedIs ==
  ASSUME Stream
  PROVE  Received = Read(board, got)[1]
  <1>1. board \in Boards /\ got \in 0 .. Len(board.bytes)
    BY DEF Stream
  <1> HIDE DEF got
  <1>2. Readings[board][got] = Read(board, got)[1]
    BY <1>1 DEF Readings
  <1> QED BY <1>2 DEF Received, got

\* A frame under way began in the bytes read.
LEMMA StartInStream ==
  ASSUME Shape, Matches
  PROVE  start \in 1 .. got + 1
  <1>1. /\ board \in Boards /\ pos \in Nat /\ got \in Nat /\ pos <= got /\ frame.length \in Nat
    BY StreamFacts, AnnouncedFacts DEF Shape
  <1>2. Header(board) \in {4, 5}
    BY <1>1, BoardFacts
  <1>3. state \in {"junk", "sync", "og", "oc", "length", "data", "crc", "crc2", "finished"}
    BY DEF Shape, Types
  <1>4. DoneIn(board, state, frame) \in Nat
    BY <1>1, <1>2, <1>3 DEF DoneIn
  <1>5. start = pos + 1 - DoneIn(board, state, frame)
    BY DEF start, Start
  <1>6. state \in Between => start = pos + 1
    <2>1. ASSUME state \in Between PROVE DoneIn(board, state, frame) = 0
      BY <2>1 DEF Between, DoneIn
    <2> QED BY <1>1, <1>5, <2>1
  <1>7. state \notin Between => start >= 1
    BY DEF Matches, MatchesAt, start
  <1> QED BY <1>1, <1>4, <1>5, <1>6, <1>7

LEMMA PrefixOfConcat ==
  ASSUME NEW X, NEW s \in Seq(X), NEW t \in Seq(X)
  PROVE  IsPrefix(s, s \o t)
  <1> DEFINE u == s \o t
             v == SubSeq(u, 1, Len(s))
  <1>1. u \in Seq(X) /\ Len(u) = Len(s) + Len(t) /\ Len(s) \in Nat /\ Len(t) \in Nat
        /\ \A i \in 1 .. Len(s) : u[i] = s[i]
    BY ConcatProperties
  <1> HIDE DEF u
  <1>2. v \in Seq(X) /\ Len(v) = Len(s) /\ \A i \in 1 .. Len(s) : v[i] = u[i]
    BY <1>1
  <1> HIDE DEF v
  <1>3. v = s
    BY <1>1, <1>2, SeqEqual
  <1>4. SubSeq(s, 1, Len(s)) = s
    BY SubSeqFull
  <1> QED BY <1>1, <1>3, <1>4 DEF IsPrefix, v, u

\* However the bytes are cut into chunks and whenever the chunks arrive, the observers have got
\* the first of the frames that the bytes received hold, in order, and when both threads wait
\* all of them, unless the header of an overlong frame came right behind one of them.
THEOREM ParsesStreamCorrect == Spec => []ParsesStream
  <1>1. Inv => ParsesStream
    <2> SUFFICES ASSUME Inv PROVE ParsesStream
      OBVIOUS
    <2>1. Shape /\ Stream /\ Types /\ Accounts /\ Covered
      BY DEF Inv, Basics, Shape
    <2>2. /\ board \in Boards /\ pos \in Nat /\ got \in Nat /\ pos <= got /\ got <= Len(board.bytes)
          /\ Len(board.bytes) \in Nat /\ Len(Bytes(queue)) = got - pos /\ queue \in Seq(Chunk)
          /\ frame \in Framing /\ frame.length \in Nat /\ delivered \in Seq(FrameType)
      BY <2>1, StreamFacts, AnnouncedFacts DEF Stream, Types
    <2> DEFINE r == Read(board, got)[start].frames
               x == <<frame.og, frame.oc, frame.data>>
    <2>3. Received.frames = Due \o r
      <3>1. got \in pos .. Len(board.bytes)
        BY <2>2
      <3>2. Read(board, got)[1].frames = Due \o r
        BY <2>1, <3>1, Zenon DEF Accounts
      <3> QED BY <2>1, <3>2, ReceivedIs
    <2>4. r \in Seq(FrameType)
      <3>1. start \in 1 .. got + 1
        BY <2>1, StartInStream DEF Inv
      <3>2. got \in 0 .. Len(board.bytes)
        BY <2>2
      <3> QED BY <2>2, <3>1, <3>2, ReadType
    <2> HIDE DEF r, x
    <2>5. IsPrefix(delivered, Received.frames)
      <3>1. CASE status = "VALID_FRAME"
        <4>1. x \in FrameType
          BY <2>2 DEF x, Framing, FrameType
        <4> DEFINE t == <<x>>
        <4>2. t \in Seq(FrameType)
          BY <4>1
        <4>3. Due = delivered \o t
          <5>1. Due = Append(delivered, x)
            BY <3>1 DEF Due, x
          <5> QED BY <2>2, <4>1, <5>1, AppendIsConcat
        <4> HIDE DEF t
        <4>4. (delivered \o t) \o r = delivered \o (t \o r) /\ t \o r \in Seq(FrameType)
          BY <2>2, <2>4, <4>2, ConcatAssociative, ConcatProperties
        <4>5. Received.frames = delivered \o (t \o r)
          BY <2>3, <4>3, <4>4
        <4> QED BY <2>2, <4>4, <4>5, PrefixOfConcat
      <3>2. CASE status # "VALID_FRAME"
        <4>1. Received.frames = delivered \o r
          BY <2>3, <3>2 DEF Due
        <4> QED BY <2>2, <2>4, <4>1, PrefixOfConcat
      <3> QED BY <3>1, <3>2
    <2>6. ASSUME Idle, ~Received.halts PROVE delivered = Received.frames
      <3>1. ~announce /\ event = 0 /\ ~running /\ status = "none"
        BY <2>6 DEF Idle
      <3>2. Announced = 0 /\ Due = delivered
        BY <3>1 DEF Announced, AtWork, Pending, Due
      <3>3. pos + Old(queue, Announced) = got
        <4>1. Old(queue, 0) = Len(Bytes(queue))
          <5>1. 0 \in Nat
            OBVIOUS
          <5> QED BY <2>2, <5>1, OldFacts
        <4>2. pos + Old(queue, 0) = got
          BY <2>2, <4>1
        <4> QED BY <3>2, <4>2
      <3>4. ~Read(board, got)[1].halts
        BY <2>1, <2>6, ReceivedIs, Zenon
      <3>5. Read(board, pos + Old(queue, Announced))[start].frames = <<>>
        BY <2>1, <3>4, Zenon DEF Covered
      <3>6. r = <<>>
        BY <3>3, <3>5 DEF r
      <3>7. delivered \o <<>> = delivered
        BY <2>2, ConcatEmptySeq
      <3> QED BY <2>3, <3>2, <3>6, <3>7
    <2> QED BY <2>5, <2>6 DEF ParsesStream
  <1> QED BY <1>1, InvInvariance, PTL

=============================================================================
