-------------------------- MODULE HttpContext_proofs --------------------------
(***************************************************************************)
(* Theorems about Buffer and HttpContext.  Buffer implements ByteQueue,    *)
(* for every alphabet, every initial size and every sequence of writes and *)
(* reads.  HttpContext uses it through its operations only, keeps its      *)
(* types and answers in whole pieces.  And whatever messages clients send, *)
(* and however TCP cuts them, it answers each with what that message is    *)
(* owed: the invariant says where in which message the parser stands, and  *)
(* that its state is what a reader of the whole message would expect.      *)
(***************************************************************************)
EXTENDS HttpContext, SequenceTheorems, NaturalsInduction, WellFoundedInduction, TLAPS

-----------------------------------------------------------------------------
(***************************************************************************)
(* Buffer.                                                                 *)
(***************************************************************************)
\* `new' is n cells long, holds `data' at offset `at', and before that what
\* `old', of m cells, held.
IsCopy(new, old, m, data, at, n) ==
    /\ new \in [0..(n - 1) -> Bytes]
    /\ \A k \in 1..Len(data) : new[at + k - 1] = data[k]
    /\ \A k \in 0..(n - 1) : k < at /\ k < m => new[k] = old[k]

\* Copying puts the data at the offset and leaves what is before it alone.
LEMMA CopiedCells ==
    ASSUME NEW m \in Nat, NEW old \in [0..(m - 1) -> Bytes], NEW data \in Seq(Bytes),
           NEW at \in Nat, NEW n \in Nat, at + Len(data) <= n, Fresh \in Bytes
    PROVE  IsCopy(Copied(old, data, at, n), old, m, data, at, n)
<1>1. Len(data) \in Nat /\ DOMAIN data = 1..Len(data) /\ \A k \in 1..Len(data) : data[k] \in Bytes
  OBVIOUS
<1>2. ASSUME NEW k \in 0..(n - 1), k \in at..(at + Len(data) - 1)
      PROVE  data[k - at + 1] \in Bytes
  <2>1. k - at + 1 \in 1..Len(data)
    BY <1>1, <1>2
  <2> QED
    BY <2>1, <1>1
<1>3. Copied(old, data, at, n) \in [0..(n - 1) -> Bytes]
  BY <1>2 DEF Copied
<1>4. ASSUME NEW k \in 1..Len(data)
      PROVE  Copied(old, data, at, n)[at + k - 1] = data[k]
  <2>1. at + k - 1 \in 0..(n - 1) /\ at + k - 1 \in at..(at + Len(data) - 1)
    BY <1>1
  <2>2. (at + k - 1) - at + 1 = k
    BY <1>1
  <2> QED
    BY <2>1, <2>2 DEF Copied
<1>5. ASSUME NEW k \in 0..(n - 1), k < at, k < m
      PROVE  Copied(old, data, at, n)[k] = old[k]
  BY <1>1, <1>5 DEF Copied
<1> QED
  BY <1>3, <1>4, <1>5 DEF IsCopy

\* What is readable, as a sequence of bytes.
ContentCells ==
    /\ ReadAbleSize \in Nat
    /\ Content \in Seq(Bytes) /\ Len(Content) = ReadAbleSize
    /\ \A k \in 1..ReadAbleSize : Content[k] = cells[reader + k - 1]

\* The content of a well-formed buffer is the stretch between its offsets.
LEMMA ContentType == BufferTypeOK => ContentCells
<1> SUFFICES ASSUME BufferTypeOK
             PROVE  ContentCells
  OBVIOUS
<1>1. ReadAbleSize \in Nat
  BY DEF BufferTypeOK, ReadAbleSize
<1>2. \A k \in 1..ReadAbleSize : reader + k - 1 \in Offsets
  BY DEF BufferTypeOK, ReadAbleSize, Offsets
<1>3. \A k \in 1..ReadAbleSize : cells[reader + k - 1] \in Bytes
  BY <1>2 DEF BufferTypeOK
<1> QED
  BY <1>1, <1>3 DEF Content, ContentCells

\* A write, in any of its three ways, keeps the offsets in order and appends.
LEMMA WriteAppends ==
    ASSUME BufferTypeOK, BufferAssumption,
           NEW data \in Seq(Bytes), WriteAndPush(data)
    PROVE  /\ BufferTypeOK'
           /\ ReadAbleSize' = ReadAbleSize + Len(data)
           /\ \A k \in 1..ReadAbleSize : cells'[reader' + k - 1] = cells[reader + k - 1]
           /\ \A k \in 1..Len(data) : cells'[reader' + ReadAbleSize + k - 1] = data[k]
<1> DEFINE len == Len(data)
<1>0. len \in Nat /\ Fresh \in Bytes
  BY DEF BufferAssumption
<1>t. /\ size \in Nat /\ reader \in Nat /\ writer \in Nat
      /\ cells \in [0..(size - 1) -> Bytes] /\ reader <= writer /\ writer <= size
  BY DEF BufferTypeOK, Offsets
<1>1. CASE WriteInPlace(data)
  <2>1. writer + len <= size /\ cells' = Copied(cells, data, writer, size)
        /\ writer' = writer + len /\ size' = size /\ reader' = reader
    BY <1>0, <1>1, <1>t DEF WriteInPlace, TailIdleSize
  <2>2. /\ cells' \in [0..(size - 1) -> Bytes]
        /\ \A k \in 0..(size - 1) : k < writer => cells'[k] = cells[k]
        /\ \A k \in 1..Len(data) : cells'[writer + k - 1] = data[k]
    <3>1. writer + Len(data) <= size
      BY <2>1
    <3>2. IsCopy(Copied(cells, data, writer, size), cells, size, data, writer, size)
      BY <3>1, <1>0, <1>t, CopiedCells
    <3>3. \A k \in 0..(size - 1) : k < size
      BY <1>t
    <3> QED
      BY <3>2, <3>3, <2>1 DEF IsCopy
  <2> HIDE DEF len
  <2>3. \A k \in 1..Len(data) : reader' + ReadAbleSize + k - 1 = writer + k - 1
    BY <2>1, <1>t DEF ReadAbleSize
  <2> QED
    BY <2>1, <2>2, <2>3, <1>0, <1>t DEF BufferTypeOK, Offsets, ReadAbleSize, len
<1>2. CASE WriteAfterMove(data)
  <2> DEFINE moved == Copied(cells, Content, 0, size)
  <2>1. /\ writer - reader + len <= size
        /\ cells' = Copied(moved, data, writer - reader, size)
        /\ reader' = 0 /\ writer' = writer - reader + len /\ size' = size
    BY <1>0, <1>2, <1>t DEF WriteAfterMove, TailIdleSize, HeadIdleSize, ReadAbleSize
  <2>2. /\ Content \in Seq(Bytes) /\ Len(Content) = writer - reader
        /\ \A k \in 1..(writer - reader) : Content[k] = cells[reader + k - 1]
    BY ContentType DEF ReadAbleSize, ContentCells
  <2>3. /\ moved \in [0..(size - 1) -> Bytes]
        /\ \A k \in 1..(writer - reader) : moved[k - 1] = cells[reader + k - 1]
    <3>1. 0 + Len(Content) <= size
      BY <2>2, <1>t
    <3>2. IsCopy(moved, cells, size, Content, 0, size)
      BY <3>1, <2>2, <1>0, <1>t, CopiedCells
    <3> HIDE DEF moved
    <3>3. \A k \in 1..(writer - reader) : 0 + k - 1 = k - 1
      BY <1>t
    <3> QED
      BY <3>2, <3>3, <2>2, <1>t DEF IsCopy
  <2>4. /\ cells' \in [0..(size - 1) -> Bytes]
        /\ \A k \in 0..(size - 1) : k < writer - reader /\ k < size => cells'[k] = moved[k]
        /\ \A k \in 1..Len(data) : cells'[(writer - reader) + k - 1] = data[k]
    <3>1. writer - reader \in Nat
      BY <1>t
    <3> HIDE DEF moved
    <3>2. IsCopy(cells', moved, size, data, writer - reader, size)
      BY <2>1, <2>3, <3>1, <1>0, <1>t, CopiedCells
    <3> QED
      BY <3>2 DEF IsCopy
  <2> HIDE DEF moved, len
  <2>5. \A k \in 1..(writer - reader) : cells'[k - 1] = cells[reader + k - 1]
    <3> TAKE k \in 1..(writer - reader)
    <3>1. k - 1 \in 0..(size - 1) /\ k - 1 < writer - reader /\ k - 1 < size
      BY <1>t
    <3> QED
      BY <3>1, <2>3, <2>4
  <2>6. \A k \in 1..Len(data) : reader' + ReadAbleSize + k - 1 = (writer - reader) + k - 1
    BY <2>1, <1>t DEF ReadAbleSize
  <2> QED
    BY <2>1, <2>4, <2>5, <2>6, <1>0, <1>t DEF BufferTypeOK, Offsets, ReadAbleSize, len
<1>3. CASE WriteAfterResize(data)
  <2>1. /\ size' = writer + len /\ cells' = Copied(cells, data, writer, writer + len)
        /\ writer' = writer + len /\ reader' = reader
    BY <1>3 DEF WriteAfterResize
  <2>2. /\ cells' \in [0..(size' - 1) -> Bytes]
        /\ \A k \in 0..(size' - 1) : k < writer /\ k < size => cells'[k] = cells[k]
        /\ \A k \in 1..Len(data) : cells'[writer + k - 1] = data[k]
    <3>1. writer + Len(data) \in Nat /\ writer + Len(data) <= writer + Len(data)
      BY <1>0, <1>t
    <3>2. IsCopy(Copied(cells, data, writer, writer + Len(data)), cells, size,
                 data, writer, writer + Len(data))
      BY <3>1, <1>0, <1>t, CopiedCells
    <3>3. IsCopy(cells', cells, size, data, writer, size')
      BY <3>2, <2>1
    <3> QED
      BY <3>3 DEF IsCopy
  <2> HIDE DEF len
  <2>3. \A k \in 1..Len(data) : reader' + ReadAbleSize + k - 1 = writer + k - 1
    BY <2>1, <1>t DEF ReadAbleSize
  <2>4. BufferTypeOK' /\ ReadAbleSize' = ReadAbleSize + Len(data)
    <3>1. cells' \in [0..(size' - 1) -> Bytes]
      BY <2>2
    <3> QED
      BY <3>1, <2>1, <1>0, <1>t DEF BufferTypeOK, Offsets, ReadAbleSize, len
  <2>5. \A k \in 1..ReadAbleSize : cells'[reader' + k - 1] = cells[reader + k - 1]
    <3> TAKE k \in 1..ReadAbleSize
    <3>1. reader + k - 1 \in 0..(size' - 1) /\ reader + k - 1 < writer /\ reader + k - 1 < size
      BY <2>1, <1>0, <1>t DEF ReadAbleSize, len
    <3> QED
      BY <3>1, <2>1, <2>2
  <2>6. \A k \in 1..Len(data) : cells'[reader' + ReadAbleSize + k - 1] = data[k]
    BY <2>2, <2>3
  <2> QED
    BY <2>4, <2>5, <2>6
<1> QED
  BY <1>1, <1>2, <1>3 DEF WriteAndPush

\* A sequence that begins with a and goes on with b is their concatenation.
LEMMA Concatenation ==
    ASSUME NEW S, NEW a \in Seq(S), NEW b \in Seq(S), NEW c \in Seq(S),
           Len(c) = Len(a) + Len(b),
           \A k \in 1..Len(a) : c[k] = a[k],
           \A k \in 1..Len(b) : c[Len(a) + k] = b[k]
    PROVE  c = a \o b
<1>1. a \o b \in Seq(S) /\ Len(a \o b) = Len(c) /\ Len(a) \in Nat /\ Len(b) \in Nat
  OBVIOUS
<1>2. ASSUME NEW k \in 1..Len(c)
      PROVE  c[k] = (a \o b)[k]
  <2>1. CASE k <= Len(a)
    BY <2>1, <1>1
  <2>2. CASE k > Len(a)
    <3>1. k - Len(a) \in 1..Len(b) /\ Len(a) + (k - Len(a)) = k
      BY <2>2, <1>1
    <3>2. c[k] = b[k - Len(a)]
      BY <3>1
    <3> QED
      BY <3>1, <3>2, <2>2, <1>1
  <2> QED
    BY <2>1, <2>2, <1>1
<1> QED
  BY <1>1, <1>2

\* WriteAndPush puts exactly its data behind what is readable, whether there
\* is room, the bytes are moved, or the vector grows.
THEOREM WriteIsAppend ==
    ASSUME BufferTypeOK, BufferTypeOK', NEW data \in Seq(Bytes), WriteAndPush(data)
    PROVE  Content' = Content \o data
<1>0. /\ ReadAbleSize \in Nat /\ Content \in Seq(Bytes) /\ Len(Content) = ReadAbleSize
      /\ \A k \in 1..ReadAbleSize : Content[k] = cells[reader + k - 1]
  BY ContentType DEF ContentCells
<1>1. /\ ReadAbleSize' \in Nat /\ Content' \in Seq(Bytes) /\ Len(Content') = ReadAbleSize'
      /\ \A k \in 1..ReadAbleSize' : Content'[k] = cells'[reader' + k - 1]
  <2>1. ContentCells'
    BY ContentType, PTL
  <2> QED
    BY <2>1 DEF ContentCells
<1>2. /\ ReadAbleSize' = ReadAbleSize + Len(data) /\ Len(data) \in Nat
      /\ \A k \in 1..ReadAbleSize : cells'[reader' + k - 1] = cells[reader + k - 1]
      /\ \A k \in 1..Len(data) : cells'[reader' + ReadAbleSize + k - 1] = data[k]
  BY BufferAssumption, WriteAppends
<1>3. \A k \in 1..ReadAbleSize : Content'[k] = Content[k]
  <2> TAKE k \in 1..ReadAbleSize
  <2>1. k \in 1..ReadAbleSize'
    BY <1>0, <1>2
  <2> QED
    BY <2>1, <1>0, <1>1, <1>2
<1>4. \A k \in 1..Len(data) : Content'[ReadAbleSize + k] = data[k]
  <2> TAKE k \in 1..Len(data)
  <2>1. ReadAbleSize + k \in 1..ReadAbleSize'
    BY <1>0, <1>2
  <2>2. reader' + (ReadAbleSize + k) - 1 = reader' + ReadAbleSize + k - 1
    BY <1>0, <1>2 DEF BufferTypeOK
  <2> QED
    BY <2>1, <2>2, <1>1, <1>2
<1>5. Len(Content') = Len(Content) + Len(data)
  BY <1>0, <1>1, <1>2
<1> DEFINE new == Content'
<1>6. /\ new \in Seq(Bytes) /\ Len(new) = Len(Content) + Len(data)
      /\ \A k \in 1..Len(Content) : new[k] = Content[k]
      /\ \A k \in 1..Len(data) : new[Len(Content) + k] = data[k]
  BY <1>0, <1>1, <1>3, <1>4, <1>5
<1> HIDE DEF new
<1>7. new = Content \o data
  BY <1>6, <1>0, Concatenation
<1> QED
  BY <1>7 DEF new

\* The offsets stay in order and within the vector.
THEOREM BufferTypeCorrect == BufferSpec => []BufferTypeOK
<1>1. BufferInit => BufferTypeOK
  BY BufferAssumption DEF BufferInit, BufferTypeOK, Offsets, BufferAssumption
<1>2. BufferTypeOK /\ [BufferNext]_bufferVars => BufferTypeOK'
  <2> SUFFICES ASSUME BufferTypeOK, [BufferNext]_bufferVars
               PROVE  BufferTypeOK'
    OBVIOUS
  <2>1. ASSUME NEW data \in Seq(Bytes), WriteAndPush(data)
        PROVE  BufferTypeOK'
    BY <2>1, BufferAssumption, WriteAppends
  <2>2. ASSUME NEW n \in Nat, MoveReadOffset(n)
        PROVE  BufferTypeOK'
    BY <2>2 DEF MoveReadOffset, BufferTypeOK, ReadAbleSize, Offsets
  <2>3. CASE UNCHANGED bufferVars
    BY <2>3 DEF BufferTypeOK, bufferVars, Offsets
  <2> QED
    BY <2>1, <2>2, <2>3 DEF BufferNext
<1> QED
  BY <1>1, <1>2, PTL DEF BufferSpec

\* The vector with its two offsets is a queue of bytes: writes append, reads
\* take from the front, and neither moving nor growing changes the content.
THEOREM BufferRefinesQueue == BufferSpec => BufferIsQueue
<1>1. BufferInit => Queue!Init
  BY BufferAssumption DEF BufferInit, Queue!Init, Content, ReadAbleSize
<1>2. BufferTypeOK /\ BufferTypeOK' /\ [BufferNext]_bufferVars => [Queue!Next]_Content
  <2> SUFFICES ASSUME BufferTypeOK, BufferTypeOK', [BufferNext]_bufferVars
               PROVE  [Queue!Next]_Content
    OBVIOUS
  <2>0. /\ ReadAbleSize \in Nat /\ Content \in Seq(Bytes) /\ Len(Content) = ReadAbleSize
        /\ \A k \in 1..ReadAbleSize : Content[k] = cells[reader + k - 1]
    BY ContentType DEF ContentCells
  <2>0p. /\ ReadAbleSize' \in Nat /\ Content' \in Seq(Bytes) /\ Len(Content') = ReadAbleSize'
         /\ \A k \in 1..ReadAbleSize' : Content'[k] = cells'[reader' + k - 1]
    <3>1. ContentCells'
      BY ContentType, PTL
    <3> QED
      BY <3>1 DEF ContentCells
  <2>1. ASSUME NEW data \in Seq(Bytes), WriteAndPush(data)
        PROVE  Queue!Push
    <3>1. /\ ReadAbleSize' = ReadAbleSize + Len(data) /\ Len(data) \in Nat
          /\ \A k \in 1..ReadAbleSize : cells'[reader' + k - 1] = cells[reader + k - 1]
      BY <2>1, BufferAssumption, WriteAppends
    <3>2. \A k \in 1..Len(Content) : Content'[k] = Content[k]
      BY <3>1, <2>0, <2>0p
    <3>3. Len(Content') >= Len(Content)
      BY <3>1, <2>0, <2>0p
    <3>4. SubSeq(Content', 1, Len(Content)) = Content
      BY <3>2, <3>3, <2>0, <2>0p
    <3> QED
      BY <3>3, <3>4 DEF Queue!Push
  <2>2. ASSUME NEW n \in Nat, MoveReadOffset(n)
        PROVE  Queue!Pop
    <3>1. /\ n <= ReadAbleSize /\ reader' = reader + n
          /\ cells' = cells /\ size' = size /\ writer' = writer
      BY <2>2 DEF MoveReadOffset
    <3>2. ReadAbleSize' = ReadAbleSize - n
      BY <3>1 DEF ReadAbleSize, BufferTypeOK
    <3>3. \A k \in 1..(ReadAbleSize - n) : Content'[k] = Content[n + k]
      <4> TAKE k \in 1..(ReadAbleSize - n)
      <4>1. n + k \in 1..ReadAbleSize /\ k \in 1..ReadAbleSize'
        BY <3>1, <3>2, <2>0
      <4>2. reader' + k - 1 = reader + (n + k) - 1
        BY <3>1 DEF BufferTypeOK
      <4> QED
        BY <4>1, <4>2, <3>1, <2>0, <2>0p
    <3>4. Content' = SubSeq(Content, n + 1, Len(Content))
      BY <3>1, <3>2, <3>3, <2>0, <2>0p
    <3>5. n \in 0..Len(Content)
      BY <3>1, <2>0
    <3> QED
      BY <3>4, <3>5 DEF Queue!Pop
  <2>3. CASE UNCHANGED bufferVars
    BY <2>3 DEF bufferVars, Content, ReadAbleSize
  <2> QED
    BY <2>1, <2>2, <2>3 DEF BufferNext, Queue!Next
<1> QED
  BY <1>1, <1>2, BufferTypeCorrect, PTL DEF BufferSpec, BufferIsQueue, Queue!Spec
-----------------------------------------------------------------------------
(***************************************************************************)
(* Facts about the data.                                                   *)
(***************************************************************************)
\* A set of natural numbers has a least element.
LEMMA Least ==
    ASSUME NEW T \in SUBSET Nat, T # {}
    PROVE  \E n \in T : \A m \in T : n <= m
  <1> DEFINE R == OpToRel(<, Nat)
  <1>1. IsWellFoundedOn(R, Nat)
    BY NatLessThanWellFounded
  <1>2. \A x, y \in Nat : x < y => <<x, y>> \in R
    BY DEF OpToRel
  <1> HIDE DEF R
  <1>3. PICK n \in T : \A y \in T : ~(<<y, n>> \in R)
    BY <1>1, WFMin
  <1>4. \A m \in T : ~(m < n)
    BY <1>2, <1>3
  <1>5. \A m \in T : n <= m
    BY <1>4
  <1> QED
    BY <1>5

\* What FlattenSeq makes of the first i sequences, from the i - 1 before.
FlatStep(s, f, i) == IF i = 1 THEN s[i] ELSE f[i - 1] \o s[i]

Flattens(f, s, n) == \A i \in 1..n : f[i] = FlatStep(s, f, i)

\* The first k sequences of s as one.
First(s, k) == FlattenSeq([i \in 1..k |-> s[i]])

\* Those are the same, whatever function has them.
LEMMA FlatUnique ==
    ASSUME NEW s, NEW n \in Nat, NEW f, NEW g,
           Flattens(f, s, n), Flattens(g, s, n)
    PROVE  \A i \in 1..n : f[i] = g[i]
  <1> DEFINE off == {i \in 1..n : f[i] # g[i]}
  <1> SUFFICES ASSUME off # {}
               PROVE  FALSE
    OBVIOUS
  <1>1. off \in SUBSET Nat
    OBVIOUS
  <1>2. PICK m \in off : \A l \in off : m <= l
    BY <1>1, Least
  <1>3. m \in 1..n /\ f[m] # g[m] /\ g[m] = FlatStep(s, g, m) /\ f[m] = FlatStep(s, f, m)
    BY <1>2 DEF Flattens
  <1>4. m # 1
    BY <1>3 DEF FlatStep
  <1>5. m - 1 \in 1..n /\ ~(m <= m - 1)
    BY <1>3, <1>4
  <1>6. f[m - 1] = g[m - 1]
    BY <1>2, <1>5
  <1> QED
    BY <1>3, <1>4, <1>6 DEF FlatStep

\* The recursion of FlattenSeq is well-founded.
LEMMA Flattening ==
    ASSUME NEW S, NEW s \in Seq(Seq(S)), Len(s) # 0
    PROVE  \E f \in [1..Len(s) -> Seq(S)] :
               FlattenSeq(s) = f[Len(s)] /\ Flattens(f, s, Len(s))
  <1> DEFINE n == Len(s)
             Begun(m) == \E f \in [1..m -> Seq(S)] : Flattens(f, s, m)
             bad == {m \in 1..n : ~Begun(m)}
  <1>1. n \in Nat /\ \A i \in 1..n : s[i] \in Seq(S)
    BY LenProperties, ElementOfSeq
  <1>2. bad = {}
    <2> SUFFICES ASSUME bad # {}
                 PROVE  FALSE
      OBVIOUS
    <2>1. bad \in SUBSET Nat
      BY <1>1
    <2>2. PICK m \in bad : \A l \in bad : m <= l
      BY <2>1, Least
    <2>3. m \in 1..n /\ ~Begun(m)
      BY <2>2
    <2>4. CASE m = 1
      <3> DEFINE g == [i \in 1..1 |-> s[1]]
      <3>1. 1 \in 1..n /\ s[1] \in Seq(S)
        BY <1>1, <2>3, <2>4
      <3>2. g \in [1..m -> Seq(S)]
        BY <2>4, <3>1
      <3>3. \A i \in 1..m : i = 1 /\ g[i] = s[1]
        BY <2>4
      <3> QED
        BY <2>3, <3>2, <3>3 DEF FlatStep, Flattens
    <2>5. CASE m # 1
      <3>1. m - 1 \in 1..n /\ m \in Nat /\ ~(m <= m - 1)
        BY <1>1, <2>3, <2>5
      <3>2. PICK f \in [1..(m - 1) -> Seq(S)] : Flattens(f, s, m - 1)
        BY <2>2, <3>1
      <3> DEFINE last == f[m - 1] \o s[m]
                 g == [i \in 1..m |-> IF i = m THEN last ELSE f[i]]
      <3>3. f[m - 1] \in Seq(S) /\ s[m] \in Seq(S)
        BY <1>1, <2>3, <2>5, <3>1
      <3>4. last \in Seq(S)
        BY <3>3, ConcatProperties
      <3> HIDE DEF last
      <3>5. \A i \in 1..m : i # m => i \in 1..(m - 1)
        BY <3>1
      <3>6. g \in [1..m -> Seq(S)]
        BY <3>4, <3>5
      <3>7. \A i \in 1..m : i # 1 => i - 1 \in 1..m /\ i - 1 # m
        BY <3>1
      <3>8. ASSUME NEW i \in 1..m
            PROVE  g[i] = FlatStep(s, g, i)
        <4>1. CASE i = m
          <5>1. m \in 1..m /\ m - 1 \in 1..m /\ m - 1 # m
            BY <3>1
          <5> QED
            BY <2>5, <4>1, <5>1 DEF last, FlatStep
        <4>2. CASE i # m
          BY <3>2, <3>5, <3>7, <4>2 DEF FlatStep, Flattens
        <4> QED
          BY <4>1, <4>2
      <3> QED
        BY <2>3, <3>6, <3>8 DEF Flattens
    <2> QED
      BY <2>4, <2>5
  <1>3. n \in 1..n
    BY <1>1
  <1>4. PICK f \in [1..n -> Seq(S)] : Flattens(f, s, n)
    BY <1>2, <1>3
  <1>5. f = [i \in 1..n |-> FlatStep(s, f, i)]
    BY <1>4 DEF Flattens
  <1> DEFINE flat == CHOOSE g : g = [i \in 1..n |-> FlatStep(s, g, i)]
  <1>6. FlattenSeq(s) = flat[n]
    BY <1>1 DEF FlattenSeq, FlatStep
  <1>7. flat = [i \in 1..n |-> FlatStep(s, flat, i)]
    BY <1>5
  <1> HIDE DEF flat
  <1>8. Flattens(flat, s, n)
    BY <1>7 DEF Flattens
  <1>9. \A i \in 1..n : flat[i] = f[i]
    BY <1>1, <1>4, <1>8, FlatUnique
  <1> QED
    BY <1>3, <1>4, <1>6, <1>9

\* The concatenation of sequences is one.
LEMMA FlattenType ==
    ASSUME NEW S, NEW s \in Seq(Seq(S))
    PROVE  FlattenSeq(s) \in Seq(S)
  <1>1. Len(s) \in Nat /\ (Len(s) = 0 => s = <<>>)
    BY LenProperties, EmptySeq
  <1>2. CASE Len(s) = 0
    BY <1>1, <1>2, EmptySeq DEF FlattenSeq
  <1>3. CASE Len(s) # 0
    <2>1. Len(s) \in 1..Len(s)
      BY <1>1, <1>3
    <2> QED
      BY <1>3, <2>1, Flattening
  <1> QED
    BY <1>2, <1>3

\* One sequence more.
LEMMA FirstNext ==
    ASSUME NEW S, NEW s \in Seq(Seq(S))
    PROVE  /\ First(s, 0) = <<>>
           /\ First(s, Len(s)) = FlattenSeq(s)
           /\ \A k \in 0..Len(s) : First(s, k) \in Seq(S)
           /\ \A k \in 1..Len(s) : First(s, k) = First(s, k - 1) \o s[k]
  <1> DEFINE n == Len(s)
             P(k) == [i \in 1..k |-> s[i]]
  <1>1. n \in Nat /\ DOMAIN s = 1..n /\ \A i \in 1..n : s[i] \in Seq(S)
    BY LenProperties, ElementOfSeq
  <1>2. ASSUME NEW k \in 0..n
        PROVE  P(k) \in Seq(Seq(S)) /\ Len(P(k)) = k
    BY <1>1
  <1>3. First(s, 0) = <<>>
    <2>1. P(0) = <<>>
      BY <1>2, <1>1, EmptySeq
    <2> QED
      BY <2>1 DEF First, FlattenSeq
  <1>4. P(n) = s
    BY <1>1, <1>2
  <1>5. \A k \in 0..n : First(s, k) \in Seq(S)
    <2> TAKE k \in 0..n
    <2>1. FlattenSeq(P(k)) \in Seq(S)
      <3> HIDE DEF P
      <3> QED
        BY <1>2, FlattenType
    <2> QED
      BY <2>1 DEF First
  <1>6. ASSUME NEW k \in 1..n
        PROVE  First(s, k) = First(s, k - 1) \o s[k]
    <2>1. k \in 0..n /\ k - 1 \in 0..n /\ k # 0
      BY <1>1
    <2>2. P(k) \in Seq(Seq(S)) /\ Len(P(k)) = k
      BY <1>2, <2>1
    <2>3. PICK f :
              f \in [1..k -> Seq(S)] /\ FlattenSeq(P(k)) = f[k] /\ Flattens(f, P(k), k)
      <3> HIDE DEF P
      <3> QED
        BY <2>1, <2>2, Flattening
    <2>4. CASE k = 1
      <3>1. f[1] = s[1]
        BY <2>3, <2>4 DEF FlatStep, Flattens
      <3>2. s[1] \in Seq(S)
        BY <1>1, <2>4
      <3>3. <<>> \o s[1] = s[1]
        BY <3>2, ConcatEmptySeq
      <3>4. First(s, k) = f[k] /\ k - 1 = 0
        BY <2>3, <2>4 DEF First
      <3> QED
        BY <1>3, <2>4, <3>1, <3>3, <3>4
    <2>5. CASE k # 1
      <3>1. /\ k - 1 \in 1..k /\ k - 1 \in Nat /\ k - 1 # 0 /\ k \in 1..k /\ k - 1 \in 1..(k - 1)
            /\ \A i \in 1..(k - 1) : i \in 1..k
        BY <2>1, <2>5
      <3>2. P(k - 1) \in Seq(Seq(S)) /\ Len(P(k - 1)) = k - 1
        BY <1>2, <2>1
      <3>3. PICK g :
                g \in [1..(k - 1) -> Seq(S)] /\ FlattenSeq(P(k - 1)) = g[k - 1] /\ Flattens(g, P(k - 1), k - 1)
        <4> DEFINE p == P(k - 1)
        <4>1. p \in Seq(Seq(S)) /\ Len(p) = k - 1 /\ Len(p) # 0
          BY <3>1, <3>2
        <4> HIDE DEF p
        <4>2. \E g : g \in [1..Len(p) -> Seq(S)] /\ FlattenSeq(p) = g[Len(p)] /\ Flattens(g, p, Len(p))
          BY <4>1, Flattening
        <4> QED
          BY <4>1, <4>2 DEF p
      <3>4. Flattens(f, s, k - 1)
        <4>1. \A i \in 1..(k - 1) : f[i] = FlatStep(P(k), f, i)
          BY <2>3, <3>1 DEF Flattens
        <4>2. \A i \in 1..(k - 1) : P(k)[i] = s[i]
          BY <3>1
        <4> HIDE DEF P
        <4> QED
          BY <4>1, <4>2 DEF FlatStep, Flattens
      <3>5. Flattens(g, s, k - 1)
        <4>1. \A i \in 1..(k - 1) : P(k - 1)[i] = s[i]
          OBVIOUS
        <4> HIDE DEF P
        <4> QED
          BY <3>3, <4>1 DEF FlatStep, Flattens
      <3>6. f[k - 1] = g[k - 1]
        <4>1. \A i \in 1..(k - 1) : f[i] = g[i]
          <5> DEFINE j == k - 1
          <5>1. j \in Nat /\ Flattens(f, s, j) /\ Flattens(g, s, j)
            BY <3>1, <3>4, <3>5
          <5> HIDE DEF P, j
          <5>2. \A i \in 1..j : f[i] = g[i]
            BY <5>1, FlatUnique
          <5> QED
            BY <5>2 DEF j
        <4> QED
          BY <3>1, <4>1
      <3>7. f[k] = f[k - 1] \o s[k]
        <4>1. f[k] = FlatStep(P(k), f, k) /\ P(k)[k] = s[k]
          BY <2>3, <3>1 DEF Flattens
        <4> HIDE DEF P
        <4> QED
          BY <2>5, <4>1 DEF FlatStep
      <3> QED
        BY <2>3, <3>3, <3>6, <3>7 DEF First
    <2> QED
      BY <2>4, <2>5
  <1> QED
    BY <1>3, <1>4, <1>5, <1>6 DEF First

\* The first ones are a prefix of all.
LEMMA FirstIsPrefix ==
    ASSUME NEW S, NEW s \in Seq(Seq(S)), NEW k \in 0..Len(s)
    PROVE  /\ Len(First(s, k)) <= Len(FlattenSeq(s))
           /\ \A j \in 1..Len(First(s, k)) : FlattenSeq(s)[j] = First(s, k)[j]
  <1> DEFINE n == Len(s)
             all == FlattenSeq(s)
             Leads(m) == /\ Len(First(s, m)) <= Len(all)
                         /\ \A j \in 1..Len(First(s, m)) : all[j] = First(s, m)[j]
             bad == {d \in 0..n : ~Leads(n - d)}
  <1>1. n \in Nat
    BY LenProperties
  <1>2. /\ First(s, n) = all
        /\ \A m \in 0..n : First(s, m) \in Seq(S) /\ Len(First(s, m)) \in Nat
        /\ \A m \in 1..n : First(s, m) = First(s, m - 1) \o s[m] /\ s[m] \in Seq(S)
    BY FirstNext, LenProperties, ElementOfSeq
  <1>3. bad = {}
    <2> SUFFICES ASSUME bad # {}
                 PROVE  FALSE
      OBVIOUS
    <2>1. bad \in SUBSET Nat
      BY <1>1
    <2>2. PICK d \in bad : \A l \in bad : d <= l
      BY <2>1, Least
    <2>3. d \in 0..n /\ ~Leads(n - d)
      BY <2>2
    <2>4. Leads(n)
      BY <1>1, <1>2
    <2>5. d # 0
      BY <1>1, <2>3, <2>4
    <2>6. d - 1 \in 0..n /\ ~(d <= d - 1)
      BY <1>1, <2>3, <2>5
    <2> DEFINE m == n - (d - 1)
    <2>7. Leads(m) /\ m \in 1..n /\ m - 1 = n - d
      <3>1. Leads(n - (d - 1))
        <4> HIDE DEF Leads
        <4> QED
          BY <2>2, <2>6
      <3>2. m \in 1..n /\ m - 1 = n - d
        <4>1. n \in Nat /\ d \in Nat /\ d <= n /\ d # 0
          BY <1>1, <2>3, <2>5
        <4> HIDE DEF n
        <4> QED
          BY <4>1
      <3> QED
        BY <3>1, <3>2
    <2> HIDE DEF m
    <2>8. m - 1 \in 0..n /\ m \in 0..n
      BY <1>1, <2>7
    <2>9. /\ Len(First(s, m)) = Len(First(s, m - 1)) + Len(s[m])
          /\ \A j \in 1..Len(First(s, m - 1)) : First(s, m)[j] = First(s, m - 1)[j]
          /\ Len(s[m]) \in Nat
      <3> DEFINE a == First(s, m - 1)
                 b == s[m]
      <3>1. a \in Seq(S) /\ b \in Seq(S) /\ First(s, m) = a \o b
        BY <1>2, <2>7, <2>8
      <3> HIDE DEF a, b
      <3>2. /\ Len(a \o b) = Len(a) + Len(b) /\ Len(b) \in Nat
            /\ \A j \in 1..Len(a) : (a \o b)[j] = a[j]
        BY <3>1, ConcatProperties, LenProperties
      <3> QED
        BY <3>1, <3>2 DEF a, b
    <2>10. Leads(m - 1)
      <3> DEFINE x == Len(First(s, m - 1))
                 y == Len(First(s, m))
                 z == Len(s[m])
                 l == Len(all)
      <3>1. l \in Nat /\ x \in Nat /\ y \in Nat /\ z \in Nat
        BY <1>2, <2>8, <2>9, FlattenType, LenProperties
      <3>2. y = x + z /\ y <= l
        BY <2>7, <2>9
      <3> HIDE DEF x, y, z, l
      <3>3. x <= l /\ \A j \in 1..x : j \in 1..y
        BY <3>1, <3>2
      <3>4. /\ \A j \in 1..y : all[j] = First(s, m)[j]
            /\ \A j \in 1..x : First(s, m)[j] = First(s, m - 1)[j]
        BY <2>7, <2>9 DEF x, y
      <3>5. \A j \in 1..x : all[j] = First(s, m - 1)[j]
        BY <3>3, <3>4
      <3> QED
        BY <3>3, <3>5 DEF x, l
    <2> QED
      BY <2>3, <2>7, <2>10
  <1>4. n - k \in 0..n /\ n - (n - k) = k
    BY <1>1
  <1>5. Leads(k)
    BY <1>3, <1>4
  <1> QED
    BY <1>5

\* It is the one that Min picks.
LEMMA MinIs ==
    ASSUME NEW T \in SUBSET Nat, NEW x \in T, \A y \in T : x <= y
    PROVE  Min(T) = x
  <1>1. \A z \in T : (\A y \in T : z <= y) => z = x
    OBVIOUS
  <1> QED
    BY <1>1 DEF Min

\* A sequence of one or two elements, written out.
LEMMA ShortSequences ==
    ASSUME NEW S, NEW s \in Seq(S)
    PROVE  (Len(s) = 1 => s = <<s[1]>>) /\ (Len(s) = 2 => s = <<s[1], s[2]>>)
  <1>1. Len(s) = 1 => s = <<s[1]>>
    OBVIOUS
  <1>2. Len(s) = 2 => s = <<s[1], s[2]>>
    OBVIOUS
  <1> QED
    BY <1>1, <1>2

\* Where a sequence is found, it is.
LEMMA FindType ==
    ASSUME NEW s \in Seq(Bytes), NEW t \in Seq(Bytes), t # <<>>, NEW k \in Nat \ {0}
    PROVE  Find(s, t, k) = 0 \/ Find(s, t, k) \in k..(Len(s) - Len(t) + 1)
  <1> DEFINE places == {i \in k..(Len(s) - Len(t) + 1) : SubSeq(s, i, i + Len(t) - 1) = t}
  <1>1. Len(s) \in Nat /\ Len(t) \in Nat
    BY LenProperties
  <1>2. CASE places = {}
    BY <1>2 DEF Find
  <1>3. CASE places # {}
    <2>1. places \in SUBSET Nat
      BY <1>1
    <2>2. \E n \in places : \A m \in places : n <= m
      BY <1>3, <2>1, Least
    <2>3. Find(s, t, k) = CHOOSE n \in places : \A m \in places : n <= m
      BY <1>3 DEF Find, Min
    <2> QED
      BY <2>2, <2>3
  <1> QED
    BY <1>2, <1>3

\* What GetLine works on, and that it returns a line.
LEMMA LineType ==
    ASSUME BufferTypeOK
    PROVE  Len(Line) \in Nat /\ Content \in Seq(Bytes) /\ Len(Content) = ReadAbleSize
           /\ ReadAbleSize \in Nat
  <1> DEFINE places == {k \in DOMAIN Content : Content[k] = "nl"}
  <1>1. Content \in Seq(Bytes) /\ Len(Content) = ReadAbleSize /\ ReadAbleSize \in Nat
    BY ContentType DEF ContentCells
  <1>2. DOMAIN Content = 1..Len(Content)
    BY <1>1, LenProperties
  <1>3. CASE Contains(Content, "nl")
    <2>1. places \in SUBSET Nat /\ places # {}
      BY <1>2, <1>3 DEF Contains
    <2>2. \E n \in places : \A m \in places : n <= m
      BY <2>1, Least
    <2>3. Min(places) \in places
      BY <2>2 DEF Min
    <2>4. Min(places) \in 1..Len(Content)
      BY <1>2, <2>3
    <2>5. \A i \in 1..Min(places) : Content[i] \in Bytes
      BY <1>1, <2>4, ElementOfSeq
    <2>6. Line = SubSeq(Content, 1, Min(places))
      BY <1>3 DEF Line
    <2>7. Line \in Seq(Bytes)
      BY <2>4, <2>5, <2>6, SubSeqProperties
    <2> QED
      BY <1>1, <2>7, LenProperties
  <1>4. CASE ~Contains(Content, "nl")
    BY <1>1, <1>4, EmptySeq DEF Line
  <1> QED
    BY <1>3, <1>4

\* What a form yields is its files, of the bytes of the body: the search
\* goes forward from boundary to boundary, so it ends.
LEMMA FormType ==
    ASSUME {"nl", "bound"} \subseteq Bytes, NEW body \in Seq(Bytes)
    PROVE  ParseMultipartBody[body] \in Seq(Seq(Bytes))
  <1> DEFINE N == Len(body) + 1
             V == Seq(Seq(Bytes))
             Mark(k, symbol) == k \in DOMAIN body /\ body[k] = symbol
             Behind(k) == Find(body, <<"bound">>, k) + 1
             headers(b) == Find(body, <<"nl", "nl">>, IF Mark(b, "nl") THEN b + 1 ELSE b)
             next(b) == Behind(headers(b) + 2)
             end(b) == IF Mark(next(b) - 2, "nl") THEN next(b) - 3 ELSE next(b) - 2
             file(b) == SubSeq(body, headers(b) + 2,
                               IF end(b) < headers(b) + 1 THEN Len(body) ELSE end(b))
             isFile(b) == Contains(SubSeq(body, b, headers(b)), "disp")
             stop(b) == b = 1 \/ Mark(b, "end") \/ headers(b) = 0 \/ next(b) = 1
             Step(f, b) == IF stop(b) THEN <<>>
                           ELSE IF isFile(b) /\ f[next(b)] = <<>> THEN <<file(b)>> ELSE f[next(b)]
  <1>1. Len(body) \in Nat /\ DOMAIN body = 1..Len(body) /\ N \in Nat \ {0}
        /\ \A k \in 1..Len(body) : body[k] \in Bytes
    BY LenProperties, ElementOfSeq
  <1>2. <<"bound">> \in Seq(Bytes) /\ Len(<<"bound">>) = 1 /\ <<"bound">> # <<>>
        /\ <<"nl", "nl">> \in Seq(Bytes) /\ Len(<<"nl", "nl">>) = 2 /\ <<"nl", "nl">> # <<>>
    OBVIOUS
  <1>3. ASSUME NEW k \in Nat \ {0}
        PROVE  Behind(k) = 1 \/ Behind(k) \in (k + 1)..N
    <2> DEFINE place == Find(body, <<"bound">>, k)
    <2>1. place = 0 \/ place \in k..(Len(body) - Len(<<"bound">>) + 1)
      BY <1>2, FindType
    <2>2. place = 0 \/ place \in k..Len(body)
      BY <1>1, <1>2, <2>1
    <2> HIDE DEF place
    <2>3. place + 1 = 1 \/ place + 1 \in (k + 1)..N
      BY <1>1, <2>2
    <2> QED
      BY <2>3 DEF place
  <1>4. ASSUME NEW b \in 1..N
        PROVE  headers(b) = 0 \/ headers(b) \in b..(Len(body) - 1)
    <2> DEFINE k == IF Mark(b, "nl") THEN b + 1 ELSE b
    <2>1. k \in Nat \ {0} /\ k >= b
      BY <1>1
    <2> HIDE DEF k
    <2>2. Find(body, <<"nl", "nl">>, k) = 0
          \/ Find(body, <<"nl", "nl">>, k) \in k..(Len(body) - Len(<<"nl", "nl">>) + 1)
      BY <1>2, <2>1, FindType
    <2>3. headers(b) = Find(body, <<"nl", "nl">>, k)
      BY DEF k
    <2> QED
      BY <1>1, <1>2, <2>1, <2>2, <2>3
  <1> HIDE DEF Behind, headers
  <1>5. ASSUME NEW b \in 1..N, ~stop(b)
        PROVE  headers(b) \in b..(Len(body) - 1) /\ next(b) \in (b + 1)..N
    <2>1. headers(b) \in b..(Len(body) - 1)
      BY <1>4, <1>5
    <2>2. headers(b) + 2 \in Nat \ {0}
      BY <2>1
    <2>3. next(b) \in (headers(b) + 3)..N
      BY <1>3, <1>5, <2>1, <2>2
    <2> QED
      BY <2>1, <2>3
  <1>6. ASSUME NEW b \in 1..N, ~stop(b)
        PROVE  <<file(b)>> \in V
    <2> DEFINE first == headers(b) + 2
               last == IF end(b) < headers(b) + 1 THEN Len(body) ELSE end(b)
    <2>1. headers(b) \in b..(Len(body) - 1) /\ next(b) \in (b + 1)..N
      BY <1>5, <1>6
    <2>2. first \in Nat \ {0} /\ end(b) \in Int /\ end(b) <= Len(body)
      BY <1>1, <2>1
    <2>3. last \in Int /\ last <= Len(body)
      BY <1>1, <2>2
    <2> HIDE DEF first, last
    <2>4. \A i \in first..last : i \in 1..Len(body)
      BY <1>1, <2>2, <2>3
    <2>5. SubSeq(body, first, last) \in Seq(Bytes)
      BY <1>1, <2>2, <2>3, <2>4, SubSeqProperties
    <2>6. file(b) \in Seq(Bytes)
      BY <2>5 DEF first, last
    <2> HIDE DEF file
    <2> QED
      BY <2>6
  <1>7. <<>> \in V
    BY EmptySeq
  <1>8. 1 \in 1..N /\ N \in 1..N
    BY <1>1
  <1>9. Behind(1) \in 1..N
    BY <1>1, <1>3
  <1> DEFINE Files == CHOOSE f : f = [b \in 1..N |-> Step(f, b)]
  <1>10. ParseMultipartBody[body] = Files[Behind(1)]
    BY DEF ParseMultipartBody, Behind, headers
  <1> HIDE DEF Files, V, N, next, end, file, isFile, stop, Mark
  <1>11. ASSUME NEW b \in 1..N, NEW f, ~stop(b) => f[next(b)] \in V
         PROVE  Step(f, b) \in V
    BY <1>6, <1>7, <1>11
  <1>12. ASSUME NEW b \in 1..N, NEW f, NEW g, ~stop(b) => f[next(b)] = g[next(b)]
         PROVE  Step(f, b) = Step(g, b)
    BY <1>12
  <1>13. \A b \in 1..N : ~stop(b) => next(b) \in (b + 1)..N
    BY <1>5
  <1> HIDE DEF Step
  <1>14. N \in Nat \ {0}
    BY <1>1 DEF N
  <1> DEFINE Begun(d) == \E f \in [(N - d)..N -> V] : \A b \in (N - d)..N : f[b] = Step(f, b)
             bad == {d \in 0..(N - 1) : ~Begun(d)}
  <1>15. bad = {}
    <2> SUFFICES ASSUME bad # {}
                 PROVE  FALSE
      OBVIOUS
    <2>1. bad \in SUBSET Nat
      BY <1>14
    <2>2. PICK d \in bad : \A l \in bad : d <= l
      BY <2>1, Least
    <2>3. d \in 0..(N - 1) /\ ~Begun(d)
      BY <2>2
    <2> DEFINE a == N - d
    <2>4. a \in 1..N
      BY <1>14, <2>3
    <2>5. CASE d = 0
      <3> DEFINE g == [b \in N..N |-> <<>>]
      <3>1. a = N /\ stop(N)
        BY <1>13, <1>14, <2>5
      <3>2. g \in [a..N -> V] /\ \A b \in a..N : b = N /\ g[b] = <<>>
        BY <1>7, <1>14, <3>1
      <3>3. Step(g, N) = <<>>
        BY <3>1 DEF Step
      <3> QED
        BY <2>3, <3>2, <3>3
    <2>6. CASE d # 0
      <3>1. d - 1 \in 0..(N - 1) /\ ~(d <= d - 1) /\ N - (d - 1) = a + 1
        BY <1>14, <2>3, <2>6
      <3>2. Begun(d - 1)
        BY <2>2, <3>1
      <3>3. PICK f \in [(a + 1)..N -> V] : \A b \in (a + 1)..N : f[b] = Step(f, b)
        BY <3>1, <3>2
      <3> DEFINE g == [b \in a..N |-> IF b = a THEN Step(f, a) ELSE f[b]]
      <3>4. ~stop(a) => next(a) \in (a + 1)..N
        BY <1>13, <2>4
      <3>5. Step(f, a) \in V
        BY <1>11, <2>4, <3>3, <3>4
      <3>6. /\ \A b \in a..N : b # a => b \in (a + 1)..N
            /\ \A b \in (a + 1)..N : b \in a..N /\ b # a /\ b \in 1..N
            /\ a \in a..N
        BY <1>14, <2>4
      <3>7. g \in [a..N -> V]
        BY <3>3, <3>5, <3>6
      <3>8. \A b \in (a + 1)..N : g[b] = f[b]
        BY <3>6
      <3>9. g[a] = Step(f, a)
        BY <3>6
      <3> HIDE DEF g
      <3>10. ASSUME NEW b \in a..N
             PROVE  g[b] = Step(g, b)
        <4>1. CASE b = a
          <5>1. Step(f, a) = Step(g, a)
            BY <1>12, <2>4, <3>4, <3>8
          <5> QED
            BY <3>9, <4>1, <5>1
        <4>2. CASE b # a
          <5>1. b \in (a + 1)..N /\ b \in 1..N
            BY <3>6, <4>2
          <5>2. ~stop(b) => next(b) \in (a + 1)..N
            BY <1>13, <1>14, <2>4, <5>1
          <5>3. Step(f, b) = Step(g, b)
            BY <1>12, <3>8, <5>1, <5>2
          <5> QED
            BY <3>3, <3>8, <5>1, <5>3
        <4> QED
          BY <4>1, <4>2
      <3> QED
        BY <2>3, <3>7, <3>10
    <2> QED
      BY <2>5, <2>6
  <1>16. PICK f \in [1..N -> V] : \A b \in 1..N : f[b] = Step(f, b)
    <2>1. N - 1 \in 0..(N - 1) /\ N - (N - 1) = 1
      BY <1>14
    <2>2. Begun(N - 1)
      BY <1>15, <2>1
    <2> QED
      BY <2>1, <2>2
  <1>17. Files = [b \in 1..N |-> Step(Files, b)]
    <2>1. f = [b \in 1..N |-> Step(f, b)]
      BY <1>16
    <2> QED
      BY <2>1 DEF Files
  <1>18. \A b \in 1..N : Files[b] = Step(Files, b)
    BY <1>17
  <1> DEFINE off == {d \in 0..(N - 1) : Files[N - d] # f[N - d]}
  <1>19. off = {}
    <2> SUFFICES ASSUME off # {}
                 PROVE  FALSE
      OBVIOUS
    <2>1. off \in SUBSET Nat
      BY <1>14
    <2>2. PICK d \in off : \A l \in off : d <= l
      BY <2>1, Least
    <2> DEFINE b == N - d
    <2>3. d \in 0..(N - 1) /\ b \in 1..N /\ Files[b] # f[b]
      BY <1>14, <2>2
    <2> HIDE DEF b
    <2>4. ~stop(b) => next(b) \in (b + 1)..N
      BY <1>13, <2>3
    <2>5. ASSUME NEW c \in (b + 1)..N
          PROVE  Files[c] = f[c]
      <3>1. N - c \in 0..(N - 1) /\ ~(d <= N - c) /\ N - (N - c) = c
        BY <1>14, <2>3, <2>5 DEF b
      <3> QED
        BY <2>2, <3>1
    <2>6. Step(Files, b) = Step(f, b)
      BY <1>12, <2>3, <2>4, <2>5
    <2> QED
      BY <1>16, <1>18, <2>3, <2>6
  <1>20. ASSUME NEW b \in 1..N
         PROVE  Files[b] \in V
    <2>1. N - b \in 0..(N - 1) /\ N - (N - b) = b
      BY <1>14
    <2>2. Files[b] = f[b]
      BY <1>19, <2>1
    <2> QED
      BY <1>16, <2>2
  <1> QED
    BY <1>9, <1>10, <1>20 DEF V, N
-----------------------------------------------------------------------------
(***************************************************************************)
(* The answers.                                                            *)
(***************************************************************************)
\* What the server puts into a body besides what it has received.
Words == {"answer", "refusal", "static", "api", "html", "error", "index"}

Replies == [code : Codes, type : Types, length : Nat, body : Seq(Bytes \cup Words)]

\* The last content is the body, the first has named the type.
LEMMA ContentIs ==
    ASSUME NEW code, NEW type, NEW old, NEW named, NEW body
    PROVE  SetContent([code |-> code, type |-> type, body |-> old], named, body)
           = [code |-> code, type |-> IF type = "none" THEN named ELSE type, body |-> body]
  <1> DEFINE rsp == [code |-> code, type |-> type, body |-> old]
             kind == IF type = "none" THEN named ELSE type
  <1>1. rsp.type = type
    OBVIOUS
  <1>2. SetContent(rsp, named, body) = [rsp EXCEPT !.type = kind, !.body = body]
    BY <1>1 DEF SetContent
  <1> HIDE DEF kind
  <1>3. [rsp EXCEPT !.type = kind, !.body = body] = [[rsp EXCEPT !.type = kind] EXCEPT !.body = body]
    <2> HIDE DEF rsp
    <2> QED
      OBVIOUS
  <1>4. [rsp EXCEPT !.type = kind] = [code |-> code, type |-> kind, body |-> old]
    OBVIOUS
  <1>5. [[code |-> code, type |-> kind, body |-> old] EXCEPT !.body = body]
        = [code |-> code, type |-> kind, body |-> body]
    OBVIOUS
  <1> QED
    BY <1>2, <1>3, <1>4, <1>5 DEF kind

\* A response under way.
Response(code, type, body) == [code |-> code, type |-> type, body |-> body]

\* The last content is the body, the first has named the type.
LEMMA ContentSet ==
    ASSUME NEW code, NEW type, NEW old, NEW named, NEW body
    PROVE  SetContent(Response(code, type, old), named, body)
           = Response(code, IF type = "none" THEN named ELSE type, body)
  BY ContentIs DEF Response

\* The error handler's page takes the place of what an API handler prepared.
LEMMA ApiError ==
    ASSUME NEW code, NEW type \in {"none", "json"}, NEW old
    PROVE  /\ SendError("api", Response(code, type, old)) = Response(code, "json", <<"api", "error">>)
           /\ ErrorHandler("api", Response(code, type, old)) = Response(code, "json", <<"api", "error">>)
  <1>1. SendError("api", Response(code, type, old)) = Response(code, "json", <<"api", "error">>)
    BY ContentSet DEF SendError
  <1> QED
    BY <1>1 DEF ErrorHandler

\* Without content, the error handler's page is the only one.
LEMMA PageError ==
    ASSUME NEW code, NEW path, path # "api", code # 404 \/ path # "page"
    PROVE  ErrorHandler(path, NewResponse(code)) = Response(code, "html", <<"html", "error">>)
  <1>1. NewResponse(code) = Response(code, "none", <<>>) /\ NewResponse(code).code = code
    BY DEF NewResponse, Response
  <1>2. SendError(path, NewResponse(code)) = Response(code, "html", <<"html", "error">>)
    BY <1>1, ContentSet DEF SendError
  <1> QED
    BY <1>1, <1>2 DEF ErrorHandler

\* A page that the server does not know becomes the front end's.
LEMMA UnknownPage ==
    ErrorHandler("page", NewResponse(404)) = Response(200, "html", <<"index">>)
  <1>1. NewResponse(404).code = 404 /\ [NewResponse(404) EXCEPT !.code = 200] = Response(200, "none", <<>>)
    BY DEF NewResponse, Response
  <1> QED
    BY <1>1, ContentSet DEF ErrorHandler

\* What goes out.
Sent(rsp) == Answer(rsp.code, rsp.type, rsp.body)

\* The headers are those of the body.
LEMMA SentIs ==
    ASSUME NEW code, NEW type, NEW body
    PROVE  Sent(Response(code, type, body)) = Answer(code, type, body)
  BY DEF Sent, Response

\* A request that cannot be parsed gets the error it is owed.
LEMMA RefusalIsOwed ==
    ASSUME NEW target \in DOMAIN Targets \cup {"none"}, NEW code \in {400, 414}
    PROVE  Sent(ErrorHandler(IF target = "none" THEN "none" ELSE Targets[target].path, NewResponse(code)))
           = OwedError(target, code)
  <1> DEFINE path == IF target = "none" THEN "none" ELSE Targets[target].path
  <1>1. CASE target # "none" /\ Targets[target].path = "api"
    <2>1. NewResponse(code) = Response(code, "none", <<>>)
      BY DEF NewResponse, Response
    <2>2. ErrorHandler("api", NewResponse(code)) = Response(code, "json", <<"api", "error">>)
      BY <2>1, ApiError
    <2> QED
      BY <1>1, <2>2, SentIs DEF OwedError
  <1>2. CASE ~(target # "none" /\ Targets[target].path = "api")
    <2>1. path # "api"
      BY <1>2
    <2> HIDE DEF path
    <2>2. ErrorHandler(path, NewResponse(code)) = Response(code, "html", <<"html", "error">>)
      BY <2>1, PageError
    <2> QED
      BY <1>2, <2>2, SentIs DEF OwedError, path
  <1> QED
    BY <1>1, <1>2

\* Whoever has a hand in it, a complete request gets what it is owed.
LEMMA HandledIsOwed ==
    ASSUME NEW req, req.target \in DOMAIN Targets
    PROVE  Sent(Handled(req)) = Owed(req.target, Input(req))
  <1> DEFINE new == NewResponse(200)
             input == Input(req)
             Target(path, handler) == [path |-> path, handler |-> handler]
  <1>1. new = Response(200, "none", <<>>)
        /\ \A code : [Response(200, "none", <<>>) EXCEPT !.code = code] = Response(code, "none", <<>>)
    BY DEF NewResponse, Response
  <1> HIDE DEF input, new
  \* What is routed, and what becomes of it.
  <1>2. ASSUME NEW path, NEW handler, NEW code \in Nat, NEW type, NEW body,
               Targets[req.target] = Target(path, handler), handler # "throws",
               Route(Target(path, handler), input, new) = Response(code, type, body)
        PROVE  Handled(req) = IF code >= 400 THEN ErrorHandler(path, Response(code, type, body))
                                             ELSE Response(code, type, body)
    BY <1>2 DEF Handled, input, new, Response
  <1>3. ASSUME NEW handler
        PROVE  Route(Target("api", handler), input, new) = Dispatcher(Target("api", handler), input, new)
    BY DEF Route, IsFileHandler
  <1>4. CASE req.target = "file"
    <2>1. Targets[req.target] = Target("file", "none")
      BY <1>4 DEF Targets
    <2>2. Route(Target("file", "none"), input, new) = Response(200, "mime", <<"static">>)
      BY <1>1, ContentSet DEF Route, IsFileHandler, FileHandler
    <2>3. Handled(req) = Response(200, "mime", <<"static">>)
      BY <1>2, <2>1, <2>2
    <2> QED
      BY <1>4, <2>3, SentIs DEF Owed
  <1>5. CASE req.target = "torn"
    <2>1. Targets[req.target] = Target("torn", "none")
      BY <1>5 DEF Targets
    <2>2. Route(Target("torn", "none"), input, new) = Response(200, "none", <<>>)
      BY <1>1 DEF Route, IsFileHandler, FileHandler
    <2>3. Handled(req) = Response(200, "none", <<>>)
      BY <1>2, <2>1, <2>2
    <2> QED
      BY <1>5, <2>3, SentIs DEF Owed
  <1>6. CASE req.target = "page"
    <2>1. Targets[req.target] = Target("page", "none")
      BY <1>6 DEF Targets
    <2>2. Route(Target("page", "none"), input, new) = Response(404, "none", <<>>)
      BY <1>1 DEF Route, IsFileHandler, Dispatcher
    <2>3. Handled(req) = ErrorHandler("page", Response(404, "none", <<>>))
      BY <1>2, <2>1, <2>2
    <2>4. NewResponse(404) = Response(404, "none", <<>>)
      BY DEF NewResponse, Response
    <2> QED
      BY <1>6, <2>3, <2>4, UnknownPage, SentIs DEF Owed
  \* A handler of the API that answers, and one that does not.
  <1>7. ASSUME NEW handler, handler # "throws", NEW body,
               Targets[req.target] = Target("api", handler),
               Dispatcher(Target("api", handler), input, new) = Response(200, "json", body)
        PROVE  Sent(Handled(req)) = Answer(200, "json", body)
    <2>1. Handled(req) = Response(200, "json", body)
      BY <1>2, <1>3, <1>7
    <2> QED
      BY <2>1, SentIs
  <1>8. ASSUME NEW handler, handler # "throws",
               NEW code \in {400, 401, 404}, NEW type \in {"none", "json"}, NEW body,
               Targets[req.target] = Target("api", handler),
               Dispatcher(Target("api", handler), input, new) = Response(code, type, body)
        PROVE  Sent(Handled(req)) = OwedError(req.target, code)
    <2>1. Handled(req) = ErrorHandler("api", Response(code, type, body))
      BY <1>2, <1>3, <1>8
    <2>2. Handled(req) = Response(code, "json", <<"api", "error">>)
      BY <2>1, ApiError
    <2>3. Targets[req.target].path = "api" /\ req.target # "none"
      BY <1>8 DEF Targets
    <2> QED
      BY <2>2, <2>3, SentIs DEF OwedError
  <1>9. CASE req.target = "req"
    <2>1. Targets[req.target] = Target("api", "answers")
      BY <1>9 DEF Targets
    <2>2. Dispatcher(Target("api", "answers"), input, new) = Response(200, "json", <<"answer">> \o input)
      BY <1>1, ContentSet DEF Dispatcher
    <2>3. Sent(Handled(req)) = Answer(200, "json", <<"answer">> \o input)
      BY <1>7, <2>1, <2>2
    <2> QED
      BY <1>9, <2>3 DEF Owed, input
  <1>10. CASE req.target = "upload"
    <2>1. Targets[req.target] = Target("api", "stores")
      BY <1>10 DEF Targets
    <2>2. CASE input # <<>>
      <3>1. Dispatcher(Target("api", "stores"), input, new) = Response(200, "json", <<"answer">> \o input)
        BY <1>1, <2>2, ContentSet DEF Dispatcher
      <3>2. Sent(Handled(req)) = Answer(200, "json", <<"answer">> \o input)
        BY <1>7, <2>1, <3>1
      <3> QED
        BY <1>10, <2>2, <3>2 DEF Owed, input
    <2>3. CASE input = <<>>
      <3>1. Dispatcher(Target("api", "stores"), input, new) = Response(400, "json", <<"refusal">>)
        BY <1>1, <2>3, ContentSet DEF Dispatcher
      <3>2. Sent(Handled(req)) = OwedError(req.target, 400)
        BY <1>8, <2>1, <3>1
      <3> QED
        BY <1>10, <2>3, <3>2 DEF Owed, input
    <2> QED
      BY <2>2, <2>3
  <1>11. CASE req.target = "denied"
    <2>1. Targets[req.target] = Target("api", "refuses")
      BY <1>11 DEF Targets
    <2>2. Dispatcher(Target("api", "refuses"), input, new) = Response(401, "json", <<"refusal">>)
      BY <1>1, ContentSet DEF Dispatcher
    <2>3. Sent(Handled(req)) = OwedError(req.target, 401)
      BY <1>8, <2>1, <2>2
    <2> QED
      BY <1>11, <2>3 DEF Owed
  <1>12. CASE req.target = "lost"
    <2>1. Targets[req.target] = Target("api", "none")
      BY <1>12 DEF Targets
    <2>2. Dispatcher(Target("api", "none"), input, new) = Response(404, "none", <<>>)
      BY <1>1 DEF Dispatcher
    <2>3. Sent(Handled(req)) = OwedError(req.target, 404)
      BY <1>8, <2>1, <2>2
    <2> QED
      BY <1>12, <2>3 DEF Owed
  <1>13. CASE req.target = "fail"
    <2>1. Targets[req.target] = Target("api", "throws")
      BY <1>13 DEF Targets
    <2>2. ExceptionHandler(Target("api", "throws"), new) = Response(500, "json", <<"api", "error">>)
      BY <1>1, ApiError DEF ExceptionHandler
    <2>3. Response(500, "json", <<"api", "error">>).code = 500
      BY DEF Response
    <2>4. Handled(req) = ErrorHandler("api", Response(500, "json", <<"api", "error">>))
      BY <2>1, <2>2, <2>3 DEF Handled, new
    <2>5. Handled(req) = Response(500, "json", <<"api", "error">>)
      BY <2>4, ApiError
    <2>6. Targets[req.target].path = "api" /\ req.target # "none"
      BY <1>13, <2>1
    <2> QED
      BY <1>13, <2>5, <2>6, SentIs DEF OwedError, Owed
  <1>14. req.target \in {"file", "torn", "page", "req", "upload", "denied", "fail", "lost"}
    BY DEF Targets
  <1> QED
    BY <1>4, <1>5, <1>6, <1>9, <1>10, <1>11, <1>12, <1>13, <1>14

\* What is owed is of one piece.
LEMMA OwedErrorIsWhole ==
    ASSUME NEW target, NEW code \in Codes, code >= 400
    PROVE  OwedError(target, code) \in Replies /\ OfOnePiece(OwedError(target, code))
           /\ OwedError(target, code).length = 2
  <1>1. ASSUME NEW word \in {"api", "html"}, NEW type \in Types,
               type = IF word = "api" THEN "json" ELSE "html"
        PROVE  /\ Answer(code, type, <<word, "error">>) \in Replies
               /\ OfOnePiece(Answer(code, type, <<word, "error">>))
               /\ Answer(code, type, <<word, "error">>).length = 2
    <2> DEFINE b == <<word, "error">>
               a == Answer(code, type, b)
    <2>1. b \in Seq(Bytes \cup Words) /\ Len(b) = 2 /\ Head(b) = word /\ b # <<>> /\ b[2] = "error"
      BY DEF Words
    <2>2. Contains(b, "error")
      BY <2>1 DEF Contains
    <2> HIDE DEF b
    <2>3. a.code = code /\ a.type = type /\ a.body = b /\ a.length = 2 /\ a \in Replies
      BY <2>1 DEF Answer, Replies
    <2> HIDE DEF a
    <2>4. OfOnePiece(a)
      BY <1>1, <2>1, <2>2, <2>3 DEF OfOnePiece
    <2> QED
      BY <2>3, <2>4 DEF a, b
  <1> QED
    BY <1>1 DEF OwedError, Types

\* So is any answer, and only the torn file's is empty.
LEMMA OwedIsWhole ==
    ASSUME "error" \notin Bytes, NEW target \in DOMAIN Targets, NEW input \in Seq(Bytes)
    PROVE  /\ Owed(target, input) \in Replies /\ OfOnePiece(Owed(target, input))
           /\ Owed(target, input).length = 0 => target = "torn"
  <1> DEFINE Fine(a) == a \in Replies /\ OfOnePiece(a) /\ (a.length = 0 => target = "torn")
  <1>0. 200 \in Codes /\ 400 \in Codes /\ 401 \in Codes /\ 404 \in Codes /\ 500 \in Codes
        /\ ~(200 >= 400) /\ 2 # 0
    BY DEF Codes
  <1>1. ASSUME NEW b \in Seq(Bytes \cup Words), NEW type \in Types,
               ~Contains(b, "error"), b = <<>> => target = "torn",
               type = IF b = <<>> THEN "none"
                      ELSE CASE Head(b) \in {"api", "answer"} -> "json"
                             [] Head(b) \in {"html", "index"} -> "html"
                             [] OTHER -> "mime"
        PROVE  Fine(Answer(200, type, b))
    <2> DEFINE a == Answer(200, type, b)
    <2>1. Len(b) \in Nat /\ (Len(b) = 0 => b = <<>>)
      BY LenProperties, EmptySeq
    <2>2. a.code = 200 /\ a.type = type /\ a.body = b /\ a.length = Len(b) /\ a \in Replies
      BY <1>0, <2>1 DEF Answer, Replies
    <2> HIDE DEF a
    <2>3. OfOnePiece(a)
      BY <1>0, <1>1, <2>2 DEF OfOnePiece
    <2> QED
      BY <1>1, <2>1, <2>2, <2>3 DEF a
  <1>2. ASSUME NEW code \in {400, 401, 404, 500}
        PROVE  Fine(OwedError(target, code))
    BY <1>0, <1>2, OwedErrorIsWhole
  <1>3. ASSUME NEW word \in {"static", "index"}, NEW type \in Types,
               type = IF word = "index" THEN "html" ELSE "mime"
        PROVE  Fine(Answer(200, type, <<word>>))
    <2> DEFINE b == <<word>>
    <2>1. b \in Seq(Bytes \cup Words) /\ Len(b) = 1 /\ Head(b) = word /\ b # <<>> /\ b[1] = word
      BY DEF Words
    <2>2. ~Contains(b, "error")
      BY <2>1 DEF Contains
    <2> HIDE DEF b, Fine
    <2>3. Fine(Answer(200, type, b))
      BY <1>1, <1>3, <2>1, <2>2
    <2> QED
      BY <2>3 DEF b
  <1>4. ASSUME target = "torn"
        PROVE  Fine(Answer(200, "none", <<>>))
    <2>1. <<>> \in Seq(Bytes \cup Words) /\ ~Contains(<<>>, "error") /\ "none" \in Types
      BY EmptySeq DEF Contains, Types
    <2> HIDE DEF Fine
    <2> QED
      BY <1>1, <1>4, <2>1
  <1>5. Fine(Answer(200, "json", <<"answer">> \o input))
    <2> DEFINE a == <<"answer">>
               b == a \o input
    <2>1. a \in Seq(Bytes \cup Words) /\ Len(a) = 1 /\ a[1] = "answer" /\ input \in Seq(Bytes \cup Words)
      BY DEF Words
    <2> HIDE DEF a
    <2>2. b \in Seq(Bytes \cup Words) /\ Len(b) = 1 + Len(input) /\ b[1] = "answer"
          /\ \A i \in 2..Len(b) : b[i] = input[i - 1] /\ i - 1 \in 1..Len(input)
      <3>1. /\ b \in Seq(Bytes \cup Words) /\ Len(b) = Len(a) + Len(input) /\ Len(input) \in Nat
            /\ \A i \in 1..Len(b) : b[i] = IF i <= Len(a) THEN a[i] ELSE input[i - Len(a)]
        BY <2>1, ConcatProperties, LenProperties
      <3> HIDE DEF b
      <3> QED
        BY <2>1, <3>1
    <2>3. \A i \in 1..Len(b) : b[i] # "error"
      <3> TAKE i \in 1..Len(b)
      <3>1. CASE i = 1
        BY <2>2, <3>1
      <3>2. CASE i # 1
        <4>1. i \in 2..Len(b)
          BY <3>2, <2>2
        <4>2. b[i] \in Bytes
          BY <2>2, <4>1
        <4> QED
          BY <4>2
      <3> QED
        BY <3>1, <3>2
    <2>4. b # <<>> /\ Head(b) = "answer" /\ "json" \in Types
      BY <2>2 DEF Types
    <2> HIDE DEF b, Fine
    <2>5. ~Contains(b, "error")
      BY <2>3 DEF Contains
    <2>6. Fine(Answer(200, "json", b))
      BY <1>1, <2>2, <2>4, <2>5
    <2> QED
      BY <2>6 DEF a, b
  <1>6. target \in {"file", "torn", "page", "req", "upload", "denied", "fail", "lost"}
    BY DEF Targets
  <1>7. "mime" \in Types /\ "html" \in Types
    BY DEF Types
  <1>8. Fine(Answer(200, "mime", <<"static">>)) /\ Fine(Answer(200, "html", <<"index">>))
    <2> HIDE DEF Fine
    <2> QED
      BY <1>3, <1>7
  <1>9. Fine(Owed(target, input))
    <2> HIDE DEF Fine
    <2>1. CASE target \in {"file", "torn", "page"}
      BY <1>4, <1>8, <2>1 DEF Owed
    <2>2. CASE target \in {"req", "upload"}
      BY <1>2, <1>5, <2>2 DEF Owed
    <2>3. CASE target \in {"denied", "fail", "lost"}
      BY <1>2, <2>3 DEF Owed
    <2> QED
      BY <1>6, <2>1, <2>2, <2>3
  <1> QED
    BY <1>9
-----------------------------------------------------------------------------
(***************************************************************************)
(* The parser's state.                                                     *)
(***************************************************************************)
Requests ==
    [target : DOMAIN Targets \cup {"none"}, keep : BOOLEAN, form : BOOLEAN,
     length : {"none"} \cup DOMAIN BodyLength, body : Seq(Bytes), files : Seq(Seq(Bytes))]

\* What the request under way may hold in each state of the parser.
RequestInv ==
    /\ recv = "LINE" => request = NoRequest
    /\ recv \in {"HEAD", "BODY", "OVER"} => request.target # "none"
    /\ recv \in {"HEAD", "ERROR"} => request.body = <<>>
    /\ request.files # <<>> => request.form /\ recv = "OVER"
    /\ IF LengthThrows(request) THEN request.body = <<>>
       ELSE Len(request.body) <= ContentLength(request)

\* The inductive invariant.
IInv ==
    /\ BufferTypeOK
    /\ stream \in Streams /\ delivered \in 0..Len(Text)
    /\ pc \in {"idle", "recv", "left"}
    /\ recv \in {"LINE", "HEAD", "BODY", "OVER", "ERROR"}
    /\ resp \in {200, 400, 414} /\ (resp >= 400 <=> recv = "ERROR")
    /\ request \in Requests /\ RequestInv
    /\ closing \in BOOLEAN /\ gone \in BOOLEAN
    /\ answers \in Seq(Replies) /\ AnswersWhole

\* Unless stol throws, the announced length is a natural number.
LEMMA LengthType ==
    ASSUME NEW req \in Requests, ~LengthThrows(req)
    PROVE  ContentLength(req) \in Nat
  BY HttpAssumption DEF HttpAssumption, Requests, ContentLength, LengthThrows

\* Every message of the stream means something.
LEMMA StreamType ==
    ASSUME stream \in Streams
    PROVE  /\ Len(stream) \in Nat /\ DOMAIN stream = 1..Len(stream)
           /\ \A i \in 1..Len(stream) : Meant(stream[i])
  <1>1. stream \in Seq(Range(stream)) /\ \A m \in Range(stream) : Meant(m)
    BY StreamAssumption DEF StreamAssumption
  <1>2. DOMAIN stream = 1..Len(stream) /\ Len(stream) \in Nat
        /\ \A i \in 1..Len(stream) : stream[i] \in Range(stream)
    BY <1>1, LenProperties, ElementOfSeq
  <1> QED
    BY <1>1, <1>2

\* The answer to a message is known from some of its symbols.
LEMMA MessageType ==
    ASSUME NEW m, Meant(m)
    PROVE  /\ m.text \in Seq(Bytes) /\ Len(m.text) \in Nat
           /\ m.due \in 1..Len(m.text)
  <1>1. m.text \in Seq(Bytes) /\ Len(m.text) \in Nat
    BY LenProperties DEF Meant
  <1>2. PICK n \in 0..Len(m.text) :
            \/ Served(m, n) \/ Unanswerable(m, n)
            \/ \E k \in 1..(MaxLine + 1) : Refused(m, n, k)
    BY DEF Meant
  <1>3. MaxLine \in Nat
    BY HttpAssumption DEF HttpAssumption
  <1>4. CASE Served(m, n)
    <2>1. 2 * n <= Len(m.text) /\ n > 0 /\ m.due = Len(m.text)
      BY <1>4 DEF Served, Begins
    <2> QED
      BY <1>1, <1>2, <2>1
  <1>5. ASSUME NEW k \in 1..(MaxLine + 1), Refused(m, n, k)
        PROVE  m.due \in 1..Len(m.text)
    BY <1>1, <1>2, <1>3, <1>5 DEF Refused
  <1>6. CASE Unanswerable(m, n)
    BY <1>1, <1>2, <1>6 DEF Unanswerable
  <1> QED
    BY <1>1, <1>2, <1>4, <1>5, <1>6

\* What the client sends is a sequence of bytes.
LEMMA TextType ==
    ASSUME stream \in Streams
    PROVE  Text \in Seq(Bytes) /\ Len(Text) \in Nat
  <1> DEFINE texts == [i \in DOMAIN stream |-> stream[i].text]
  <1>1. DOMAIN stream = 1..Len(stream) /\ Len(stream) \in Nat
        /\ \A i \in 1..Len(stream) : stream[i].text \in Seq(Bytes)
    BY StreamType, MessageType
  <1>2. texts \in Seq(Seq(Bytes))
    BY <1>1
  <1> HIDE DEF texts
  <1>3. FlattenSeq(texts) \in Seq(Bytes)
    BY <1>2, FlattenType
  <1> QED
    BY <1>3, LenProperties DEF Text, texts

\* A stretch of it is one.
LEMMA PieceType ==
    ASSUME stream \in Streams, delivered \in 0..Len(Text), NEW n \in 1..(Len(Text) - delivered)
    PROVE  SubSeq(Text, delivered + 1, delivered + n) \in Seq(Bytes)
  <1>1. Text \in Seq(Bytes) /\ Len(Text) \in Nat
    BY TextType
  <1>2. \A i \in (delivered + 1)..(delivered + n) : i \in 1..Len(Text)
    BY <1>1
  <1>3. \A i \in (delivered + 1)..(delivered + n) : Text[i] \in Bytes
    BY <1>1, <1>2, ElementOfSeq
  <1> QED
    BY <1>1, <1>2, <1>3, SubSeqProperties

\* Reading, in as far as there is something to read, keeps the offsets in
\* order.
LEMMA ReadKeepsBuffer ==
    ASSUME BufferTypeOK, NEW n \in Nat, MoveReadOffset(n)
    PROVE  BufferTypeOK'
  BY DEF MoveReadOffset, BufferTypeOK, ReadAbleSize, Offsets

\* Every step uses the buffer through its operations.
LEMMA BufferUse ==
    ASSUME IInv, [Next]_vars
    PROVE  [BufferNext]_bufferVars
  <1>0. BufferTypeOK /\ stream \in Streams /\ delivered \in 0..Len(Text)
        /\ request \in Requests /\ RequestInv
    BY DEF IInv
  <1>l. Len(Line) \in Nat /\ ReadAbleSize \in Nat
    BY <1>0, LineType
  <1>1. ASSUME NEW n \in 1..(Len(Text) - delivered), HandleRead(n)
        PROVE  BufferNext
    <2>1. SubSeq(Text, delivered + 1, delivered + n) \in Seq(Bytes)
      BY <1>0, PieceType
    <2>2. WriteAndPush(SubSeq(Text, delivered + 1, delivered + n))
      BY <1>1 DEF HandleRead
    <2> QED
      BY <2>1, <2>2 DEF BufferNext
  <1>2. ASSUME AwaitLine \/ LeaveByException \/ HandleClose \/ Respond \/ UNCHANGED vars
        PROVE  UNCHANGED bufferVars
    BY <1>2 DEF AwaitLine, LeaveByException, HandleClose, Respond, vars
  <1>3. ASSUME LineTooLong \/ RecvHttpLine \/ RecvHttpHead
        PROVE  BufferNext
    BY <1>3, <1>l DEF LineTooLong, RecvHttpLine, RecvHttpHead, BufferNext
  <1>4. ASSUME RecvHttpBody
        PROVE  BufferNext
    <2> DEFINE lacks == ContentLength(request) - Len(request.body)
               n == IF ReadAbleSize < lacks THEN ReadAbleSize ELSE lacks
    <2>1. MoveReadOffset(n) /\ ~LengthThrows(request)
      BY <1>4 DEF RecvHttpBody
    <2>2. Len(request.body) \in Nat /\ ContentLength(request) \in Nat
      <3>1. request.body \in Seq(Bytes)
        BY <1>0 DEF Requests
      <3> QED
        BY <1>0, <2>1, <3>1, LengthType, LenProperties
    <2>3. Len(request.body) <= ContentLength(request)
      BY <1>0, <2>1 DEF RequestInv
    <2>4. n \in Nat
      BY <2>2, <2>3, <1>l
    <2> HIDE DEF n
    <2> QED
      BY <2>1, <2>4 DEF BufferNext
  <1>5. ASSUME Refuse
        PROVE  BufferNext
    BY <1>5, <1>l DEF Refuse, BufferNext
  <1> QED
    BY <1>1, <1>2, <1>3, <1>4, <1>5 DEF Next, OnMessage

\* The buffer keeps its type.
LEMMA BufferKept ==
    ASSUME BufferTypeOK, [BufferNext]_bufferVars
    PROVE  BufferTypeOK'
  <1>1. ASSUME NEW data \in Seq(Bytes), WriteAndPush(data)
        PROVE  BufferTypeOK'
    BY <1>1, BufferAssumption, WriteAppends
  <1>2. ASSUME NEW n \in Nat, MoveReadOffset(n)
        PROVE  BufferTypeOK'
    BY <1>2, ReadKeepsBuffer
  <1>3. CASE UNCHANGED bufferVars
    BY <1>3 DEF BufferTypeOK, bufferVars, Offsets
  <1> QED
    BY <1>1, <1>2, <1>3 DEF BufferNext

\* A reply of one piece is added, or none.
LEMMA AnswersKept ==
    ASSUME answers \in Seq(Replies), AnswersWhole,
           \/ answers' = answers
           \/ \E a \in Replies : OfOnePiece(a) /\ answers' = Append(answers, a)
    PROVE  answers' \in Seq(Replies) /\ AnswersWhole'
  <1>1. CASE answers' = answers
    BY <1>1 DEF AnswersWhole
  <1>2. ASSUME NEW a \in Replies, OfOnePiece(a), answers' = Append(answers, a)
        PROVE  answers' \in Seq(Replies) /\ AnswersWhole'
    <2>1. /\ answers' \in Seq(Replies) /\ Len(answers') = Len(answers) + 1
          /\ \A i \in 1..Len(answers) : answers'[i] = answers[i]
          /\ answers'[Len(answers) + 1] = a
          /\ Len(answers) \in Nat
          /\ DOMAIN answers = 1..Len(answers) /\ DOMAIN answers' = 1..Len(answers')
      BY <1>2, AppendProperties, LenProperties
    <2>2. \A i \in DOMAIN answers' : OfOnePiece(answers'[i])
      <3> TAKE i \in DOMAIN answers'
      <3>1. CASE i = Len(answers) + 1
        BY <1>2, <2>1, <3>1
      <3>2. CASE i # Len(answers) + 1
        <4>1. i \in DOMAIN answers /\ answers'[i] = answers[i]
          BY <2>1, <3>2
        <4>2. OfOnePiece(answers[i])
          BY <4>1 DEF AnswersWhole
        <4> QED
          BY <4>1, <4>2
      <3> QED
        BY <3>1, <3>2
    <2> QED
      BY <2>1, <2>2 DEF AnswersWhole
  <1> QED
    BY <1>1, <1>2

\* A fresh context is one that the invariant allows.
LEMMA FreshContext ==
    /\ NoRequest \in Requests /\ NoRequest.target = "none" /\ NoRequest.body = <<>>
    /\ NoRequest.files = <<>> /\ NoRequest.length = "none"
    /\ ContentLength(NoRequest) = 0 /\ Len(NoRequest.body) = 0 /\ ~LengthThrows(NoRequest)
  <1>1. <<>> \in Seq(Bytes) /\ <<>> \in Seq(Seq(Bytes)) /\ Len(<<>>) = 0
    BY EmptySeq
  <1> QED
    BY <1>1 DEF NoRequest, Requests, ContentLength, LengthThrows

\* The server starts with it.
LEMMA Initially == Init => IInv
  <1> SUFFICES ASSUME Init
               PROVE  IInv
    OBVIOUS
  <1>1. BufferTypeOK
    BY BufferAssumption DEF Init, BufferInit, BufferTypeOK, Offsets, BufferAssumption
  <1>2. stream \in Streams /\ delivered \in 0..Len(Text)
    <2>1. stream \in Streams /\ delivered = 0
      BY DEF Init
    <2> QED
      BY <2>1, TextType
  <1>3. request \in Requests /\ RequestInv
    BY FreshContext DEF Init, RequestInv
  <1>4. answers \in Seq(Replies) /\ AnswersWhole
    <2>1. answers = <<>>
      BY DEF Init
    <2> QED
      BY <2>1, EmptySeq DEF AnswersWhole
  <1>5. /\ pc \in {"idle", "recv", "left"} /\ closing \in BOOLEAN /\ gone \in BOOLEAN
        /\ recv \in {"LINE", "HEAD", "BODY", "OVER", "ERROR"}
        /\ resp \in {200, 400, 414} /\ (resp >= 400 <=> recv = "ERROR")
    <2>1. pc = "idle" /\ recv = "LINE" /\ resp = 200
      BY DEF Init
    <2>2. closing \in BOOLEAN /\ gone \in BOOLEAN
      BY DEF Init
    <2>3. recv # "ERROR" /\ ~(resp >= 400)
      BY <2>1
    <2> QED
      BY <2>1, <2>2, <2>3
  <1> QED
    BY <1>1, <1>2, <1>3, <1>4, <1>5 DEF IInv

\* A refused request is answered with the error that it is owed.
LEMMA RefuseAnswers ==
    ASSUME IInv, Refuse
    PROVE  LET a == OwedError(request.target, resp)
           IN  a \in Replies /\ OfOnePiece(a) /\ answers' = Append(answers, a)
  <1> DEFINE path == IF request.target = "none" THEN "none" ELSE Targets[request.target].path
  <1>1. request.target \in DOMAIN Targets \cup {"none"} /\ resp \in {400, 414}
    BY DEF IInv, Refuse, Requests
  <1>2. answers' = Append(answers, Sent(ErrorHandler(path, NewResponse(resp))))
    BY DEF Refuse, WriteReponse, Sent
  <1>3. Sent(ErrorHandler(path, NewResponse(resp))) = OwedError(request.target, resp)
    BY <1>1, RefusalIsOwed
  <1>4. resp \in Codes /\ resp >= 400
    BY <1>1 DEF Codes
  <1> HIDE DEF path
  <1> QED
    BY <1>2, <1>3, <1>4, OwedErrorIsWhole

\* A complete one with what it deserves.
LEMMA RespondAnswers ==
    ASSUME IInv, Respond
    PROVE  LET a == Owed(request.target, Input(request))
           IN  a \in Replies /\ OfOnePiece(a) /\ answers' = Append(answers, a)
  <1>1. request.target \in DOMAIN Targets /\ request.body \in Seq(Bytes)
        /\ request.files \in Seq(Seq(Bytes))
    BY DEF IInv, RequestInv, Requests, Respond, Expecting
  <1>2. Input(request) \in Seq(Bytes)
    <2>1. request.files # <<>> => Head(request.files) \in Seq(Bytes)
      BY <1>1
    <2> QED
      BY <1>1, <2>1 DEF Input
  <1>3. answers' = Append(answers, Sent(Handled(request)))
    BY DEF Respond, WriteReponse, Sent
  <1>4. Sent(Handled(request)) = Owed(request.target, Input(request))
    BY <1>1, HandledIsOwed
  <1> QED
    BY <1>1, <1>2, <1>3, <1>4, OwedIsWhole, HttpAssumption DEF HttpAssumption

\* The parser's steps keep the request in the form that their state allows.
LEMMA RequestKept ==
    ASSUME IInv, [Next]_vars
    PROVE  /\ recv' \in {"LINE", "HEAD", "BODY", "OVER", "ERROR"}
           /\ resp' \in {200, 400, 414} /\ (resp' >= 400 <=> recv' = "ERROR")
           /\ request' \in Requests /\ RequestInv'
  <1> DEFINE Kept ==
                 /\ recv' \in {"LINE", "HEAD", "BODY", "OVER", "ERROR"}
                 /\ resp' \in {200, 400, 414} /\ (resp' >= 400 <=> recv' = "ERROR")
                 /\ request' \in Requests /\ RequestInv'
  <1>0. /\ recv \in {"LINE", "HEAD", "BODY", "OVER", "ERROR"}
        /\ resp \in {200, 400, 414} /\ (resp >= 400 <=> recv = "ERROR")
        /\ request \in Requests /\ RequestInv /\ BufferTypeOK
    BY DEF IInv
  <1>1. ASSUME UNCHANGED contextVars
        PROVE  Kept
    BY <1>0, <1>1 DEF contextVars, RequestInv
  <1>2. ASSUME ReSet
        PROVE  Kept
    BY <1>2, FreshContext DEF ReSet, RequestInv
  <1>3. CASE LineTooLong
    <2>1. recv \in {"LINE", "HEAD"} /\ recv' = "ERROR" /\ resp' = 414 /\ request' = request
      BY <1>3 DEF LineTooLong, Expecting
    <2> QED
      BY <1>0, <2>1, FreshContext DEF RequestInv
  <1>4. CASE RecvHttpLine
    <2>1. recv = "LINE" /\ request = NoRequest /\ resp = 200
      BY <1>0, <1>4 DEF RecvHttpLine, Expecting, RequestInv
    <2>2. CASE \E t \in DOMAIN Targets : Line = <<t, "nl">>
      <3>1. PICK t \in DOMAIN Targets : Line = <<t, "nl">>
        BY <2>2
      <3>2. Head(Line) = t
        BY <3>1
      <3>3. recv' = "HEAD" /\ resp' = resp /\ request' = [request EXCEPT !.target = t]
        BY <1>4, <2>2, <3>2 DEF RecvHttpLine
      <3>4. t # "none"
        BY DEF Targets
      <3>5. request' = [NoRequest EXCEPT !.target = t]
        BY <2>1, <3>3
      <3>6. request' \in Requests /\ request'.target = t /\ request'.body = <<>>
            /\ request'.files = <<>> /\ Len(request'.body) <= ContentLength(request')
        <4>1. NoRequest \in Requests /\ DOMAIN NoRequest = {"target", "keep", "form", "length", "body", "files"}
          BY FreshContext DEF NoRequest
        <4>2. request'.target = t /\ request'.body = <<>> /\ request'.files = <<>>
              /\ request'.length = "none"
          BY <3>5, FreshContext, <4>1
        <4> QED
          BY <3>5, <4>1, <4>2, FreshContext DEF Requests, ContentLength
      <3> QED
        BY <2>1, <3>3, <3>4, <3>6 DEF RequestInv
    <2>3. CASE ~\E t \in DOMAIN Targets : Line = <<t, "nl">>
      <3>1. recv' = "ERROR" /\ resp' = 400 /\ request' = NoRequest
        BY <1>4, <2>1, <2>3 DEF RecvHttpLine
      <3> QED
        BY <3>1, FreshContext DEF RequestInv
    <2> QED
      BY <2>2, <2>3
  <1>5. CASE RecvHttpHead
    <2>1. /\ recv = "HEAD" /\ resp = 200 /\ request \in Requests /\ request.target # "none"
          /\ request.body = <<>> /\ request.files = <<>>
      BY <1>0, <1>5 DEF RecvHttpHead, Expecting, RequestInv
    <2>2. CASE UNCHANGED request
      <3>1. \/ recv' = "BODY" /\ resp' = resp
            \/ recv' = recv /\ resp' = resp
            \/ recv' = "ERROR" /\ resp' = 400
        BY <1>5 DEF RecvHttpHead
      <3> QED
        BY <1>0, <2>1, <2>2, <3>1 DEF RequestInv
    <2>3. CASE /\ recv' = recv /\ resp' = resp
               /\ \/ request' = [request EXCEPT !.keep = TRUE]
                  \/ request' = [request EXCEPT !.form = TRUE]
                  \/ \E h \in DOMAIN BodyLength :
                        request' = [request EXCEPT !.length = IF @ = "none" THEN h ELSE @]
      <3>1. Len(<<>>) = 0
        OBVIOUS
      <3>4. request' \in Requests
        BY <2>1, <2>3 DEF Requests
      <3>5. request'.target = request.target /\ request'.body = <<>> /\ request'.files = <<>>
            /\ (~LengthThrows(request') => ContentLength(request') \in Nat)
        BY <2>1, <2>3, <3>4, LengthType DEF Requests
      <3> QED
        BY <1>0, <2>1, <2>3, <3>1, <3>4, <3>5 DEF RequestInv
    <2> QED
      BY <1>5, <2>2, <2>3 DEF RecvHttpHead
  <1>6. CASE RecvHttpBody
    <2> DEFINE lacks == ContentLength(request) - Len(request.body)
               n == IF ReadAbleSize < lacks THEN ReadAbleSize ELSE lacks
               piece == SubSeq(Content, 1, n)
               body == request.body \o piece
               files == IF n = lacks /\ request.form THEN ParseMultipartBody[body] ELSE request.files
    <2>1. recv = "BODY" /\ resp = 200 /\ request.target # "none" /\ request.files = <<>>
          /\ ~LengthThrows(request)
      BY <1>0, <1>6 DEF RecvHttpBody, Expecting, RequestInv
    <2>2. request' = [request EXCEPT !.body = body, !.files = files]
      BY <1>6 DEF RecvHttpBody
    <2>3. resp' = resp /\ \/ n = lacks /\ recv' = "OVER"
                          \/ n # lacks /\ recv' = recv
      BY <1>6 DEF RecvHttpBody
    <2>4. /\ Len(request.body) \in Nat /\ ContentLength(request) \in Nat
          /\ request.body \in Seq(Bytes) /\ Len(request.body) <= ContentLength(request)
      <3>1. request.body \in Seq(Bytes)
        BY <1>0 DEF Requests
      <3> QED
        BY <1>0, <2>1, <3>1, LengthType, LenProperties DEF RequestInv
    <2>5. Content \in Seq(Bytes) /\ Len(Content) = ReadAbleSize /\ ReadAbleSize \in Nat
      BY <1>0, LineType
    <2>6. n \in 0..ReadAbleSize /\ n <= lacks
      BY <2>4, <2>5
    <2> HIDE DEF n
    <2>7. piece \in Seq(Bytes) /\ Len(piece) = n
      BY <2>5, <2>6
    <2> HIDE DEF piece
    <2>8. body \in Seq(Bytes) /\ Len(body) = Len(request.body) + n
      BY <2>4, <2>7
    <2> HIDE DEF body
    <2>9. files \in Seq(Seq(Bytes)) /\ (files # <<>> => n = lacks /\ request.form)
      <3>1. {"nl", "bound"} \subseteq Bytes
        BY HttpAssumption DEF HttpAssumption
      <3>2. ParseMultipartBody[body] \in Seq(Seq(Bytes))
        BY <2>8, <3>1, FormType
      <3> QED
        BY <1>0, <2>1, <3>2 DEF Requests
    <2>10. Len(body) <= ContentLength(request)
      BY <2>4, <2>6, <2>8
    <2> HIDE DEF files, lacks
    <2>11. /\ request' \in Requests /\ request'.target = request.target
           /\ request'.form = request.form /\ request'.length = request.length
           /\ request'.body = body /\ request'.files = files
      BY <1>0, <2>2, <2>8, <2>9 DEF Requests
    <2> QED
      BY <2>1, <2>3, <2>9, <2>10, <2>11 DEF RequestInv, ContentLength, LengthThrows
  <1>7. \/ UNCHANGED contextVars \/ ReSet
        \/ LineTooLong \/ RecvHttpLine \/ RecvHttpHead \/ RecvHttpBody
    BY DEF Next, OnMessage, HandleRead, HandleClose, AwaitLine, LeaveByException, Refuse, Respond, vars
  <1> QED
    BY <1>1, <1>2, <1>3, <1>4, <1>5, <1>6, <1>7

\* Every step keeps it.
LEMMA Inductive == IInv /\ [Next]_vars => IInv'
  <1> SUFFICES ASSUME IInv, [Next]_vars
               PROVE  IInv'
    OBVIOUS
  <1>1. BufferTypeOK'
    BY BufferUse, BufferKept DEF IInv
  <1>2. stream' \in Streams /\ delivered' \in 0..Len(Text')
    <2>1. stream' = stream
      BY DEF Next, OnMessage, HandleRead, HandleClose, AwaitLine, LineTooLong, RecvHttpLine,
             RecvHttpHead, RecvHttpBody, LeaveByException, Refuse, Respond, vars
    <2>2. Text' = Text
      BY <2>1 DEF Text
    <2>3. Len(Text) \in Nat /\ delivered \in 0..Len(Text)
      BY TextType DEF IInv
    <2>4. delivered' = delivered \/ \E n \in 1..(Len(Text) - delivered) : delivered' = delivered + n
      BY DEF Next, OnMessage, HandleRead, HandleClose, AwaitLine, LineTooLong, RecvHttpLine,
             RecvHttpHead, RecvHttpBody, LeaveByException, Refuse, Respond, vars
    <2>5. delivered' \in 0..Len(Text)
      BY <2>3, <2>4
    <2> QED
      BY <2>1, <2>2, <2>5 DEF IInv
  <1>3. pc' \in {"idle", "recv", "left"} /\ closing' \in BOOLEAN /\ gone' \in BOOLEAN
    <2>1. pc' = pc \/ pc' \in {"idle", "recv", "left"}
      BY DEF Next, OnMessage, HandleRead, HandleClose, AwaitLine, LineTooLong, RecvHttpLine,
             RecvHttpHead, RecvHttpBody, LeaveByException, Refuse, Respond, vars
    <2>2. /\ closing' = closing \/ closing' \in BOOLEAN
          /\ gone' = gone \/ gone' \in BOOLEAN
      BY DEF Next, OnMessage, HandleRead, HandleClose, AwaitLine, LineTooLong, RecvHttpLine,
             RecvHttpHead, RecvHttpBody, LeaveByException, Refuse, Respond, vars
    <2> QED
      BY <2>1, <2>2 DEF IInv
  <1>4. answers' \in Seq(Replies) /\ AnswersWhole'
    <2>1. CASE Refuse
      BY <2>1, RefuseAnswers, AnswersKept DEF IInv
    <2>2. CASE Respond
      BY <2>2, RespondAnswers, AnswersKept DEF IInv
    <2>3. CASE answers' = answers
      BY <2>3, AnswersKept DEF IInv
    <2> QED
      BY <2>1, <2>2, <2>3 DEF Next, OnMessage, HandleRead, HandleClose, AwaitLine, LineTooLong,
         RecvHttpLine, RecvHttpHead, RecvHttpBody, LeaveByException, vars
  <1> QED
    BY <1>1, <1>2, <1>3, <1>4, RequestKept DEF IInv

\* It holds for all streams, however TCP cuts them.
THEOREM IInvHolds == Spec => []IInv
  BY Initially, Inductive, PTL DEF Spec

\* What the server does to the buffer are writes and reads of no more than
\* there is: MoveReadOffset's assertion never fails, however long a line, a
\* header block or a body.
THEOREM UsesBuffer == Spec => BufferSpec
  <1>1. Init => BufferInit
    BY DEF Init
  <1>2. IInv /\ [Next]_vars => [BufferNext]_bufferVars
    BY BufferUse
  <1> QED
    BY <1>1, <1>2, IInvHolds, PTL DEF Spec, BufferSpec

\* So between the socket and the parser no byte is lost, repeated or moved,
\* whatever clients send and however it is cut into reads and requests.
THEOREM ServerBufferIsQueue == Spec => BufferIsQueue
  BY UsesBuffer, BufferRefinesQueue

\* The parser's state is one that a request can lead to: a body is never
\* longer than announced, a refused request has none, and files are there
\* only when a form is complete.
THEOREM TypeCorrect == Spec => []TypeOK
  <1>1. IInv => TypeOK
    <2> SUFFICES ASSUME IInv
                 PROVE  TypeOK
      OBVIOUS
    <2>1. /\ request.target \in DOMAIN Targets \cup {"none"}
          /\ request.keep \in BOOLEAN /\ request.form \in BOOLEAN
          /\ request.length \in {"none"} \cup DOMAIN BodyLength
      BY DEF IInv, Requests
    <2>2. /\ IF LengthThrows(request) THEN request.body = <<>>
             ELSE Len(request.body) <= ContentLength(request)
          /\ request.files # <<>> => request.form /\ recv = "OVER"
          /\ request.target = "none" => recv \in {"LINE", "ERROR"}
      BY DEF IInv, RequestInv
    <2>3. ASSUME NEW i \in DOMAIN answers
          PROVE  answers[i].code \in Codes /\ answers[i].type \in Types
      <3>1. answers[i] \in Replies
        BY LenProperties, ElementOfSeq DEF IInv
      <3> QED
        BY <3>1 DEF Replies
    <2> QED
      BY <2>1, <2>2, <2>3 DEF IInv, TypeOK
  <1> QED
    BY <1>1, IInvHolds, PTL

\* Whichever of the handler, the exception handler and the error handler had
\* a hand in it, an answer is of one piece, for every text that clients send.
THEOREM AnswersArePieces == Spec => []AnswersWhole
  <1>1. IInv => AnswersWhole
    BY DEF IInv
  <1> QED
    BY <1>1, IInvHolds, PTL
-----------------------------------------------------------------------------
(***************************************************************************)
(* What messages mean.                                                     *)
(***************************************************************************)
\* The text has the messages' texts one after the other.
LEMMA StreamLayout ==
    ASSUME stream \in Streams
    PROVE  /\ Text \in Seq(Bytes) /\ Len(Text) \in Nat
           /\ Start(1) = 0 /\ Start(Len(stream) + 1) = Len(Text)
           /\ \A i \in 1..(Len(stream) + 1) : Start(i) \in 0..Len(Text)
           /\ \A i \in 1..Len(stream) :
                 /\ Start(i + 1) = Start(i) + Len(stream[i].text)
                 /\ \A j \in 1..Len(stream[i].text) : Text[Start(i) + j] = stream[i].text[j]
  <1> DEFINE N == Len(stream)
             texts == [i \in DOMAIN stream |-> stream[i].text]
  <1>1. N \in Nat /\ DOMAIN stream = 1..N /\ \A i \in 1..N : stream[i].text \in Seq(Bytes)
    BY StreamType, MessageType
  <1>2. texts \in Seq(Seq(Bytes)) /\ Len(texts) = N /\ \A i \in 1..N : texts[i] = stream[i].text
    BY <1>1
  <1>3. ASSUME NEW i \in 1..(N + 1)
        PROVE  Start(i) = Len(First(texts, i - 1))
    <2>1. \A k \in 1..(i - 1) : k \in 1..N
      BY <1>1
    <2>2. [k \in 1..(i - 1) |-> stream[k].text] = [k \in 1..(i - 1) |-> texts[k]]
      BY <1>2, <2>1
    <2> HIDE DEF texts
    <2> QED
      BY <2>2 DEF Start, First
  <1>4. Text = FlattenSeq(texts)
    BY DEF Text
  <1> HIDE DEF texts, N
  <1>5. Text \in Seq(Bytes) /\ Len(Text) \in Nat
    BY <1>2, <1>4, FlattenType, LenProperties
  <1>6. /\ First(texts, 0) = <<>> /\ First(texts, N) = Text
        /\ \A k \in 0..N : First(texts, k) \in Seq(Bytes) /\ Len(First(texts, k)) \in Nat
        /\ \A k \in 1..N : First(texts, k) = First(texts, k - 1) \o texts[k]
    BY <1>2, <1>4, FirstNext, LenProperties
  <1>7. ASSUME NEW k \in 0..N
        PROVE  /\ Len(First(texts, k)) <= Len(Text)
               /\ \A j \in 1..Len(First(texts, k)) : Text[j] = First(texts, k)[j]
    BY <1>2, <1>4, FirstIsPrefix
  <1>8. Start(1) = 0
    <2>1. 1 \in 1..(N + 1) /\ 1 - 1 = 0 /\ Len(<<>>) = 0
      BY <1>1
    <2> QED
      BY <1>3, <1>6, <2>1
  <1>9. Start(N + 1) = Len(Text)
    <2>1. N + 1 \in 1..(N + 1) /\ (N + 1) - 1 = N
      BY <1>1
    <2> QED
      BY <1>3, <1>6, <2>1
  <1>10. \A i \in 1..(N + 1) : Start(i) \in 0..Len(Text)
    <2> TAKE i \in 1..(N + 1)
    <2>1. i - 1 \in 0..N
      BY <1>1
    <2>2. Len(First(texts, i - 1)) \in Nat /\ Len(First(texts, i - 1)) <= Len(Text)
      BY <1>6, <1>7, <2>1
    <2> QED
      BY <1>3, <1>5, <2>2
  <1>11. ASSUME NEW i \in 1..N
         PROVE  /\ Start(i + 1) = Start(i) + Len(stream[i].text)
                /\ \A j \in 1..Len(stream[i].text) : Text[Start(i) + j] = stream[i].text[j]
    <2> DEFINE a == First(texts, i - 1)
               b == texts[i]
               c == First(texts, i)
    <2>1. i \in 0..N /\ i - 1 \in 0..N /\ i \in 1..(N + 1) /\ i + 1 \in 1..(N + 1) /\ (i + 1) - 1 = i
      BY <1>1
    <2>2. a \in Seq(Bytes) /\ b \in Seq(Bytes) /\ c = a \o b /\ b = stream[i].text
      BY <1>1, <1>2, <1>6, <2>1
    <2>3. Start(i) = Len(a) /\ Start(i + 1) = Len(c)
      BY <1>3, <2>1
    <2>4. \A j \in 1..Len(c) : Text[j] = c[j]
      BY <1>7, <2>1
    <2> HIDE DEF a, b, c
    <2>5. /\ Len(c) = Len(a) + Len(b) /\ Len(a) \in Nat /\ Len(b) \in Nat
          /\ \A j \in 1..Len(c) : c[j] = IF j <= Len(a) THEN a[j] ELSE b[j - Len(a)]
      BY <2>2, ConcatProperties, LenProperties
    <2>6. \A j \in 1..Len(b) : Len(a) + j \in 1..Len(c) /\ ~(Len(a) + j <= Len(a)) /\ (Len(a) + j) - Len(a) = j
      BY <2>5
    <2>7. \A j \in 1..Len(b) : c[Len(a) + j] = b[j]
      BY <2>5, <2>6
    <2> QED
      BY <2>2, <2>3, <2>4, <2>5, <2>6, <2>7
  <1> QED
    BY <1>5, <1>8, <1>9, <1>10, <1>11 DEF N

\* A later message starts where an earlier one has ended, or behind that.
LEMMA StartsLater ==
    ASSUME stream \in Streams, NEW i \in 1..Len(stream), NEW k \in 1..Len(stream), i < k
    PROVE  Start(i) + stream[i].due < Start(k) + stream[k].due
  <1> DEFINE bad == {l \in (i + 1)..Len(stream) : ~(Start(i + 1) <= Start(l))}
  <1>1. Len(stream) \in Nat
    BY StreamType
  <1>2. \A l \in 1..(Len(stream) + 1) : Start(l) \in Nat
    BY StreamLayout
  <1>3. \A l \in 1..Len(stream) :
            /\ Start(l + 1) = Start(l) + Len(stream[l].text) /\ Len(stream[l].text) \in Nat
            /\ stream[l].due \in 1..Len(stream[l].text)
    BY StreamLayout, StreamType, MessageType
  <1>4. bad = {}
    <2> SUFFICES ASSUME bad # {}
                 PROVE  FALSE
      OBVIOUS
    <2>1. bad \in SUBSET Nat
      BY <1>1
    <2>2. PICK l \in bad : \A j \in bad : l <= j
      BY <2>1, Least
    <2>3. l \in (i + 1)..Len(stream) /\ ~(Start(i + 1) <= Start(l))
      BY <2>2
    <2>4. i + 1 \in 1..(Len(stream) + 1) /\ Start(i + 1) \in Nat
      BY <1>1, <1>2
    <2>5. l # i + 1
      BY <2>3, <2>4
    <2>6. l - 1 \in (i + 1)..Len(stream) /\ ~(l <= l - 1) /\ l - 1 \in 1..Len(stream)
          /\ l - 1 \in 1..(Len(stream) + 1) /\ l \in 1..(Len(stream) + 1) /\ (l - 1) + 1 = l
      BY <1>1, <2>3, <2>5
    <2>7. Start(i + 1) <= Start(l - 1)
      BY <2>2, <2>6
    <2>8. Start(l) = Start(l - 1) + Len(stream[l - 1].text) /\ Len(stream[l - 1].text) \in Nat
      BY <1>3, <2>6
    <2>9. Start(l - 1) \in Nat /\ Start(l) \in Nat
      BY <1>2, <2>6
    <2> QED
      BY <2>3, <2>4, <2>7, <2>8, <2>9
  <1>5. k \in (i + 1)..Len(stream) /\ k \in 1..(Len(stream) + 1) /\ i \in 1..(Len(stream) + 1)
        /\ i + 1 \in 1..(Len(stream) + 1)
    BY <1>1
  <1>6. Start(i + 1) <= Start(k)
    BY <1>4, <1>5
  <1>7. Start(i) \in Nat /\ Start(i + 1) \in Nat /\ Start(k) \in Nat
    BY <1>2, <1>5
  <1>8. Start(i + 1) = Start(i) + Len(stream[i].text) /\ Len(stream[i].text) \in Nat
        /\ stream[i].due \in 1..Len(stream[i].text)
        /\ Len(stream[k].text) \in Nat /\ stream[k].due \in 1..Len(stream[k].text)
    BY <1>3
  <1> DEFINE si == Start(i)
             se == Start(i + 1)
             sk == Start(k)
             ni == Len(stream[i].text)
             nk == Len(stream[k].text)
             di == stream[i].due
             dk == stream[k].due
  <1>9. /\ si \in Nat /\ se \in Nat /\ sk \in Nat /\ ni \in Nat /\ nk \in Nat
        /\ di \in 1..ni /\ dk \in 1..nk /\ se = si + ni /\ se <= sk
    BY <1>6, <1>7, <1>8
  <1> HIDE DEF si, se, sk, ni, nk, di, dk
  <1>10. si + di < sk + dk
    BY <1>9
  <1> QED
    BY <1>10 DEF si, sk, di, dk

\* A request as a record.
Request(target, keep, form, length, body, files) ==
    [target |-> target, keep |-> keep, form |-> form, length |-> length, body |-> body, files |-> files]

\* The parts of Headed.
Has(text, n, h) == \E i \in 2..n : text[2 * i - 1] = h
Lengths(text, n) == {i \in 2..n : text[2 * i - 1] \in DOMAIN BodyLength}
FirstLength(text, n) == IF Lengths(text, n) = {} THEN "none" ELSE text[2 * Min(Lengths(text, n)) - 1]

\* What the lines make, field by field.
LEMMA HeadedIs ==
    ASSUME NEW text, NEW n
    PROVE  Headed(text, n) = Request(IF n = 0 THEN "none" ELSE text[1], Has(text, n, "keep"),
                                     Has(text, n, "form"), FirstLength(text, n), <<>>, <<>>)
  <1> DEFINE t == IF n = 0 THEN "none" ELSE text[1]
             k == Has(text, n, "keep")
             f == Has(text, n, "form")
             l == FirstLength(text, n)
             no == FALSE
  <1>1. Headed(text, n) = [NoRequest EXCEPT !.target = t, !.keep = k, !.form = f, !.length = l]
    BY DEF Headed, Has, Lengths, FirstLength
  <1> HIDE DEF t, k, f, l, no
  <1>2. [NoRequest EXCEPT !.target = t, !.keep = k, !.form = f, !.length = l]
        = [[[[NoRequest EXCEPT !.target = t] EXCEPT !.keep = k] EXCEPT !.form = f] EXCEPT !.length = l]
    OBVIOUS
  <1>3. NoRequest = Request("none", no, no, "none", <<>>, <<>>)
    BY DEF NoRequest, Request, no
  <1>4. [Request("none", no, no, "none", <<>>, <<>>) EXCEPT !.target = t]
        = Request(t, no, no, "none", <<>>, <<>>)
    BY DEF Request
  <1>5. [Request(t, no, no, "none", <<>>, <<>>) EXCEPT !.keep = k] = Request(t, k, no, "none", <<>>, <<>>)
    BY DEF Request
  <1>6. [Request(t, k, no, "none", <<>>, <<>>) EXCEPT !.form = f] = Request(t, k, f, "none", <<>>, <<>>)
    BY DEF Request
  <1>7. [Request(t, k, f, "none", <<>>, <<>>) EXCEPT !.length = l] = Request(t, k, f, l, <<>>, <<>>)
    BY DEF Request
  <1>8. [NoRequest EXCEPT !.target = t, !.keep = k, !.form = f, !.length = l]
        = Request(t, k, f, l, <<>>, <<>>)
    BY <1>2, <1>3, <1>4, <1>5, <1>6, <1>7
  <1> QED
    BY <1>1, <1>8 DEF t, k, f, l

\* Without lines, and with the first.
LEMMA HeadedFirst ==
    ASSUME NEW text
    PROVE  Headed(text, 0) = NoRequest /\ Headed(text, 1) = [NoRequest EXCEPT !.target = text[1]]
  <1>1. ASSUME NEW n \in {0, 1}
        PROVE  /\ Has(text, n, "keep") = FALSE /\ Has(text, n, "form") = FALSE
               /\ FirstLength(text, n) = "none"
    <2>1. 2..n = {}
      OBVIOUS
    <2> QED
      BY <2>1 DEF Has, Lengths, FirstLength
  <1>2. NoRequest = Request("none", FALSE, FALSE, "none", <<>>, <<>>)
    BY DEF NoRequest, Request
  <1>3. Headed(text, 0) = NoRequest
    BY <1>1, <1>2, HeadedIs
  <1>4. Headed(text, 1) = Request(text[1], FALSE, FALSE, "none", <<>>, <<>>)
    <2>1. Headed(text, 1) = Request(IF 1 = 0 THEN "none" ELSE text[1], Has(text, 1, "keep"),
                                    Has(text, 1, "form"), FirstLength(text, 1), <<>>, <<>>)
      BY HeadedIs
    <2>2. ~(1 = 0)
      OBVIOUS
    <2> QED
      BY <1>1, <2>1, <2>2
  <1>5. [NoRequest EXCEPT !.target = text[1]] = Request(text[1], FALSE, FALSE, "none", <<>>, <<>>)
    <2> DEFINE no == FALSE
               t == text[1]
    <2> HIDE DEF no, t
    <2>1. [Request("none", no, no, "none", <<>>, <<>>) EXCEPT !.target = t]
          = Request(t, no, no, "none", <<>>, <<>>)
      BY DEF Request
    <2> QED
      BY <1>2, <2>1 DEF no, t
  <1> QED
    BY <1>3, <1>4, <1>5

\* What a header adds.
WithHeader(req, h) ==
    CASE h = "keep" -> [req EXCEPT !.keep = TRUE]
      [] h = "form" -> [req EXCEPT !.form = TRUE]
      [] OTHER -> [req EXCEPT !.length = IF @ = "none" THEN h ELSE @]

\* That, field by field.
LEMMA WithHeaderIs ==
    ASSUME NEW t, NEW k \in BOOLEAN, NEW f \in BOOLEAN, NEW l,
           NEW h \in {"keep", "form"} \cup DOMAIN BodyLength
    PROVE  WithHeader(Request(t, k, f, l, <<>>, <<>>), h)
           = Request(t, k \/ h = "keep", f \/ h = "form",
                     IF h \in DOMAIN BodyLength /\ l = "none" THEN h ELSE l, <<>>, <<>>)
  <1> DEFINE keep == k
             form == f
             yes == TRUE
             length == IF l = "none" THEN h ELSE l
             req == Request(t, keep, form, l, <<>>, <<>>)
  <1>1. {"keep", "form", "none"} \cap DOMAIN BodyLength = {}
    BY HttpAssumption DEF HttpAssumption
  <1> HIDE DEF keep, form, yes, length
  <1>2. [req EXCEPT !.keep = yes] = Request(t, yes, form, l, <<>>, <<>>)
    BY DEF Request
  <1>3. [req EXCEPT !.form = yes] = Request(t, keep, yes, l, <<>>, <<>>)
    BY DEF Request
  <1>4. [req EXCEPT !.length = length] = Request(t, keep, form, length, <<>>, <<>>)
    BY DEF Request
  <1>5. req.length = l
    BY DEF Request
  <1> HIDE DEF req
  <1>6. CASE h = "keep"
    <2>1. (k \/ h = "keep") = yes /\ (f \/ h = "form") = form /\ h \notin DOMAIN BodyLength
      BY <1>1, <1>6 DEF yes, form
    <2>2. WithHeader(req, h) = [req EXCEPT !.keep = yes]
      BY <1>6 DEF WithHeader, yes
    <2>3. WithHeader(req, h) = Request(t, k \/ h = "keep", f \/ h = "form", l, <<>>, <<>>)
      BY <1>2, <2>1, <2>2
    <2> QED
      BY <2>1, <2>3 DEF req, keep, form
  <1>7. CASE h = "form"
    <2>1. (k \/ h = "keep") = keep /\ (f \/ h = "form") = yes /\ h \notin DOMAIN BodyLength
      BY <1>1, <1>7 DEF yes, keep
    <2>2. WithHeader(req, h) = [req EXCEPT !.form = yes]
      BY <1>7 DEF WithHeader, yes
    <2>3. WithHeader(req, h) = Request(t, k \/ h = "keep", f \/ h = "form", l, <<>>, <<>>)
      BY <1>3, <2>1, <2>2
    <2> QED
      BY <2>1, <2>3 DEF req, keep, form
  <1>8. CASE h \in DOMAIN BodyLength
    <2>1. (k \/ h = "keep") = keep /\ (f \/ h = "form") = form /\ h # "keep" /\ h # "form"
      BY <1>1, <1>8 DEF keep, form
    <2>2. WithHeader(req, h) = [req EXCEPT !.length = length]
      BY <1>5, <2>1 DEF WithHeader, length
    <2>3. WithHeader(req, h) = Request(t, k \/ h = "keep", f \/ h = "form", length, <<>>, <<>>)
      BY <1>4, <2>1, <2>2
    <2> QED
      BY <1>8, <2>3 DEF req, keep, form, length
  <1> QED
    BY <1>6, <1>7, <1>8

\* With one header more.
LEMMA HeadedNext ==
    ASSUME NEW text, NEW n \in Nat, n > 0,
           text[2 * n + 1] \in {"keep", "form"} \cup DOMAIN BodyLength
    PROVE  Headed(text, n + 1) = WithHeader(Headed(text, n), text[2 * n + 1])
  <1> DEFINE h == text[2 * n + 1]
             t == text[1]
             k == Has(text, n, "keep")
             f == Has(text, n, "form")
             l == FirstLength(text, n)
             some == Lengths(text, n)
             more == Lengths(text, n + 1)
  <1>1. {"keep", "form", "none"} \cap DOMAIN BodyLength = {}
    BY HttpAssumption DEF HttpAssumption
  <1>2. 2 * (n + 1) - 1 = 2 * n + 1 /\ n + 1 # 0 /\ n # 0 /\ n + 1 \in Nat
        /\ \A i : i \in 2..(n + 1) <=> i \in 2..n \/ i = n + 1
    OBVIOUS
  <1>3. ASSUME NEW w
        PROVE  Has(text, n + 1, w) = (Has(text, n, w) \/ h = w)
    <2>1. Has(text, n, w) \/ h = w => Has(text, n + 1, w)
      <3>1. n + 1 \in 2..(n + 1)
        OBVIOUS
      <3> QED
        BY <1>2, <3>1 DEF Has
    <2>2. Has(text, n + 1, w) => Has(text, n, w) \/ h = w
      BY <1>2 DEF Has
    <2> HIDE DEF h
    <2> QED
      BY <2>1, <2>2 DEF Has
  <1>4. more = some \cup (IF h \in DOMAIN BodyLength THEN {n + 1} ELSE {})
    BY <1>2 DEF Lengths
  <1>5. some \in SUBSET Nat /\ \A i \in some : i <= n + 1
    BY DEF Lengths
  <1>6. FirstLength(text, n + 1) = IF h \in DOMAIN BodyLength /\ l = "none" THEN h ELSE l
    <2>1. CASE some = {} /\ h \notin DOMAIN BodyLength
      BY <1>4, <2>1 DEF FirstLength
    <2>2. CASE some = {} /\ h \in DOMAIN BodyLength
      <3>1. more = {n + 1} /\ l = "none"
        BY <1>4, <2>2 DEF FirstLength
      <3>2. Min({n + 1}) = n + 1
        BY MinIs
      <3>3. FirstLength(text, n + 1) = text[2 * (n + 1) - 1]
        BY <3>1, <3>2 DEF FirstLength
      <3> QED
        BY <1>2, <2>2, <3>1, <3>3
    <2>3. CASE some # {}
      <3>1. PICK x \in some : \A y \in some : x <= y
        BY <1>5, <2>3, Least
      <3>2. Min(some) = x
        <4> HIDE DEF some
        <4> QED
          BY <1>5, <3>1, MinIs
      <3>3. more \in SUBSET Nat /\ x \in more /\ \A y \in more : x <= y
        BY <1>2, <1>4, <1>5, <3>1
      <3>4. Min(more) = x
        <4> HIDE DEF more
        <4> QED
          BY <3>3, MinIs
      <3>5. FirstLength(text, n + 1) = text[2 * x - 1] /\ l = text[2 * x - 1]
        BY <2>3, <3>2, <3>3, <3>4 DEF FirstLength
      <3>6. text[2 * x - 1] \in DOMAIN BodyLength
        BY <3>1 DEF Lengths
      <3> QED
        BY <1>1, <3>5, <3>6
    <2> QED
      BY <2>1, <2>2, <2>3
  <1>7. k \in BOOLEAN /\ f \in BOOLEAN /\ h \in {"keep", "form"} \cup DOMAIN BodyLength
    BY DEF Has
  <1>8. Headed(text, n) = Request(t, k, f, l, <<>>, <<>>)
    BY <1>2, HeadedIs
  <1>9. Headed(text, n + 1) = Request(t, Has(text, n + 1, "keep"), Has(text, n + 1, "form"),
                                      FirstLength(text, n + 1), <<>>, <<>>)
    BY <1>2, HeadedIs
  <1> HIDE DEF h, t, k, f, l, some, more
  <1>10. Headed(text, n + 1) = Request(t, k \/ h = "keep", f \/ h = "form",
             IF h \in DOMAIN BodyLength /\ l = "none" THEN h ELSE l, <<>>, <<>>)
    <2>1. Has(text, n + 1, "keep") = (k \/ h = "keep") /\ Has(text, n + 1, "form") = (f \/ h = "form")
      BY <1>3 DEF k, f
    <2> QED
      BY <1>6, <1>9, <2>1
  <1>11. WithHeader(Request(t, k, f, l, <<>>, <<>>), h)
         = Request(t, k \/ h = "keep", f \/ h = "form",
                   IF h \in DOMAIN BodyLength /\ l = "none" THEN h ELSE l, <<>>, <<>>)
    BY <1>7, WithHeaderIs
  <1>12. Headed(text, n + 1) = WithHeader(Headed(text, n), h)
    BY <1>8, <1>10, <1>11
  <1> QED
    BY <1>12 DEF h

\* A field is not empty.
LEMMA FieldsAreFull ==
    ASSUME NEW i
    PROVE  "nl" \notin Fields(i)
  BY HttpAssumption DEF HttpAssumption, Fields, Targets

\* What begins with n lines begins with fewer.
LEMMA BeginsFewer ==
    ASSUME NEW text, Len(text) \in Nat, NEW n \in Nat, Begins(text, n), NEW k \in 0..n
    PROVE  Begins(text, k)
  BY DEF Begins

\* The lines of message m end with the blank one behind the n-th.
HeadersEnd(m, n) == Served(m, n) \/ Unanswerable(m, n)

\* What may be next in a message of which n lines are read: another such
\* line, the end of the headers, or the line for which it is refused.
LEMMA NextLine ==
    ASSUME NEW m, Meant(m), NEW n \in Nat, Begins(m.text, n)
    PROVE  \/ Begins(m.text, n + 1) /\ m.due >= 2 * n + 2
           \/ HeadersEnd(m, n)
           \/ \E k \in 1..(MaxLine + 1) : Refused(m, n, k)
  <1>1. Len(m.text) \in Nat
    BY MessageType
  <1>2. PICK N \in 0..Len(m.text) :
            HeadersEnd(m, N) \/ \E k \in 1..(MaxLine + 1) : Refused(m, N, k)
    BY DEF Meant, HeadersEnd
  <1>3. MaxLine \in Nat /\ MaxLine >= 2
    BY HttpAssumption DEF HttpAssumption
  <1>4. CASE n < N
    <2>1. Begins(m.text, N) /\ m.due >= 2 * N
      BY <1>1, <1>2, <1>3 DEF HeadersEnd, Served, Unanswerable, Refused, Begins
    <2>2. n + 1 \in 0..N
      BY <1>2, <1>4
    <2>3. Begins(m.text, n + 1)
      BY <1>1, <1>2, <2>1, <2>2, BeginsFewer
    <2>4. m.due \in Nat
      BY MessageType
    <2> QED
      BY <1>2, <1>4, <2>1, <2>3, <2>4
  <1>5. CASE n = N
    BY <1>2, <1>5
  <1>6. CASE n > N
    <2>1. N + 1 \in 0..n /\ N + 1 \in 1..n /\ 2 * (N + 1) - 1 = 2 * N + 1 /\ 2 * (N + 1) = 2 * N + 2
      BY <1>2, <1>6
    <2>2. Begins(m.text, N + 1)
      BY <1>1, <2>1, BeginsFewer
    <2>3. m.text[2 * N + 1] \in Fields(N + 1) /\ m.text[2 * N + 2] = "nl"
      <3>1. m.text[2 * (N + 1) - 1] \in Fields(N + 1) /\ m.text[2 * (N + 1)] = "nl"
        BY <2>1 DEF Begins
      <3> QED
        BY <2>1, <3>1
    <2>4. ~HeadersEnd(m, N)
      BY <1>1, <2>3, FieldsAreFull DEF HeadersEnd, Served, Unanswerable
    <2>5. ASSUME NEW k \in 1..(MaxLine + 1), Refused(m, N, k)
          PROVE  FALSE
      <3>1. k = MaxLine + 1
        BY <2>2, <2>5 DEF Refused
      <3>2. 2 \in 1..(k - 1)
        BY <1>3, <3>1
      <3> QED
        BY <2>3, <2>5, <3>2 DEF Refused
    <2> QED
      BY <1>2, <2>4, <2>5
  <1> QED
    BY <1>2, <1>4, <1>5, <1>6

\* GetLine's line ends with the first line break.
LineEnds(k) ==
    /\ k \in 1..ReadAbleSize /\ Content[k] = "nl"
    /\ \A j \in 1..(k - 1) : Content[j] # "nl"
    /\ Line \in Seq(Bytes) /\ Len(Line) = k /\ \A j \in 1..k : Line[j] = Content[j]

NoLine == Line = <<>> /\ Len(Line) = 0 /\ \A j \in 1..ReadAbleSize : Content[j] # "nl"

\* There is a line, or none.
LEMMA LineIs ==
    ASSUME BufferTypeOK
    PROVE  NoLine \/ \E k \in 1..ReadAbleSize : LineEnds(k)
  <1> DEFINE places == {k \in DOMAIN Content : Content[k] = "nl"}
  <1>1. Content \in Seq(Bytes) /\ Len(Content) = ReadAbleSize /\ ReadAbleSize \in Nat
        /\ DOMAIN Content = 1..ReadAbleSize /\ \A j \in 1..ReadAbleSize : Content[j] \in Bytes
    <2>1. Content \in Seq(Bytes) /\ Len(Content) = ReadAbleSize /\ ReadAbleSize \in Nat
      BY ContentType DEF ContentCells
    <2> QED
      BY <2>1, LenProperties, ElementOfSeq
  <1>2. CASE Contains(Content, "nl")
    <2>1. places \in SUBSET Nat /\ places # {}
      BY <1>1, <1>2 DEF Contains
    <2>2. PICK k \in places : \A j \in places : k <= j
      BY <2>1, Least
    <2>3. Min(places) = k
      <3> HIDE DEF places
      <3> QED
        BY <2>1, <2>2, MinIs
    <2>4. Line = SubSeq(Content, 1, k)
      BY <1>2, <2>3 DEF Line
    <2>5. k \in 1..ReadAbleSize /\ Content[k] = "nl"
      BY <1>1, <2>2
    <2>6. ASSUME NEW j \in 1..(k - 1)
          PROVE  Content[j] # "nl"
      <3>1. j \in 1..ReadAbleSize /\ ~(k <= j)
        BY <1>1, <2>5
      <3> QED
        BY <1>1, <2>2, <3>1
    <2>7. \A j \in 1..k : Content[j] \in Bytes
      BY <1>1, <2>5
    <2>8. Line \in Seq(Bytes) /\ Len(Line) = k /\ \A j \in 1..k : Line[j] = Content[j]
      BY <1>1, <2>4, <2>5, <2>7, SubSeqProperties
    <2> QED
      BY <2>5, <2>6, <2>8 DEF LineEnds
  <1>3. CASE ~Contains(Content, "nl")
    <2>1. Line = <<>> /\ Len(<<>>) = 0
      BY <1>3 DEF Line
    <2> QED
      BY <1>1, <1>3, <2>1 DEF NoLine, Contains
  <1> QED
    BY <1>2, <1>3

\* The length that headers announce is one; they come before body and files.
LEMMA HeadedType ==
    ASSUME NEW text, NEW n
    PROVE  /\ Headed(text, n).length \in {"none"} \cup DOMAIN BodyLength
           /\ ~LengthThrows(Headed(text, n)) => ContentLength(Headed(text, n)) \in Nat
           /\ Headed(text, n).body = <<>> /\ Headed(text, n).files = <<>>
  <1> DEFINE l == FirstLength(text, n)
             t == IF n = 0 THEN "none" ELSE text[1]
             k == Has(text, n, "keep")
             f == Has(text, n, "form")
  <1>1. Headed(text, n) = Request(t, k, f, l, <<>>, <<>>)
    BY HeadedIs
  <1> HIDE DEF l, t, k, f
  <1>2. Headed(text, n).length = l /\ Headed(text, n).body = <<>> /\ Headed(text, n).files = <<>>
    BY <1>1 DEF Request
  <1>3. l \in {"none"} \cup DOMAIN BodyLength
    <2>1. CASE Lengths(text, n) = {}
      BY <2>1 DEF FirstLength, l
    <2>2. CASE Lengths(text, n) # {}
      <3>1. Lengths(text, n) \in SUBSET Nat
        BY DEF Lengths
      <3>2. PICK x \in Lengths(text, n) : \A y \in Lengths(text, n) : x <= y
        BY <2>2, <3>1, Least
      <3>3. Min(Lengths(text, n)) = x
        BY <3>1, <3>2, MinIs
      <3> QED
        BY <2>2, <3>2, <3>3 DEF FirstLength, Lengths, l
    <2> QED
      BY <2>1, <2>2
  <1> QED
    BY <1>2, <1>3, HttpAssumption DEF HttpAssumption, ContentLength, LengthThrows

\* What is buffered goes on where d symbols of the message have been taken.
Ahead(m, d) ==
    \A j \in 1..ReadAbleSize : d + j <= Len(m.text) => Content[j] = m.text[d + j]

\* The line that is read, when n are: nothing yet, and then the answer to the
\* message is not due; one too long; or another field, the end of the
\* headers, or the line for which it is refused.
LEMMA LineAhead ==
    ASSUME BufferTypeOK, NEW m, Meant(m), NEW n \in Nat, Begins(m.text, n), Ahead(m, 2 * n)
    PROVE  /\ Line = <<>> /\ ReadAbleSize <= MaxLine => 2 * n + ReadAbleSize < m.due
           /\ Len(Line) > MaxLine \/ (Line = <<>> /\ ReadAbleSize > MaxLine) =>
                 /\ m.due <= 2 * n + ReadAbleSize /\ m.last
                 /\ m.answer = OwedError(Headed(m.text, n).target, 414)
           /\ Line # <<>> /\ Len(Line) <= MaxLine =>
                 \/ /\ Begins(m.text, n + 1)
                    /\ Len(Line) = 2 /\ Line = <<m.text[2 * n + 1], "nl">>
                 \/ HeadersEnd(m, n) /\ Len(Line) = 1 /\ Line = <<"nl">>
                 \/ /\ m.due <= 2 * n + ReadAbleSize /\ m.last
                    /\ m.answer = OwedError(Headed(m.text, n).target, 400)
                    /\ \A h \in Fields(n + 1) : Line # <<h, "nl">>
                    /\ n > 0 => Line # <<"nl">>
  <1> DEFINE Goal ==
        /\ Line = <<>> /\ ReadAbleSize <= MaxLine => 2 * n + ReadAbleSize < m.due
        /\ Len(Line) > MaxLine \/ (Line = <<>> /\ ReadAbleSize > MaxLine) =>
              /\ m.due <= 2 * n + ReadAbleSize /\ m.last
              /\ m.answer = OwedError(Headed(m.text, n).target, 414)
        /\ Line # <<>> /\ Len(Line) <= MaxLine =>
              \/ /\ Begins(m.text, n + 1)
                 /\ Len(Line) = 2 /\ Line = <<m.text[2 * n + 1], "nl">>
              \/ HeadersEnd(m, n) /\ Len(Line) = 1 /\ Line = <<"nl">>
              \/ /\ m.due <= 2 * n + ReadAbleSize /\ m.last
                 /\ m.answer = OwedError(Headed(m.text, n).target, 400)
                 /\ \A h \in Fields(n + 1) : Line # <<h, "nl">>
                 /\ n > 0 => Line # <<"nl">>
  <1>1. Len(m.text) \in Nat /\ m.due \in 1..Len(m.text) /\ ReadAbleSize \in Nat
    BY MessageType, LineType
  <1>2. MaxLine \in Nat /\ MaxLine >= 2
    BY HttpAssumption DEF HttpAssumption
  <1>3. NoLine \/ \E k \in 1..ReadAbleSize : LineEnds(k)
    BY LineIs
  <1>4. CASE Begins(m.text, n + 1) /\ m.due >= 2 * n + 2
    <2>1. m.text[2 * n + 1] # "nl" /\ m.text[2 * n + 2] = "nl" /\ 2 * n + 2 <= Len(m.text)
      <3>1. n + 1 \in 1..(n + 1) /\ 2 * (n + 1) - 1 = 2 * n + 1 /\ 2 * (n + 1) = 2 * n + 2
        OBVIOUS
      <3>2. m.text[2 * n + 1] \in Fields(n + 1)
        BY <1>4, <3>1 DEF Begins
      <3> QED
        BY <1>4, <3>1, <3>2, FieldsAreFull DEF Begins
    <2>2. /\ ReadAbleSize >= 1 => Content[1] = m.text[2 * n + 1]
          /\ ReadAbleSize >= 2 => Content[2] = "nl"
      BY <1>1, <2>1 DEF Ahead
    <2>3. CASE NoLine
      <3>1. ~(ReadAbleSize >= 2)
        BY <1>1, <2>2, <2>3 DEF NoLine
      <3> QED
        BY <1>1, <1>2, <1>4, <2>3, <3>1 DEF NoLine
    <2>4. ASSUME NEW k \in 1..ReadAbleSize, LineEnds(k)
          PROVE  Goal
      <3>1. k # 1
        BY <1>1, <2>1, <2>2, <2>4 DEF LineEnds
      <3>2. ~(k > 2)
        <4>1. k > 2 => 2 \in 1..(k - 1)
          OBVIOUS
        <4> QED
          BY <1>1, <2>2, <2>4, <4>1 DEF LineEnds
      <3>3. k = 2 /\ 1 \in 1..2 /\ 2 \in 1..2
        BY <1>1, <3>1, <3>2
      <3>4. Line \in Seq(Bytes) /\ Len(Line) = 2 /\ Line[1] = m.text[2 * n + 1] /\ Line[2] = "nl"
        BY <1>1, <2>2, <2>4, <3>3 DEF LineEnds
      <3>5. Line = <<m.text[2 * n + 1], "nl">>
        BY <3>4, ShortSequences
      <3> QED
        BY <1>2, <1>4, <3>4, <3>5
    <2> QED
      BY <1>3, <2>3, <2>4
  <1>5. CASE HeadersEnd(m, n)
    <2>1. m.text[2 * n + 1] = "nl" /\ 2 * n + 1 <= Len(m.text) /\ 2 * n + 1 <= m.due
      <3>1. CASE Served(m, n)
        <4>1. ContentLength(Headed(m.text, n)) \in Nat
          BY <3>1, HeadedType DEF Served
        <4> QED
          BY <3>1, <4>1 DEF Served
      <3>2. CASE Unanswerable(m, n)
        BY <1>1, <3>2 DEF Unanswerable
      <3> QED
        BY <1>5, <3>1, <3>2 DEF HeadersEnd
    <2>2. ReadAbleSize >= 1 => Content[1] = "nl"
      BY <1>1, <2>1 DEF Ahead
    <2>3. CASE NoLine
      <3>1. ReadAbleSize = 0
        BY <1>1, <2>2, <2>3 DEF NoLine
      <3> QED
        BY <1>1, <1>2, <2>1, <2>3, <3>1 DEF NoLine
    <2>4. ASSUME NEW k \in 1..ReadAbleSize, LineEnds(k)
          PROVE  Goal
      <3>1. ~(k > 1)
        <4>1. k > 1 => 1 \in 1..(k - 1)
          OBVIOUS
        <4> QED
          BY <1>1, <2>2, <2>4, <4>1 DEF LineEnds
      <3>2. k = 1 /\ 1 \in 1..1
        BY <1>1, <3>1
      <3>3. Line \in Seq(Bytes) /\ Len(Line) = 1 /\ Line[1] = "nl"
        BY <1>1, <2>2, <2>4, <3>2 DEF LineEnds
      <3>4. Line = <<"nl">>
        BY <3>3, ShortSequences
      <3> QED
        BY <1>2, <1>5, <3>3, <3>4
    <2> QED
      BY <1>3, <2>3, <2>4
  <1>6. ASSUME NEW k \in 1..(MaxLine + 1), Refused(m, n, k)
        PROVE  Goal
    <2>1. /\ m.due = 2 * n + k /\ m.due <= Len(m.text) /\ m.last
          /\ \A j \in 1..(k - 1) : m.text[2 * n + j] # "nl"
      BY <1>6 DEF Refused
    <2>2. \A j \in 1..ReadAbleSize : j <= k - 1 => Content[j] # "nl"
      BY <1>1, <1>2, <2>1 DEF Ahead
    <2>3. CASE k <= MaxLine /\ m.text[m.due] = "nl"
      <3>1. ~Begins(m.text, n + 1) /\ (n > 0 => k > 1)
            /\ m.answer = OwedError(Headed(m.text, n).target, 400)
        BY <1>2, <1>6, <2>3 DEF Refused
      <3>2. ReadAbleSize >= k => Content[k] = "nl"
        BY <1>1, <1>2, <2>1, <2>3 DEF Ahead
      <3>3. CASE NoLine
        <4>1. ReadAbleSize < k
          BY <1>1, <3>2, <3>3 DEF NoLine
        <4> QED
          BY <1>1, <1>2, <2>1, <2>3, <3>3, <4>1 DEF NoLine
      <3>4. ASSUME NEW l \in 1..ReadAbleSize, LineEnds(l)
            PROVE  Goal
        <4>1. ~(l < k)
          BY <1>1, <2>2, <3>4 DEF LineEnds
        <4>2. ~(l > k)
          <5>1. l > k => k \in 1..(l - 1)
            BY <1>1
          <5> QED
            BY <1>1, <3>2, <3>4, <5>1 DEF LineEnds
        <4>3. l = k
          BY <1>1, <4>1, <4>2
        <4>4. m.due <= 2 * n + ReadAbleSize
          BY <1>1, <2>1, <4>3
        <4>5. Len(Line) = k /\ Len(Line) <= MaxLine /\ Line # <<>>
          BY <1>1, <2>3, <3>4, <4>3 DEF LineEnds
        <4>6. ASSUME NEW h \in Fields(n + 1), Line = <<h, "nl">>
              PROVE  FALSE
          <5>1. k = 2 /\ Line[1] = h /\ Line[2] = "nl"
            BY <4>5, <4>6
          <5>2. Content[1] = h /\ Content[2] = "nl" /\ ReadAbleSize >= 2
            BY <1>1, <3>4, <4>3, <5>1 DEF LineEnds
          <5>3. m.text[2 * n + 1] = h /\ m.text[2 * n + 2] = "nl" /\ 2 * n + 2 <= Len(m.text)
            BY <1>1, <2>1, <5>1, <5>2 DEF Ahead
          <5>4. /\ 2 * (n + 1) <= Len(m.text)
                /\ \A i \in 1..(n + 1) : i \in 1..n \/ (i = n + 1 /\ 2 * i - 1 = 2 * n + 1 /\ 2 * i = 2 * n + 2)
            BY <5>3
          <5>5. Begins(m.text, n + 1)
            BY <5>3, <5>4 DEF Begins
          <5> QED
            BY <3>1, <5>5
        <4>7. ASSUME n > 0, Line = <<"nl">>
              PROVE  FALSE
          <5>1. Len(Line) = 1
            BY <4>7
          <5>2. k = 1 /\ k > 1
            BY <3>1, <4>5, <4>7, <5>1
          <5> QED
            BY <5>2
        <4>8. ~(Len(Line) > MaxLine)
          BY <1>1, <1>2, <2>3, <4>5
        <4> QED
          BY <2>1, <3>1, <4>4, <4>5, <4>6, <4>7, <4>8
      <3> QED
        BY <1>3, <3>3, <3>4
    <2>4. CASE k = MaxLine + 1
      <3>1. m.answer = OwedError(Headed(m.text, n).target, 414)
        BY <1>2, <1>6, <2>4 DEF Refused
      <3>2. CASE NoLine
        BY <1>1, <1>2, <2>1, <2>4, <3>1, <3>2 DEF NoLine
      <3>3. ASSUME NEW l \in 1..ReadAbleSize, LineEnds(l)
            PROVE  Goal
        <4>1. l > MaxLine
          BY <1>1, <1>2, <2>2, <2>4, <3>3 DEF LineEnds
        <4>2. Len(Line) > MaxLine /\ ~(Len(Line) <= MaxLine) /\ Line # <<>>
          BY <1>1, <1>2, <3>3, <4>1 DEF LineEnds
        <4>3. m.due <= 2 * n + ReadAbleSize
          BY <1>1, <1>2, <2>1, <2>4, <4>1
        <4> QED
          BY <2>1, <3>1, <4>2, <4>3
      <3> QED
        BY <1>3, <3>2, <3>3
    <2> QED
      BY <1>6, <2>3, <2>4 DEF Refused
  <1> QED
    BY <1>4, <1>5, <1>6, NextLine
-----------------------------------------------------------------------------
(***************************************************************************)
(* What the server says depends on the bytes, not on how they are cut.     *)
(***************************************************************************)
\* How much of its text the parser has taken.
Consumed == delivered - ReadAbleSize

\* The message it is about.
Current == Len(answers) + 1

\* What is buffered is the text from there on.
Buffered ==
    /\ Consumed \in Nat
    /\ \A i \in 1..ReadAbleSize : Content[i] = Text[Consumed + i]

\* The parser has taken d symbols of message m, and its state says so.
Reading(m, d) ==
    CASE recv = "LINE" -> d = 0
      [] recv = "HEAD" ->
             \E n \in 1..Len(m.text) :
                 d = 2 * n /\ Begins(m.text, n) /\ request = Headed(m.text, n)
      [] recv = "BODY" ->
             \E n \in 1..Len(m.text) :
                 /\ HeadersEnd(m, n) /\ d = 2 * n + 1 + Len(request.body)
                 /\ request = [Headed(m.text, n) EXCEPT !.body = SubSeq(m.text, 2 * n + 2, d)]
      [] recv = "OVER" ->
             /\ d = Len(m.text) /\ m.due = d
             /\ m.answer = Owed(request.target, Input(request))
             /\ m.last = ~request.keep
      [] recv = "ERROR" ->
             /\ Start(Current) + m.due <= delivered
             /\ m.answer = OwedError(request.target, resp)
             /\ m.last

Answered(i) == i \in Known /\ answers[i] = stream[i].answer

\* Message m has arrived, has no answer, and is what the exception was about.
LeftAt(m) == Start(Current) + m.due <= delivered /\ m.answer = NoAnswer

\* While the connection is open, the answers are those to the messages before
\* the current one, and when the callback has returned that one is not there.
Unclosed ==
    /\ \A i \in DOMAIN answers : Answered(i) /\ ~stream[i].last
    /\ IF Current \in DOMAIN stream
       THEN /\ Reading(stream[Current], Consumed - Start(Current))
            /\ pc = "idle" => delivered < Start(Current) + stream[Current].due
            /\ pc = "left" => LeftAt(stream[Current])
       ELSE Consumed = Len(Text) /\ recv = "LINE" /\ pc = "idle" /\ Len(answers) = Len(stream)

\* After that it is closed for a message, and all up to it are answered.
Closed ==
    \E k \in DOMAIN answers :
        stream[k].last /\ \A i \in 1..k : Answered(i)

CutInv ==
    /\ IInv
    /\ Buffered
    /\ IF closing THEN Closed ELSE Unclosed

\* Where the parser stands in the current message.
Taken == Consumed - Start(Current)

\* What it reads next goes on from there.
LEMMA AheadHolds ==
    ASSUME IInv, Buffered, Current \in DOMAIN stream, NEW d \in Nat, d = Taken
    PROVE  /\ Ahead(stream[Current], d)
           /\ delivered = Start(Current) + d + ReadAbleSize
           /\ Start(Current) \in Nat
  <1> DEFINE i == Current
             s == Start(Current)
  <1>1. i \in 1..Len(stream) /\ i \in 1..(Len(stream) + 1) /\ Len(stream[i].text) \in Nat
    BY StreamType, MessageType DEF IInv
  <1>2. s \in Nat /\ \A j \in 1..Len(stream[i].text) : Text[s + j] = stream[i].text[j]
    BY <1>1, StreamLayout DEF IInv
  <1>3. ReadAbleSize \in Nat /\ delivered \in Nat
    BY LineType, TextType DEF IInv
  <1>4. Consumed = delivered - ReadAbleSize /\ Consumed \in Nat
        /\ \A j \in 1..ReadAbleSize : Content[j] = Text[Consumed + j]
    BY DEF Consumed, Buffered
  <1>5. Consumed = s + d
    BY <1>2, <1>4 DEF Taken
  <1> HIDE DEF i, s
  <1>6. ASSUME NEW j \in 1..ReadAbleSize, d + j <= Len(stream[i].text)
        PROVE  Content[j] = stream[i].text[d + j]
    <2>1. d + j \in 1..Len(stream[i].text) /\ s + (d + j) = Consumed + j
      BY <1>1, <1>2, <1>3, <1>5, <1>6
    <2> QED
      BY <1>2, <1>4, <2>1
  <1>7. delivered = s + d + ReadAbleSize
    BY <1>2, <1>3, <1>4, <1>5
  <1> QED
    BY <1>2, <1>6, <1>7 DEF Ahead, i, s

\* A read takes from the front of what is buffered.
LEMMA ReadTakes ==
    ASSUME IInv, Buffered, NEW n \in 0..ReadAbleSize, MoveReadOffset(n),
           stream' = stream, delivered' = delivered
    PROVE  Buffered' /\ Consumed' = Consumed + n /\ ReadAbleSize' = ReadAbleSize - n
  <1>0. /\ BufferTypeOK /\ delivered \in Nat /\ ReadAbleSize \in Nat
        /\ \A k \in 1..ReadAbleSize : Content[k] = cells[reader + k - 1]
        /\ reader \in Nat /\ writer \in Nat
    <2>1. BufferTypeOK
      BY DEF IInv
    <2> QED
      BY <2>1, ContentType, TextType DEF IInv, ContentCells, BufferTypeOK
  <1>1. /\ n \in Nat /\ n <= ReadAbleSize /\ reader' = reader + n
        /\ cells' = cells /\ size' = size /\ writer' = writer
    BY <1>0 DEF MoveReadOffset
  <1>2. ReadAbleSize' = ReadAbleSize - n
    BY <1>0, <1>1 DEF ReadAbleSize
  <1>3. \A k \in 1..(ReadAbleSize - n) : Content'[k] = Content[n + k]
    <2> TAKE k \in 1..(ReadAbleSize - n)
    <2>1. BufferTypeOK'
      BY <1>0, <1>1, ReadKeepsBuffer
    <2>2. ContentCells'
      BY <2>1, ContentType, PTL
    <2>3. k \in 1..ReadAbleSize' /\ n + k \in 1..ReadAbleSize
      BY <1>0, <1>1, <1>2
    <2>4. reader' + k - 1 = reader + (n + k) - 1
      BY <1>0, <1>1
    <2> QED
      BY <1>0, <1>1, <2>2, <2>3, <2>4 DEF ContentCells
  <1>4. Consumed' = Consumed + n
    BY <1>0, <1>1, <1>2 DEF Consumed
  <1>5. Text' = Text
    BY DEF Text
  <1>6. ASSUME NEW k \in 1..(ReadAbleSize - n)
        PROVE  Content'[k] = Text[(Consumed + n) + k]
    <2>1. n + k \in 1..ReadAbleSize /\ Consumed + (n + k) = (Consumed + n) + k
      BY <1>0, <1>1 DEF Buffered
    <2> QED
      BY <1>3, <2>1 DEF Buffered
  <1> QED
    BY <1>1, <1>2, <1>4, <1>5, <1>6 DEF Buffered

\* What is delivered goes behind it.
LEMMA ReadAdds ==
    ASSUME IInv, Buffered, NEW n \in 1..(Len(Text) - delivered), HandleRead(n)
    PROVE  Buffered' /\ Consumed' = Consumed /\ ReadAbleSize' = ReadAbleSize + n
  <1> DEFINE data == SubSeq(Text, delivered + 1, delivered + n)
  <1>0. BufferTypeOK /\ stream \in Streams /\ delivered \in 0..Len(Text)
        /\ Text \in Seq(Bytes) /\ Len(Text) \in Nat
    BY TextType DEF IInv
  <1>1. data \in Seq(Bytes) /\ Len(data) = n /\ \A k \in 1..n : data[k] = Text[delivered + k]
    <2>1. data \in Seq(Bytes)
      BY <1>0, PieceType
    <2> QED
      BY <1>0, <2>1
  <1>2. WriteAndPush(data) /\ delivered' = delivered + n /\ stream' = stream
    BY DEF HandleRead
  <1> HIDE DEF data
  <1>3. ReadAbleSize' = ReadAbleSize + n /\ BufferTypeOK'
    BY <1>0, <1>1, <1>2, BufferAssumption, WriteAppends
  <1>4. Content' = Content \o data
    BY <1>0, <1>1, <1>2, <1>3, WriteIsAppend
  <1>5. Content \in Seq(Bytes) /\ Len(Content) = ReadAbleSize /\ ReadAbleSize \in Nat
    BY <1>0, LineType
  <1>6. \A k \in 1..(ReadAbleSize + n) :
            (Content \o data)[k] = IF k <= ReadAbleSize THEN Content[k] ELSE data[k - ReadAbleSize]
    BY <1>1, <1>5, ConcatProperties
  <1>7. Consumed' = Consumed /\ Consumed + ReadAbleSize = delivered /\ Consumed \in Nat
    BY <1>0, <1>2, <1>3, <1>5 DEF Consumed, Buffered
  <1>8. Text' = Text
    BY <1>2 DEF Text
  <1>9. ASSUME NEW k \in 1..(ReadAbleSize + n)
        PROVE  (Content \o data)[k] = Text[Consumed + k]
    <2>1. CASE k <= ReadAbleSize
      <3>1. k \in 1..ReadAbleSize
        BY <2>1
      <3> QED
        BY <1>6, <2>1, <3>1 DEF Buffered
    <2>2. CASE ~(k <= ReadAbleSize)
      <3>1. k - ReadAbleSize \in 1..n /\ delivered + (k - ReadAbleSize) = Consumed + k
        BY <1>0, <1>5, <1>7, <2>2
      <3> QED
        BY <1>1, <1>6, <2>2, <3>1
    <2> QED
      BY <2>1, <2>2
  <1> QED
    BY <1>3, <1>4, <1>7, <1>8, <1>9 DEF Buffered

\* What no step changes or takes back.
LEMMA OnlyForward ==
    ASSUME IInv, [Next]_vars
    PROVE  /\ stream' = stream /\ delivered' \in Nat /\ delivered <= delivered'
           /\ closing => closing'
           /\ answers' = answers \/ \E a \in Replies : answers' = Append(answers, a)
  <1>1. stream' = stream
    BY DEF Next, OnMessage, HandleRead, HandleClose, AwaitLine, LineTooLong, RecvHttpLine,
           RecvHttpHead, RecvHttpBody, LeaveByException, Refuse, Respond, vars
  <1>2. delivered' = delivered \/ \E n \in 1..(Len(Text) - delivered) : delivered' = delivered + n
    BY DEF Next, OnMessage, HandleRead, HandleClose, AwaitLine, LineTooLong, RecvHttpLine,
           RecvHttpHead, RecvHttpBody, LeaveByException, Refuse, Respond, vars
  <1>3. delivered \in Nat /\ Len(Text) \in Nat
    BY TextType DEF IInv
  <1>4. delivered' \in Nat /\ delivered <= delivered'
    BY <1>2, <1>3
  <1>5. closing => closing'
    BY DEF Next, OnMessage, HandleRead, HandleClose, AwaitLine, LineTooLong, RecvHttpLine,
           RecvHttpHead, RecvHttpBody, LeaveByException, Refuse, Respond, vars
  <1>6. answers' = answers \/ \E a \in Replies : answers' = Append(answers, a)
    <2>1. CASE Refuse
      BY <2>1, RefuseAnswers
    <2>2. CASE Respond
      BY <2>2, RespondAnswers
    <2>3. CASE answers' = answers
      BY <2>3
    <2> QED
      BY <2>1, <2>2, <2>3 DEF Next, OnMessage, HandleRead, HandleClose, AwaitLine, LineTooLong,
         RecvHttpLine, RecvHttpHead, RecvHttpBody, LeaveByException, vars
  <1> QED
    BY <1>1, <1>4, <1>5, <1>6

\* So what is known stays known, and what is answered stays answered.
LEMMA AnsweredStays ==
    ASSUME IInv, stream' = stream, delivered' \in Nat, delivered <= delivered',
           answers' = answers \/ \E a \in Replies : answers' = Append(answers, a)
    PROVE  /\ DOMAIN answers \subseteq DOMAIN answers'
           /\ \A i : Start(i)' = Start(i)
           /\ Known \subseteq Known'
           /\ \A i \in DOMAIN answers : Answered(i) => Answered(i)'
  <1>1. \A i : Start(i)' = Start(i)
    BY DEF Start
  <1>2. ASSUME NEW i \in Known
        PROVE  i \in Known'
    <2>1. /\ i \in DOMAIN stream /\ Start(i) + stream[i].due <= delivered
          /\ \A k \in 1..(i - 1) : ~stream[k].last
      BY <1>2 DEF Known
    <2>2. i \in 1..Len(stream) /\ i \in 1..(Len(stream) + 1) /\ stream[i].due \in Nat
      BY <2>1, StreamType, MessageType DEF IInv
    <2>3. Start(i) \in Nat /\ delivered \in Nat
      BY <2>2, StreamLayout, TextType DEF IInv
    <2>4. Start(i) + stream[i].due <= delivered'
      BY <2>1, <2>2, <2>3
    <2>5. i \in DOMAIN stream' /\ Start(i)' + stream'[i].due <= delivered'
          /\ \A k \in 1..(i - 1) : ~stream'[k].last
      BY <1>1, <2>1, <2>4
    <2> QED
      BY <2>5 DEF Known
  <1>3. DOMAIN answers \subseteq DOMAIN answers' /\ \A i \in DOMAIN answers : answers'[i] = answers[i]
    <2>1. ASSUME NEW a \in Replies, answers' = Append(answers, a)
          PROVE  DOMAIN answers \subseteq DOMAIN answers' /\ \A i \in DOMAIN answers : answers'[i] = answers[i]
      <3>1. answers \in Seq(Replies)
        BY DEF IInv
      <3>2. /\ Len(answers') = Len(answers) + 1 /\ answers' \in Seq(Replies) /\ Len(answers) \in Nat
            /\ \A i \in 1..Len(answers) : answers'[i] = answers[i]
            /\ DOMAIN answers = 1..Len(answers) /\ DOMAIN answers' = 1..Len(answers')
        BY <2>1, <3>1, AppendProperties, LenProperties
      <3> QED
        BY <3>2
    <2> QED
      BY <2>1
  <1>4. ASSUME NEW i \in DOMAIN answers, Answered(i)
        PROVE  Answered(i)'
    <2>1. i \in Known' /\ answers'[i] = stream'[i].answer
      BY <1>2, <1>3, <1>4 DEF Answered
    <2> QED
      BY <2>1 DEF Answered
  <1> QED
    BY <1>1, <1>2, <1>3, <1>4

\* Once closed, a connection stays so, whatever else is answered.
LEMMA ClosedStays ==
    ASSUME IInv, [Next]_vars, Closed
    PROVE  Closed'
  <1>1. PICK k \in DOMAIN answers : stream[k].last /\ \A i \in 1..k : Answered(i)
    BY DEF Closed
  <1>2. stream' = stream /\ delivered' \in Nat /\ delivered <= delivered'
        /\ (answers' = answers \/ \E a \in Replies : answers' = Append(answers, a))
    BY OnlyForward
  <1>3. DOMAIN answers \subseteq DOMAIN answers' /\ \A i \in DOMAIN answers : Answered(i) => Answered(i)'
    BY <1>2, AnsweredStays
  <1>4. \A i \in 1..k : i \in DOMAIN answers
    <2>1. DOMAIN answers = 1..Len(answers) /\ Len(answers) \in Nat
      BY LenProperties DEF IInv
    <2> QED
      BY <2>1
  <1>5. k \in DOMAIN answers' /\ stream'[k].last /\ \A i \in 1..k : Answered(i)'
    BY <1>1, <1>2, <1>3, <1>4
  <1> QED
    BY <1>5 DEF Closed

\* Taking n symbols moves the place in the current message by n.
LEMMA PlaceMoves ==
    ASSUME IInv, Current \in DOMAIN stream, Consumed \in Nat, NEW n \in Nat,
           stream' = stream, answers' = answers, Consumed' = Consumed + n
    PROVE  Current' = Current /\ Start(Current)' = Start(Current) /\ Taken' = Taken + n
  <1>1. Current' = Current
    BY DEF Current
  <1>2. Start(Current)' = Start(Current)
    BY <1>1 DEF Start
  <1>3. Start(Current) \in Nat
    <2>1. Current \in 1..Len(stream) /\ Current \in 1..(Len(stream) + 1)
      BY StreamType DEF IInv
    <2> QED
      BY <2>1, StreamLayout DEF IInv
  <1>4. Taken' = Taken + n
    BY <1>2, <1>3 DEF Taken
  <1> QED
    BY <1>1, <1>2, <1>4

\* A step within the current message keeps what it is about.
LEMMA StillUnclosed ==
    ASSUME IInv, [Next]_vars, Unclosed, Current \in DOMAIN stream,
           answers' = answers, Current' = Current, Start(Current)' = Start(Current),
           Reading(stream[Current], Taken)',
           pc' = "idle" => delivered' < Start(Current) + stream[Current].due,
           pc' = "left" => LeftAt(stream[Current])'
    PROVE  Unclosed'
  <1>1. stream' = stream /\ delivered' \in Nat /\ delivered <= delivered'
    BY OnlyForward
  <1>2. \A i \in DOMAIN answers : Answered(i)' /\ ~stream'[i].last
    BY <1>1, AnsweredStays DEF Unclosed
  <1>3. Current' \in DOMAIN stream' /\ stream'[Current'] = stream[Current]
    BY <1>1
  <1>4. Reading(stream[Current], Consumed - Start(Current))'
    BY DEF Taken
  <1> QED
    BY <1>1, <1>2, <1>3, <1>4 DEF Unclosed

\* While OnMessage runs there is a current message.
LEMMA MessageThere ==
    ASSUME IInv, Unclosed, pc = "recv"
    PROVE  /\ Current \in DOMAIN stream /\ Meant(stream[Current])
           /\ Reading(stream[Current], Taken)
           /\ Start(Current) \in Nat /\ ReadAbleSize \in Nat /\ delivered \in Nat
           /\ stream[Current].due \in Nat
  <1>1. Current \in DOMAIN stream /\ Reading(stream[Current], Taken)
    BY DEF Unclosed, Taken
  <1>2. Meant(stream[Current]) /\ Current \in 1..(Len(stream) + 1)
    BY <1>1, StreamType DEF IInv
  <1> QED
    BY <1>1, <1>2, StreamLayout, MessageType, LineType, TextType DEF IInv

\* Between two lines some have been read.
LinesRead(n) ==
    /\ Taken = 2 * n /\ Begins(stream[Current].text, n)
    /\ request = Headed(stream[Current].text, n)
    /\ n = 0 <=> recv = "LINE"

\* So it is when a line is expected.
LEMMA BetweenLines ==
    ASSUME IInv, Buffered, Unclosed, Expecting("LINE") \/ Expecting("HEAD")
    PROVE  \E n \in Nat : LinesRead(n)
  <1> DEFINE m == stream[Current]
  <1>1. pc = "recv" /\ recv \in {"LINE", "HEAD"}
    BY DEF Expecting
  <1>2. Current \in DOMAIN stream /\ Meant(m) /\ Reading(m, Taken)
    BY <1>1, MessageThere
  <1>3. CASE recv = "LINE"
    <2>1. Taken = 0 /\ request = NoRequest
      BY <1>2, <1>3 DEF Reading, IInv, RequestInv
    <2>2. Begins(m.text, 0)
      BY <1>2, MessageType DEF Begins
    <2>3. 0 \in Nat /\ LinesRead(0)
      BY <1>3, <2>1, <2>2, HeadedFirst DEF LinesRead
    <2> QED
      BY <2>3
  <1>4. CASE recv = "HEAD"
    <2>1. PICK n \in 1..Len(m.text) :
              Taken = 2 * n /\ Begins(m.text, n) /\ request = Headed(m.text, n)
      BY <1>2, <1>4 DEF Reading
    <2>2. Len(m.text) \in Nat
      BY <1>2, MessageType
    <2>3. n \in Nat /\ n # 0
      BY <2>1, <2>2
    <2> QED
      BY <1>4, <2>1, <2>3 DEF LinesRead
  <1> QED
    BY <1>1, <1>3, <1>4

\* What is read then, when the answer to the message has arrived, and when not.
LEMMA LineRead ==
    ASSUME IInv, Buffered, Unclosed, Expecting("LINE") \/ Expecting("HEAD"),
           NEW n \in Nat, LinesRead(n)
    PROVE  LET m == stream[Current]
               arrived == m.due <= 2 * n + ReadAbleSize
           IN  /\ arrived <=> Start(Current) + m.due <= delivered
               /\ Line = <<>> /\ ReadAbleSize <= MaxLine => ~arrived
               /\ Len(Line) > MaxLine \/ (Line = <<>> /\ ReadAbleSize > MaxLine) =>
                     arrived /\ m.last /\ m.answer = OwedError(request.target, 414)
               /\ Line # <<>> /\ Len(Line) <= MaxLine =>
                     \/ /\ Begins(m.text, n + 1)
                        /\ Len(Line) = 2 /\ Line = <<m.text[2 * n + 1], "nl">>
                     \/ HeadersEnd(m, n) /\ Len(Line) = 1 /\ Line = <<"nl">>
                     \/ /\ arrived /\ m.last /\ m.answer = OwedError(request.target, 400)
                        /\ \A h \in Fields(n + 1) : Line # <<h, "nl">>
                        /\ n > 0 => Line # <<"nl">>
  <1> DEFINE m == stream[Current]
             arrived == m.due <= 2 * n + ReadAbleSize
  <1>1. pc = "recv"
    BY DEF Expecting
  <1>2. Current \in DOMAIN stream /\ Meant(m) /\ Start(Current) \in Nat /\ ReadAbleSize \in Nat
        /\ delivered \in Nat /\ m.due \in Nat /\ BufferTypeOK
    BY <1>1, MessageThere DEF IInv
  <1>3. 2 * n \in Nat /\ Taken = 2 * n /\ Begins(m.text, n) /\ request = Headed(m.text, n)
    BY DEF LinesRead
  <1>4. Ahead(m, 2 * n) /\ delivered = Start(Current) + 2 * n + ReadAbleSize
    BY <1>2, <1>3, AheadHolds
  <1>5. arrived <=> Start(Current) + m.due <= delivered
    BY <1>2, <1>4
  <1>6. 2 * n + ReadAbleSize < m.due => ~arrived
    BY <1>2
  <1>7. request.target = Headed(m.text, n).target
    BY <1>3
  <1> HIDE DEF m
  <1>8. /\ Line = <<>> /\ ReadAbleSize <= MaxLine => 2 * n + ReadAbleSize < m.due
        /\ Len(Line) > MaxLine \/ (Line = <<>> /\ ReadAbleSize > MaxLine) =>
              /\ arrived /\ m.last
              /\ m.answer = OwedError(request.target, 414)
        /\ Line # <<>> /\ Len(Line) <= MaxLine =>
              \/ /\ Begins(m.text, n + 1)
                 /\ Len(Line) = 2 /\ Line = <<m.text[2 * n + 1], "nl">>
              \/ HeadersEnd(m, n) /\ Len(Line) = 1 /\ Line = <<"nl">>
              \/ /\ arrived /\ m.last /\ m.answer = OwedError(request.target, 400)
                 /\ \A h \in Fields(n + 1) : Line # <<h, "nl">>
                 /\ n > 0 => Line # <<"nl">>
    BY <1>2, <1>3, <1>4, <1>7, LineAhead
  <1> QED
    BY <1>5, <1>6, <1>8 DEF m

\* OnMessage returns for more of a line only when no answer is due.
LEMMA AwaitLineKeeps ==
    ASSUME IInv, Buffered, Unclosed, ~closing, AwaitLine
    PROVE  Buffered' /\ Unclosed' /\ ~closing'
  <1>0. [Next]_vars
    BY DEF Next, OnMessage
  <1>1. /\ Expecting("LINE") \/ Expecting("HEAD")
        /\ pc = "recv"
        /\ Line = <<>> /\ ReadAbleSize <= MaxLine
        /\ UNCHANGED <<bufferVars, contextVars, stream, delivered, closing, gone, answers>>
    BY DEF AwaitLine, Expecting
  <1>2. PICK n \in Nat : LinesRead(n)
    BY <1>1, BetweenLines
  <1>3. Current \in DOMAIN stream /\ Meant(stream[Current]) /\ Reading(stream[Current], Taken)
        /\ Start(Current) \in Nat /\ delivered \in Nat /\ stream[Current].due \in Nat
    BY <1>1, MessageThere DEF Expecting
  <1>4. ~(Start(Current) + stream[Current].due <= delivered)
    BY <1>1, <1>2, LineRead
  <1>5. ReadAbleSize' = ReadAbleSize /\ Content' = Content /\ Text' = Text
        /\ Consumed' = Consumed /\ Current' = Current /\ Start(Current)' = Start(Current)
        /\ Taken' = Taken
    BY <1>1 DEF bufferVars, ReadAbleSize, Content, Text, Consumed, Current, Start, Taken
  <1>6. Buffered'
    BY <1>5 DEF Buffered
  <1>7. Reading(stream[Current], Taken)'
    BY <1>1, <1>3, <1>5 DEF contextVars, Reading
  <1>8. delivered' < Start(Current) + stream[Current].due /\ pc' # "left"
    BY <1>1, <1>3, <1>4 DEF AwaitLine
  <1>9. Unclosed'
    BY <1>0, <1>1, <1>3, <1>5, <1>7, <1>8, StillUnclosed
  <1> QED
    BY <1>1, <1>6, <1>9

\* The parser has read a line that ends it.
LEMMA RefusalReads ==
    ASSUME IInv, [Next]_vars, Buffered, Unclosed, ~closing, pc = "recv",
           MoveReadOffset(Len(Line)), NEW k \in 0..ReadAbleSize, k = Len(Line),
           UNCHANGED <<request, stream, delivered, pc, closing, answers>>,
           recv' = "ERROR", Consumed \in Nat,
           Start(Current) + stream[Current].due <= delivered, stream[Current].last,
           stream[Current].answer = OwedError(request.target, resp')
    PROVE  Buffered' /\ Unclosed' /\ ~closing'
  <1>1. Current \in DOMAIN stream
    BY MessageThere
  <1>2. Buffered' /\ Consumed' = Consumed + k
    BY ReadTakes
  <1>3. Current' = Current /\ Start(Current)' = Start(Current)
    BY <1>1, <1>2, PlaceMoves
  <1>4. Reading(stream[Current], Taken)'
    BY <1>3 DEF Reading
  <1>5. pc' # "idle" /\ pc' # "left"
    OBVIOUS
  <1>6. Unclosed'
    BY <1>1, <1>3, <1>4, <1>5, StillUnclosed
  <1> QED
    BY <1>2, <1>6

\* A line is too long only in a message that is refused for it.
LEMMA LineTooLongKeeps ==
    ASSUME IInv, Buffered, Unclosed, ~closing, LineTooLong
    PROVE  Buffered' /\ Unclosed' /\ ~closing'
  <1>0. [Next]_vars
    BY DEF Next, OnMessage
  <1>1. /\ Expecting("LINE") \/ Expecting("HEAD")
        /\ pc = "recv"
        /\ Len(Line) > MaxLine \/ (Line = <<>> /\ ReadAbleSize > MaxLine)
        /\ MoveReadOffset(Len(Line)) /\ recv' = "ERROR" /\ resp' = 414
        /\ UNCHANGED <<request, stream, delivered, pc, closing, answers>>
    BY DEF LineTooLong, Expecting
  <1>2. PICK n \in Nat : LinesRead(n)
    BY <1>1, BetweenLines
  <1>3. Len(Line) \in 0..ReadAbleSize
    BY <1>1, LineType DEF MoveReadOffset, IInv
  <1>4. /\ Start(Current) + stream[Current].due <= delivered /\ stream[Current].last
        /\ stream[Current].answer = OwedError(request.target, resp')
    BY <1>1, <1>2, LineRead
  <1>5. Consumed \in Nat
    BY DEF Buffered
  <1> QED
    BY <1>0, <1>1, <1>3, <1>4, <1>5, RefusalReads

\* A request line.
LEMMA RecvHttpLineKeeps ==
    ASSUME IInv, Buffered, Unclosed, ~closing, RecvHttpLine
    PROVE  Buffered' /\ Unclosed' /\ ~closing'
  <1> DEFINE m == stream[Current]
  <1>0. [Next]_vars
    BY DEF Next, OnMessage
  <1>1. /\ Expecting("LINE") /\ pc = "recv" /\ recv = "LINE"
        /\ Line # <<>> /\ Len(Line) <= MaxLine /\ MoveReadOffset(Len(Line))
        /\ UNCHANGED <<stream, delivered, pc, closing, answers>>
    BY DEF RecvHttpLine, Expecting
  <1>2. PICK n \in Nat : LinesRead(n)
    BY <1>1, BetweenLines
  <1>3. n = 0 /\ Taken = 0 /\ request = Headed(m.text, 0) /\ request = NoRequest
    BY <1>1, <1>2 DEF LinesRead, IInv, RequestInv
  <1>4. Len(Line) \in 0..ReadAbleSize /\ Consumed \in Nat
    BY <1>1, LineType DEF MoveReadOffset, IInv, Buffered
  <1>5. Current \in DOMAIN stream /\ Meant(m)
    BY <1>1, MessageThere
  <1>6. CASE Begins(m.text, 0 + 1) /\ Len(Line) = 2 /\ Line = <<m.text[2 * 0 + 1], "nl">>
    <2>1. Begins(m.text, 1) /\ Line = <<m.text[1], "nl">> /\ m.text[1] \in DOMAIN Targets
      <3>1. 0 + 1 = 1 /\ 2 * 0 + 1 = 1 /\ 1 \in 1..1 /\ 2 * 1 - 1 = 1
        OBVIOUS
      <3>2. Begins(m.text, 1)
        BY <1>6, <3>1
      <3>3. m.text[2 * 1 - 1] \in Fields(1)
        BY <3>1, <3>2 DEF Begins
      <3> QED
        BY <1>6, <3>1, <3>2, <3>3 DEF Fields
    <2>2. Head(Line) = m.text[1] /\ \E t \in DOMAIN Targets : Line = <<t, "nl">>
      BY <2>1
    <2>3. recv' = "HEAD" /\ request' = [request EXCEPT !.target = m.text[1]]
      BY <2>2 DEF RecvHttpLine
    <2>4. request' = Headed(m.text, 1)
      BY <1>3, <2>3, HeadedFirst
    <2>5. Buffered' /\ Consumed' = Consumed + 2
      BY <1>1, <1>4, <1>6, ReadTakes
    <2>6. Current' = Current /\ Start(Current)' = Start(Current) /\ Taken' = 2
      BY <1>1, <1>3, <1>4, <1>5, <2>5, PlaceMoves
    <2>7. Reading(m, Taken)'
      <3>1. m' = m /\ Taken' = 2 * 1 /\ 1 \in 1..Len(m.text)
        <4>1. Len(m.text) \in Nat /\ 2 * 1 <= Len(m.text)
          BY <1>5, <2>1, MessageType DEF Begins
        <4> QED
          BY <1>1, <2>6, <4>1
      <3> HIDE DEF m
      <3> QED
        BY <2>1, <2>3, <2>4, <3>1 DEF Reading
    <2>8. Unclosed'
      BY <1>0, <1>1, <1>5, <2>6, <2>7, StillUnclosed
    <2> QED
      BY <1>1, <2>5, <2>8
  <1>7. CASE /\ m.due <= 2 * 0 + ReadAbleSize /\ m.last
             /\ m.answer = OwedError(request.target, 400)
             /\ \A h \in Fields(0 + 1) : Line # <<h, "nl">>
    <2>1. Start(Current) + m.due <= delivered
      BY <1>1, <1>2, <1>3, <1>7, LineRead
    <2>2. ~\E t \in DOMAIN Targets : Line = <<t, "nl">>
      BY <1>7 DEF Fields
    <2>3. recv' = "ERROR" /\ resp' = 400 /\ request' = request
      BY <2>2 DEF RecvHttpLine
    <2> QED
      BY <1>0, <1>1, <1>4, <1>7, <2>1, <2>3, RefusalReads
  <1>8. ~HeadersEnd(m, 0)
    BY DEF HeadersEnd, Served, Unanswerable
  <1>9. \/ Begins(m.text, 0 + 1) /\ Len(Line) = 2 /\ Line = <<m.text[2 * 0 + 1], "nl">>
        \/ HeadersEnd(m, 0) /\ Len(Line) = 1 /\ Line = <<"nl">>
        \/ /\ m.due <= 2 * 0 + ReadAbleSize /\ m.last
           /\ m.answer = OwedError(request.target, 400)
           /\ \A h \in Fields(0 + 1) : Line # <<h, "nl">>
    BY <1>1, <1>2, <1>3, LineRead
  <1> QED
    BY <1>6, <1>7, <1>8, <1>9

\* A header, the end of the headers, or neither.
LEMMA RecvHttpHeadKeeps ==
    ASSUME IInv, Buffered, Unclosed, ~closing, RecvHttpHead
    PROVE  Buffered' /\ Unclosed' /\ ~closing'
  <1> DEFINE m == stream[Current]
  <1>0. [Next]_vars
    BY DEF Next, OnMessage
  <1>1. /\ Expecting("HEAD") /\ pc = "recv" /\ recv = "HEAD"
        /\ Line # <<>> /\ Len(Line) <= MaxLine /\ MoveReadOffset(Len(Line))
        /\ UNCHANGED <<stream, delivered, pc, closing, answers>>
    BY DEF RecvHttpHead, Expecting
  <1>2. PICK n \in Nat : LinesRead(n)
    BY <1>1, BetweenLines
  <1>3. n > 0 /\ Taken = 2 * n /\ Begins(m.text, n) /\ request = Headed(m.text, n)
    BY <1>1, <1>2 DEF LinesRead
  <1>4. Len(Line) \in 0..ReadAbleSize /\ Consumed \in Nat
    BY <1>1, LineType DEF MoveReadOffset, IInv, Buffered
  <1>5. Current \in DOMAIN stream /\ Meant(m) /\ Len(m.text) \in Nat
    BY <1>1, MessageThere, MessageType
  <1>6. Fields(n + 1) = {"keep", "form"} \cup DOMAIN BodyLength
    BY <1>3 DEF Fields
  <1>7. CASE Begins(m.text, n + 1) /\ Len(Line) = 2 /\ Line = <<m.text[2 * n + 1], "nl">>
    <2> DEFINE h == m.text[2 * n + 1]
    <2>1. h \in {"keep", "form"} \cup DOMAIN BodyLength /\ 2 * (n + 1) <= Len(m.text)
      <3>1. n + 1 \in 1..(n + 1) /\ 2 * (n + 1) - 1 = 2 * n + 1
        BY <1>3
      <3>2. m.text[2 * (n + 1) - 1] \in Fields(n + 1)
        BY <1>7, <3>1 DEF Begins
      <3> QED
        BY <1>6, <1>7, <3>1, <3>2 DEF Begins
    <2>2. Headed(m.text, n + 1) = WithHeader(request, h)
      BY <1>3, <2>1, HeadedNext
    <2>3. {"nl", "keep", "form", "none"} \cap DOMAIN BodyLength = {}
      BY HttpAssumption DEF HttpAssumption
    <2> HIDE DEF h
    <2>4. Line = <<h, "nl">> /\ Head(Line) = h /\ Line # <<"nl">> /\ Len(Line) = 2
          /\ \A w : Line = <<w, "nl">> <=> w = h
      BY <1>7 DEF h
    <2>5. recv' = "HEAD" /\ request' = WithHeader(request, h)
      <3>1. CASE h = "keep"
        <4>1. Line = <<"keep", "nl">> /\ Line # <<"nl">>
              /\ ~(Len(Line) = 2 /\ Head(Line) \in DOMAIN BodyLength)
          BY <2>3, <2>4, <3>1
        <4>2. request' = [request EXCEPT !.keep = TRUE] /\ recv' = recv
          BY <4>1 DEF RecvHttpHead
        <4>3. WithHeader(request, h) = [request EXCEPT !.keep = TRUE]
          BY <3>1 DEF WithHeader
        <4> QED
          BY <1>1, <4>2, <4>3
      <3>2. CASE h = "form"
        <4>1. Line = <<"form", "nl">> /\ Line # <<"nl">> /\ Line # <<"keep", "nl">>
              /\ ~(Len(Line) = 2 /\ Head(Line) \in DOMAIN BodyLength)
          BY <2>3, <2>4, <3>2
        <4>2. request' = [request EXCEPT !.form = TRUE] /\ recv' = recv
          BY <4>1 DEF RecvHttpHead
        <4>3. WithHeader(request, h) = [request EXCEPT !.form = TRUE]
          BY <3>2 DEF WithHeader
        <4> QED
          BY <1>1, <4>2, <4>3
      <3>3. CASE h \in DOMAIN BodyLength
        <4>1. h # "keep" /\ h # "form"
          BY <2>3, <3>3
        <4> QED
          BY <1>1, <2>4, <3>3, <4>1 DEF RecvHttpHead, WithHeader
      <3> QED
        BY <2>1, <3>1, <3>2, <3>3
    <2>6. Buffered' /\ Consumed' = Consumed + 2
      BY <1>1, <1>4, <2>4, ReadTakes
    <2>7. Current' = Current /\ Start(Current)' = Start(Current) /\ Taken' = 2 * (n + 1)
      BY <1>1, <1>3, <1>4, <1>5, <2>6, PlaceMoves
    <2>8. Reading(m, Taken)'
      <3>1. m' = m /\ n + 1 \in 1..Len(m.text)
        BY <1>1, <1>5, <2>1, <2>7
      <3> HIDE DEF m
      <3> QED
        BY <1>7, <2>2, <2>5, <2>7, <3>1 DEF Reading
    <2>9. Unclosed'
      BY <1>0, <1>1, <1>5, <2>7, <2>8, StillUnclosed
    <2> QED
      BY <1>1, <2>6, <2>9
  <1>8. CASE HeadersEnd(m, n) /\ Len(Line) = 1 /\ Line = <<"nl">>
    <2>1. recv' = "BODY" /\ request' = request
      BY <1>8 DEF RecvHttpHead
    <2>2. Buffered' /\ Consumed' = Consumed + 1
      BY <1>1, <1>4, <1>8, ReadTakes
    <2>3. Current' = Current /\ Start(Current)' = Start(Current) /\ Taken' = 2 * n + 1
      BY <1>1, <1>3, <1>4, <1>5, <2>2, PlaceMoves
    <2>4. Len(request.body) = 0
          /\ request = [Headed(m.text, n) EXCEPT !.body = SubSeq(m.text, 2 * n + 2, 2 * n + 1)]
      <3> DEFINE k == Has(m.text, n, "keep")
                 f == Has(m.text, n, "form")
                 l == FirstLength(m.text, n)
                 t == IF n = 0 THEN "none" ELSE m.text[1]
      <3>1. SubSeq(m.text, 2 * n + 2, 2 * n + 1) = <<>>
        <4>1. m.text \in Seq(Bytes)
          BY <1>5, MessageType
        <4> QED
          BY <1>3, <4>1
      <3>2. Headed(m.text, n) = Request(t, k, f, l, <<>>, <<>>) /\ Len(<<>>) = 0
        BY HeadedIs
      <3> HIDE DEF k, f, l, t
      <3>3. [Request(t, k, f, l, <<>>, <<>>) EXCEPT !.body = <<>>] = Request(t, k, f, l, <<>>, <<>>)
        BY DEF Request
      <3>4. Request(t, k, f, l, <<>>, <<>>).body = <<>>
        BY DEF Request
      <3> QED
        BY <1>3, <3>1, <3>2, <3>3, <3>4
    <2>5. Reading(m, Taken)'
      <3>1. m' = m /\ n \in 1..Len(m.text) /\ Taken' = 2 * n + 1 + Len(request.body)
        <4>1. 2 * n <= Len(m.text)
          BY <1>3 DEF Begins
        <4> QED
          BY <1>1, <1>3, <1>5, <2>3, <2>4, <4>1
      <3> HIDE DEF m
      <3> QED
        BY <1>8, <2>1, <2>3, <2>4, <3>1 DEF Reading
    <2>6. Unclosed'
      BY <1>0, <1>1, <1>5, <2>3, <2>5, StillUnclosed
    <2> QED
      BY <1>1, <2>2, <2>6
  <1>9. CASE /\ m.due <= 2 * n + ReadAbleSize /\ m.last
             /\ m.answer = OwedError(request.target, 400)
             /\ \A h \in Fields(n + 1) : Line # <<h, "nl">>
             /\ n > 0 => Line # <<"nl">>
    <2>1. Start(Current) + m.due <= delivered
      BY <1>1, <1>2, <1>9, LineRead
    <2>2. Line # <<"nl">> /\ Line # <<"keep", "nl">> /\ Line # <<"form", "nl">>
      BY <1>3, <1>6, <1>9
    <2>3. ~(Len(Line) = 2 /\ Head(Line) \in DOMAIN BodyLength)
      <3> SUFFICES ASSUME Len(Line) = 2, Head(Line) \in DOMAIN BodyLength
                   PROVE  FALSE
        OBVIOUS
      <3>1. NoLine \/ \E k \in 1..ReadAbleSize : LineEnds(k)
        BY LineIs DEF IInv
      <3>2. PICK k \in 1..ReadAbleSize : LineEnds(k)
        BY <1>1, <3>1 DEF NoLine
      <3>3. Line \in Seq(Bytes) /\ Line[2] = "nl"
        <4>1. ReadAbleSize \in Nat /\ k = Len(Line)
          BY <3>2, LineType DEF LineEnds, IInv
        <4>2. k = 2 /\ 2 \in 1..2
          BY <4>1
        <4> QED
          BY <3>2, <4>2 DEF LineEnds
      <3>4. Line = <<Line[1], "nl">>
        BY <3>3, ShortSequences
      <3>5. Head(Line) = Line[1]
        BY <3>4
      <3> QED
        BY <1>6, <1>9, <3>4, <3>5
    <2>4. recv' = "ERROR" /\ resp' = 400 /\ request' = request
      BY <2>2, <2>3 DEF RecvHttpHead
    <2> QED
      BY <1>0, <1>1, <1>4, <1>9, <2>1, <2>4, RefusalReads
  <1>10. \/ Begins(m.text, n + 1) /\ Len(Line) = 2 /\ Line = <<m.text[2 * n + 1], "nl">>
         \/ HeadersEnd(m, n) /\ Len(Line) = 1 /\ Line = <<"nl">>
         \/ /\ m.due <= 2 * n + ReadAbleSize /\ m.last
            /\ m.answer = OwedError(request.target, 400)
            /\ \A h \in Fields(n + 1) : Line # <<h, "nl">>
            /\ n > 0 => Line # <<"nl">>
    BY <1>1, <1>2, LineRead
  <1> QED
    BY <1>7, <1>8, <1>9, <1>10

\* What a body has so far is a stretch of the message.
LEMMA BodySoFar ==
    ASSUME NEW text \in Seq(Bytes), NEW first \in Nat \ {0}, NEW last \in Nat, last >= first - 1,
           NEW piece \in Seq(Bytes), last + Len(piece) <= Len(text),
           \A j \in 1..Len(piece) : piece[j] = text[last + j]
    PROVE  /\ SubSeq(text, first, last) \in Seq(Bytes)
           /\ SubSeq(text, first, last) \o piece = SubSeq(text, first, last + Len(piece))
  <1> DEFINE n == Len(piece)
             b == SubSeq(text, first, last)
             c == SubSeq(text, first, last + n)
  <1>0. n \in Nat
    BY LenProperties
  <1> HIDE DEF n
  <1>1. Len(text) \in Nat /\ \A j \in 1..Len(text) : text[j] \in Bytes
    BY LenProperties, ElementOfSeq
  <1>2. \A k \in Nat : k <= Len(text) => \A j \in first..k : text[j] \in Bytes
    BY <1>1
  <1>3. /\ b \in Seq(Bytes) /\ Len(b) = last - first + 1
        /\ \A j \in 1..Len(b) : b[j] = text[first + j - 1]
    BY <1>0, <1>1, <1>2, SubSeqProperties DEF n
  <1>4. /\ c \in Seq(Bytes) /\ Len(c) = last + n - first + 1
        /\ \A j \in 1..Len(c) : c[j] = text[first + j - 1]
    BY <1>0, <1>1, <1>2, SubSeqProperties DEF n
  <1> HIDE DEF b, c
  <1>5. Len(c) = Len(b) + Len(piece)
    <2>1. Len(b) = last - first + 1 /\ Len(c) = last + n - first + 1 /\ n = Len(piece)
      BY <1>3, <1>4 DEF n
    <2> QED
      BY <1>0, <2>1
  <1>6. \A j \in 1..Len(b) : c[j] = b[j]
    <2>1. \A j \in 1..Len(b) : j \in 1..Len(c)
      BY <1>0, <1>3, <1>5 DEF n
    <2> QED
      BY <1>3, <1>4, <2>1
  <1>7. \A j \in 1..Len(piece) : c[Len(b) + j] = piece[j]
    <2> TAKE j \in 1..Len(piece)
    <2>1. Len(b) + j \in 1..Len(c) /\ first + (Len(b) + j) - 1 = last + j
      BY <1>0, <1>3, <1>5 DEF n
    <2> QED
      BY <1>4, <2>1
  <1>8. c = b \o piece
    BY <1>3, <1>4, <1>5, <1>6, <1>7, Concatenation
  <1> QED
    BY <1>3, <1>8 DEF b, c, n

\* A body does not change what length was announced for it.
LEMMA LengthOfHead ==
    ASSUME NEW text, NEW n, NEW body, NEW req, req = [Headed(text, n) EXCEPT !.body = body]
    PROVE  LengthThrows(req) <=> LengthThrows(Headed(text, n))
  <1> DEFINE l == FirstLength(text, n)
             t == IF n = 0 THEN "none" ELSE text[1]
             k == Has(text, n, "keep")
             f == Has(text, n, "form")
  <1>1. Headed(text, n) = Request(t, k, f, l, <<>>, <<>>)
    BY HeadedIs
  <1> HIDE DEF l, t, k, f
  <1>2. [Request(t, k, f, l, <<>>, <<>>) EXCEPT !.body = body] = Request(t, k, f, l, body, <<>>)
    BY DEF Request
  <1>3. req = Request(t, k, f, l, body, <<>>)
    BY <1>1, <1>2
  <1>4. req.length = l /\ Headed(text, n).length = l
    BY <1>1, <1>3 DEF Request
  <1> QED
    BY <1>4 DEF LengthThrows

\* An exception leaves the callback when the headers end with a length that
\* is none: all that is needed to know that has arrived.
LEMMA LeaveByExceptionKeeps ==
    ASSUME IInv, Buffered, Unclosed, ~closing, LeaveByException
    PROVE  Unclosed' /\ ~closing'
  <1> DEFINE m == stream[Current]
  <1>0. [Next]_vars
    BY DEF Next, OnMessage
  <1>1. /\ pc = "recv" /\ recv = "BODY" /\ pc' = "left" /\ LengthThrows(request)
        /\ UNCHANGED <<bufferVars, contextVars, stream, delivered, closing, gone, answers>>
    BY DEF LeaveByException, Expecting
  <1>2. /\ Current \in DOMAIN stream /\ Meant(m) /\ Reading(m, Taken)
        /\ Start(Current) \in Nat /\ ReadAbleSize \in Nat /\ delivered \in Nat
    BY <1>1, MessageThere
  <1>3. PICK n \in 1..Len(m.text) :
            /\ HeadersEnd(m, n) /\ Taken = 2 * n + 1 + Len(request.body)
            /\ request = [Headed(m.text, n) EXCEPT !.body = SubSeq(m.text, 2 * n + 2, Taken)]
    BY <1>1, <1>2 DEF Reading
  <1>4. LengthThrows(Headed(m.text, n))
    <2> HIDE DEF m
    <2> QED
      BY <1>1, <1>3, LengthOfHead
  <1>5. Unanswerable(m, n)
    BY <1>3, <1>4 DEF HeadersEnd, Served
  <1>6. Len(request.body) = 0
    BY <1>1, EmptySeq DEF IInv, RequestInv
  <1>7. Taken = m.due /\ m.due \in Nat /\ Taken <= Len(m.text) /\ m.answer = NoAnswer
    BY <1>2, <1>3, <1>5, <1>6, MessageType DEF Unanswerable
  <1>8. delivered = Start(Current) + Taken + ReadAbleSize
    BY <1>2, <1>7, AheadHolds
  <1>9. Start(Current) + m.due <= delivered
    BY <1>2, <1>7, <1>8
  <1>10. /\ Consumed' = Consumed /\ Current' = Current /\ Start(Current)' = Start(Current)
         /\ Taken' = Taken
    BY <1>1 DEF bufferVars, ReadAbleSize, Consumed, Current, Start, Taken
  <1>11. Reading(m, Taken)'
    BY <1>1, <1>2, <1>10 DEF contextVars, Reading
  <1>12. LeftAt(m)'
    BY <1>1, <1>7, <1>9, <1>10 DEF LeftAt
  <1> QED
    BY <1>0, <1>1, <1>2, <1>10, <1>11, <1>12, StillUnclosed

\* More of the body, or the rest of it.
LEMMA RecvHttpBodyKeeps ==
    ASSUME IInv, Buffered, Unclosed, ~closing, RecvHttpBody
    PROVE  Buffered' /\ Unclosed' /\ ~closing'
  <1> DEFINE m == stream[Current]
             lacks == ContentLength(request) - Len(request.body)
             n == IF ReadAbleSize < lacks THEN ReadAbleSize ELSE lacks
             piece == SubSeq(Content, 1, n)
             body == request.body \o piece
             files == IF n = lacks /\ request.form THEN ParseMultipartBody[body] ELSE request.files
  <1>0. [Next]_vars
    BY DEF Next, OnMessage
  <1>1. /\ pc = "recv" /\ recv = "BODY" /\ resp = resp'
        /\ MoveReadOffset(n) /\ request' = [request EXCEPT !.body = body, !.files = files]
        /\ \/ n = lacks /\ recv' = "OVER" /\ pc' = pc
           \/ n # lacks /\ recv' = recv /\ pc' = "idle"
        /\ stream' = stream /\ delivered' = delivered /\ closing' = closing /\ answers' = answers
    BY DEF RecvHttpBody, Expecting
  <1>2. /\ Current \in DOMAIN stream /\ Meant(m) /\ Reading(m, Taken)
        /\ Start(Current) \in Nat /\ ReadAbleSize \in Nat /\ Consumed \in Nat
    BY <1>1, MessageThere DEF Buffered
  <1>3. m.text \in Seq(Bytes) /\ Len(m.text) \in Nat
    BY <1>2, MessageType
  <1>4. PICK N :
            /\ N \in 1..Len(m.text)
            /\ Served(m, N) /\ Taken = 2 * N + 1 + Len(request.body)
            /\ request = [Headed(m.text, N) EXCEPT !.body = SubSeq(m.text, 2 * N + 2, Taken)]
    <2>1. PICK N :
              /\ N \in 1..Len(m.text)
              /\ HeadersEnd(m, N) /\ Taken = 2 * N + 1 + Len(request.body)
              /\ request = [Headed(m.text, N) EXCEPT !.body = SubSeq(m.text, 2 * N + 2, Taken)]
      BY <1>1, <1>2 DEF Reading
    <2>2. ~LengthThrows(Headed(m.text, N))
      <3>1. ~LengthThrows(request)
        BY DEF RecvHttpBody
      <3>2. request = [Headed(m.text, N) EXCEPT !.body = SubSeq(m.text, 2 * N + 2, Taken)]
        BY <2>1
      <3> HIDE DEF m
      <3> QED
        BY <3>1, <3>2, LengthOfHead
    <2>3. Served(m, N)
      BY <2>1, <2>2 DEF HeadersEnd, Unanswerable
    <2> QED
      BY <2>1, <2>3
  <1> DEFINE head == Headed(m.text, N)
             t == IF N = 0 THEN "none" ELSE m.text[1]
             k == Has(m.text, N, "keep")
             f == Has(m.text, N, "form")
             l == FirstLength(m.text, N)
             had == SubSeq(m.text, 2 * N + 2, Taken)
  <1>5. head = Request(t, k, f, l, <<>>, <<>>) /\ ContentLength(head) \in Nat
    BY <1>4, HeadedIs, HeadedType DEF Served
  <1>6. m.due = Len(m.text) /\ Len(m.text) = 2 * N + 1 + ContentLength(head) /\ N \in Nat
    BY <1>3, <1>4 DEF Served
  <1> HIDE DEF t, k, f, l, had
  <1>7. request = Request(t, k, f, l, had, <<>>) /\ Taken = 2 * N + 1 + Len(request.body)
    <2>1. [Request(t, k, f, l, <<>>, <<>>) EXCEPT !.body = had] = Request(t, k, f, l, had, <<>>)
      BY DEF Request
    <2> QED
      BY <1>4, <1>5, <2>1 DEF had
  <1>8. request.body = had /\ request.files = <<>> /\ ContentLength(request) = ContentLength(head)
    <2>1. head.length = l /\ request.length = l /\ request.body = had /\ request.files = <<>>
      <3> HIDE DEF head
      <3> QED
        BY <1>5, <1>7 DEF Request
    <2> QED
      BY <2>1 DEF ContentLength
  <1>9. Len(request.body) \in Nat /\ Len(request.body) <= ContentLength(request)
    BY LenProperties DEF IInv, Requests, RequestInv, RecvHttpBody
  <1>10. lacks \in Nat /\ Taken \in Nat /\ Taken + lacks = Len(m.text)
    <2> DEFINE all == ContentLength(head)
               len == Len(request.body)
               place == Taken
               end == Len(m.text)
    <2>1. /\ all \in Nat /\ len \in Nat /\ N \in Nat /\ len <= all /\ lacks = all - len
          /\ place = 2 * N + 1 + len /\ end = 2 * N + 1 + all
      BY <1>5, <1>6, <1>7, <1>8, <1>9
    <2> HIDE DEF all, len, place, end, lacks
    <2>2. lacks \in Nat /\ place \in Nat /\ place + lacks = end
      BY <2>1
    <2> QED
      BY <2>2 DEF place, end
  <1> HIDE DEF lacks
  <1>11. n \in 0..ReadAbleSize /\ n \in Nat /\ n <= lacks /\ (n # lacks => n = ReadAbleSize /\ n < lacks)
    BY <1>2, <1>10
  <1>12. Ahead(m, Taken) /\ delivered = Start(Current) + Taken + ReadAbleSize
    BY <1>2, <1>10, AheadHolds
  <1> HIDE DEF n, m
  <1>13. /\ piece \in Seq(Bytes) /\ Len(piece) = n
         /\ \A j \in 1..n : piece[j] = m.text[Taken + j]
    <2>1. Content \in Seq(Bytes) /\ Len(Content) = ReadAbleSize
      BY LineType DEF IInv
    <2>2. piece \in Seq(Bytes) /\ Len(piece) = n /\ \A j \in 1..n : piece[j] = Content[j]
      BY <1>2, <1>11, <2>1
    <2>3. \A j \in 1..n : j \in 1..ReadAbleSize /\ Taken + j <= Len(m.text)
      BY <1>2, <1>3, <1>10, <1>11
    <2> QED
      BY <1>12, <2>2, <2>3 DEF Ahead
  <1> HIDE DEF piece
  <1>14. body = SubSeq(m.text, 2 * N + 2, Taken + n) /\ Len(body) = Len(request.body) + n
    <2> DEFINE text == m.text
               first == 2 * N + 2
               place == Taken
               len == Len(request.body)
    <2>1. place = 2 * N + 1 + len /\ len \in Nat /\ N \in Nat
      BY <1>6, <1>7, <1>9
    <2>2. /\ text \in Seq(Bytes) /\ place \in Nat /\ place + lacks = Len(text)
          /\ had = SubSeq(text, first, place)
          /\ \A j \in 1..n : piece[j] = text[place + j]
      BY <1>3, <1>10, <1>13 DEF had
    <2> HIDE DEF text, place, len
    <2>3. first \in Nat \ {0} /\ place >= first - 1 /\ place + n <= Len(text)
      BY <1>10, <1>11, <2>1, <2>2
    <2> HIDE DEF first
    <2>4. had \in Seq(Bytes) /\ had \o piece = SubSeq(text, first, place + n)
      BY <1>13, <2>2, <2>3, BodySoFar
    <2>5. had \in Seq(Bytes) /\ had \o piece = SubSeq(m.text, 2 * N + 2, Taken + n)
      BY <2>4 DEF text, first, place
    <2> QED
      BY <1>8, <1>9, <1>11, <1>13, <2>5, ConcatProperties
  <1> HIDE DEF body
  <1>15. request' = Request(t, k, f, l, body, files)
    <2> HIDE DEF files
    <2>1. [Request(t, k, f, l, had, <<>>) EXCEPT !.body = body] = Request(t, k, f, l, body, <<>>)
      BY DEF Request
    <2>2. [Request(t, k, f, l, body, <<>>) EXCEPT !.files = files] = Request(t, k, f, l, body, files)
      BY DEF Request
    <2>3. [request EXCEPT !.body = body, !.files = files] = [[request EXCEPT !.body = body] EXCEPT !.files = files]
      OBVIOUS
    <2> QED
      BY <1>1, <1>7, <2>1, <2>2, <2>3
  <1>16. Buffered' /\ Consumed' = Consumed + n
    BY <1>1, <1>11, ReadTakes
  <1>17. Current' = Current /\ Start(Current)' = Start(Current) /\ Taken' = Taken + n /\ m' = m
    BY <1>1, <1>2, <1>11, <1>16, PlaceMoves DEF m
  <1>18. CASE n = lacks
    <2>1. recv' = "OVER" /\ pc' = "recv"
      BY <1>1, <1>18
    <2>2. Taken' = Len(m.text) /\ body = SubSeq(m.text, 2 * N + 2, Len(m.text))
      BY <1>10, <1>14, <1>17, <1>18
    <2>3. files = IF head.form THEN ParseMultipartBody[body] ELSE <<>>
      <3>1. request.form = head.form
        BY <1>5, <1>7 DEF Request
      <3> QED
        BY <1>8, <1>18, <3>1
    <2> HIDE DEF files
    <2>4. request' = [head EXCEPT !.body = body, !.files = files]
      <3> HIDE DEF head
      <3>1. [Request(t, k, f, l, <<>>, <<>>) EXCEPT !.body = body] = Request(t, k, f, l, body, <<>>)
        BY DEF Request
      <3>2. [Request(t, k, f, l, body, <<>>) EXCEPT !.files = files] = Request(t, k, f, l, body, files)
        BY DEF Request
      <3>3. [head EXCEPT !.body = body, !.files = files] = [[head EXCEPT !.body = body] EXCEPT !.files = files]
        OBVIOUS
      <3> QED
        BY <1>5, <1>15, <3>1, <3>2, <3>3
    <2>5. m.answer = Owed(request'.target, Input(request')) /\ m.last = ~request'.keep
      <3> DEFINE whole == SubSeq(m.text, 2 * N + 2, Len(m.text))
                 req == [head EXCEPT !.body = whole,
                            !.files = IF head.form THEN ParseMultipartBody[whole] ELSE <<>>]
      <3>1. m.answer = Owed(req.target, Input(req)) /\ m.last = ~req.keep
        BY <1>4 DEF Served
      <3>2. whole = body
        BY <2>2
      <3> HIDE DEF whole, head
      <3>3. request' = req
        BY <2>3, <2>4, <3>2
      <3> HIDE DEF req
      <3> QED
        BY <3>1, <3>3
    <2>6. Reading(m, Taken)'
      BY <1>6, <1>17, <2>1, <2>2, <2>5 DEF Reading
    <2>7. Unclosed'
      <3>1. pc' # "idle" /\ pc' # "left"
        BY <2>1
      <3> QED
        BY <1>0, <1>1, <1>2, <1>17, <2>6, <3>1, StillUnclosed DEF m
    <2> QED
      BY <1>1, <1>16, <2>7
  <1>19. CASE n # lacks
    <2>1. recv' = "BODY" /\ files = <<>> /\ n = ReadAbleSize /\ n < lacks
      BY <1>1, <1>8, <1>11, <1>19
    <2>2. request' = [head EXCEPT !.body = body]
      <3>1. request' = Request(t, k, f, l, body, <<>>)
        BY <1>15, <2>1
      <3> QED
        <4>1. [Request(t, k, f, l, <<>>, <<>>) EXCEPT !.body = body] = Request(t, k, f, l, body, <<>>)
          BY DEF Request
        <4> QED
          BY <1>5, <3>1, <4>1
    <2>3. request'.body = body
      BY <1>15 DEF Request
    <2>4. Taken' = 2 * N + 1 + Len(request'.body)
      <3> DEFINE place == Taken
                 place2 == Taken'
                 len == Len(request.body)
                 len2 == Len(body)
      <3>1. place = 2 * N + 1 + len /\ len \in Nat /\ N \in Nat /\ place2 = place + n /\ len2 = len + n
        BY <1>6, <1>7, <1>9, <1>14, <1>17
      <3> HIDE DEF place, place2, len, len2
      <3>2. place2 = 2 * N + 1 + len2
        BY <1>11, <3>1
      <3> QED
        BY <2>3, <3>2 DEF place2, len2
    <2>5. Reading(m, Taken)'
      BY <1>4, <1>14, <1>17, <2>1, <2>2, <2>4 DEF Reading, HeadersEnd
    <2>6. delivered' < Start(Current) + m.due /\ pc' # "left"
      BY <1>1, <1>2, <1>3, <1>6, <1>10, <1>12, <1>19, <2>1
    <2>7. Unclosed'
      BY <1>0, <1>1, <1>2, <1>17, <2>5, <2>6, StillUnclosed DEF m
    <2> QED
      BY <1>1, <1>16, <2>7
  <1> QED
    BY <1>18, <1>19

\* What is buffered is the text from where the parser stands, whatever happens.
LEMMA BufferedKept ==
    ASSUME IInv, Buffered, [Next]_vars
    PROVE  Buffered'
  <1>1. ReadAbleSize \in Nat /\ Len(Line) \in Nat
    BY LineType DEF IInv
  <1>2. ASSUME NEW n \in 1..(Len(Text) - delivered), HandleRead(n)
        PROVE  Buffered'
    BY <1>2, ReadAdds
  <1>3. ASSUME NEW n \in Nat, MoveReadOffset(n), stream' = stream, delivered' = delivered
        PROVE  Buffered'
    <2>1. n \in 0..ReadAbleSize
      BY <1>1, <1>3 DEF MoveReadOffset
    <2> QED
      BY <1>3, <2>1, ReadTakes
  <1>4. ASSUME UNCHANGED <<bufferVars, stream, delivered>>
        PROVE  Buffered'
    <2>1. ReadAbleSize' = ReadAbleSize /\ Content' = Content /\ Text' = Text /\ Consumed' = Consumed
      BY <1>4 DEF bufferVars, ReadAbleSize, Content, Text, Consumed
    <2> QED
      BY <2>1 DEF Buffered
  <1>5. ASSUME RecvHttpBody
        PROVE  Buffered'
    <2> DEFINE lacks == ContentLength(request) - Len(request.body)
               n == IF ReadAbleSize < lacks THEN ReadAbleSize ELSE lacks
    <2>1. MoveReadOffset(n) /\ stream' = stream /\ delivered' = delivered /\ ~LengthThrows(request)
      BY <1>5 DEF RecvHttpBody
    <2>2. Len(request.body) \in Nat /\ ContentLength(request) \in Nat
          /\ Len(request.body) <= ContentLength(request)
      BY <2>1, LengthType, LenProperties DEF IInv, Requests, RequestInv
    <2>3. n \in Nat
      BY <1>1, <2>2
    <2> HIDE DEF n
    <2> QED
      BY <1>3, <2>1, <2>3
  <1>6. ASSUME LineTooLong \/ RecvHttpLine \/ RecvHttpHead
        PROVE  Buffered'
    <2>1. MoveReadOffset(Len(Line)) /\ stream' = stream /\ delivered' = delivered
      BY <1>6 DEF LineTooLong, RecvHttpLine, RecvHttpHead
    <2> QED
      BY <1>1, <1>3, <2>1
  <1>7. ASSUME Refuse
        PROVE  Buffered'
    BY <1>1, <1>3, <1>7 DEF Refuse
  <1>8. ASSUME AwaitLine \/ LeaveByException \/ HandleClose \/ Respond \/ UNCHANGED vars
        PROVE  Buffered'
    BY <1>4, <1>8 DEF AwaitLine, LeaveByException, HandleClose, Respond, vars
  <1> QED
    BY <1>2, <1>5, <1>6, <1>7, <1>8 DEF Next, OnMessage

\* Without a current message there is nothing in the buffer, nor to come.
LEMMA NothingLeft ==
    ASSUME IInv, Unclosed, Current \notin DOMAIN stream
    PROVE  ReadAbleSize = 0 /\ delivered = Len(Text)
  <1>1. Consumed = Len(Text)
    BY DEF Unclosed
  <1>2. ReadAbleSize \in Nat /\ Len(Text) \in Nat /\ delivered \in 0..Len(Text)
    BY LineType, TextType DEF IInv
  <1> QED
    BY <1>1, <1>2 DEF Consumed

\* A read brings bytes of the current message, or of later ones.
LEMMA HandleReadKeeps ==
    ASSUME IInv, Buffered, Unclosed, ~closing,
           NEW n \in 1..(Len(Text) - delivered), HandleRead(n)
    PROVE  Unclosed' /\ ~closing'
  <1>0. [Next]_vars
    BY DEF Next
  <1>1. /\ pc' = "recv" /\ closing' = closing /\ stream' = stream /\ answers' = answers
        /\ UNCHANGED contextVars
    BY DEF HandleRead
  <1>2. Consumed \in Nat
    BY DEF Buffered
  <1>3. Consumed' = Consumed + 0
    BY <1>2, ReadAdds
  <1>4. Len(Text) \in Nat /\ delivered \in 0..Len(Text)
    BY TextType DEF IInv
  <1>5. Current \in DOMAIN stream
    <2>1. delivered # Len(Text)
      BY <1>4
    <2> QED
      BY <2>1, NothingLeft
  <1>6. Current' = Current /\ Start(Current)' = Start(Current) /\ Taken' = Taken + 0
    BY <1>1, <1>2, <1>3, <1>5, PlaceMoves
  <1>7. Reading(stream[Current], Taken) /\ Meant(stream[Current]) /\ Start(Current) \in Nat
    <2>1. Current \in 1..(Len(stream) + 1) /\ Meant(stream[Current])
      BY <1>5, StreamType DEF IInv
    <2> QED
      BY <1>5, <2>1, StreamLayout DEF Unclosed, Taken, IInv
  <1>8. Taken' = Taken
    BY <1>2, <1>6, <1>7 DEF Taken
  <1>9. delivered' \in Nat /\ delivered <= delivered'
    BY <1>0, OnlyForward
  <1>10. Reading(stream[Current], Taken)'
    <2>1. Reading(stream[Current], Taken')
      BY <1>7, <1>8
    <2>2. CASE recv # "ERROR"
      <3>1. recv \in {"LINE", "HEAD", "BODY", "OVER"}
        BY <2>2 DEF IInv
      <3> QED
        BY <1>1, <1>6, <2>1, <3>1 DEF Reading, contextVars
    <2>3. CASE recv = "ERROR"
      <3>1. stream[Current].due \in Nat /\ Start(Current) + stream[Current].due <= delivered
        BY <1>7, <2>3, MessageType DEF Reading
      <3>2. Start(Current) + stream[Current].due <= delivered'
        BY <1>4, <1>7, <1>9, <3>1
      <3> QED
        BY <1>1, <1>6, <2>1, <2>3, <3>2 DEF Reading, contextVars
    <2> QED
      BY <2>2, <2>3
  <1>11. Unclosed'
    BY <1>0, <1>1, <1>5, <1>6, <1>10, StillUnclosed
  <1> QED
    BY <1>1, <1>11

\* Neither HandleClose nor a stuttering step touches what the server has.
LEMMA HandleCloseKeeps ==
    ASSUME IInv, Unclosed, ~closing, HandleClose \/ UNCHANGED vars
    PROVE  Unclosed' /\ ~closing'
  <1>0. [Next]_vars
    BY DEF Next
  <1>1. UNCHANGED <<bufferVars, contextVars, stream, delivered, closing, answers>>
    BY DEF HandleClose, vars
  <1>2. /\ pc' = "idle" => pc = "idle"
        /\ pc' = "left" => pc = "left"
    BY DEF HandleClose, vars
  <1>3. /\ ReadAbleSize' = ReadAbleSize /\ Text' = Text /\ Consumed' = Consumed
        /\ Current' = Current /\ Start(Current)' = Start(Current) /\ Taken' = Taken
    BY <1>1 DEF bufferVars, ReadAbleSize, Text, Consumed, Current, Start, Taken
  <1>4. CASE Current \in DOMAIN stream
    <2>1. Reading(stream[Current], Taken)
          /\ (pc = "idle" => delivered < Start(Current) + stream[Current].due)
          /\ (pc = "left" => LeftAt(stream[Current]))
      BY <1>4 DEF Unclosed, Taken
    <2>2. Reading(stream[Current], Taken)'
      BY <1>1, <1>3, <2>1 DEF contextVars, Reading
    <2>3. pc' = "idle" => delivered' < Start(Current) + stream[Current].due
      BY <1>1, <1>2, <2>1
    <2>4. pc' = "left" => LeftAt(stream[Current])'
      BY <1>1, <1>2, <1>3, <2>1 DEF LeftAt
    <2> QED
      BY <1>0, <1>1, <1>3, <1>4, <2>2, <2>3, <2>4, StillUnclosed
  <1>5. CASE Current \notin DOMAIN stream
    <2>1. Consumed = Len(Text) /\ recv = "LINE" /\ pc = "idle" /\ Len(answers) = Len(stream)
      BY <1>5 DEF Unclosed
    <2>2. pc' = "idle"
      <3>1. ~(ReadAbleSize > 0)
        BY <1>5, NothingLeft
      <3> QED
        BY <2>1, <3>1 DEF HandleClose, vars
    <2>3. stream' = stream /\ delivered' \in Nat /\ delivered <= delivered'
      BY <1>0, OnlyForward
    <2>4. \A i \in DOMAIN answers : Answered(i)' /\ ~stream'[i].last
      BY <1>1, <2>3, AnsweredStays DEF Unclosed
    <2> QED
      BY <1>1, <1>3, <1>5, <2>1, <2>2, <2>4 DEF Unclosed, contextVars
  <1> QED
    BY <1>1, <1>4, <1>5

\* The answer to the current message is one more that is due.
LEMMA NextAnswered ==
    ASSUME IInv, Unclosed, Current \in DOMAIN stream,
           Start(Current) + stream[Current].due <= delivered,
           stream' = stream, delivered' = delivered,
           stream[Current].answer \in Replies,
           answers' = Append(answers, stream[Current].answer)
    PROVE  /\ DOMAIN answers' = 1..Current /\ Len(answers') = Current /\ Current' = Current + 1
           /\ \A i \in 1..Current : Answered(i)'
           /\ \A i \in 1..(Current - 1) : ~stream[i].last
           /\ stream[Current].last => Closed'
  <1>0. PICK c : c = Current
    OBVIOUS
  <1> DEFINE a == stream[c].answer
  <1>1. answers \in Seq(Replies) /\ Len(answers) \in Nat /\ DOMAIN answers = 1..Len(answers)
    BY LenProperties DEF IInv
  <1>2. c = Len(answers) + 1 /\ c \in Nat
    BY <1>0, <1>1 DEF Current
  <1>3. /\ answers' \in Seq(Replies) /\ Len(answers') = Len(answers) + 1
        /\ answers'[Len(answers) + 1] = a /\ DOMAIN answers' = 1..Len(answers')
    BY <1>0, <1>1, AppendProperties, LenProperties
  <1>4. \A i \in DOMAIN answers : Answered(i) /\ ~stream[i].last
    BY DEF Unclosed
  <1>5. delivered' \in Nat /\ delivered <= delivered'
    BY TextType DEF IInv
  <1>6. Known \subseteq Known' /\ \A i \in DOMAIN answers : Answered(i)'
    BY <1>4, <1>5, AnsweredStays
  <1>7. Current' = Len(answers') + 1
    BY DEF Current
  <1>8. c \in Known
    <2>1. \A k \in 1..(c - 1) : k \in DOMAIN answers
      BY <1>1, <1>2
    <2> QED
      BY <1>0, <1>4, <2>1 DEF Known
  <1>9. Answered(c)'
    <2>1. answers'[c] = stream'[c].answer
      BY <1>2, <1>3
    <2> QED
      BY <1>6, <1>8, <2>1 DEF Answered
  <1>10. \A i \in 1..c : Answered(i)'
    <2>1. \A i \in 1..c : i = c \/ i \in DOMAIN answers
      BY <1>1, <1>2
    <2> QED
      BY <1>6, <1>9, <2>1
  <1>11. DOMAIN answers' = 1..c /\ Len(answers') = c /\ Current' = c + 1 /\ c \in 1..c
    BY <1>1, <1>2, <1>3, <1>7
  <1>12. \A i \in 1..(c - 1) : ~stream[i].last
    <2>1. \A i \in 1..(c - 1) : i \in DOMAIN answers
      BY <1>1, <1>2
    <2> QED
      BY <1>4, <2>1
  <1>13. stream[c].last => Closed'
    BY <1>10, <1>11 DEF Closed
  <1> QED
    BY <1>10, <1>11, <1>12, <1>13, <1>0

\* A refused message closes the connection, with the answer it is owed.
LEMMA RefuseCloses ==
    ASSUME IInv, Unclosed, Refuse
    PROVE  Closed' /\ closing'
  <1> DEFINE m == stream[Current]
  <1>1. pc = "recv" /\ resp >= 400 /\ closing' /\ stream' = stream /\ delivered' = delivered
    BY DEF Refuse
  <1>2. recv = "ERROR"
    BY <1>1 DEF IInv
  <1>3. Current \in DOMAIN stream /\ Reading(m, Taken)
    BY <1>1, MessageThere
  <1>4. Start(Current) + m.due <= delivered /\ m.answer = OwedError(request.target, resp) /\ m.last
    BY <1>2, <1>3 DEF Reading
  <1>5. m.answer \in Replies /\ answers' = Append(answers, m.answer)
    BY <1>4, RefuseAnswers
  <1>6. Closed'
    BY <1>1, <1>3, <1>4, <1>5, NextAnswered
  <1> QED
    BY <1>1, <1>6

\* A complete request is answered with what it is owed.  The next message
\* begins where the parser stands, and is waited for when there is nothing
\* of it.
LEMMA RespondKeeps ==
    ASSUME IInv, Buffered, Unclosed, ~closing, Respond
    PROVE  IF closing' THEN Closed' ELSE Unclosed'
  <1> DEFINE m == stream[Current]
  <1>1. /\ pc = "recv" /\ recv = "OVER" /\ stream' = stream /\ delivered' = delivered
        /\ recv' = "LINE" /\ closing' = ~request.keep
        /\ pc' = IF ReadAbleSize > 0 THEN "recv" ELSE "idle"
        /\ UNCHANGED bufferVars
    BY DEF Respond, Expecting, ReSet
  <1>2. /\ Current \in DOMAIN stream /\ Meant(m) /\ Reading(m, Taken)
        /\ Start(Current) \in Nat /\ ReadAbleSize \in Nat /\ delivered \in Nat
    BY <1>1, MessageThere
  <1>3. /\ Taken = Len(m.text) /\ m.due = Len(m.text) /\ m.last = ~request.keep
        /\ m.answer = Owed(request.target, Input(request))
    BY <1>1, <1>2 DEF Reading
  <1>4. Len(m.text) \in Nat
    BY <1>2, MessageType
  <1>5. delivered = Start(Current) + m.due + ReadAbleSize
    BY <1>2, <1>3, <1>4, AheadHolds
  <1>6. Start(Current) + m.due <= delivered
    BY <1>2, <1>3, <1>4, <1>5
  <1>7. m.answer \in Replies /\ answers' = Append(answers, m.answer)
    BY <1>3, RespondAnswers
  <1>8. /\ DOMAIN answers' = 1..Current /\ Len(answers') = Current /\ Current' = Current + 1
        /\ \A i \in 1..Current : Answered(i)'
        /\ \A i \in 1..(Current - 1) : ~stream[i].last
        /\ m.last => Closed'
    BY <1>1, <1>2, <1>6, <1>7, NextAnswered
  <1>9. CASE ~request.keep
    BY <1>1, <1>3, <1>8, <1>9
  <1>10. CASE request.keep
    <2>1. closing' = FALSE /\ ~m.last
      BY <1>1, <1>3, <1>10
    <2>2. PICK c : c = Current
      OBVIOUS
    <2> DEFINE N == Len(stream)
    <2>3. N \in Nat /\ DOMAIN stream = 1..N /\ c \in 1..N /\ \A i \in 1..N : Meant(stream[i])
      BY <1>2, <2>2, StreamType DEF IInv
    <2>4. /\ Start(c + 1) = Start(c) + Len(stream[c].text) /\ Start(N + 1) = Len(Text)
          /\ Len(Text) \in Nat
      BY <2>3, StreamLayout DEF IInv
    <2>5. ReadAbleSize' = ReadAbleSize /\ Consumed' = Consumed /\ Text' = Text
          /\ \A i : Start(i)' = Start(i)
      BY <1>1 DEF bufferVars, ReadAbleSize, Consumed, Text, Start
    <2>6. Consumed = Start(c + 1) /\ delivered = Consumed + ReadAbleSize /\ Consumed \in Nat
      <3>1. Consumed = delivered - ReadAbleSize /\ Start(c) \in Nat
        BY <1>2, <2>2 DEF Consumed
      <3>2. delivered = Start(c) + Len(stream[c].text) + ReadAbleSize
        BY <1>3, <1>5, <2>2
      <3> QED
        BY <1>2, <1>4, <2>2, <2>4, <3>1, <3>2
    <2>7. \A i \in DOMAIN answers' : Answered(i)' /\ ~stream'[i].last
      <3> TAKE i \in DOMAIN answers'
      <3>1. i \in 1..c /\ Answered(i)'
        BY <1>8, <2>2
      <3>2. i = c \/ i \in 1..(c - 1)
        BY <2>3, <3>1
      <3> QED
        BY <1>1, <1>8, <2>1, <2>2, <3>1, <3>2
    <2>8. Current' = c + 1 /\ c + 1 \in Nat /\ Start(Current)' = Start(c + 1)
      BY <1>8, <2>2, <2>3, <2>5
    <2>9. CASE c + 1 \in 1..N
      <3>1. Current' \in DOMAIN stream' /\ stream'[Current'] = stream[c + 1]
        BY <1>1, <2>3, <2>8, <2>9
      <3>2. (Consumed - Start(Current))' = 0
        BY <2>5, <2>6, <2>8
      <3>3. Reading(stream[Current], Consumed - Start(Current))'
        BY <1>1, <3>2 DEF Reading
      <3>4. stream[c + 1].due \in Nat /\ stream[c + 1].due >= 1
        BY <2>3, <2>9, MessageType
      <3>5. /\ pc' = "idle" => delivered' < Start(Current)' + stream'[Current'].due
            /\ pc' # "left"
        <4>1. pc' = "idle" => ReadAbleSize = 0
          BY <1>1, <1>2
        <4> QED
          BY <1>1, <2>6, <2>8, <3>1, <3>4, <4>1
      <3>6. Unclosed'
        BY <2>7, <3>1, <3>3, <3>5 DEF Unclosed
      <3> QED
        BY <2>1, <3>6
    <2>10. CASE c + 1 \notin 1..N
      <3>1. c = N
        <4>1. c \in 1..N /\ N \in Nat
          BY <2>3
        <4> HIDE DEF N
        <4> QED
          BY <2>10, <4>1
      <3>2. Consumed = Len(Text)
        BY <2>4, <2>6, <3>1
      <3>3. ReadAbleSize = 0
        <4>1. delivered <= Len(Text)
          BY DEF IInv
        <4> QED
          BY <1>2, <2>4, <2>6, <3>2, <4>1
      <3>4. pc' = "idle"
        BY <1>1, <3>3
      <3>5. Current' \notin DOMAIN stream' /\ Consumed' = Len(Text') /\ Len(answers') = Len(stream')
        BY <1>1, <1>8, <2>2, <2>3, <2>5, <2>8, <2>10, <3>1, <3>2
      <3>6. Unclosed'
        BY <1>1, <2>7, <3>4, <3>5 DEF Unclosed
      <3> QED
        BY <2>1, <3>6
    <2> QED
      BY <2>9, <2>10
  <1>11. request.keep \in BOOLEAN
    BY DEF IInv, Requests
  <1> QED
    BY <1>9, <1>10

\* At first nothing is buffered and no answer is due.
LEMMA CutInitially == Init => CutInv
  <1> SUFFICES ASSUME Init
               PROVE  CutInv
    OBVIOUS
  <1>1. IInv
    BY Initially
  <1>2. /\ stream \in Streams /\ delivered = 0 /\ pc = "idle" /\ recv = "LINE"
        /\ closing = FALSE /\ answers = <<>> /\ reader = 0 /\ writer = 0
    BY DEF Init, BufferInit
  <1>3. ReadAbleSize = 0 /\ Consumed = 0 /\ Len(answers) = 0 /\ DOMAIN answers = {} /\ Current = 1
    BY <1>2 DEF ReadAbleSize, Consumed, Current
  <1>4. Buffered
    BY <1>3 DEF Buffered
  <1>5. Start(1) = 0 /\ Start(Len(stream) + 1) = Len(Text)
    BY <1>2, StreamLayout
  <1>6. Len(stream) \in Nat /\ DOMAIN stream = 1..Len(stream) /\ \A i \in 1..Len(stream) : Meant(stream[i])
    BY <1>2, StreamType
  <1>7. Unclosed
    <2>1. CASE Current \in DOMAIN stream
      <3>1. Consumed - Start(Current) = 0
        BY <1>3, <1>5
      <3>2. Reading(stream[Current], Consumed - Start(Current))
        BY <1>2, <3>1 DEF Reading
      <3>3. stream[1].due \in Nat /\ stream[1].due >= 1
        BY <1>3, <1>6, <2>1, MessageType
      <3>4. delivered < Start(Current) + stream[Current].due /\ pc # "left"
        BY <1>2, <1>3, <1>5, <3>3
      <3> QED
        BY <1>3, <2>1, <3>2, <3>4 DEF Unclosed
    <2>2. CASE Current \notin DOMAIN stream
      <3>1. Len(stream) = 0
        BY <1>3, <1>6, <2>2
      <3>2. Len(Text) = 0
        BY <1>5, <3>1
      <3> QED
        BY <1>2, <1>3, <2>2, <3>1, <3>2 DEF Unclosed
    <2> QED
      BY <2>1, <2>2
  <1> QED
    BY <1>1, <1>2, <1>4, <1>7 DEF CutInv

\* Every step keeps the invariant.
LEMMA CutInductive == CutInv /\ [Next]_vars => CutInv'
  <1> SUFFICES ASSUME CutInv, [Next]_vars
               PROVE  CutInv'
    OBVIOUS
  <1>1. IInv /\ Buffered /\ IF closing THEN Closed ELSE Unclosed
    BY DEF CutInv
  <1>2. IInv' /\ Buffered'
    BY <1>1, Inductive, BufferedKept
  <1>3. CASE closing
    <2>1. closing' /\ Closed'
      BY <1>1, <1>3, OnlyForward, ClosedStays
    <2> QED
      BY <1>2, <2>1 DEF CutInv
  <1>4. CASE ~closing
    <2>1. Unclosed
      BY <1>1, <1>4
    <2>2. CASE \E n \in 1..(Len(Text) - delivered) : HandleRead(n)
      BY <1>1, <1>2, <1>4, <2>1, <2>2, HandleReadKeeps DEF CutInv
    <2>3. CASE HandleClose \/ UNCHANGED vars
      BY <1>1, <1>2, <1>4, <2>1, <2>3, HandleCloseKeeps DEF CutInv
    <2>4. CASE AwaitLine
      BY <1>1, <1>2, <1>4, <2>1, <2>4, AwaitLineKeeps DEF CutInv
    <2>5. CASE LineTooLong
      BY <1>1, <1>2, <1>4, <2>1, <2>5, LineTooLongKeeps DEF CutInv
    <2>6. CASE RecvHttpLine
      BY <1>1, <1>2, <1>4, <2>1, <2>6, RecvHttpLineKeeps DEF CutInv
    <2>7. CASE RecvHttpHead
      BY <1>1, <1>2, <1>4, <2>1, <2>7, RecvHttpHeadKeeps DEF CutInv
    <2>8. CASE RecvHttpBody
      BY <1>1, <1>2, <1>4, <2>1, <2>8, RecvHttpBodyKeeps DEF CutInv
    <2>9. CASE Refuse
      BY <1>1, <1>2, <2>1, <2>9, RefuseCloses DEF CutInv
    <2>10. CASE Respond
      BY <1>1, <1>2, <1>4, <2>1, <2>10, RespondKeeps DEF CutInv
    <2>11. CASE LeaveByException
      BY <1>1, <1>2, <1>4, <2>1, <2>11, LeaveByExceptionKeeps DEF CutInv
    <2> QED
      BY <2>2, <2>3, <2>4, <2>5, <2>6, <2>7, <2>8, <2>9, <2>10, <2>11 DEF Next, OnMessage
  <1> QED
    BY <1>3, <1>4

\* The answers are those that are due, and no known message is left without.
LEMMA CutIsIndependent == CutInv => CutIndependent
  <1> SUFFICES ASSUME CutInv
               PROVE  CutIndependent
    OBVIOUS
  <1>1. IInv /\ IF closing THEN Closed ELSE Unclosed
    BY DEF CutInv
  <1>2. /\ Len(answers) \in Nat /\ DOMAIN answers = 1..Len(answers) /\ stream \in Streams
        /\ Len(stream) \in Nat /\ DOMAIN stream = 1..Len(stream)
    BY <1>1, LenProperties, StreamType DEF IInv
  <1>3. \A i \in Known : i \in 1..Len(stream) /\ Start(i) + stream[i].due <= delivered
                         /\ \A k \in 1..(i - 1) : ~stream[k].last
    BY <1>2 DEF Known
  <1>4. CASE closing
    <2>1. PICK k \in DOMAIN answers : stream[k].last /\ \A i \in 1..k : Answered(i)
      BY <1>1, <1>4 DEF Closed
    <2>2. k \in 1..Len(answers) /\ k \in 1..k /\ k \in Known
      BY <1>2, <2>1 DEF Answered
    <2>3. ASSUME NEW i \in DOMAIN answers
          PROVE  \/ i \in Known /\ answers[i] = stream[i].answer
                 \/ \E j \in Known : j < i /\ stream[j].last
      <3>1. i \in 1..k \/ k < i
        BY <1>2, <2>2, <2>3
      <3> QED
        BY <2>1, <2>2, <3>1 DEF Answered
    <2>4. Known \subseteq DOMAIN answers
      <3> SUFFICES ASSUME NEW i \in Known
                   PROVE  i \in DOMAIN answers
        OBVIOUS
      <3>1. i \in 1..Len(stream) /\ \A j \in 1..(i - 1) : ~stream[j].last
        BY <1>3
      <3>2. k \notin 1..(i - 1)
        BY <2>1, <3>1
      <3> QED
        BY <1>2, <2>2, <3>1, <3>2
    <2>5. k \in Known \cap DOMAIN answers /\ stream[k].last
      BY <2>1, <2>2
    <2> QED
      BY <2>3, <2>4, <2>5 DEF CutIndependent
  <1>5. CASE ~closing
    <2>1. Unclosed
      BY <1>1, <1>5
    <2>2. \A i \in DOMAIN answers : i \in Known /\ answers[i] = stream[i].answer
      BY <2>1 DEF Unclosed, Answered
    <2>3. ASSUME pc = "idle", NEW i \in Known
          PROVE  i \in DOMAIN answers
      <3> SUFFICES ASSUME i \notin DOMAIN answers
                   PROVE  FALSE
        OBVIOUS
      <3>1. i \in 1..Len(stream) /\ Start(i) + stream[i].due <= delivered
        BY <1>3
      <3>2. i >= Len(answers) + 1 /\ Current = Len(answers) + 1
        BY <1>2, <3>1 DEF Current
      <3>3. Current \in 1..Len(stream)
        BY <1>2, <3>1, <3>2
      <3>4. delivered < Start(Current) + stream[Current].due
        BY <1>2, <2>1, <2>3, <3>3 DEF Unclosed
      <3>5. \A j \in 1..Len(stream) : Start(j) \in Nat /\ stream[j].due \in Nat
        <4> TAKE j \in 1..Len(stream)
        <4>1. j \in 1..(Len(stream) + 1) /\ Meant(stream[j])
          BY <1>2, StreamType
        <4> QED
          BY <1>2, <4>1, StreamLayout, MessageType
      <3>6. delivered \in Nat
        BY <1>1, TextType DEF IInv
      <3>7. CASE i = Current
        BY <3>1, <3>3, <3>4, <3>5, <3>6, <3>7
      <3>8. CASE i # Current
        <4>1. Current < i
          BY <1>2, <3>1, <3>2, <3>8
        <4>2. Start(Current) + stream[Current].due < Start(i) + stream[i].due
          BY <1>2, <3>1, <3>3, <4>1, StartsLater
        <4> QED
          BY <3>1, <3>3, <3>4, <3>5, <3>6, <4>2
      <3> QED
        BY <3>7, <3>8
    <2>4. ASSUME pc = "left"
          PROVE  \E k \in Known : k = Len(answers) + 1 /\ stream[k].answer = NoAnswer
      <3>1. Current \in DOMAIN stream /\ LeftAt(stream[Current])
        BY <2>1, <2>4 DEF Unclosed
      <3>2. \A k \in 1..(Current - 1) : ~stream[k].last
        <4>1. \A k \in 1..(Current - 1) : k \in DOMAIN answers
          BY <1>2 DEF Current
        <4> QED
          BY <2>1, <4>1 DEF Unclosed
      <3>3. Current \in Known
        BY <3>1, <3>2 DEF Known, LeftAt
      <3> QED
        BY <3>1, <3>3 DEF Current, LeftAt
    <2> QED
      BY <2>2, <2>3, <2>4 DEF CutIndependent
  <1> QED
    BY <1>4, <1>5

\* A message that is owed an empty answer asks for a file that cannot be read.
LEMMA EmptyAnswer ==
    ASSUME NEW m, Meant(m), m.answer \in Replies, m.answer.length = 0
    PROVE  Head(m.text) = "torn"
  <1>1. m.text \in Seq(Bytes) /\ Len(m.text) \in Nat
    BY MessageType
  <1>2. PICK n \in 0..Len(m.text) :
            \/ Served(m, n) \/ Unanswerable(m, n)
            \/ \E k \in 1..(MaxLine + 1) : Refused(m, n, k)
    BY DEF Meant
  <1>3. CASE Served(m, n)
    <2> DEFINE head == Headed(m.text, n)
               body == SubSeq(m.text, 2 * n + 2, Len(m.text))
               form == ParseMultipartBody[body]
               files == IF head.form THEN form ELSE <<>>
               req == [head EXCEPT !.body = body, !.files = files]
               t == IF n = 0 THEN "none" ELSE m.text[1]
               k == Has(m.text, n, "keep")
               f == Has(m.text, n, "form")
               l == FirstLength(m.text, n)
    <2>1. n \in Nat /\ n > 0 /\ Begins(m.text, n) /\ m.answer = Owed(req.target, Input(req))
      BY <1>1, <1>2, <1>3 DEF Served
    <2>2. 1 \in 1..n /\ 2 * n <= Len(m.text) /\ 2 * 1 - 1 = 1
      BY <2>1 DEF Begins
    <2>3. m.text[1] \in DOMAIN Targets
      BY <2>1, <2>2 DEF Begins, Fields
    <2>4. t = Head(m.text) /\ t \in DOMAIN Targets
      BY <1>1, <2>1, <2>2, <2>3
    <2>5. body \in Seq(Bytes)
      <3>1. \A j \in 1..Len(m.text) : m.text[j] \in Bytes
        BY <1>1, ElementOfSeq
      <3>2. \A j \in (2 * n + 2)..Len(m.text) : m.text[j] \in Bytes
        BY <1>1, <2>1, <3>1
      <3> QED
        BY <1>1, <2>1, <3>2, SubSeqProperties
    <2>6. head = Request(t, k, f, l, <<>>, <<>>)
      BY HeadedIs
    <2> HIDE DEF body, t, k, f, l
    <2>7. form \in Seq(Seq(Bytes))
      BY <2>5, FormType, HttpAssumption DEF HttpAssumption
    <2> HIDE DEF form
    <2>8. files \in Seq(Seq(Bytes))
      BY <2>7, EmptySeq
    <2> HIDE DEF files, head
    <2>9. req = Request(t, k, f, l, body, files)
      <3>1. [Request(t, k, f, l, <<>>, <<>>) EXCEPT !.body = body] = Request(t, k, f, l, body, <<>>)
        BY DEF Request
      <3>2. [Request(t, k, f, l, body, <<>>) EXCEPT !.files = files] = Request(t, k, f, l, body, files)
        BY DEF Request
      <3>3. [head EXCEPT !.body = body, !.files = files] = [[head EXCEPT !.body = body] EXCEPT !.files = files]
        OBVIOUS
      <3> QED
        BY <2>6, <3>1, <3>2, <3>3
    <2>10. req.target = t /\ req.body = body /\ req.files = files
      BY <2>9 DEF Request
    <2> HIDE DEF req
    <2>11. Input(req) \in Seq(Bytes)
      <3>1. files # <<>> => Head(files) \in Seq(Bytes)
        BY <2>8
      <3> QED
        BY <2>5, <2>10, <3>1 DEF Input
    <2> QED
      BY <2>1, <2>4, <2>10, <2>11, OwedIsWhole, HttpAssumption DEF HttpAssumption
  <1>4. ASSUME NEW k \in 1..(MaxLine + 1), Refused(m, n, k)
        PROVE  FALSE
    <2>1. \E code \in {400, 414} : m.answer = OwedError(Headed(m.text, n).target, code)
      BY <1>4 DEF Refused
    <2>2. m.answer.length = 2
      BY <2>1, OwedErrorIsWhole DEF Codes
    <2> QED
      BY <2>2
  <1>5. CASE Unanswerable(m, n)
    <2>1. m.answer.code = 0
      BY <1>5 DEF Unanswerable, NoAnswer, Answer
    <2> QED
      BY <2>1 DEF Replies, Codes
  <1> QED
    BY <1>2, <1>3, <1>4, <1>5

\* No other answer is empty.
LEMMA CutIsDelimited == IInv /\ CutIndependent => Delimited
  <1> SUFFICES ASSUME IInv, CutIndependent,
                      NEW i \in DOMAIN answers \cap Known, answers[i].length = 0
               PROVE  Head(stream[i].text) = "torn"
    BY DEF Delimited
  <1>1. i \in 1..Len(stream) /\ Meant(stream[i]) /\ \A k \in 1..(i - 1) : ~stream[k].last
    BY StreamType DEF IInv, Known
  <1>2. \A k \in Known : k \in 1..Len(stream)
    BY StreamType DEF IInv, Known
  <1>3. \A k \in Known : k < i => ~stream[k].last
    BY <1>1, <1>2
  <1>4. answers[i] = stream[i].answer
    BY <1>3 DEF CutIndependent
  <1>5. answers[i] \in Replies
    BY LenProperties, ElementOfSeq DEF IInv
  <1> QED
    BY <1>1, <1>4, <1>5, EmptyAnswer

\* The invariant holds for all streams, however TCP cuts them.
THEOREM CutInvHolds == Spec => []CutInv
  BY CutInitially, CutInductive, PTL DEF Spec

\* What HttpServer answers depends on the bytes and not on the reads they came
\* in: for every stream of messages and every cut of it, the answers are those
\* that the messages are owed, in their order, none before its message has
\* arrived, and none outstanding when the callback has returned.
THEOREM AnswersDoNotDependOnCuts == Spec => []CutIndependent
  BY CutInvHolds, CutIsIndependent, PTL

\* For every stream and every cut, the client can tell where an answer ends
\* unless it is a file that could not be read.
THEOREM AnswersEnd == Spec => []Delimited
  <1>1. CutInv => Delimited
    BY CutIsIndependent, CutIsDelimited DEF CutInv
  <1> QED
    BY <1>1, CutInvHolds, PTL

\* The server's invariant: the parser's state is one that a request can lead
\* to, and its answers are those that are due.
THEOREM ServerCorrect == Spec => []HttpInv
  BY TypeCorrect, AnswersDoNotDependOnCuts, AnswersEnd, PTL DEF HttpInv
-----------------------------------------------------------------------------
(***************************************************************************)
(* The callback comes to an end.                                           *)
(***************************************************************************)
\* How far OnMessage is from its end: every byte may be read as a line that
\* leads to a body, an answer and the next request.
Rank == CASE recv = "ERROR" -> 0
          [] recv \in {"LINE", "HEAD"} -> 1
          [] recv = "OVER" -> 2
          [] recv = "BODY" -> 3

Distance == 4 * ReadAbleSize + Rank

\* A read shortens the buffer.
LEMMA ReadShortens ==
    ASSUME BufferTypeOK, NEW n \in Nat, MoveReadOffset(n)
    PROVE  ReadAbleSize \in Nat /\ ReadAbleSize' \in Nat /\ ReadAbleSize' = ReadAbleSize - n
  BY DEF BufferTypeOK, MoveReadOffset, ReadAbleSize

\* Every turn of the loop brings it closer.
LEMMA OnMessageProgresses ==
    ASSUME IInv, OnMessage
    PROVE  pc' \in {"idle", "left"} \/ (Distance' \in Nat /\ Distance' < Distance)
  <1>1. /\ BufferTypeOK /\ recv \in {"LINE", "HEAD", "BODY", "OVER", "ERROR"}
        /\ recv' \in {"LINE", "HEAD", "BODY", "OVER", "ERROR"}
    <2>1. [Next]_vars
      BY DEF Next
    <2> QED
      BY <2>1, RequestKept DEF IInv
  <1>2. Len(Line) \in Nat /\ ReadAbleSize \in Nat /\ (Line # <<>> => Len(Line) > 0)
    BY <1>1, LineType
  <1>3. Rank \in 0..3 /\ Rank' \in 0..3
    BY <1>1 DEF Rank
  <1>4. ASSUME NEW n \in Nat, MoveReadOffset(n), 4 * n + Rank > Rank'
        PROVE  Distance' \in Nat /\ Distance' < Distance
    <2>1. ReadAbleSize' \in Nat /\ ReadAbleSize' = ReadAbleSize - n
      BY <1>1, <1>4, ReadShortens
    <2> DEFINE r == ReadAbleSize
               r2 == ReadAbleSize'
               k == Rank
               k2 == Rank'
    <2>2. r \in Nat /\ r2 \in Nat /\ r2 = r - n /\ k \in Nat /\ k2 \in Nat /\ 4 * n + k > k2
      BY <1>2, <1>3, <1>4, <2>1
    <2> HIDE DEF r, r2, k, k2
    <2>3. 4 * r2 + k2 \in Nat /\ 4 * r2 + k2 < 4 * r + k
      BY <2>2
    <2> QED
      BY <2>3 DEF Distance, r, r2, k, k2
  <1>5. CASE AwaitLine \/ LeaveByException \/ Refuse
    BY <1>5 DEF AwaitLine, LeaveByException, Refuse
  <1>6. CASE LineTooLong
    <2>1. MoveReadOffset(Len(Line)) /\ recv \in {"LINE", "HEAD"} /\ recv' = "ERROR"
      BY <1>6 DEF LineTooLong, Expecting
    <2>2. Rank = 1 /\ Rank' = 0
      BY <2>1 DEF Rank
    <2> QED
      BY <1>2, <1>4, <2>1, <2>2
  <1>7. CASE RecvHttpLine \/ RecvHttpHead
    <2>1. MoveReadOffset(Len(Line)) /\ recv \in {"LINE", "HEAD"} /\ Line # <<>>
      BY <1>7 DEF RecvHttpLine, RecvHttpHead, Expecting
    <2>2. Rank = 1
      BY <2>1 DEF Rank
    <2> QED
      BY <1>2, <1>3, <1>4, <2>1, <2>2
  <1>8. CASE RecvHttpBody
    <2> DEFINE lacks == ContentLength(request) - Len(request.body)
               n == IF ReadAbleSize < lacks THEN ReadAbleSize ELSE lacks
    <2>1. /\ MoveReadOffset(n) /\ recv = "BODY" /\ ~LengthThrows(request)
          /\ pc' = "idle" \/ recv' = "OVER"
      BY <1>8 DEF RecvHttpBody, Expecting
    <2>2. Len(request.body) \in Nat /\ ContentLength(request) \in Nat
          /\ Len(request.body) <= ContentLength(request)
      BY <2>1, LengthType, LenProperties DEF IInv, Requests, RequestInv
    <2>3. n \in Nat
      BY <1>2, <2>2
    <2> HIDE DEF n
    <2>4. recv' = "OVER" => Rank = 3 /\ Rank' = 2
      BY <2>1 DEF Rank
    <2> QED
      BY <1>4, <2>1, <2>3, <2>4
  <1>9. CASE Respond
    <2>1. UNCHANGED bufferVars /\ recv = "OVER" /\ recv' = "LINE"
      BY <1>9 DEF Respond, Expecting, ReSet
    <2>2. ReadAbleSize' = ReadAbleSize
      BY <2>1 DEF bufferVars, ReadAbleSize
    <2>3. Rank = 2 /\ Rank' = 1
      BY <2>1 DEF Rank
    <2> QED
      BY <1>2, <2>2, <2>3 DEF Distance
  <1> QED
    BY <1>5, <1>6, <1>7, <1>8, <1>9 DEF OnMessage

\* The callback cannot turn for ever: each step within it ends it or makes a
\* natural number smaller, whatever bytes there are and however they end.
THEOREM CallbackProgresses ==
    Spec => [][pc = "recv" => pc' \in {"idle", "left"} \/ (Distance' \in Nat /\ Distance' < Distance)]_vars
  <1>1. ASSUME IInv, [Next]_vars
        PROVE  [pc = "recv" => pc' \in {"idle", "left"} \/ (Distance' \in Nat /\ Distance' < Distance)]_vars
    <2>1. CASE OnMessage
      BY <1>1, <2>1, OnMessageProgresses
    <2>2. CASE UNCHANGED vars
      BY <2>2
    <2>3. CASE HandleClose \/ \E n \in 1..(Len(Text) - delivered) : HandleRead(n)
      BY <2>3 DEF HandleClose, HandleRead
    <2> QED
      BY <1>1, <2>1, <2>2, <2>3 DEF Next
  <1> QED
    BY <1>1, IInvHolds, PTL DEF Spec
=============================================================================
