------------------------------ MODULE BufferProofs ------------------------------
(***************************************************************************)
(* Theorems about Buffer, for every size of the storage, of the prepended  *)
(* space and of the chunks.  Each method gets a lemma that says what it    *)
(* does to the readable bytes, to the indexes and to the size.             *)
(***************************************************************************)
EXTENDS Buffer, SequenceTheorems, TLAPS

\* The readable bytes of a buffer are a sequence of bytes.
LEMMA ContentIsSeq ==
  ASSUME NEW b, IsBuffer(b)
  PROVE  /\ Content(b) \in Seq(Byte)
         /\ Len(Content(b)) = readable_bytes(b)
         /\ \A i \in 1..readable_bytes(b) : Content(b)[i] = b.data[b.reader_index + i - 1]
  <1>1. readable_bytes(b) \in Nat
    BY DEF IsBuffer, readable_bytes
  <1>2. ASSUME NEW i \in 1..readable_bytes(b)
        PROVE  b.data[b.reader_index + i - 1] \in Byte
    <2>1. \A r, w, s \in Nat : (w <= s /\ i \in 1..(w - r)) => r + i - 1 \in 0..(s - 1)
      OBVIOUS
    <2>2. b.reader_index + i - 1 \in 0..(b.size - 1)
      BY <1>2, <2>1 DEF IsBuffer, readable_bytes
    <2>3. b.data \in [0..(b.size - 1) -> Byte]
      BY DEF IsBuffer
    <2> QED
      BY <2>2, <2>3
  <1>3. Content(b) \in [1..readable_bytes(b) -> Byte]
    BY <1>2 DEF Content
  <1>4. Content(b) \in Seq(Byte)
    BY <1>1, <1>3, SeqDef
  <1>5. Len(Content(b)) = readable_bytes(b)
    BY <1>1, <1>3, <1>4, LenProperties
  <1> QED
    BY <1>1, <1>4, <1>5 DEF Content

\* Growing the string keeps what is in it.
LEMMA ResizeKeeps ==
  ASSUME NEW b, IsBuffer(b), NEW n \in Nat, b.size <= n
  PROVE  /\ IsBuffer(Resize(b, n))
         /\ Resize(b, n).size = n
         /\ readable_bytes(Resize(b, n)) = readable_bytes(b)
         /\ writable_bytes(Resize(b, n)) = n - b.writer_index
         /\ Content(Resize(b, n)) = Content(b)
  <1> DEFINE c == Resize(b, n)
  <1>1. /\ c.data = [i \in 0..(n - 1) |-> IF i < b.size THEN b.data[i] ELSE Zero]
        /\ c.size = n
        /\ c.reader_index = b.reader_index
        /\ c.writer_index = b.writer_index
    BY DEF Resize, Make
  <1> HIDE DEF c
  <1>2. c.data \in [0..(c.size - 1) -> Byte]
    <2>1. b.size \in Nat /\ b.data \in [0..(b.size - 1) -> Byte] /\ Zero \in Byte
      BY BufferAssumption DEF IsBuffer
    <2>2. \A i \in 0..(n - 1) : i < b.size => b.data[i] \in Byte
      BY <2>1
    <2> QED
      BY <1>1, <2>1, <2>2
  <1>3. IsBuffer(c)
    BY <1>1, <1>2, BufferAssumption DEF IsBuffer
  <1>4. Content(c) = Content(b)
    BY <1>1 DEF IsBuffer, Content, readable_bytes
  <1> QED
    BY <1>1, <1>3, <1>4 DEF c, readable_bytes, writable_bytes

\* A copy inside the string keeps its type.
LEMMA CopyType ==
  ASSUME NEW b, IsBuffer(b), NEW chunk \in Seq(Byte), NEW at \in Nat
  PROVE  Copy(b, at, chunk) \in [0..(b.size - 1) -> Byte]
  <1>1. Len(chunk) \in Nat /\ \A j \in 1..Len(chunk) : chunk[j] \in Byte
    BY ElementOfSeq, LenProperties
  <1>2. ASSUME NEW i \in 0..(b.size - 1), at <= i, i < at + Len(chunk)
        PROVE  chunk[i - at + 1] \in Byte
    <2>1. i - at + 1 \in 1..Len(chunk)
      BY <1>1, <1>2 DEF IsBuffer
    <2> QED
      BY <1>1, <2>1
  <1> QED
    BY <1>2 DEF Copy, IsBuffer

\* Rotation keeps the readable bytes and the size.
LEMMA RotateKeeps ==
  ASSUME NEW b, IsBuffer(b), kCheapPrepend + readable_bytes(b) <= b.size
  PROVE  /\ IsBuffer(Rotate(b))
         /\ Rotate(b).size = b.size
         /\ readable_bytes(Rotate(b)) = readable_bytes(b)
         /\ writable_bytes(Rotate(b)) = b.size - (kCheapPrepend + readable_bytes(b))
         /\ Content(Rotate(b)) = Content(b)
  <1> DEFINE c == Rotate(b)
  <1>1. /\ c.data = Copy(b, kCheapPrepend, Content(b))
        /\ c.size = b.size
        /\ c.reader_index = kCheapPrepend
        /\ c.writer_index = kCheapPrepend + readable_bytes(b)
    BY DEF Rotate, Make
  <1> HIDE DEF c
  <1>2. readable_bytes(b) \in Nat /\ kCheapPrepend \in Nat /\ b.size \in Nat
    BY BufferAssumption DEF IsBuffer, readable_bytes
  <1>3. c.data \in [0..(c.size - 1) -> Byte]
    BY <1>1, <1>2, ContentIsSeq, CopyType
  <1>4. IsBuffer(c)
    BY <1>1, <1>2, <1>3 DEF IsBuffer
  <1>5. readable_bytes(c) = readable_bytes(b)
    BY <1>1, <1>2 DEF readable_bytes
  <1>6. ASSUME NEW i \in 1..readable_bytes(b)
        PROVE  c.data[c.reader_index + i - 1] = Content(b)[i]
    BY <1>1, <1>2, ContentIsSeq DEF Copy
  <1>7. Content(c) = Content(b)
    BY <1>4, <1>5, <1>6, ContentIsSeq, SeqEqual
  <1> QED
    BY <1>1, <1>2, <1>4, <1>5, <1>7 DEF c, writable_bytes

\* ensure_writable_bytes makes room, keeps the readable bytes, rotates only
\* towards the front, and grows to at most twice what is asked for.
LEMMA EnsureWritableBytes ==
  ASSUME NEW b, IsBuffer(b), NEW n \in Nat
  PROVE  /\ IsBuffer(ensure_writable_bytes(b, n))
         /\ writable_bytes(ensure_writable_bytes(b, n)) >= n
         /\ readable_bytes(ensure_writable_bytes(b, n)) = readable_bytes(b)
         /\ Content(ensure_writable_bytes(b, n)) = Content(b)
         /\ \/ ensure_writable_bytes(b, n).size = b.size
            \/ ensure_writable_bytes(b, n).size <= kCheapPrepend + 2 * (readable_bytes(b) + n)
         /\ (writable_bytes(b) < n /\ Rotates(b, n)) => kCheapPrepend < b.reader_index
  <1>1. /\ kCheapPrepend \in Nat /\ b.size \in Nat /\ b.reader_index \in Nat
        /\ b.writer_index \in Nat /\ b.reader_index <= b.writer_index
        /\ b.writer_index <= b.size
    BY BufferAssumption DEF IsBuffer
  <1>2. CASE writable_bytes(b) >= n
    <2>1. ensure_writable_bytes(b, n) = b
      BY <1>1, <1>2 DEF ensure_writable_bytes, writable_bytes
    <2> QED
      BY <1>1, <1>2, <2>1 DEF writable_bytes
  <1>3. CASE writable_bytes(b) < n /\ Rotates(b, n)
    <2>1. ensure_writable_bytes(b, n) = Rotate(b)
      BY <1>3 DEF ensure_writable_bytes, make_space
    <2>2. kCheapPrepend + readable_bytes(b) + n <= b.size /\ kCheapPrepend < b.reader_index
      BY <1>1, <1>3 DEF Rotates, writable_bytes, prependable_bytes, readable_bytes
    <2>3. readable_bytes(b) \in Nat
      BY <1>1 DEF readable_bytes
    <2>4. kCheapPrepend + readable_bytes(b) <= b.size
      BY <1>1, <2>2, <2>3
    <2> QED
      BY <1>1, <2>1, <2>2, <2>3, <2>4, RotateKeeps
  <1>4. CASE writable_bytes(b) < n /\ ~Rotates(b, n)
    <2>1. ensure_writable_bytes(b, n) = Resize(b, b.writer_index + n)
      BY <1>4 DEF ensure_writable_bytes, make_space
    <2>2. /\ b.size <= b.writer_index + n
          /\ b.writer_index + n \in Nat
          /\ b.writer_index + n <= kCheapPrepend + 2 * (readable_bytes(b) + n)
      BY <1>1, <1>4 DEF Rotates, writable_bytes, prependable_bytes, readable_bytes
    <2> QED
      BY <1>1, <1>4, <2>1, <2>2, ResizeKeeps
  <1> QED
    BY <1>1, <1>2, <1>3, <1>4 DEF writable_bytes

\* A copy behind the readable bytes, where there is room, adds to their end.
LEMMA WriteAppends ==
  ASSUME NEW b, IsBuffer(b), NEW chunk \in Seq(Byte), Len(chunk) <= writable_bytes(b)
  PROVE  /\ IsBuffer(Write(b, chunk))
         /\ Write(b, chunk).size = b.size
         /\ readable_bytes(Write(b, chunk)) = readable_bytes(b) + Len(chunk)
         /\ writable_bytes(Write(b, chunk)) = writable_bytes(b) - Len(chunk)
         /\ Content(Write(b, chunk)) = Content(b) \o chunk
  <1> DEFINE c == Write(b, chunk)
  <1>1. /\ c.data = Copy(b, b.writer_index, chunk)
        /\ c.size = b.size
        /\ c.reader_index = b.reader_index
        /\ c.writer_index = b.writer_index + Len(chunk)
    BY DEF Write, Make
  <1> HIDE DEF c
  <1>2. /\ Len(chunk) \in Nat /\ b.size \in Nat /\ b.reader_index \in Nat
        /\ b.writer_index \in Nat /\ b.reader_index <= b.writer_index
        /\ b.writer_index <= b.size
    BY LenProperties DEF IsBuffer
  <1>3. c.data \in [0..(c.size - 1) -> Byte]
    BY <1>1, <1>2, CopyType
  <1>4. IsBuffer(c)
    BY <1>1, <1>2, <1>3 DEF IsBuffer, writable_bytes
  <1>5. /\ readable_bytes(b) \in Nat
        /\ readable_bytes(c) = readable_bytes(b) + Len(chunk)
        /\ writable_bytes(c) = writable_bytes(b) - Len(chunk)
    BY <1>1, <1>2 DEF readable_bytes, writable_bytes
  <1>6. ASSUME NEW i \in 1..readable_bytes(b)
        PROVE  c.data[c.reader_index + i - 1] = b.data[b.reader_index + i - 1]
    BY <1>1, <1>2 DEF Copy, readable_bytes
  <1>7. ASSUME NEW i \in (readable_bytes(b) + 1)..(readable_bytes(b) + Len(chunk))
        PROVE  c.data[c.reader_index + i - 1] = chunk[i - readable_bytes(b)]
    <2> DEFINE k == b.reader_index + i - 1
    <2>0. /\ i \in Int
          /\ b.writer_index - b.reader_index + 1 <= i
          /\ i <= b.writer_index - b.reader_index + Len(chunk)
          /\ Len(chunk) <= b.size - b.writer_index
      BY <1>2, <1>7 DEF readable_bytes, writable_bytes
    <2>1. /\ k \in 0..(b.size - 1)
          /\ b.writer_index <= k /\ k < b.writer_index + Len(chunk)
          /\ k - b.writer_index + 1 = i - readable_bytes(b)
      <3>1. \A r, w, s, n \in Nat :
              (w - r + 1 <= i /\ i <= w - r + n /\ n <= s - w)
                => /\ r + i - 1 \in 0..(s - 1)
                   /\ w <= r + i - 1 /\ r + i - 1 < w + n
                   /\ r + i - 1 - w + 1 = i - (w - r)
        BY <2>0
      <3> QED
        BY <1>2, <2>0, <3>1 DEF readable_bytes
    <2> HIDE DEF k
    <2>2. c.data[k] = chunk[k - b.writer_index + 1]
      BY <1>1, <2>1 DEF Copy
    <2> QED
      BY <1>1, <2>1, <2>2 DEF k
  <1>8. /\ Content(b) \o chunk \in Seq(Byte)
        /\ Len(Content(b) \o chunk) = readable_bytes(b) + Len(chunk)
        /\ \A i \in 1..(readable_bytes(b) + Len(chunk)) :
             (Content(b) \o chunk)[i] = IF i <= readable_bytes(b) THEN Content(b)[i]
                                                                ELSE chunk[i - readable_bytes(b)]
    <2>1. Content(b) \in Seq(Byte) /\ Len(Content(b)) = readable_bytes(b)
      BY ContentIsSeq
    <2>2. /\ Content(b) \o chunk \in Seq(Byte)
          /\ Len(Content(b) \o chunk) = Len(Content(b)) + Len(chunk)
          /\ \A i \in 1..(Len(Content(b)) + Len(chunk)) :
               (Content(b) \o chunk)[i] = IF i <= Len(Content(b)) THEN Content(b)[i]
                                                                 ELSE chunk[i - Len(Content(b))]
      BY <2>1, ConcatProperties
    <2> QED
      BY <2>1, <2>2, Zenon
  <1>9. ASSUME NEW i \in 1..readable_bytes(c)
        PROVE  Content(c)[i] = (Content(b) \o chunk)[i]
    <2>1. CASE i <= readable_bytes(b)
      BY <1>2, <1>4, <1>5, <1>6, <1>8, <2>1, ContentIsSeq
    <2>2. CASE i > readable_bytes(b)
      <3>1. i \in (readable_bytes(b) + 1)..(readable_bytes(b) + Len(chunk))
        BY <1>2, <1>5, <2>2
      <3>2. Content(c)[i] = c.data[c.reader_index + i - 1]
        BY <1>4, ContentIsSeq
      <3>3. (Content(b) \o chunk)[i] = chunk[i - readable_bytes(b)]
        BY <1>2, <1>5, <1>8, <2>2
      <3> QED
        BY <1>7, <3>1, <3>2, <3>3
    <2>3. i \in Int /\ readable_bytes(b) \in Int
      BY <1>5
    <2>4. i <= readable_bytes(b) \/ i > readable_bytes(b)
      BY <2>3
    <2> QED
      BY <2>1, <2>2, <2>4, Zenon
  <1>10. Content(c) = Content(b) \o chunk
    BY <1>4, <1>5, <1>8, <1>9, ContentIsSeq, SeqEqual
  <1> QED
    BY <1>1, <1>4, <1>5, <1>10 DEF c

\* append adds its chunk to the end of the readable bytes.
LEMMA AppendAppends ==
  ASSUME NEW b, IsBuffer(b), NEW chunk \in Seq(Byte)
  PROVE  /\ IsBuffer(append(b, chunk))
         /\ Content(append(b, chunk)) = Content(b) \o chunk
         /\ \/ append(b, chunk).size = b.size
            \/ append(b, chunk).size <= kCheapPrepend + 2 * (readable_bytes(b) + Len(chunk))
  <1> DEFINE c == ensure_writable_bytes(b, Len(chunk))
  <1>1. Len(chunk) \in Nat
    BY LenProperties
  <1>2. /\ IsBuffer(c)
        /\ writable_bytes(c) >= Len(chunk)
        /\ Content(c) = Content(b)
        /\ c.size = b.size \/ c.size <= kCheapPrepend + 2 * (readable_bytes(b) + Len(chunk))
    BY <1>1, EnsureWritableBytes
  <1>3. append(b, chunk) = Write(c, chunk)
    BY DEF append
  <1> HIDE DEF c
  <1>4. writable_bytes(c) \in Nat
    BY <1>2 DEF IsBuffer, writable_bytes
  <1>5. Len(chunk) <= writable_bytes(c)
    BY <1>1, <1>2, <1>4
  <1> QED
    BY <1>2, <1>3, <1>5, WriteAppends

\* read_fd does the same, across the end of the string.
LEMMA ReadFdAppends ==
  ASSUME NEW b, IsBuffer(b), NEW chunk \in Seq(Byte)
  PROVE  /\ IsBuffer(read_fd(b, chunk))
         /\ Content(read_fd(b, chunk)) = Content(b) \o chunk
         /\ \/ read_fd(b, chunk).size = b.size
            \/ read_fd(b, chunk).size <= kCheapPrepend + 2 * (readable_bytes(b) + Len(chunk))
  <1> DEFINE w == writable_bytes(b)
             first == SubSeq(chunk, 1, w)
             rest == SubSeq(chunk, w + 1, Len(chunk))
             c == Write(b, first)
  <1>1. Len(chunk) \in Nat /\ w \in Nat /\ readable_bytes(b) \in Nat
    BY LenProperties DEF IsBuffer, writable_bytes, readable_bytes
  <1>2. CASE Len(chunk) <= w
    <2>1. read_fd(b, chunk) = Write(b, chunk)
      BY <1>2 DEF read_fd
    <2> QED
      BY <1>2, <2>1, WriteAppends
  <1>3. CASE Len(chunk) > w
    <2>1. read_fd(b, chunk) = append(c, rest)
      BY <1>1, <1>3 DEF read_fd
    <2> HIDE DEF w
    <2>2. \A i \in 1..Len(chunk) : chunk[i] \in Byte
      BY ElementOfSeq
    <2>3. /\ first \in Seq(Byte) /\ Len(first) = w
          /\ rest \in Seq(Byte) /\ Len(rest) = Len(chunk) - w
      BY <1>1, <1>3, <2>2, SubSeqProperties
    <2>4. first \o rest = chunk
      <3>1. /\ \A i \in 1..w : first[i] = chunk[i]
            /\ \A i \in 1..(Len(chunk) - w) : rest[i] = chunk[w + i]
        <4>1. \A i \in 1..(w - 1 + 1) : first[i] = chunk[1 + i - 1]
          BY <1>1, <1>3, <2>2, SubSeqProperties
        <4>2. \A i \in 1..(Len(chunk) - (w + 1) + 1) : rest[i] = chunk[w + 1 + i - 1]
          BY <1>1, <1>3, <2>2, SubSeqProperties
        <4> HIDE DEF first, rest
        <4> QED
          BY <1>1, <4>1, <4>2
      <3> HIDE DEF first, rest
      <3>2. /\ first \o rest \in Seq(Byte)
            /\ Len(first \o rest) = Len(chunk)
        <4>1. /\ first \o rest \in Seq(Byte)
              /\ Len(first \o rest) = Len(first) + Len(rest)
          BY <2>3, ConcatProperties, Zenon
        <4> QED
          BY <1>1, <2>3, <4>1
      <3>3. ASSUME NEW i \in 1..Len(chunk)
            PROVE  (first \o rest)[i] = chunk[i]
        <4>1. (first \o rest)[i] = IF i <= w THEN first[i] ELSE rest[i - w]
          BY <1>1, <2>3, ConcatProperties
        <4>2. CASE i <= w
          BY <1>1, <3>1, <4>1, <4>2
        <4>3. CASE i > w
          <5>1. i - w \in 1..(Len(chunk) - w) /\ w + (i - w) = i
            BY <1>1, <4>3
          <5>2. (first \o rest)[i] = rest[i - w]
            BY <1>1, <4>1, <4>3
          <5> QED
            BY <3>1, <5>1, <5>2
        <4>4. i <= w \/ i > w
          BY <1>1
        <4> QED
          BY <4>2, <4>3, <4>4, Zenon
      <3> QED
        BY <3>2, <3>3, SeqEqual
    <2> HIDE DEF first, rest
    <2>5. /\ IsBuffer(c)
          /\ c.size = b.size
          /\ readable_bytes(c) = readable_bytes(b) + w
          /\ Content(c) = Content(b) \o first
      BY <1>1, <2>3, WriteAppends DEF w
    <2> HIDE DEF c
    <2>6. /\ IsBuffer(append(c, rest))
          /\ Content(append(c, rest)) = Content(c) \o rest
          /\ \/ append(c, rest).size = c.size
             \/ append(c, rest).size <= kCheapPrepend + 2 * (readable_bytes(c) + Len(rest))
      BY <2>3, <2>5, AppendAppends
    <2>7. readable_bytes(c) + Len(rest) = readable_bytes(b) + Len(chunk)
      BY <1>1, <2>3, <2>5
    <2>8. Content(b) \in Seq(Byte)
      BY ContentIsSeq
    <2>9. (Content(b) \o first) \o rest = Content(b) \o (first \o rest)
      <3>1. first \in Seq(Byte) /\ rest \in Seq(Byte)
        BY <2>3
      <3>2. \A q \in Seq(Byte) : (q \o first) \o rest = q \o (first \o rest)
        BY <3>1, ConcatAssociative
      <3> QED
        BY <2>8, <3>2, Zenon
    <2>10. Content(read_fd(b, chunk)) = Content(b) \o chunk
      BY <2>1, <2>4, <2>5, <2>6, <2>9, Zenon
    <2>11. \/ read_fd(b, chunk).size = b.size
           \/ read_fd(b, chunk).size <= kCheapPrepend + 2 * (readable_bytes(b) + Len(chunk))
      BY <2>1, <2>5, <2>6, <2>7, Zenon
    <2> QED
      BY <2>1, <2>6, <2>10, <2>11, Zenon
  <1> QED
    BY <1>1, <1>2, <1>3

\* retrieve takes bytes from the front, retrieve_all takes all of them.
LEMMA RetrieveDrops ==
  ASSUME NEW b, IsBuffer(b), NEW n \in 0..readable_bytes(b)
  PROVE  /\ IsBuffer(retrieve(b, n))
         /\ retrieve(b, n).size = b.size
         /\ Content(retrieve(b, n)) = SubSeq(Content(b), n + 1, Len(Content(b)))
  <1> DEFINE c == retrieve(b, n)
             tail == SubSeq(Content(b), n + 1, Len(Content(b)))
  <1>1. /\ kCheapPrepend \in Nat /\ b.size \in Nat /\ b.reader_index \in Nat
        /\ b.writer_index \in Nat /\ b.reader_index <= b.writer_index
        /\ b.writer_index <= b.size /\ kCheapPrepend <= b.size
        /\ readable_bytes(b) \in Nat /\ n \in Nat /\ n <= readable_bytes(b)
    BY BufferAssumption DEF IsBuffer, readable_bytes
  <1>2. /\ Content(b) \in Seq(Byte)
        /\ Len(Content(b)) = readable_bytes(b)
        /\ \A i \in 1..readable_bytes(b) : Content(b)[i] = b.data[b.reader_index + i - 1]
        /\ \A i \in 1..readable_bytes(b) : Content(b)[i] \in Byte
    BY ContentIsSeq, ElementOfSeq
  <1>3. /\ tail \in Seq(Byte)
        /\ Len(tail) = readable_bytes(b) - n
        /\ \A i \in 1..(readable_bytes(b) - n) : tail[i] = Content(b)[n + i]
    <2>1. \A i \in (n + 1)..Len(Content(b)) : Content(b)[i] \in Byte
      BY <1>1, <1>2
    <2>2. n + 1 \in Int /\ Len(Content(b)) \in Int
      BY <1>1, <1>2
    <2>3. /\ tail \in Seq(Byte)
          /\ Len(tail) = IF n + 1 <= Len(Content(b)) THEN Len(Content(b)) - (n + 1) + 1 ELSE 0
          /\ \A i \in 1..(Len(Content(b)) - (n + 1) + 1) : tail[i] = Content(b)[n + 1 + i - 1]
      BY <2>1, <2>2, SubSeqProperties
    <2> QED
      BY <1>1, <1>2, <2>3
  <1> HIDE DEF tail
  <1>4. /\ c.data = b.data
        /\ c.size = b.size
        /\ \/ /\ n = readable_bytes(b)
              /\ c.reader_index = kCheapPrepend /\ c.writer_index = kCheapPrepend
           \/ /\ n # readable_bytes(b)
              /\ c.reader_index = b.reader_index + n /\ c.writer_index = b.writer_index
    BY DEF retrieve, retrieve_all, Make
  <1> HIDE DEF c
  <1>5. IsBuffer(c)
    BY <1>1, <1>4 DEF IsBuffer, readable_bytes
  <1>6. readable_bytes(c) = readable_bytes(b) - n
    BY <1>1, <1>4 DEF readable_bytes
  <1>7. ASSUME NEW i \in 1..readable_bytes(c)
        PROVE  Content(c)[i] = tail[i]
    <2>1. Content(c)[i] = c.data[c.reader_index + i - 1]
      BY <1>5, ContentIsSeq
    <2>2. n + i \in 1..readable_bytes(b) /\ i \in 1..(readable_bytes(b) - n)
      BY <1>1, <1>6
    <2>3. b.reader_index + (n + i) - 1 = c.reader_index + i - 1
      BY <1>1, <1>4, <1>6
    <2> QED
      BY <1>2, <1>3, <1>4, <2>1, <2>2, <2>3
  <1>8. Content(c) = tail
    BY <1>3, <1>5, <1>6, <1>7, ContentIsSeq, SeqEqual
  <1> QED
    BY <1>4, <1>5, <1>8 DEF c, tail

\* unwrite takes bytes from the end.
LEMMA UnwriteDrops ==
  ASSUME NEW b, IsBuffer(b), NEW n \in 0..readable_bytes(b)
  PROVE  /\ IsBuffer(unwrite(b, n))
         /\ unwrite(b, n).size = b.size
         /\ Content(unwrite(b, n)) = SubSeq(Content(b), 1, Len(Content(b)) - n)
  <1> DEFINE c == unwrite(b, n)
             front == SubSeq(Content(b), 1, Len(Content(b)) - n)
  <1>1. /\ b.size \in Nat /\ b.reader_index \in Nat
        /\ b.writer_index \in Nat /\ b.reader_index <= b.writer_index
        /\ b.writer_index <= b.size
        /\ readable_bytes(b) \in Nat /\ n \in Nat /\ n <= readable_bytes(b)
    BY DEF IsBuffer, readable_bytes
  <1>2. /\ Content(b) \in Seq(Byte)
        /\ Len(Content(b)) = readable_bytes(b)
        /\ \A i \in 1..readable_bytes(b) : Content(b)[i] = b.data[b.reader_index + i - 1]
        /\ \A i \in 1..readable_bytes(b) : Content(b)[i] \in Byte
    BY ContentIsSeq, ElementOfSeq
  <1>3. /\ front \in Seq(Byte)
        /\ Len(front) = readable_bytes(b) - n
        /\ \A i \in 1..(readable_bytes(b) - n) : front[i] = Content(b)[i]
    <2>1. \A i \in 1..(Len(Content(b)) - n) : Content(b)[i] \in Byte
      BY <1>1, <1>2
    <2>2. Len(Content(b)) - n \in Int
      BY <1>1, <1>2
    <2>3. /\ front \in Seq(Byte)
          /\ Len(front) = IF 1 <= Len(Content(b)) - n THEN Len(Content(b)) - n - 1 + 1 ELSE 0
          /\ \A i \in 1..(Len(Content(b)) - n - 1 + 1) : front[i] = Content(b)[1 + i - 1]
      BY <2>1, <2>2, SubSeqProperties
    <2> QED
      BY <1>1, <1>2, <2>3
  <1> HIDE DEF front
  <1>4. /\ c.data = b.data
        /\ c.size = b.size
        /\ c.reader_index = b.reader_index
        /\ c.writer_index = b.writer_index - n
    BY DEF unwrite, Make
  <1> HIDE DEF c
  <1>5. IsBuffer(c)
    BY <1>1, <1>4 DEF IsBuffer, readable_bytes
  <1>6. readable_bytes(c) = readable_bytes(b) - n
    BY <1>1, <1>4 DEF readable_bytes
  <1>7. ASSUME NEW i \in 1..readable_bytes(c)
        PROVE  Content(c)[i] = front[i]
    <2>1. Content(c)[i] = c.data[c.reader_index + i - 1]
      BY <1>5, ContentIsSeq
    <2>2. i \in 1..readable_bytes(b) /\ i \in 1..(readable_bytes(b) - n)
      BY <1>1, <1>6
    <2> QED
      BY <1>2, <1>3, <1>4, <2>1, <2>2
  <1>8. Content(c) = front
    BY <1>3, <1>5, <1>6, <1>7, ContentIsSeq, SeqEqual
  <1> QED
    BY <1>4, <1>5, <1>8 DEF c, front

\* prepend adds its chunk in front.
LEMMA PrependPrepends ==
  ASSUME NEW b, IsBuffer(b), NEW chunk \in Seq(Byte), Len(chunk) <= prependable_bytes(b)
  PROVE  /\ IsBuffer(prepend(b, chunk))
         /\ prepend(b, chunk).size = b.size
         /\ Content(prepend(b, chunk)) = chunk \o Content(b)
  <1> DEFINE c == prepend(b, chunk)
             at == b.reader_index - Len(chunk)
             m == Len(chunk)
             r == readable_bytes(b)
  <1>1. /\ c.data = Copy(b, at, chunk)
        /\ c.size = b.size
        /\ c.reader_index = at
        /\ c.writer_index = b.writer_index
    BY DEF prepend, Make
  <1> HIDE DEF c
  <1>2. /\ m \in Nat /\ b.size \in Nat /\ b.reader_index \in Nat
        /\ b.writer_index \in Nat /\ b.reader_index <= b.writer_index
        /\ b.writer_index <= b.size
        /\ r \in Nat /\ at \in Nat
    BY LenProperties DEF IsBuffer, readable_bytes, prependable_bytes
  <1>3. c.data \in [0..(c.size - 1) -> Byte]
    BY <1>1, <1>2, CopyType
  <1>4. IsBuffer(c)
    BY <1>1, <1>2, <1>3 DEF IsBuffer
  <1>5. readable_bytes(c) = m + r
    BY <1>1, <1>2 DEF readable_bytes
  <1>6. /\ Content(b) \in Seq(Byte)
        /\ Len(Content(b)) = r
        /\ \A i \in 1..r : Content(b)[i] = b.data[b.reader_index + i - 1]
    BY ContentIsSeq
  <1>7. /\ chunk \o Content(b) \in Seq(Byte)
        /\ Len(chunk \o Content(b)) = m + r
        /\ \A i \in 1..(m + r) :
             (chunk \o Content(b))[i] = IF i <= m THEN chunk[i] ELSE Content(b)[i - m]
    <2>1. /\ chunk \o Content(b) \in Seq(Byte)
          /\ Len(chunk \o Content(b)) = Len(chunk) + Len(Content(b))
          /\ \A i \in 1..(Len(chunk) + Len(Content(b))) :
               (chunk \o Content(b))[i] = IF i <= Len(chunk) THEN chunk[i]
                                                           ELSE Content(b)[i - Len(chunk)]
      BY <1>6, ConcatProperties
    <2> QED
      BY <1>6, <2>1, Zenon
  <1>8. ASSUME NEW i \in 1..readable_bytes(c)
        PROVE  Content(c)[i] = (chunk \o Content(b))[i]
    <2>1. Content(c)[i] = c.data[at + i - 1]
      BY <1>1, <1>4, ContentIsSeq
    <2>2. i \in 1..(m + r) /\ i \in Int
      BY <1>2, <1>5
    <2>3. at + i - 1 \in 0..(b.size - 1)
      <3>1. \A x, y, s, k \in Nat : (k <= x /\ x <= y /\ y <= s /\ 1 <= i /\ i <= k + (y - x))
              => x - k + i - 1 \in 0..(s - 1)
        BY <2>2
      <3>2. Len(chunk) <= b.reader_index
        BY DEF prependable_bytes
      <3>3. 1 <= i /\ i <= Len(chunk) + (b.writer_index - b.reader_index)
        BY <1>2, <2>2 DEF readable_bytes
      <3> QED
        BY <1>2, <3>1, <3>2, <3>3
    <2> HIDE DEF at, r, m
    <2>4. CASE i <= m
      <3>1. PICK k \in 0..(b.size - 1) : k = at + i - 1
        BY <2>3
      <3>2. at <= k /\ k < at + Len(chunk) /\ k - at + 1 = i
        BY <1>2, <2>2, <2>4, <3>1 DEF m
      <3>3. Copy(b, at, chunk)[k] = chunk[k - at + 1]
        BY <3>2 DEF Copy
      <3>4. (chunk \o Content(b))[i] = chunk[i]
        BY <1>7, <2>2, <2>4
      <3> QED
        BY <1>1, <2>1, <3>1, <3>2, <3>3, <3>4, Zenon
    <2>5. CASE i > m
      <3>1. ~(at + i - 1 < at + Len(chunk)) /\ at + i - 1 = b.reader_index + (i - m) - 1
        BY <1>2, <2>2, <2>5 DEF m, at
      <3>2. i - m \in 1..r
        BY <1>2, <2>2, <2>5
      <3>3. c.data[at + i - 1] = b.data[at + i - 1]
        BY <1>1, <2>3, <3>1 DEF Copy
      <3>4. (chunk \o Content(b))[i] = Content(b)[i - m]
        BY <1>2, <1>7, <2>2, <2>5
      <3> QED
        BY <1>6, <2>1, <3>1, <3>2, <3>3, <3>4
    <2>6. i <= m \/ i > m
      BY <1>2, <2>2
    <2> QED
      BY <2>4, <2>5, <2>6, Zenon
  <1>9. Content(c) = chunk \o Content(b)
    BY <1>4, <1>5, <1>7, <1>8, ContentIsSeq, SeqEqual
  <1> QED
    BY <1>1, <1>4, <1>9 DEF c

-------------------------------------------------------------------------------

\* The new size after a step that had to make room for n more bytes, and what
\* was asked for, keep the bound on the size.
LEMMA GrowthStep ==
  ASSUME NEW s \in Nat, NEW t \in Nat, NEW p \in Nat, NEW r \in Nat, NEW n \in Nat,
         s = kCheapPrepend + kInitialSize \/ s <= kCheapPrepend + 2 * p,
         t = s \/ t <= kCheapPrepend + 2 * (r + n)
  PROVE  LET q == IF r + n > p THEN r + n ELSE p
         IN  t = kCheapPrepend + kInitialSize \/ t <= kCheapPrepend + 2 * q
  BY BufferAssumption

\* The initial buffers are well formed and within the bound.
LEMMA InitOK ==
  Init => TypeOK /\ GrowthBounded
  <1> SUFFICES ASSUME Init PROVE TypeOK /\ GrowthBounded
    OBVIOUS
  <1>1. IsBuffer(Buffer) /\ Buffer.size = kCheapPrepend + kInitialSize
    BY BufferAssumption DEF Buffer, Make, IsBuffer
  <1> HIDE DEF Buffer
  <1>2. \A x \in Buffers : buf[x] = Buffer
    BY DEF Init
  <1>3. DOMAIN buf = Buffers /\ peak \in [Buffers -> Nat]
    BY DEF Init
  <1> QED
    BY <1>1, <1>2, <1>3 DEF TypeOK, GrowthBounded

\* The effect of a step that asks for room for n more bytes.
LEMMA AskedKeeps ==
  ASSUME TypeOK, GrowthBounded, NEW x \in Buffers, NEW n \in Nat, Asked(x, n),
         NEW c, IsBuffer(c),
         c.size = buf[x].size \/ c.size <= kCheapPrepend + 2 * (readable_bytes(buf[x]) + n),
         buf' = [buf EXCEPT ![x] = c]
  PROVE  TypeOK' /\ GrowthBounded'
  <1> DEFINE r == readable_bytes(buf[x])
             q == IF r + n > peak[x] THEN r + n ELSE peak[x]
  <1>1. /\ r \in Nat
        /\ buf[x].size \in Nat
        /\ c.size \in Nat
        /\ peak[x] \in Nat
    BY DEF TypeOK, IsBuffer, readable_bytes
  <1>2. peak' = [peak EXCEPT ![x] = q]
    BY DEF Asked
  <1> HIDE DEF r
  <1>3. q \in Nat
    BY <1>1
  <1>4. c.size = kCheapPrepend + kInitialSize \/ c.size <= kCheapPrepend + 2 * q
    BY <1>1, GrowthStep DEF GrowthBounded, r
  <1> HIDE DEF q
  <1>5. TypeOK'
    BY <1>2, <1>3 DEF TypeOK
  <1>6. GrowthBounded'
    <2> SUFFICES ASSUME NEW y \in Buffers
                 PROVE  \/ buf'[y].size = kCheapPrepend + kInitialSize
                        \/ buf'[y].size <= kCheapPrepend + 2 * peak'[y]
      BY DEF GrowthBounded
    <2>1. CASE y = x
      BY <1>2, <1>4, <2>1 DEF TypeOK
    <2>2. CASE y # x
      BY <1>2, <2>2 DEF TypeOK, GrowthBounded
    <2> QED
      BY <2>1, <2>2
  <1> QED
    BY <1>5, <1>6

\* The effect of a step that takes bytes away.
LEMMA TakenKeeps ==
  ASSUME TypeOK, GrowthBounded, NEW x \in Buffers, UNCHANGED peak,
         NEW c, IsBuffer(c), c.size = buf[x].size,
         buf' = [buf EXCEPT ![x] = c]
  PROVE  TypeOK' /\ GrowthBounded'
  <1>1. \A y \in Buffers : buf'[y].size = buf[y].size /\ IsBuffer(buf'[y])
    BY DEF TypeOK
  <1>2. TypeOK'
    BY <1>1 DEF TypeOK
  <1>3. GrowthBounded'
    BY <1>1 DEF GrowthBounded
  <1> QED
    BY <1>2, <1>3

\* Every step keeps the buffers well formed and their size bounded.
LEMMA StepOK ==
  TypeOK /\ GrowthBounded /\ [Next]_vars => TypeOK' /\ GrowthBounded'
  <1> SUFFICES ASSUME TypeOK, GrowthBounded, [Next]_vars
               PROVE  TypeOK' /\ GrowthBounded'
    OBVIOUS
  <1>1. ASSUME NEW chunk \in Chunks
        PROVE  chunk \in Seq(Byte) /\ Len(chunk) \in Nat
    BY BufferAssumption, LenProperties
  <1>2. \A x \in Buffers : IsBuffer(buf[x]) /\ readable_bytes(buf[x]) \in Nat
    BY DEF TypeOK, IsBuffer, readable_bytes
  <1>3. ASSUME NEW x \in Buffers, NEW chunk \in Chunks, Append_(x, chunk)
        PROVE  TypeOK' /\ GrowthBounded'
    BY <1>1, <1>2, <1>3, AppendAppends, AskedKeeps DEF Append_
  <1>4. ASSUME NEW x \in Buffers, NEW chunk \in Chunks, ReadFd(x, chunk)
        PROVE  TypeOK' /\ GrowthBounded'
    BY <1>1, <1>2, <1>4, ReadFdAppends, AskedKeeps DEF ReadFd
  <1>5. ASSUME NEW x \in Buffers, NEW chunk \in Chunks, Prepend(x, chunk)
        PROVE  TypeOK' /\ GrowthBounded'
    BY <1>1, <1>2, <1>5, PrependPrepends, AskedKeeps DEF Prepend
  <1>6. ASSUME NEW x \in Buffers, NEW n \in Nat, EnsureWritable(x, n)
        PROVE  TypeOK' /\ GrowthBounded'
    BY <1>2, <1>6, EnsureWritableBytes, AskedKeeps DEF EnsureWritable
  <1>7. ASSUME NEW x \in Buffers, NEW n \in Nat, Retrieve(x, n)
        PROVE  TypeOK' /\ GrowthBounded'
    <2>1. n \in 0..readable_bytes(buf[x])
      BY <1>2, <1>7 DEF Retrieve
    <2>2. IsBuffer(retrieve(buf[x], n)) /\ retrieve(buf[x], n).size = buf[x].size
      BY <1>2, <2>1, RetrieveDrops
    <2> QED
      BY <1>7, <2>2, TakenKeeps DEF Retrieve
  <1>8. ASSUME NEW x \in Buffers, NEW n \in Nat, Unwrite(x, n)
        PROVE  TypeOK' /\ GrowthBounded'
    <2>1. n \in 0..readable_bytes(buf[x])
      BY <1>2, <1>8 DEF Unwrite
    <2>2. IsBuffer(unwrite(buf[x], n)) /\ unwrite(buf[x], n).size = buf[x].size
      BY <1>2, <2>1, UnwriteDrops
    <2> QED
      BY <1>8, <2>2, TakenKeeps DEF Unwrite
  <1>9. ASSUME NEW x \in Buffers, RetrieveAll(x)
        PROVE  TypeOK' /\ GrowthBounded'
    <2>1. retrieve_all(buf[x]) = retrieve(buf[x], readable_bytes(buf[x]))
      BY DEF retrieve
    <2>2. readable_bytes(buf[x]) \in 0..readable_bytes(buf[x])
      BY <1>2
    <2>3. IsBuffer(retrieve_all(buf[x])) /\ retrieve_all(buf[x]).size = buf[x].size
      BY <1>2, <2>1, <2>2, RetrieveDrops
    <2> QED
      BY <1>9, <2>3, TakenKeeps DEF RetrieveAll
  <1>10. ASSUME NEW x \in Buffers, NEW y \in Buffers, Swap(x, y)
         PROVE  TypeOK' /\ GrowthBounded'
    <2>1. \A z \in Buffers : \E u \in Buffers : buf'[z] = buf[u] /\ peak'[z] = peak[u]
      BY <1>10 DEF Swap, TypeOK
    <2>2. DOMAIN buf' = Buffers /\ peak' \in [Buffers -> Nat]
      BY <1>10 DEF Swap, TypeOK
    <2> QED
      BY <2>1, <2>2 DEF TypeOK, GrowthBounded
  <1>11. CASE UNCHANGED vars
    BY <1>11 DEF vars, TypeOK, GrowthBounded
  <1> QED
    BY <1>3, <1>4, <1>5, <1>6, <1>7, <1>8, <1>9, <1>10, <1>11, BufferAssumption DEF Next

\* The indexes of a buffer stay in order and inside the string (the assertion
\* in has_written), whatever the sizes and the order of the calls.
THEOREM TypeCorrect == Spec => []TypeOK
  BY InitOK, StepOK, PTL DEF Spec

\* The string stays within twice what the buffer was asked to hold.
THEOREM GrowthBoundedHolds == Spec => []GrowthBounded
  BY InitOK, StepOK, PTL DEF Spec

\* ensure_writable_bytes always makes room, and rotates only towards the front.
THEOREM MakesRoomHolds == Spec => []MakesRoom
  <1>1. TypeOK => MakesRoom
    BY EnsureWritableBytes, BufferAssumption DEF TypeOK, MakesRoom
  <1> QED
    BY <1>1, TypeCorrect, PTL

\* What a step does to the contents, given what it does to one of them.
LEMMA ContentsExcept ==
  ASSUME TypeOK, NEW x \in Buffers, NEW c, buf' = [buf EXCEPT ![x] = c]
  PROVE  [z \in Buffers |-> Content(buf[z])]'
           = [[z \in Buffers |-> Content(buf[z])] EXCEPT ![x] = Content(c)]
  BY DEF TypeOK

\* Every step is a step of the byte queue, or does not change the contents.
LEMMA QueueStep ==
  TypeOK /\ [Next]_vars => [Queue!Next]_(Queue!vars)
  <1> DEFINE q == [z \in Buffers |-> Content(buf[z])]
  <1> SUFFICES ASSUME TypeOK, [Next]_vars PROVE Queue!Next \/ q' = q
    BY DEF Queue!vars
  <1>1. \A chunk \in Chunks : chunk \in Seq(Byte) /\ Len(chunk) \in Nat
    BY BufferAssumption, LenProperties
  <1>2. \A x \in Buffers : /\ IsBuffer(buf[x])
                           /\ readable_bytes(buf[x]) \in Nat
                           /\ Len(Content(buf[x])) = readable_bytes(buf[x])
                           /\ q[x] = Content(buf[x])
    BY ContentIsSeq DEF TypeOK, IsBuffer, readable_bytes
  <1>3. ASSUME NEW x \in Buffers, NEW chunk \in Chunks, Append_(x, chunk) \/ ReadFd(x, chunk)
        PROVE  Queue!Next
    <2>1. PICK c : buf' = [buf EXCEPT ![x] = c] /\ Content(c) = Content(buf[x]) \o chunk
      BY <1>1, <1>2, <1>3, AppendAppends, ReadFdAppends DEF Append_, ReadFd
    <2>2. q' = [q EXCEPT ![x] = q[x] \o chunk]
      BY <1>2, <2>1, ContentsExcept
    <2> QED
      BY <2>2 DEF Queue!Next, Queue!Append_
  <1>4. ASSUME NEW x \in Buffers, NEW chunk \in Chunks, Prepend(x, chunk)
        PROVE  Queue!Next
    <2>1. PICK c : buf' = [buf EXCEPT ![x] = c] /\ Content(c) = chunk \o Content(buf[x])
      BY <1>1, <1>2, <1>4, PrependPrepends DEF Prepend
    <2>2. q' = [q EXCEPT ![x] = chunk \o q[x]]
      BY <1>2, <2>1, ContentsExcept
    <2> QED
      BY <2>2 DEF Queue!Next, Queue!Prepend
  <1>5. ASSUME NEW x \in Buffers, NEW n \in Nat, EnsureWritable(x, n)
        PROVE  q' = q
    <2>1. PICK c : buf' = [buf EXCEPT ![x] = c] /\ Content(c) = Content(buf[x])
      BY <1>2, <1>5, EnsureWritableBytes DEF EnsureWritable
    <2> QED
      BY <1>2, <2>1, ContentsExcept
  <1>6. ASSUME NEW x \in Buffers, NEW n \in 0..readable_bytes(buf[x]),
               buf' = [buf EXCEPT ![x] = retrieve(buf[x], n)]
        PROVE  Queue!Next
    <2>1. Content(retrieve(buf[x], n)) = SubSeq(q[x], n + 1, Len(q[x]))
      BY <1>2, RetrieveDrops
    <2>2. q' = [q EXCEPT ![x] = SubSeq(q[x], n + 1, Len(q[x]))]
      BY <1>6, <2>1, ContentsExcept
    <2>3. n \in 0..Len(q[x])
      BY <1>2
    <2> QED
      BY <2>2, <2>3 DEF Queue!Next, Queue!Retrieve
  <1>7. ASSUME NEW x \in Buffers, NEW n \in Nat, Retrieve(x, n)
        PROVE  Queue!Next
    <2>1. n \in 0..readable_bytes(buf[x])
      BY <1>2, <1>7 DEF Retrieve
    <2> QED
      BY <1>6, <1>7, <2>1 DEF Retrieve
  <1>8. ASSUME NEW x \in Buffers, RetrieveAll(x)
        PROVE  Queue!Next
    <2>1. retrieve_all(buf[x]) = retrieve(buf[x], readable_bytes(buf[x]))
      BY DEF retrieve
    <2>2. readable_bytes(buf[x]) \in 0..readable_bytes(buf[x])
      BY <1>2
    <2> QED
      BY <1>6, <1>8, <2>1, <2>2 DEF RetrieveAll
  <1>9. ASSUME NEW x \in Buffers, NEW n \in Nat, Unwrite(x, n)
        PROVE  Queue!Next
    <2>1. n \in 0..readable_bytes(buf[x])
      BY <1>2, <1>9 DEF Unwrite
    <2>2. Content(unwrite(buf[x], n)) = SubSeq(q[x], 1, Len(q[x]) - n)
      BY <1>2, <2>1, UnwriteDrops
    <2>3. q' = [q EXCEPT ![x] = SubSeq(q[x], 1, Len(q[x]) - n)]
      BY <1>9, <2>2, ContentsExcept DEF Unwrite
    <2>4. n \in 0..Len(q[x])
      BY <1>2, <2>1
    <2> QED
      BY <2>3, <2>4 DEF Queue!Next, Queue!Unwrite
  <1>10. ASSUME NEW x \in Buffers, NEW y \in Buffers, Swap(x, y)
         PROVE  Queue!Next
    <2>1. q' = [q EXCEPT ![x] = q[y], ![y] = q[x]]
      BY <1>10 DEF Swap, TypeOK
    <2> QED
      BY <2>1 DEF Queue!Next, Queue!Swap
  <1>11. CASE UNCHANGED vars
    BY <1>11 DEF vars
  <1> QED
    BY <1>3, <1>4, <1>5, <1>7, <1>8, <1>9, <1>10, <1>11, BufferAssumption DEF Next

\* A Buffer implements the byte queue for all sizes: rotating, growing and the
\* use of extrabuf never show to a reader.
THEOREM ByteQueueImplemented == Spec => ImplementsByteQueue
  <1>1. Init => Queue!Init
    <2> SUFFICES ASSUME Init PROVE Queue!Init
      OBVIOUS
    <2>1. ASSUME NEW x \in Buffers PROVE Content(buf[x]) = <<>>
      BY BufferAssumption DEF Init, Buffer, Make, Content, readable_bytes
    <2> QED
      BY <2>1 DEF Queue!Init
  <1> QED
    BY <1>1, QueueStep, TypeCorrect, PTL DEF Spec, ImplementsByteQueue, Queue!Spec

===============================================================================
