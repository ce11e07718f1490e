-------------------------------- MODULE Buffer --------------------------------
(***************************************************************************)
(* wuduo::Buffer (buffer.h, buffer.cpp): the bytes of a connection or of a *)
(* response in one std::string, between reader_index_ and writer_index_.   *)
(*                                                                         *)
(* A buffer is a record, each method an operator from the buffer before it *)
(* to the buffer after it; the state machine calls them on the buffers of  *)
(* the program in any order.  data is a function on the offsets of         *)
(* buffer_, and the stale bytes outside the readable ones are kept, as in  *)
(* the code.  The assertions on the argument of retrieve, unwrite and      *)
(* prepend are preconditions of their callers; those that depend on the    *)
(* buffer itself are the properties MakesRoom and TypeOK.  shrink_to_fit   *)
(* changes the capacity of the string, which nothing here depends on.      *)
(***************************************************************************)
EXTENDS Integers, Sequences

CONSTANTS
  Buffers,        \* the buffers
  Byte,           \* the values of a char
  Zero,           \* '\0', with which std::string::resize fills
  Chunks,         \* what is added in one call
  kCheapPrepend,
  kInitialSize,
  ExtraSize,      \* sizeof extrabuf in read_fd
  MaxReadable     \* bound: how much a buffer is filled

ASSUME BufferAssumption ==
  /\ Zero \in Byte
  /\ Chunks \subseteq Seq(Byte)
  /\ kCheapPrepend \in Nat
  /\ kInitialSize \in Nat
  /\ ExtraSize \in Nat
  /\ MaxReadable \in Nat

VARIABLES
  buf,    \* the buffers
  peak    \* history: the most bytes each was asked to have room for

vars == <<buf, peak>>

-------------------------------------------------------------------------------
(* The methods *)

\* buffer_ with its size, reader_index_ and writer_index_
Make(data, size, reader, writer) ==
  [data |-> data, size |-> size, reader_index |-> reader, writer_index |-> writer]

Buffer ==
  LET size == kCheapPrepend + kInitialSize
  IN  Make([i \in 0..(size - 1) |-> Zero], size, kCheapPrepend, kCheapPrepend)

readable_bytes(b) == b.writer_index - b.reader_index
writable_bytes(b) == b.size - b.writer_index
prependable_bytes(b) == b.reader_index

\* What peek() and readable_bytes() give the reader.
Content(b) == [i \in 1..readable_bytes(b) |-> b.data[b.reader_index + i - 1]]

\* std::copy_n(chunk, Len(chunk), buffer_.data() + at)
Copy(b, at, chunk) ==
  [i \in 0..(b.size - 1) |-> IF at <= i /\ i < at + Len(chunk) THEN chunk[i - at + 1] ELSE b.data[i]]

\* buffer_.resize(size), to a larger size
Resize(b, size) ==
  Make([i \in 0..(size - 1) |-> IF i < b.size THEN b.data[i] ELSE Zero],
       size, b.reader_index, b.writer_index)

Rotate(b) ==
  Make(Copy(b, kCheapPrepend, Content(b)),
       b.size, kCheapPrepend, kCheapPrepend + readable_bytes(b))

MutantRotates(b, n) == writable_bytes(b) + prependable_bytes(b) >= n

Rotates(b, n) == writable_bytes(b) + prependable_bytes(b) >= n + kCheapPrepend

\* Always grows.
MutantMakeSpace(b, n) == Resize(b, b.writer_index + n)

make_space(b, n) == IF Rotates(b, n) THEN Rotate(b) ELSE Resize(b, b.writer_index + n)

ensure_writable_bytes(b, n) == IF writable_bytes(b) < n THEN make_space(b, n) ELSE b

\* A copy to begin_write(), and has_written(Len(chunk))
Write(b, chunk) ==
  Make(Copy(b, b.writer_index, chunk), b.size, b.reader_index, b.writer_index + Len(chunk))

append(b, chunk) == Write(ensure_writable_bytes(b, Len(chunk)), chunk)

retrieve_all(b) == Make(b.data, b.size, kCheapPrepend, kCheapPrepend)

retrieve(b, n) ==
  IF n = readable_bytes(b)
  THEN retrieve_all(b)
  ELSE Make(b.data, b.size, b.reader_index + n, b.writer_index)

unwrite(b, n) == Make(b.data, b.size, b.reader_index, b.writer_index - n)

\* Copies to the old reader_index_.
MutantPrepend(b, chunk) ==
  Make(Copy(b, b.reader_index, chunk), b.size, b.reader_index - Len(chunk), b.writer_index)

prepend(b, chunk) ==
  LET at == b.reader_index - Len(chunk)
  IN  Make(Copy(b, at, chunk), b.size, at, b.writer_index)

\* Counts the bytes in extrabuf as written.
MutantReadFd(b, chunk) == Write(b, chunk)

\* readv fills the writable bytes first and extrabuf with the rest.
read_fd(b, chunk) ==
  LET writable == writable_bytes(b)
  IN  IF Len(chunk) <= writable
      THEN Write(b, chunk)
      ELSE append(Write(b, SubSeq(chunk, 1, writable)), SubSeq(chunk, writable + 1, Len(chunk)))

-------------------------------------------------------------------------------
(* The program *)

Init ==
  /\ buf = [x \in Buffers |-> Buffer]
  /\ peak = [x \in Buffers |-> 0]

\* The bound on the filling, and the history of what was asked for.
Asked(x, n) ==
  LET total == readable_bytes(buf[x]) + n
  IN  /\ total <= MaxReadable
      /\ peak' = [peak EXCEPT ![x] = IF total > @ THEN total ELSE @]

Append_(x, chunk) ==
  /\ Asked(x, Len(chunk))
  /\ buf' = [buf EXCEPT ![x] = append(@, chunk)]

EnsureWritable(x, n) ==
  /\ Asked(x, n)
  /\ buf' = [buf EXCEPT ![x] = ensure_writable_bytes(@, n)]

ReadFd(x, chunk) ==
  /\ Len(chunk) <= writable_bytes(buf[x]) + ExtraSize
  /\ Asked(x, Len(chunk))
  /\ buf' = [buf EXCEPT ![x] = read_fd(@, chunk)]

Prepend(x, chunk) ==
  /\ Len(chunk) <= prependable_bytes(buf[x])
  /\ Asked(x, Len(chunk))
  /\ buf' = [buf EXCEPT ![x] = prepend(@, chunk)]

Retrieve(x, n) ==
  /\ n <= readable_bytes(buf[x])
  /\ buf' = [buf EXCEPT ![x] = retrieve(@, n)]
  /\ UNCHANGED peak

RetrieveAll(x) ==
  /\ buf' = [buf EXCEPT ![x] = retrieve_all(@)]
  /\ UNCHANGED peak

Unwrite(x, n) ==
  /\ n <= readable_bytes(buf[x])
  /\ buf' = [buf EXCEPT ![x] = unwrite(@, n)]
  /\ UNCHANGED peak

Swap(x, y) ==
  /\ buf' = [buf EXCEPT ![x] = buf[y], ![y] = buf[x]]
  /\ peak' = [peak EXCEPT ![x] = peak[y], ![y] = peak[x]]

Next ==
  \E x \in Buffers :
    \/ \E chunk \in Chunks : Append_(x, chunk) \/ ReadFd(x, chunk) \/ Prepend(x, chunk)
    \/ \E n \in 0..MaxReadable : EnsureWritable(x, n) \/ Retrieve(x, n) \/ Unwrite(x, n)
    \/ RetrieveAll(x)
    \/ \E y \in Buffers : Swap(x, y)

Spec == Init /\ [][Next]_vars

-------------------------------------------------------------------------------
(* Properties *)

IsBuffer(b) ==
  /\ b.size \in Nat
  /\ b.data \in [0..(b.size - 1) -> Byte]
  /\ b.reader_index \in Nat
  /\ b.writer_index \in Nat
  /\ b.reader_index <= b.writer_index
  /\ b.writer_index <= b.size
  /\ kCheapPrepend <= b.size

\* The type of the state; the indexes are in order and inside the string, also
\* after a read_fd that used extrabuf (the assertion in has_written).
TypeOK ==
  /\ DOMAIN buf = Buffers
  /\ \A x \in Buffers : IsBuffer(buf[x])
  /\ peak \in [Buffers -> Nat]

\* ensure_writable_bytes makes room for any request, whether it rotates or
\* grows (the assertion in ensure_writable_bytes), and std::copy is only asked
\* to move bytes towards the front, where its ranges may overlap.
MakesRoom ==
  \A x \in Buffers : \A n \in 0..MaxReadable :
    /\ writable_bytes(ensure_writable_bytes(buf[x], n)) >= n
    /\ (writable_bytes(buf[x]) < n /\ Rotates(buf[x], n)) => kCheapPrepend < buf[x].reader_index

\* A buffer rotates often enough: its string never gets longer than twice the
\* most it was ever asked to hold, however much went through it.
GrowthBounded ==
  \A x \in Buffers :
    \/ buf[x].size = kCheapPrepend + kInitialSize
    \/ buf[x].size <= kCheapPrepend + 2 * peak[x]

Queue == INSTANCE ByteQueue WITH queue <- [x \in Buffers |-> Content(buf[x])]

\* Whatever is rotated, grown or left behind in the string, the readable bytes
\* are those of a queue.
ImplementsByteQueue == Queue!Spec

===============================================================================
