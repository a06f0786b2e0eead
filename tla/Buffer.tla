-------------------------------- MODULE Buffer --------------------------------
(***************************************************************************)
(* class Buffer of net/muduo.hpp: a vector with a read and a write offset. *)
(* Space before the read offset is reused by moving what is readable to    *)
(* the front; the vector grows only when that is not enough.               *)
(***************************************************************************)
EXTENDS Integers, Sequences

CONSTANTS
    Bytes,      \* what a cell of the buffer may hold
    Fresh,      \* the value of a cell that was never written
    DefaultSize \* BUFFER_DEFAULT_SIZE

ASSUME BufferAssumption ==
    /\ DefaultSize \in Nat
    /\ Fresh \in Bytes

VARIABLES
    cells,  \* _buffer: a function from offsets to bytes
    size,   \* _buffer.size()
    reader, \* _reader_idx
    writer  \* _writer_idx

bufferVars == <<cells, size, reader, writer>>

Offsets == 0..(size - 1)

BufferInit ==
    /\ size = DefaultSize
    /\ cells = [k \in Offsets |-> Fresh]
    /\ reader = 0 /\ writer = 0

ReadAbleSize == writer - reader
TailIdleSize == size - writer
HeadIdleSize == reader

\* The readable bytes, as a sequence.
Content == [k \in 1..ReadAbleSize |-> cells[reader + k - 1]]

\* Old with `data' copied to offset `at'; the vector is `n' long after that.
Copied(old, data, at, n) ==
    [k \in 0..(n - 1) |-> IF k \in at..(at + Len(data) - 1) THEN data[k - at + 1]
                          ELSE IF k \in DOMAIN old THEN old[k] ELSE Fresh]

\* EnsureWriteSpace finds room behind the write offset.
WriteInPlace(data) ==
    /\ Len(data) <= TailIdleSize
    /\ cells' = Copied(cells, data, writer, size)
    /\ writer' = writer + Len(data)
    /\ UNCHANGED <<size, reader>>

\* Mutant: the offsets are reset without moving the bytes.
WriteAfterMove_NoCopy(data) ==
    /\ Len(data) > TailIdleSize /\ Len(data) <= TailIdleSize + HeadIdleSize
    /\ cells' = Copied(cells, data, ReadAbleSize, size)
    /\ reader' = 0
    /\ writer' = ReadAbleSize + Len(data)
    /\ UNCHANGED size

\* It moves the readable bytes to the front.
WriteAfterMove(data) ==
    /\ Len(data) > TailIdleSize /\ Len(data) <= TailIdleSize + HeadIdleSize
    /\ LET moved == Copied(cells, Content, 0, size)
       IN  cells' = Copied(moved, data, ReadAbleSize, size)
    /\ reader' = 0
    /\ writer' = ReadAbleSize + Len(data)
    /\ UNCHANGED size

\* It lets the vector grow.
WriteAfterResize(data) ==
    /\ Len(data) > TailIdleSize + HeadIdleSize
    /\ size' = writer + Len(data)
    /\ cells' = Copied(cells, data, writer, writer + Len(data))
    /\ writer' = writer + Len(data)
    /\ UNCHANGED reader

WriteAndPush(data) ==
    WriteInPlace(data) \/ WriteAfterMove(data) \/ WriteAfterResize(data)

\* Asserted in the code: no more than is readable.
MoveReadOffset(n) ==
    /\ n <= ReadAbleSize
    /\ reader' = reader + n
    /\ UNCHANGED <<cells, size, writer>>

BufferNext ==
    \/ \E data \in Seq(Bytes) : WriteAndPush(data)
    \/ \E n \in Nat : MoveReadOffset(n)

BufferSpec == BufferInit /\ [][BufferNext]_bufferVars
-----------------------------------------------------------------------------
\* Type invariant: the offsets are in order and within the vector.
BufferTypeOK ==
    /\ size \in Nat /\ reader \in Nat /\ writer \in Nat
    /\ cells \in [Offsets -> Bytes]
    /\ reader <= writer /\ writer <= size

Queue == INSTANCE ByteQueue WITH content <- Content

\* The buffer is a queue: moving, growing and overwriting never lose,
\* repeat or reorder a byte.
BufferIsQueue == Queue!Spec
=============================================================================
