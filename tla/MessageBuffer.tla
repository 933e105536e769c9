---------------------------- MODULE MessageBuffer ----------------------------
(***************************************************************************)
(* net::MessageBuffer: a growing array with a read and a write index,      *)
(* filled by Write or, through GetWritPointer and WriteDone, by the        *)
(* socket, and emptied by Read or, through GetReadPointer and ReadDone, by *)
(* a parser or the socket.                                                 *)
(*                                                                         *)
(* A byte is its position in the stream of all the bytes ever written, so  *)
(* that a byte lost, repeated or out of order shows; 0 is a byte of the    *)
(* array that was never written.                                           *)
(***************************************************************************)
EXTENDS Integers

CONSTANTS
    InitialSize,   \* INITIAL_BUFFER_SIZE
    MaxCapacity,   \* bound: the array is not grown beyond this
    MaxBytes       \* bound: how many bytes are written in all

ASSUME InitialSizeAssumption == InitialSize \in Nat
ASSUME MaxCapacityAssumption == MaxCapacity \in Nat
ASSUME MaxBytesAssumption    == MaxBytes \in Nat

VARIABLES
    capacity,     \* _buffer.size()
    buffer,       \* _buffer
    readIndex,    \* _readIndex
    writeIndex,   \* _writeIndex
    written,      \* bytes put into the buffer so far
    taken         \* bytes taken out of it so far

vars == <<capacity, buffer, readIndex, writeIndex, written, taken>>

\* A buffer is constructed with any initial size: SendProtoMessage gives it the
\* size of the message, Shrink and the sessions the default.
Init == /\ capacity   \in 0 .. InitialSize
        /\ buffer     = [i \in 1 .. capacity |-> 0]
        /\ readIndex  = 0
        /\ writeIndex = 0
        /\ written    = 0
        /\ taken      = 0

ReadableBytes == writeIndex - readIndex
WritableBytes == capacity - writeIndex

-----------------------------------------------------------------------------
(* The private helpers, as the state they lead to.                         *)

\* _buffer.resize(size): what was there stays, the rest is zero.
ResizedToLen(size) == [i \in 1 .. (size - writeIndex) |-> IF i <= capacity THEN buffer[i] ELSE 0]
Resized(size) == [i \in 1 .. size |-> IF i <= capacity THEN buffer[i] ELSE 0]

\* The array after n more bytes were copied to the write index of array b.
Filled(b, size, at, n) ==
    [i \in 1 .. size |-> IF i \in (at + 1) .. (at + n) THEN written + (i - at) ELSE b[i]]

\* EnsureWritableBytes(len): the array is grown when too little of it is left
\* behind the write index, even if the read index leaves room in front.
NeverGrown(len) == capacity
Demanded(len)   == IF WritableBytes < len THEN writeIndex + len ELSE capacity

\* Adjustment(len): both indices go back to the start when all has been read.
Adjustment(len) == IF len < ReadableBytes
                   THEN readIndex' = readIndex + len /\ UNCHANGED writeIndex
                   ELSE readIndex' = 0 /\ writeIndex' = 0

-----------------------------------------------------------------------------
(* The operations.                                                         *)

\* Write(data, n) and its overloads.
Write(n) ==
    /\ written + n <= MaxBytes
    /\ Demanded(n) <= MaxCapacity
    /\ capacity'   = Demanded(n)
    /\ buffer'     = Filled(Resized(Demanded(n)), Demanded(n), writeIndex, n)
    /\ writeIndex' = writeIndex + n
    /\ written'    = written + n
    /\ UNCHANGED <<readIndex, taken>>

\* The socket, or SerializeToArray, fills n of the writable bytes, and the
\* caller reports them with WriteDone(n).
WriteDone(n) ==
    /\ n <= WritableBytes
    /\ written + n <= MaxBytes
    /\ buffer'     = Filled(buffer, capacity, writeIndex, n)
    /\ writeIndex' = writeIndex + n
    /\ written'    = written + n
    /\ UNCHANGED <<capacity, readIndex, taken>>

\* Read(data, n), Read<PODType>() and ReadAsString(n), which assert that n bytes
\* are there.
Read(n) ==
    /\ n <= ReadableBytes
    /\ Adjustment(n)
    /\ taken' = taken + n
    /\ UNCHANGED <<capacity, buffer, written>>

\* n of the readable bytes have been used in place: ReadDone(n).
ReadDone(n) ==
    /\ n <= ReadableBytes
    /\ readIndex' = readIndex + n
    /\ taken'     = taken + n
    /\ UNCHANGED <<capacity, buffer, writeIndex, written>>

\* EnsureFreeSpace() asks MakeSpace for one and a half times the size of the
\* array.  Less than that is writable unless the array has at most one byte, so
\* MakeSpace grows the array; its other branch moves the readable bytes to the
\* front.
Moved == [i \in 1 .. capacity |->
             IF i <= ReadableBytes THEN buffer[readIndex + i] ELSE buffer[i]]

EnsureFreeSpace ==
    LET len == (capacity * 3) \div 2 IN
    /\ IF WritableBytes < len
       THEN /\ writeIndex + len <= MaxCapacity
            /\ capacity' = writeIndex + len
            /\ buffer'   = Resized(writeIndex + len)
            /\ UNCHANGED <<readIndex, writeIndex>>
       ELSE /\ buffer'     = Moved
            /\ readIndex'  = 0
            /\ writeIndex' = ReadableBytes
            /\ UNCHANGED capacity
    /\ UNCHANGED <<written, taken>>

\* Shrink(reserve): the readable bytes are written to a fresh buffer of the
\* default size, which is swapped in.
Kept(reserve) == IF InitialSize < ReadableBytes + reserve
                 THEN ReadableBytes + reserve ELSE InitialSize
FromTheStart(i) == buffer[i]
FromReadIndex(i) == buffer[readIndex + i]

Shrink(reserve) ==
    /\ Kept(reserve) <= MaxCapacity
    /\ capacity'   = Kept(reserve)
    /\ buffer'     = [i \in 1 .. Kept(reserve) |->
                         IF i <= ReadableBytes THEN FromReadIndex(i) ELSE 0]
    /\ readIndex'  = 0
    /\ writeIndex' = ReadableBytes
    /\ UNCHANGED <<written, taken>>

Next == \/ EnsureFreeSpace
        \/ \E n \in 0 .. MaxBytes :
               Write(n) \/ WriteDone(n) \/ Read(n) \/ ReadDone(n) \/ Shrink(n)

Spec == Init /\ [][Next]_vars

-----------------------------------------------------------------------------
(* Properties.                                                             *)

TypeOK == /\ capacity \in Nat
          /\ buffer \in [1 .. capacity -> Nat]
          /\ readIndex \in Nat
          /\ writeIndex \in Nat
          /\ written \in Nat
          /\ taken \in Nat

\* The indices stay ordered and inside the array, so that ReadableBytes and
\* WritableBytes, which are differences of unsigned numbers, never wrap.
IndicesInBounds == readIndex <= writeIndex /\ writeIndex <= capacity

\* The readable bytes are exactly those written and not yet taken, in the order
\* in which they were written: growing, compacting, shrinking and resetting the
\* indices neither lose nor repeat nor reorder a byte.
StreamIntact ==
    /\ ReadableBytes = written - taken
    /\ \A i \in 1 .. ReadableBytes : buffer[readIndex + i] = taken + i
=============================================================================
