------------------------- MODULE MessageBufferProofs -------------------------
(***************************************************************************)
(* The indices of a MessageBuffer stay in bounds and its bytes intact, for *)
(* every size of the array and every sequence of operations.               *)
(***************************************************************************)
EXTENDS MessageBuffer, TLAPS

\* The three invariants are inductive together: the bounds say which elements
\* of the array the readable bytes are, the stream that they are the right ones.
BufferInv == TypeOK /\ IndicesInBounds /\ StreamIntact

LEMMA BufferInit == Init => BufferInv
<1> SUFFICES ASSUME Init PROVE BufferInv
  OBVIOUS
<1>1. capacity \in Nat
  BY InitialSizeAssumption DEF Init
<1>2. buffer \in [1 .. capacity -> Nat]
  BY DEF Init
<1> QED BY <1>1, <1>2 DEF Init, BufferInv, TypeOK, IndicesInBounds, StreamIntact,
                          ReadableBytes

LEMMA BufferWrite ==
  ASSUME BufferInv, NEW n \in Nat, Write(n)
  PROVE  BufferInv'
<1> DEFINE size == Demanded(n)
<1>1. size \in Nat /\ size >= capacity /\ size >= writeIndex + n
  BY DEF Demanded, WritableBytes, BufferInv, TypeOK, IndicesInBounds
<1>2. /\ capacity' = size
      /\ buffer' = Filled(Resized(size), size, writeIndex, n)
      /\ writeIndex' = writeIndex + n
      /\ written' = written + n
      /\ readIndex' = readIndex
      /\ taken' = taken
  BY DEF Write
<1>3. \A i \in 1 .. size : Resized(size)[i] \in Nat
  BY <1>1 DEF Resized, BufferInv, TypeOK
<1>4. TypeOK'
  BY <1>1, <1>2, <1>3 DEF Filled, BufferInv, TypeOK
<1>5. IndicesInBounds'
  BY <1>1, <1>2 DEF BufferInv, TypeOK, IndicesInBounds
<1>6. StreamIntact'
  <2>1. ReadableBytes' = written' - taken'
    BY <1>2 DEF ReadableBytes, BufferInv, TypeOK, StreamIntact
  <2>2. ASSUME NEW i \in 1 .. ReadableBytes'
        PROVE  buffer'[readIndex' + i] = taken' + i
    <3>1. readIndex + i \in 1 .. size /\ i \in Nat
      BY <1>1, <1>2 DEF ReadableBytes, BufferInv, TypeOK, IndicesInBounds
    <3>2. CASE i <= ReadableBytes
      BY <1>1, <1>2, <3>1, <3>2
         DEF Filled, Resized, ReadableBytes, BufferInv, TypeOK, IndicesInBounds, StreamIntact
    <3>3. CASE ~ (i <= ReadableBytes)
      BY <1>1, <1>2, <3>1, <3>3
         DEF Filled, ReadableBytes, BufferInv, TypeOK, IndicesInBounds, StreamIntact
    <3> QED BY <3>2, <3>3
  <2> QED BY <2>1, <2>2 DEF StreamIntact
<1> QED BY <1>4, <1>5, <1>6 DEF BufferInv

LEMMA BufferWriteDone ==
  ASSUME BufferInv, NEW n \in Nat, WriteDone(n)
  PROVE  BufferInv'
<1> USE DEF BufferInv, TypeOK, IndicesInBounds
<1>1. /\ buffer' = Filled(buffer, capacity, writeIndex, n)
      /\ writeIndex' = writeIndex + n
      /\ written' = written + n
      /\ UNCHANGED <<capacity, readIndex, taken>>
      /\ writeIndex + n <= capacity
  BY DEF WriteDone, WritableBytes
<1>2. TypeOK' /\ IndicesInBounds'
  BY <1>1 DEF Filled
<1>3. ReadableBytes' = written' - taken'
  BY <1>1 DEF ReadableBytes, StreamIntact
<1>4. ASSUME NEW i \in 1 .. ReadableBytes'
      PROVE  buffer'[readIndex' + i] = taken' + i
  <2>1. readIndex + i \in 1 .. capacity /\ i \in Nat
    BY <1>1 DEF ReadableBytes
  <2>2. CASE i <= ReadableBytes
    BY <1>1, <2>1, <2>2 DEF Filled, ReadableBytes, StreamIntact
  <2>3. CASE ~ (i <= ReadableBytes)
    BY <1>1, <2>1, <2>3 DEF Filled, ReadableBytes, StreamIntact
  <2> QED BY <2>2, <2>3
<1> QED BY <1>2, <1>3, <1>4 DEF StreamIntact

LEMMA BufferRead ==
  ASSUME BufferInv, NEW n \in Nat, Read(n) \/ ReadDone(n)
  PROVE  BufferInv'
<1> USE DEF BufferInv, TypeOK, IndicesInBounds
<1>1. /\ UNCHANGED <<capacity, buffer, written>>
      /\ taken' = taken + n
      /\ n <= ReadableBytes
      /\ ReadableBytes \in Nat
  BY DEF Read, ReadDone, ReadableBytes
<1>2. \/ readIndex' = readIndex + n /\ writeIndex' = writeIndex
      \/ readIndex' = 0 /\ writeIndex' = 0 /\ n = ReadableBytes
  BY <1>1 DEF Read, ReadDone, Adjustment
<1>3. TypeOK' /\ IndicesInBounds'
  BY <1>1, <1>2 DEF ReadableBytes
<1>4. ReadableBytes' = written' - taken'
  BY <1>1, <1>2 DEF ReadableBytes, StreamIntact
<1>5. ASSUME NEW i \in 1 .. ReadableBytes'
      PROVE  buffer'[readIndex' + i] = taken' + i
  <2>1. CASE readIndex' = readIndex + n /\ writeIndex' = writeIndex
    <3>1. n + i \in 1 .. ReadableBytes
      BY <1>1, <2>1 DEF ReadableBytes
    <3>2. buffer[readIndex + (n + i)] = taken + (n + i)
      BY <3>1 DEF StreamIntact
    <3> QED BY <1>1, <2>1, <3>2
  <2>2. CASE readIndex' = 0 /\ writeIndex' = 0
    BY <2>2 DEF ReadableBytes
  <2> QED BY <1>2, <2>1, <2>2
<1> QED BY <1>3, <1>4, <1>5 DEF StreamIntact

LEMMA BufferEnsureFreeSpace ==
  ASSUME BufferInv, EnsureFreeSpace
  PROVE  BufferInv'
<1> USE DEF BufferInv, TypeOK, IndicesInBounds
<1> DEFINE len == (capacity * 3) \div 2
<1>0. len \in Nat
  OBVIOUS
<1>1. CASE WritableBytes < len
  <2>1. /\ capacity' = writeIndex + len
        /\ buffer' = Resized(writeIndex + len)
        /\ UNCHANGED <<readIndex, writeIndex, written, taken>>
    BY <1>1 DEF EnsureFreeSpace
  <2>2. capacity' \in Nat /\ capacity <= capacity'
    BY <1>0, <1>1, <2>1 DEF WritableBytes
  <2>3. TypeOK' /\ IndicesInBounds'
    BY <2>1, <2>2 DEF Resized
  <2>4. ReadableBytes' = ReadableBytes
    BY <2>1 DEF ReadableBytes
  <2>5. ASSUME NEW i \in 1 .. ReadableBytes
        PROVE  buffer'[readIndex' + i] = taken' + i
    <3>1. readIndex + i \in 1 .. capacity
      BY DEF ReadableBytes
    <3>2. buffer'[readIndex + i] = buffer[readIndex + i]
      BY <2>1, <2>2, <3>1 DEF Resized
    <3> QED BY <2>1, <3>2 DEF StreamIntact
  <2> QED BY <2>1, <2>3, <2>4, <2>5 DEF StreamIntact
<1>2. CASE ~ (WritableBytes < len)
  <2>1. /\ buffer' = Moved
        /\ readIndex' = 0
        /\ writeIndex' = ReadableBytes
        /\ UNCHANGED <<capacity, written, taken>>
    BY <1>2 DEF EnsureFreeSpace
  <2>2. ReadableBytes \in Nat /\ readIndex + ReadableBytes <= capacity
    BY DEF ReadableBytes
  <2>3. TypeOK' /\ IndicesInBounds'
    BY <2>1, <2>2 DEF Moved
  <2>4. ReadableBytes' = ReadableBytes
    BY <2>1, <2>2 DEF ReadableBytes
  <2>5. ASSUME NEW i \in 1 .. ReadableBytes
        PROVE  buffer'[readIndex' + i] = taken' + i
    <3>1. i \in 1 .. capacity /\ i <= ReadableBytes
      BY <2>2
    <3>2. buffer'[i] = buffer[readIndex + i]
      BY <2>1, <3>1 DEF Moved
    <3> QED BY <2>1, <3>2 DEF StreamIntact
  <2> QED BY <2>1, <2>3, <2>4, <2>5 DEF StreamIntact
<1> QED BY <1>1, <1>2

LEMMA BufferShrink ==
  ASSUME BufferInv, NEW n \in Nat, Shrink(n)
  PROVE  BufferInv'
<1> USE DEF BufferInv, TypeOK, IndicesInBounds
<1>1. ReadableBytes \in Nat /\ readIndex + ReadableBytes <= capacity
  BY DEF ReadableBytes
<1>2. Kept(n) \in Nat /\ ReadableBytes <= Kept(n)
  BY <1>1, InitialSizeAssumption DEF Kept
<1>3. /\ capacity' = Kept(n)
      /\ buffer' = [i \in 1 .. Kept(n) |->
                       IF i <= ReadableBytes THEN buffer[readIndex + i] ELSE 0]
      /\ readIndex' = 0
      /\ writeIndex' = ReadableBytes
      /\ UNCHANGED <<written, taken>>
  BY DEF Shrink, FromReadIndex
<1>4. TypeOK' /\ IndicesInBounds'
  BY <1>1, <1>2, <1>3
<1>5. ReadableBytes' = ReadableBytes
  BY <1>1, <1>3 DEF ReadableBytes
<1>6. ASSUME NEW i \in 1 .. ReadableBytes
      PROVE  buffer'[readIndex' + i] = taken' + i
  <2>1. i \in 1 .. Kept(n) /\ i <= ReadableBytes
    BY <1>1, <1>2
  <2>2. buffer'[i] = buffer[readIndex + i]
    BY <1>3, <2>1
  <2> QED BY <1>3, <2>2 DEF StreamIntact
<1> QED BY <1>3, <1>4, <1>5, <1>6 DEF StreamIntact

LEMMA BufferStep == BufferInv /\ [Next]_vars => BufferInv'
<1> SUFFICES ASSUME BufferInv, [Next]_vars PROVE BufferInv'
  OBVIOUS
<1>1. CASE UNCHANGED vars
  BY <1>1 DEF vars, BufferInv, TypeOK, IndicesInBounds, StreamIntact, ReadableBytes
<1>2. \A n \in 0 .. MaxBytes : n \in Nat
  BY MaxBytesAssumption
<1> QED BY <1>1, <1>2, BufferWrite, BufferWriteDone, BufferRead,
           BufferEnsureFreeSpace, BufferShrink DEF Next

\* The indices of every reachable buffer are ordered and inside its array.
THEOREM BufferIndicesInBounds == Spec => []IndicesInBounds
<1>1. BufferInv => IndicesInBounds
  BY DEF BufferInv
<1> QED BY <1>1, BufferInit, BufferStep, PTL DEF Spec

\* No operation loses, repeats or reorders a byte of the stream.
THEOREM BufferStreamIntact == Spec => []StreamIntact
<1>1. BufferInv => StreamIntact
  BY DEF BufferInv
<1> QED BY <1>1, BufferInit, BufferStep, PTL DEF Spec

\* The buffer is well typed in every reachable state: the array holds as many
\* bytes as its capacity says, however it has grown and shrunk.
THEOREM BufferTypeCorrect == Spec => []TypeOK
<1>1. BufferInv => TypeOK
  BY DEF BufferInv
<1> QED BY <1>1, BufferInit, BufferStep, PTL DEF Spec
=============================================================================
