----------------------------- MODULE MemoryProofs -----------------------------
(***************************************************************************)
(* Proofs about memory.c for every size of memory and every set of byte    *)
(* values.  The inductive invariant says where each byte of the remembered *)
(* value is in the array.                                                  *)
(***************************************************************************)
EXTENDS Memory, TLAPS

USE SizeAssumption, PacketAssumption

\* Every byte of the remembered value is still in its place.
BytesInPlace ==
  \A i \in 1 .. written.width :
    data[written.address + Offset(i, written.width, written.be)]
      = written.value[i]

IInv == TypeOK /\ BytesInPlace

-----------------------------------------------------------------------------
\* An access that stays inside touches only bytes of the array.
LEMMA OffsetInside ==
  ASSUME NEW a \in Nat, NEW w \in Nat, a + w <= Size, NEW be \in BOOLEAN,
         NEW i \in 1 .. w
  PROVE  /\ Offset(i, w, be) \in 0 .. w - 1
         /\ a + Offset(i, w, be) \in Index
BY DEF Offset, Index

LEMMA ReadType ==
  ASSUME TypeOK, NEW a \in Nat, NEW w \in Nat, a + w <= Size,
         NEW be \in BOOLEAN
  PROVE  ValueAt(a, w, be) \in Value(w)
<1>1. \A i \in 1 .. w : data[a + Offset(i, w, be)] \in Byte
  BY OffsetInside DEF TypeOK
<1>. QED
  BY <1>1 DEF ValueAt, Value

\* The byte the loop of a write takes from the value for an address.
LEMMA WrittenType ==
  ASSUME TypeOK, NEW a \in Nat, NEW w \in Nat, a + w <= Size,
         NEW be \in BOOLEAN, NEW v \in Value(w)
  PROVE  Written(a, w, be, v) \in [Index -> Byte]
<1>1. ASSUME NEW j \in Index, j - a \in 0 .. w - 1
      PROVE  (IF be THEN j - a + 1 ELSE w - (j - a)) \in 1 .. w
  BY <1>1 DEF Index
<1>2. \A j \in Index : Written(a, w, be, v)[j] \in Byte
  BY <1>1 DEF Written, TypeOK, Value
<1>. QED
  BY <1>2 DEF Written

\* A write puts the bytes where a read of the same endianness finds them.
LEMMA WrittenInPlace ==
  ASSUME NEW a \in Nat, NEW w \in Nat, a + w <= Size, NEW be \in BOOLEAN,
         NEW v \in Value(w), NEW i \in 1 .. w
  PROVE  Written(a, w, be, v)[a + Offset(i, w, be)] = v[i]
<1>. DEFINE j == a + Offset(i, w, be)
<1>1. j \in Index /\ j - a = Offset(i, w, be) /\ j - a \in 0 .. w - 1
  BY OffsetInside
<1>2. (IF be THEN j - a + 1 ELSE w - (j - a)) = i
  BY <1>1 DEF Offset
<1>. HIDE DEF j
<1>3. Written(a, w, be, v)[j] = v[IF be THEN j - a + 1 ELSE w - (j - a)]
  BY <1>1 DEF Written
<1>. QED
  BY <1>2, <1>3 DEF j

LEMMA WrittenElsewhere ==
  ASSUME NEW a \in Nat, NEW w \in Nat, NEW be \in BOOLEAN, NEW v,
         NEW j \in Index, j < a \/ a + w <= j
  PROVE  Written(a, w, be, v)[j] = data[j]
<1>1. j - a \notin 0 .. w - 1
  BY DEF Index
<1>. QED
  BY <1>1 DEF Written

-----------------------------------------------------------------------------
LEMMA WrittenFields ==
  ASSUME TypeOK, written # Nothing
  PROVE  /\ written.width \in 1 .. Size /\ written.be \in BOOLEAN
         /\ written.address \in Nat /\ written.address + written.width <= Size
         /\ written.value \in Value(written.width)
<1>1. PICK width \in 1 .. Size :
        written \in [address : 0 .. Size - width, width : {width},
                     be : BOOLEAN, value : Value(width)]
  BY DEF TypeOK
<1>. QED
  BY <1>1

LEMMA InitInv == Init => IInv
<1>. SUFFICES ASSUME Init
              PROVE  IInv
  OBVIOUS
<1>1. 1 \in Widths /\ value \in Values
  BY DEF Init, Values, Widths
<1>2. TypeOK
  BY <1>1 DEF Init, TypeOK
<1>3. BytesInPlace
  BY DEF Init, BytesInPlace, Nothing
<1>. QED
  BY <1>2, <1>3 DEF IInv

LEMMA ReadStep ==
  ASSUME IInv, NEW a \in Addresses, NEW w \in Widths, NEW be \in BOOLEAN,
         Read(a, w, be)
  PROVE  IInv'
<1>1. a \in Nat
  BY DEF Addresses
<1>2. value' \in Values
  <2>1. w \in Nat
    BY DEF Widths
  <2>2. value' \in Value(w)
    BY <1>1, <2>1, ReadType DEF IInv, Read
  <2>. QED
    BY <2>2 DEF Values
<1>. QED
  BY <1>2 DEF IInv, Read, TypeOK, BytesInPlace

\* A write of any number of bytes, by an instruction or by gdb.
LEMMA Writing ==
  ASSUME IInv, NEW a \in Nat, NEW w \in Nat \ {0}, a + w <= Size,
         NEW be \in BOOLEAN, NEW v \in Value(w),
         data' = Written(a, w, be, v), Remember(a, w, be, v),
         UNCHANGED <<status, value>>, answer' \in {0, -1}
  PROVE  IInv'
<1>1. w \in 1 .. Size
  OBVIOUS
<1>2. data' \in [Index -> Byte]
  BY WrittenType DEF IInv
<1>3. CASE written' = [address |-> a, width |-> w, be |-> be, value |-> v]
  <2>1. written' \in [address : 0 .. Size - w, width : {w},
                      be : BOOLEAN, value : Value(w)]
    BY <1>1, <1>3
  <2>2. TypeOK'
    BY <1>2, <2>1 DEF IInv, TypeOK
  <2>3. BytesInPlace'
    BY <1>1, <1>3, WrittenInPlace DEF BytesInPlace
  <2>. QED
    BY <2>2, <2>3 DEF IInv
<1>4. CASE /\ UNCHANGED written
           /\ a + w <= written.address \/ written.address + written.width <= a
  <2>1. TypeOK'
    BY <1>2, <1>4 DEF IInv, TypeOK
  <2>2. CASE written = Nothing
    BY <1>4, <2>1, <2>2 DEF IInv, BytesInPlace, Nothing
  <2>3. CASE written # Nothing
    <3>. DEFINE ww == written.width
                wa == written.address
                at(i) == wa + Offset(i, ww, written.be)
    <3>1. ww \in Nat /\ wa \in Nat /\ wa + ww <= Size /\ written.be \in BOOLEAN
      BY <2>3, WrittenFields DEF IInv
    <3>2. ASSUME NEW i \in 1 .. ww
          PROVE  at(i) \in Index /\ (at(i) < a \/ a + w <= at(i))
      BY <1>1, <1>4, <3>1, OffsetInside
    <3>3. ASSUME NEW i \in 1 .. ww
          PROVE  data'[at(i)] = data[at(i)]
      <4>. DEFINE j == at(i)
      <4>1. j \in Index /\ (j < a \/ a + w <= j)
        BY <3>2
      <4>. HIDE DEF j
      <4>2. Written(a, w, be, v)[j] = data[j]
        BY <1>1, <4>1, WrittenElsewhere
      <4>. QED
        BY <1>1, <4>2 DEF j
    <3>4. BytesInPlace'
      BY <1>4, <3>3 DEF IInv, BytesInPlace
    <3>. QED
      BY <2>1, <3>4 DEF IInv
  <2>. QED
    BY <2>1, <2>2, <2>3 DEF IInv
<1>. QED
  BY <1>3, <1>4 DEF Remember

LEMMA WriteStep ==
  ASSUME IInv, NEW a \in Addresses, NEW w \in Widths, NEW be \in BOOLEAN,
         NEW v \in Value(w), Write(a, w, be, v)
  PROVE  IInv'
<1>1. a \in Nat /\ w \in Nat \ {0}
  BY DEF Addresses, Widths
<1>. QED
  BY <1>1, Writing DEF Write

\* The part of a packet that is read or written lies inside the memory.
LEMMA InsideMemory ==
  ASSUME NEW a \in Nat, a < Size, NEW size \in Nat
  PROVE  /\ Inside(a, size) \in 0 .. Size /\ Inside(a, size) <= size
         /\ a + Inside(a, size) <= Size
BY DEF Inside

LEMMA PacketRead ==
  ASSUME IInv, NEW a \in Addresses, NEW size \in PacketSizes, read_memory(a, size)
  PROVE  IInv'
<1>1. a \in Nat /\ size \in Nat
  BY DEF Addresses
<1>2. value' \in Values /\ answer' \in {0, -1}
  <2>1. CASE a < Size
    <3>. DEFINE n == Inside(a, size)
    <3>1. n \in 0 .. Size /\ n \in Nat /\ a + n <= Size
      BY <1>1, <2>1, InsideMemory
    <3>. HIDE DEF n
    <3>2. ValueAt(a, n, TRUE) \in Value(n)
      BY <1>1, <3>1, ReadType DEF IInv
    <3>3. value' = ValueAt(a, n, TRUE) /\ answer' = 0
      BY <2>1 DEF read_memory, n
    <3>. QED
      BY <3>1, <3>2, <3>3 DEF Values
  <2>2. CASE ~ (a < Size)
    BY <2>2 DEF read_memory, IInv, TypeOK
  <2>. QED
    BY <2>1, <2>2
<1>. QED
  BY <1>2 DEF IInv, read_memory, TypeOK, BytesInPlace

LEMMA PacketWrite ==
  ASSUME IInv, NEW a \in Addresses, NEW size \in PacketSizes,
         NEW v \in Value(size), write_memory_binary(a, size, v)
  PROVE  IInv'
<1>. DEFINE n    == IF a < Size THEN Inside(a, size) ELSE 0
            part == [i \in 1 .. n |-> v[i]]
<1>1. a \in Nat /\ size \in Nat
  BY DEF Addresses
<1>2. n \in Nat /\ n <= size /\ (n # 0 => a + n <= Size)
  BY <1>1, InsideMemory
<1>3. /\ data' = Written(a, n, TRUE, part)
      /\ IF n = 0 THEN UNCHANGED written ELSE Remember(a, n, TRUE, part)
      /\ answer' \in {0, -1} /\ UNCHANGED <<status, value>>
  BY DEF write_memory_binary
<1>4. part \in Value(n)
  BY <1>1, <1>2 DEF Value
<1>. HIDE DEF n, part
<1>5. CASE n = 0
  <2>1. \A j \in Index : Written(a, n, TRUE, part)[j] = data[j]
    <3>1. \A j \in Index : j - a \notin 0 .. n - 1
      BY <1>1, <1>5 DEF Index
    <3>. QED
      BY <3>1 DEF Written
  <2>2. data' = data
    <3>1. data' = [j \in Index |-> Written(a, n, TRUE, part)[j]]
      BY <1>3 DEF Written
    <3>. QED
      BY <2>1, <3>1 DEF IInv, TypeOK
  <2>. QED
    BY <1>3, <1>5, <2>2 DEF IInv, TypeOK, BytesInPlace
<1>6. CASE n # 0
  BY <1>1, <1>2, <1>3, <1>4, <1>6, Writing
<1>. QED
  BY <1>5, <1>6

LEMMA NextInv == IInv /\ [Next]_vars => IInv'
<1>. SUFFICES ASSUME IInv, [Next]_vars
              PROVE  IInv'
  OBVIOUS
<1>1. ASSUME NEW a \in Addresses, Refuse(a)
      PROVE  IInv'
  BY <1>1 DEF Refuse, IInv, TypeOK, BytesInPlace
<1>2. ASSUME NEW a \in Addresses, NEW w \in Widths, Straddle(a, w)
      PROVE  IInv'
  BY <1>2 DEF Straddle, IInv, TypeOK, BytesInPlace
<1>3. CASE Ended \/ UNCHANGED vars
  BY <1>3 DEF Ended, vars, IInv, TypeOK, BytesInPlace
<1>. QED
  BY <1>1, <1>2, <1>3, ReadStep, WriteStep, PacketRead, PacketWrite DEF Next

LEMMA Inductive == Spec => []IInv
BY InitInv, NextInv, PTL DEF Spec

-----------------------------------------------------------------------------
\* The array keeps its size and its bytes, and a remembered value lies inside.
THEOREM TypeCorrect == Spec => []TypeOK
<1>1. IInv => TypeOK
  BY DEF IInv
<1>. QED
  BY <1>1, Inductive, PTL

\* What a program writes and has not overwritten it reads back, whole or in
\* parts, in the endianness it was written in.
THEOREM PartsReadBack == Spec => []ReadParts
<1>1. ASSUME IInv
      PROVE  ReadParts
  <2>. SUFFICES ASSUME NEW w \in 1 .. Size, NEW k \in 0 .. Size,
                       k + w <= written.width, NEW i \in 1 .. w
                PROVE  ValueAt(written.address + k, w, written.be)[i] =
                         written.value[i + (IF written.be THEN k
                                            ELSE written.width - w - k)]
    BY DEF ReadParts
  <2>1. written # Nothing
    BY DEF Nothing
  <2>. DEFINE n == i + (IF written.be THEN k ELSE written.width - w - k)
  <2>2. /\ written.width \in Nat /\ written.be \in BOOLEAN
        /\ written.address \in Nat
    BY <1>1, <2>1, WrittenFields DEF IInv
  <2>3. /\ n \in 1 .. written.width
        /\ written.address + k + Offset(i, w, written.be)
             = written.address + Offset(n, written.width, written.be)
    BY <2>2 DEF Offset
  <2>4. ValueAt(written.address + k, w, written.be)[i]
          = data[written.address + Offset(n, written.width, written.be)]
    BY <2>3 DEF ValueAt
  <2>. HIDE DEF n
  <2>5. data[written.address + Offset(n, written.width, written.be)]
          = written.value[n]
    BY <1>1, <2>3 DEF IInv, BytesInPlace
  <2>. QED
    BY <2>4, <2>5 DEF n
<1>. QED
  BY <1>1, Inductive, PTL
===============================================================================
