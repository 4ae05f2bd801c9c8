-------------------------------- MODULE Memory --------------------------------
(***************************************************************************)
(* memory.c: bytes, half words and words in an array of bytes, in either   *)
(* endianness, and the packets by which gdb reads and writes strings of    *)
(* bytes (gdb_protocol.c).  A value is the tuple of its bytes, most        *)
(* significant first.  Only the first byte of an access is compared with   *)
(* the size; the build has the address sanitizer, which aborts when        *)
(* another one is outside.                                                 *)
(***************************************************************************)
EXTENDS Integers

CONSTANTS
  Size,        \* the number of bytes of the memory
  Byte,        \* the values of a byte
  PacketSizes  \* the numbers of bytes gdb asks for or sends that are tried

ASSUME SizeAssumption == Size \in Nat \ {0}
ASSUME ByteAssumption == Byte # {}
ASSUME PacketAssumption == PacketSizes \subseteq Nat

Index == 0 .. Size - 1

\* Those of bytes, half words and words.
Widths == {1, 2, 4}

Value(width) == [1 .. width -> Byte]
Values == UNION { Value(width) : width \in Widths \cup 0 .. Size }

\* The bound of the addresses that are tried: the first one out of range.
Addresses == 0 .. Size

VARIABLES
  data,     \* the bytes of the memory
  status,   \* how the process is doing, or ended
  answer,   \* what the last access returned, 0 or -1, or OK or an error
  value,    \* what the last read that returned 0 has stored or sent
  written   \* a value written that no later write has overlapped

vars == <<data, status, answer, value, written>>

Nothing == [address |-> 0, width |-> 0, be |-> FALSE, value |-> << >>]

-----------------------------------------------------------------------------
\* Where the byte i of a value is, from the address of the access.
Offset(i, width, be) == IF be THEN i - 1 ELSE width - i

\* memory_read_*: a big endian value, reversed if need be.
ValueAt(address, width, be) ==
  [i \in 1 .. width |-> data[address + Offset(i, width, be)]]

\* Mutant: the loop makes one turn too many.
WrittenWide(address, width, be, v) ==
  [j \in Index |->
     IF j - address \in 0 .. width - 1
     THEN v[IF be THEN j - address + 1 ELSE width - (j - address)]
     ELSE IF width > 0 /\ j - address = width THEN v[1]
     ELSE data[j]]

\* memory_write_*: the loops over the bytes of the value.
Written(address, width, be, v) ==
  [j \in Index |->
     IF j - address \in 0 .. width - 1
     THEN v[IF be THEN j - address + 1 ELSE width - (j - address)]
     ELSE data[j]]

-----------------------------------------------------------------------------
\* memory_create: malloc leaves the bytes as they are.
Init ==
  /\ data \in [Index -> Byte]
  /\ status = "alive"
  /\ answer = 0
  /\ value \in Value(1)
  /\ written = Nothing

\* Mutant: the number of DATA_ABORT in place of -1.
RefuseAbort(address) ==
  /\ status = "alive"
  /\ address >= Size
  /\ answer' = 2
  /\ UNCHANGED <<data, status, value, written>>

\* The test of the address, in every function.
Refuse(address) ==
  /\ status = "alive"
  /\ address >= Size
  /\ answer' = -1
  /\ UNCHANGED <<data, status, value, written>>

\* The access begins inside the array and ends outside.
Straddle(address, width) ==
  /\ status = "alive"
  /\ address < Size /\ address + width > Size
  /\ status' = "aborted"
  /\ UNCHANGED <<data, answer, value, written>>

Read(address, width, be) ==
  /\ status = "alive"
  /\ address + width <= Size
  /\ value' = ValueAt(address, width, be)
  /\ answer' = 0
  /\ UNCHANGED <<data, status, written>>

\* The value to remember is this one, or an earlier one that it leaves alone.
Remember(address, width, be, v) ==
  \/ written' = [address |-> address, width |-> width, be |-> be, value |-> v]
  \/ /\ \/ address + width <= written.address
        \/ written.address + written.width <= address
     /\ UNCHANGED written

Write(address, width, be, v) ==
  /\ status = "alive"
  /\ address + width <= Size
  /\ data' = Written(address, width, be, v)
  /\ answer' = 0
  /\ Remember(address, width, be, v)
  /\ UNCHANGED <<status, value>>

-----------------------------------------------------------------------------
(* The packets of gdb *)

\* How many of the bytes from address the memory has.
Inside(address, size) == IF address + size <= Size THEN size ELSE Size - address

\* read_memory: the bytes up to the end of the memory, without a word about
\* the others; E0E when the first is not there.
read_memory(address, size) ==
  /\ status = "alive"
  /\ IF address < Size
     THEN /\ value' = ValueAt(address, Inside(address, size), TRUE)
          /\ answer' = 0
     ELSE answer' = -1 /\ UNCHANGED value
  /\ UNCHANGED <<data, status, written>>

\* write_memory_binary: the bytes, their escapes undone, up to the end of the
\* memory, and E02 when there are others.
write_memory_binary(address, size, v) ==
  LET n    == IF address < Size THEN Inside(address, size) ELSE 0
      part == [i \in 1 .. n |-> v[i]]
  IN  /\ status = "alive"
      /\ data' = Written(address, n, TRUE, part)
      /\ answer' = IF address < Size /\ n = size THEN 0 ELSE -1
      /\ IF n = 0 THEN UNCHANGED written ELSE Remember(address, n, TRUE, part)
      /\ UNCHANGED <<status, value>>

\* The sanitizer has ended the process.
Ended == status = "aborted" /\ UNCHANGED vars

Next ==
  \/ \E address \in Addresses, width \in Widths :
       \/ Refuse(address)
       \/ Straddle(address, width)
       \/ \E be \in BOOLEAN :
            \/ Read(address, width, be)
            \/ \E v \in Value(width) : Write(address, width, be, v)
  \/ \E address \in Addresses, size \in PacketSizes :
       \/ read_memory(address, size)
       \/ \E v \in Value(size) : write_memory_binary(address, size, v)
  \/ Ended

Spec == Init /\ [][Next]_vars

-----------------------------------------------------------------------------
(* Properties *)

TypeOK ==
  /\ data \in [Index -> Byte]
  /\ status \in {"alive", "aborted"}
  /\ answer \in {0, -1}
  /\ value \in Values
  /\ \/ written = Nothing
     \/ \E width \in 1 .. Size :
          written \in [address : 0 .. Size - width, width : {width},
                       be : BOOLEAN, value : Value(width)]

\* A program or gdb that writes a word or a string of bytes and reads it by
\* bytes or half words, or the whole of it, in the same endianness, finds the
\* parts of what it wrote: most significant first when big endian or a string,
\* last when little endian, whatever has been written next to it since.  Of a
\* string that does not fit, what fits is written.
ReadParts ==
  \A width \in 1 .. Size, k \in 0 .. Size :
    k + width <= written.width =>
      LET part == ValueAt(written.address + k, width, written.be)
          skip == IF written.be THEN k ELSE written.width - width - k
      IN  \A i \in 1 .. width : part[i] = written.value[i + skip]

-----------------------------------------------------------------------------
\* memory.h: "The return value indicates a succes (0) or a failure (-1)", so
\* that an access of any address and width returns.
AccessReturns == status = "alive"
===============================================================================
