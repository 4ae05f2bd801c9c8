---------------------------- MODULE LoadStoreProofs ----------------------------
(***************************************************************************)
(* Proofs about the loads and stores, for every number of registers, size  *)
(* of the memory and width of the words: the values stay in their types,   *)
(* and each instruction, however its turns and its accesses go, amounts to *)
(* one transfer of Transfers.                                              *)
(***************************************************************************)
EXTENDS LoadStore, FiniteSetTheorems, TLAPS

-----------------------------------------------------------------------------
(* Arithmetic *)

\* Euclidean division.
LEMMA Divided ==
  ASSUME NEW a \in Int, NEW b \in Nat \ {0}
  PROVE  a % b \in 0 .. b - 1 /\ \E q \in Int : a = b * q + (a % b)
<1>1. a % b \in 0 .. b - 1
  OBVIOUS
<1>2. a = b * (a \div b) + (a % b)
  OBVIOUS
<1>3. a \div b \in Int
  OBVIOUS
<1>. QED
  BY <1>1, <1>2, <1>3

\* Multiples of a number are that number apart at least.
LEMMA Times ==
  ASSUME NEW b \in Nat \ {0}, NEW p \in Int, NEW q \in Int, p < q
  PROVE  b * p + b <= b * q
<1>1. b * (q - p) >= b
  OBVIOUS
<1>2. b * (q - p) = b * q - b * p
  OBVIOUS
<1>. QED
  BY <1>1, <1>2

\* The remainder is the only one of its kind.
LEMMA Unique ==
  ASSUME NEW a \in Int, NEW b \in Nat \ {0}, NEW q \in Int, NEW r \in 0 .. b - 1,
         a = b * q + r
  PROVE  a % b = r
<1>1. PICK p \in Int : a = b * p + (a % b)
  BY Divided
<1>2. PICK s \in 0 .. b - 1 : s = a % b
  BY Divided
<1>3. ~(p < q)
  <2>1. SUFFICES ASSUME p < q PROVE FALSE
    OBVIOUS
  <2>2. b * p + b <= b * q
    BY <2>1, Times
  <2>. QED
    BY <1>1, <1>2, <2>2
<1>4. ~(q < p)
  <2>1. SUFFICES ASSUME q < p PROVE FALSE
    OBVIOUS
  <2>2. b * q + b <= b * p
    BY <2>1, Times
  <2>. QED
    BY <1>1, <1>2, <2>2
<1>5. p = q
  BY <1>3, <1>4
<1>. QED
  BY <1>1, <1>2, <1>5

\* A remainder may be taken before adding as well as after.
LEMMA ModAdd ==
  ASSUME NEW a \in Int, NEW b \in Nat \ {0}, NEW c \in Int
  PROVE  ((a % b) + c) % b = (a + c) % b
<1>1. PICK q \in Int : a = b * q + (a % b)
  BY Divided
<1>2. PICK s \in 0 .. b - 1 : s = a % b
  BY Divided
<1>3. PICK x \in Int : x = s + c
  OBVIOUS
<1>4. PICK p \in Int : x = b * p + (x % b)
  BY Divided
<1>5. PICK t \in 0 .. b - 1 : t = x % b
  BY Divided
<1>6. PICK y \in Int : y = a + c
  OBVIOUS
<1>7. PICK d \in Int : d = p + q
  OBVIOUS
<1>8. y = b * d + t
  <2>1. b * d = b * p + b * q
    BY <1>7
  <2>. QED
    BY <1>1, <1>2, <1>3, <1>4, <1>5, <1>6, <2>1
<1>9. y % b = t
  BY <1>8, Unique
<1>. QED
  BY <1>2, <1>3, <1>5, <1>6, <1>9

\* A word with its low part replaced is a word.
LEMMA Fits ==
  ASSUME NEW part \in Nat \ {0}, NEW n \in Nat \ {0}, n % part = 0, part <= n,
         NEW a \in 0 .. n - 1, NEW v \in 0 .. part - 1
  PROVE  a - (a % part) + v \in 0 .. n - 1
<1>. n \in Int /\ a \in Int
  OBVIOUS
<1>1. PICK k \in Int : n = part * k + (n % part)
  BY Divided
<1>2. PICK q \in Int : a = part * q + (a % part)
  BY Divided
<1>3. PICK r \in 0 .. part - 1 : r = a % part
  BY Divided
<1>4. n = part * k
  BY <1>1
<1>5. q < k
  <2>1. CASE q = k
    BY <1>2, <1>3, <1>4, <2>1
  <2>2. CASE k < q
    <3>1. part * k + part <= part * q
      BY <2>2, Times
    <3>. QED
      BY <1>2, <1>3, <1>4, <3>1
  <2>. QED
    BY <2>1, <2>2
<1>6. part * q + part <= part * k
  BY <1>5, Times
<1>7. part * q >= 0
  <2>1. q >= 0
    <3>1. SUFFICES ASSUME q < 0 PROVE FALSE
      OBVIOUS
    <3>2. part * q + part <= part * 0
      BY <3>1, Times
    <3>. QED
      BY <1>2, <1>3, <3>2
  <2>. QED
    BY <2>1
<1>. QED
  BY <1>2, <1>3, <1>4, <1>6, <1>7

-----------------------------------------------------------------------------
(* Types *)

\* What is known of an instruction under way; nothing has moved when it is one
\* of a single register.
UnderWay ==
  /\ ins \in Instructions /\ ~Refused(ins) /\ answer = "none"
  /\ before[1] \in [Registers -> Word]
  /\ before[2] \in [0 .. Size - 1 -> Word]
  /\ ins.kind # "multiple" =>
       /\ regs = before[1] /\ mem = before[2]
       /\ adresse = FirstAddress(ins)
       /\ value = IF ins.kind = "word" /\ ins.rn = Pc
                  THEN (arm_read_register(Pc) + 2) % Modulus ELSE Unassigned

TypeInv ==
  /\ TypeOK
  /\ loop \in BOOLEAN
  /\ loop => UnderWay
  /\ ~loop => ins = NoInstruction

\* The fields of an instruction.
LEMMA Tried ==
  ASSUME NEW i \in Instructions
  PROVE  /\ i.kind \in {"multiple", "word", "byte", "half"} /\ i.rn \in Registers
         /\ i.l \in BOOLEAN /\ i.p \in BOOLEAN /\ i.u \in BOOLEAN /\ i.w \in BOOLEAN
         /\ i.kind = "multiple" => i.list \subseteq Registers /\ i.s \in BOOLEAN
         /\ i.kind # "multiple" =>
              i.coded \in BOOLEAN /\ i.rd \in Registers /\ i.offset \in Word
<1>1. i \in Block!Multiples \/ i \in Block!Singles
  BY TriedAssumption
<1>2. CASE i \in Block!Multiples
  BY <1>2 DEF Block!Multiples, Block!Registers, Registers
<1>3. CASE i \in Block!Singles
  BY <1>3 DEF Block!Singles, Block!Registers, Block!Word, Registers, Word
<1>. QED
  BY <1>1, <1>2, <1>3

LEMMA RefusedMultiple ==
  ASSUME NEW i, i.kind = "multiple"
  PROVE  Refused(i) <=> i.list = {} \/ (i.rn \in i.list /\ i.w) \/ i.s
BY DEF Refused

LEMMA RefusedSingle ==
  ASSUME NEW i, i.kind \in {"word", "byte", "half"}
  PROVE  Refused(i) <=> IF i.kind = "half" THEN i.rn = Pc ELSE ~i.coded
BY DEF Refused

\* A remainder by the modulus is a word, and so is a low part.
LEMMA WordOf ==
  ASSUME NEW a \in Int
  PROVE  /\ a % Modulus \in Word
         /\ a % Part \in Word /\ a % Part \in 0 .. Part - 1
BY MemoryAssumption DEF Word

LEMMA ReadWord ==
  ASSUME TypeOK, NEW r \in Registers
  PROVE  arm_read_register(r) \in Word /\ arm_read_register(r) \in Int
<1>1. regs[r] \in Word /\ regs[r] \in Int
  BY DEF TypeOK, Word
<1>2. CASE r = Pc
  <2>1. PICK a \in Int : a = regs[Pc] + 1
    BY <1>1, <1>2
  <2>2. a % Modulus \in Word
    BY WordOf
  <2>. QED
    BY <1>2, <2>1, <2>2 DEF arm_read_register, Word
<1>3. CASE r # Pc
  BY <1>1, <1>3 DEF arm_read_register
<1>. QED
  BY <1>2, <1>3

LEMMA Next4Word ==
  ASSUME NEW a \in Int, NEW u \in BOOLEAN
  PROVE  Next4(a, u) \in Word
<1>1. PICK b \in Int : b = a + IF u THEN 1 ELSE -1
  OBVIOUS
<1>. QED
  BY <1>1, WordOf DEF Next4

LEMMA MovedWord ==
  ASSUME NEW i, i.u \in BOOLEAN, i.offset \in Word, NEW a \in Int
  PROVE  Moved(i, a) \in Word
<1>1. PICK b \in Int : b = a + IF i.u THEN i.offset ELSE -i.offset
  BY DEF Word
<1>. QED
  BY <1>1, WordOf DEF Moved

LEMMA FirstWord ==
  ASSUME TypeOK, NEW i \in Instructions
  PROVE  FirstAddress(i) \in Word
<1>1. arm_read_register(i.rn) \in Word /\ arm_read_register(i.rn) \in Int
  BY ReadWord, Tried
<1>2. CASE ~i.p
  BY <1>1, <1>2 DEF FirstAddress
<1>3. CASE i.p /\ i.kind = "multiple"
  BY <1>1, <1>3, Next4Word, Tried DEF FirstAddress
<1>4. CASE i.p /\ i.kind # "multiple"
  <2>1. i.u \in BOOLEAN /\ i.offset \in Word
    BY <1>4, Tried
  <2>2. Moved(i, arm_read_register(i.rn)) \in Word
    BY <1>1, <2>1, MovedWord
  <2>. QED
    BY <1>4, <2>2 DEF FirstAddress
<1>. QED
  BY <1>2, <1>3, <1>4

LEMMA LowWord ==
  ASSUME NEW v \in Word
  PROVE  Low(v) \in Word /\ Low(v) \in Int
         /\ (ins.kind # "word" => Low(v) \in 0 .. Part - 1 /\ Low(v) = v % Part)
BY WordOf DEF Low, Word

\* A cell with its low part replaced.
LEMMA CellWord ==
  ASSUME NEW a \in Word, NEW v \in Word
  PROVE  a - Low(a) + Low(v) \in Word
<1>1. CASE ins.kind = "word"
  BY <1>1 DEF Low, Word
<1>2. CASE ins.kind # "word"
  <2>1. PICK y \in 0 .. Part - 1 : y = Low(v)
    BY <1>2, LowWord
  <2>2. a - (a % Part) + y \in 0 .. Modulus - 1
    <3>1. Part \in Nat \ {0} /\ Modulus \in Nat \ {0} /\ Part <= Modulus /\ a \in 0 .. Modulus - 1
      BY MemoryAssumption DEF Word
    <3>. QED
      BY <3>1, MemoryAssumption, Fits
  <2>. QED
    BY <1>2, <2>1, <2>2 DEF Low, Word
<1>. QED
  BY <1>1, <1>2

LEMMA HeldWord ==
  ASSUME TypeOK
  PROVE  /\ \A v \in Held : v \in Word
         /\ value = Unassigned => \A v \in Held : \E x \in Word : v = Low(x)
BY LowWord DEF TypeOK, Held, Anything, Unassigned, Word

\* A store at the pc, of the pc moved on or of any part.
LEMMA HeldFits ==
  ASSUME TypeInv, Single, ins.rn = Pc, NEW a \in Word, NEW v \in Held
  PROVE  a - Low(a) + v \in Word
<1>1. loop /\ UnderWay /\ TypeOK /\ ins.kind \in {"word", "byte", "half"}
  BY DEF TypeInv, NoInstruction, Single
<1>2. v \in Word
  BY <1>1, HeldWord
<1>3. CASE ins.kind = "word"
  BY <1>2, <1>3 DEF Low, Word
<1>4. CASE ins.kind # "word"
  <2>1. value = Unassigned
    BY <1>1, <1>4 DEF UnderWay
  <2>2. PICK x \in Word : v = Low(x)
    BY <1>1, <2>1, HeldWord
  <2>. QED
    BY <2>2, CellWord
<1>. QED
  BY <1>3, <1>4

LEMMA InitTypes == Init => TypeInv
<1>. SUFFICES ASSUME Init PROVE TypeInv
  OBVIOUS
<1>1. 0 \in Word /\ 0 \in Registers
  BY PcAssumption, MemoryAssumption DEF Word, Registers
<1>. QED
  BY <1>1 DEF Init, TypeInv, TypeOK

\* An instruction that has returned.
LEMMA Returned ==
  ASSUME NEW a, Return(a), regs' \in [Registers -> Word],
         mem' \in [0 .. Size - 1 -> Word]
  PROVE  TypeInv'
<1>1. 0 \in Word /\ 0 \in Registers
  BY PcAssumption, MemoryAssumption DEF Word, Registers
<1>. QED
  BY <1>1 DEF Return, TypeInv, TypeOK

\* A turn of the loop that has moved a word, or that passed a register.
LEMMA Turned ==
  ASSUME TypeInv, ins.kind = "multiple", reg_num < Pc, reg_num' = reg_num + 1,
         UNCHANGED <<answer, loop, ins, before>>,
         adresse' \in Word, value' \in Word \cup {Unassigned},
         regs' \in [Registers -> Word], mem' \in [0 .. Size - 1 -> Word]
  PROVE  TypeInv'
<1>1. loop
  BY DEF TypeInv, NoInstruction
<1>2. reg_num' \in Registers
  BY PcAssumption DEF TypeInv, TypeOK, Registers
<1>3. Refused(ins)' = Refused(ins)
  BY DEF Refused
<1>. QED
  BY <1>1, <1>2, <1>3 DEF TypeInv, TypeOK, UnderWay

\* What follows an access leaves words in the registers.
LEMMA PostIndexed ==
  ASSUME TypeInv, Single, NEW r \in [Registers -> Word], PostIndex(r)
  PROVE  (\E a : Return(a)) /\ regs' \in [Registers -> Word]
<1>1. loop
  BY DEF TypeInv, NoInstruction, Single
<1>2. ins \in Instructions
  BY <1>1 DEF TypeInv, UnderWay
<1>3. Moved(ins, adresse) \in Word
  <2>1. adresse \in Int /\ ins.u \in BOOLEAN /\ ins.offset \in Word
    BY <1>2, Tried DEF TypeInv, TypeOK, Word, Single
  <2>. QED
    BY <2>1, MovedWord
<1>4. [r EXCEPT ![ins.rn] = Moved(ins, adresse)] \in [Registers -> Word]
  BY <1>3
<1>. QED
  BY <1>4 DEF PostIndex

LEMMA AccessTypes ==
  ASSUME TypeInv, HalfUndefined \/ SingleLoad \/ SingleStore
  PROVE  TypeInv'
<1>1. Single
  BY DEF HalfUndefined, SingleLoad, SingleStore
<1>2. loop
  BY <1>1 DEF TypeInv, NoInstruction, Single
<1>3. /\ ins \in Instructions /\ ins.kind # "multiple" /\ TypeOK
      /\ regs \in [Registers -> Word] /\ mem \in [0 .. Size - 1 -> Word]
      /\ adresse \in Word /\ adresse \in Int
  BY <1>1, <1>2 DEF TypeInv, UnderWay, TypeOK, Single, Word
<1>4. ins.rd \in Registers
  BY <1>3, Tried
<1>5. Indexed \in [Registers -> Word]
  BY <1>3 DEF Indexed
<1>6. CASE HalfUndefined
  BY <1>3, <1>5, <1>6, Returned DEF HalfUndefined
<1>7. CASE SingleLoad
  <2>1. PICK v \in IF ins.rn # Pc /\ adresse < Size THEN { Low(mem[adresse]) } ELSE Held,
             result \in IF ins.rn = Pc THEN {0, -1}
                        ELSE { IF adresse < Size THEN 0 ELSE -1 } :
          LET loaded == [Indexed EXCEPT ![ins.rd] = v]
          IN  IF result = -1 THEN Return("DATA_ABORT") /\ regs' = loaded
              ELSE PostIndex(loaded)
    BY <1>7 DEF SingleLoad
  <2>2. v \in Word
    <3>1. CASE ins.rn # Pc /\ adresse < Size
      <4>1. adresse \in 0 .. Size - 1
        BY <1>3, <3>1, MemoryAssumption DEF Word
      <4>2. mem[adresse] \in Word
        BY <1>3, <4>1
      <4>. QED
        BY <2>1, <3>1, <4>2, LowWord
    <3>2. CASE ~(ins.rn # Pc /\ adresse < Size)
      BY <1>3, <2>1, <3>2, HeldWord
    <3>. QED
      BY <3>1, <3>2
  <2>3. PICK loaded \in [Registers -> Word] : loaded = [Indexed EXCEPT ![ins.rd] = v]
    BY <1>5, <2>2
  <2>4. mem' \in [0 .. Size - 1 -> Word]
    BY <1>3, <1>7 DEF SingleLoad
  <2>5. CASE result = -1
    BY <2>1, <2>3, <2>4, <2>5, Returned
  <2>6. CASE result # -1
    <3>1. PostIndex(loaded)
      BY <2>1, <2>3, <2>6
    <3>2. (\E a : Return(a)) /\ regs' \in [Registers -> Word]
      BY <1>1, <3>1, PostIndexed
    <3>. QED
      BY <2>4, <3>2, Returned
  <2>. QED
    BY <2>5, <2>6
<1>8. CASE SingleStore
  <2>1. CASE adresse >= Size
    BY <1>3, <1>5, <1>8, <2>1, Returned DEF SingleStore
  <2>2. CASE adresse < Size
    <3>1. adresse \in 0 .. Size - 1 /\ ~(adresse >= Size)
      BY <1>3, <2>2, MemoryAssumption DEF Word
    <3>2. mem[adresse] \in Word
      BY <1>3, <3>1
    <3>3. PICK v \in IF ins.rn = Pc THEN Held
                     ELSE { Low(IF ins.rd = Pc THEN (Indexed[Pc] + 1) % Modulus
                                ELSE Indexed[ins.rd]) } :
            mem' = [mem EXCEPT ![adresse] = @ - Low(@) + v]
      BY <1>8, <3>1 DEF SingleStore
    <3>4. mem[adresse] - Low(mem[adresse]) + v \in Word
      <4>1. CASE ins.rn = Pc
        <5>1. v \in Held
          BY <3>3, <4>1
        <5>2. PICK a \in Word : a = mem[adresse]
          BY <3>2
        <5>3. a - Low(a) + v \in Word
          BY <1>1, <4>1, <5>1, HeldFits
        <5>. QED
          BY <5>2, <5>3
      <4>2. CASE ins.rn # Pc
        <5>1. PICK x : x = IF ins.rd = Pc THEN (Indexed[Pc] + 1) % Modulus ELSE Indexed[ins.rd]
          OBVIOUS
        <5>2. x \in Word
          <6>1. Pc \in Registers
            BY PcAssumption DEF Registers
          <6>2. PICK y \in Int : y = Indexed[Pc] + 1
            BY <1>5, <6>1 DEF Word
          <6>3. y % Modulus \in Word
            BY WordOf
          <6>. QED
            BY <1>4, <1>5, <5>1, <6>2, <6>3
        <5>3. v = Low(x)
          BY <3>3, <4>2, <5>1
        <5>. QED
          BY <3>2, <5>2, <5>3, CellWord
      <4>. QED
        BY <4>1, <4>2
    <3>5. mem' \in [0 .. Size - 1 -> Word]
      BY <1>3, <3>3, <3>4
    <3>6. PostIndex(Indexed)
      BY <1>8, <3>1 DEF SingleStore
    <3>7. (\E a : Return(a)) /\ regs' \in [Registers -> Word]
      BY <1>1, <1>5, <3>6, PostIndexed
    <3>. QED
      BY <3>5, <3>7, Returned
  <2>. QED
    BY <1>3, <2>1, <2>2, MemoryAssumption
<1>. QED
  BY <1>6, <1>7, <1>8

LEMMA TypesKept == TypeInv /\ [Next]_vars => TypeInv'
<1>. SUFFICES ASSUME TypeInv, [Next]_vars PROVE TypeInv'
  OBVIOUS
<1>. USE DEF TypeInv
<1>1. CASE UNCHANGED vars
  BY <1>1 DEF vars, TypeOK, UnderWay, Refused, FirstAddress, arm_read_register, Next4, Moved
<1>2. CASE Skip
  BY <1>2 DEF Skip, TypeOK, locals
<1>3. ASSUME NEW i \in Instructions, Refuse(i) PROVE TypeInv'
  BY <1>3 DEF Refuse, TypeOK, locals
<1>4. ASSUME NEW i \in Instructions, Begin(i) PROVE TypeInv'
  <2>1. FirstAddress(i) \in Word
    BY FirstWord
  <2>2. FirstAddress(i)' = FirstAddress(i) /\ arm_read_register(Pc)' = arm_read_register(Pc)
        /\ (Refused(ins)' <=> Refused(i))
    BY <1>4 DEF Begin, FirstAddress, arm_read_register, Next4, Moved, Refused
  <2>3. 0 \in Registers
    BY PcAssumption DEF Registers
  <2>4. (arm_read_register(Pc) + 2) % Modulus \in Word
    <3>1. arm_read_register(Pc) \in Int
      BY PcAssumption, ReadWord DEF Registers
    <3>2. PICK a \in Int : a = arm_read_register(Pc) + 2
      BY <3>1
    <3>. QED
      BY <3>2, WordOf
  <2>. QED
    BY <1>4, <2>1, <2>2, <2>3, <2>4 DEF Begin, TypeOK, UnderWay
<1>5. CASE Pass
  BY <1>5, Turned DEF Pass, TypeOK
<1>6. CASE Load \/ Store \/ Finish
  <2>1. /\ ins.kind = "multiple" /\ loop /\ ins \in Instructions
        /\ adresse \in Word /\ adresse \in Int /\ reg_num \in Registers
        /\ regs \in [Registers -> Word] /\ mem \in [0 .. Size - 1 -> Word]
    BY <1>6 DEF Load, Store, Finish, Turn, NoInstruction, TypeOK, UnderWay, Word
  <2>2. Next4(adresse, ins.u) \in Word
    BY <2>1, Next4Word, Tried
  <2>3. adresse < Size => adresse \in 0 .. Size - 1 /\ mem[adresse] \in Word
    BY <2>1, MemoryAssumption DEF Word
  <2>4. regs[reg_num] \in Word
    BY <2>1
  <2>5. CASE Load
    <3>1. CASE adresse < Size
      <4>1. regs' \in [Registers -> Word] /\ mem' \in [0 .. Size - 1 -> Word]
        BY <2>1, <2>3, <2>5, <3>1 DEF Load
      <4>. QED
        BY <2>1, <2>2, <2>3, <2>5, <3>1, <4>1, Turned DEF Load, Turn, Advance
    <3>2. CASE ~(adresse < Size)
      <4>1. regs' \in [Registers -> Word] /\ mem' \in [0 .. Size - 1 -> Word]
        BY <2>1, <2>5, <3>2 DEF Load, TypeOK
      <4>. QED
        BY <2>5, <3>2, <4>1, Returned DEF Load
    <3>. QED
      BY <3>1, <3>2
  <2>6. CASE Store
    <3>1. CASE adresse < Size
      <4>1. regs' \in [Registers -> Word] /\ mem' \in [0 .. Size - 1 -> Word]
        BY <2>1, <2>4, <2>6, <3>1 DEF Store
      <4>. QED
        BY <2>1, <2>2, <2>4, <2>6, <3>1, <4>1, Turned DEF Store, Turn, Advance
    <3>2. CASE ~(adresse < Size)
      BY <2>1, <2>6, <3>2, Returned DEF Store
    <3>. QED
      BY <3>1, <3>2
  <2>7. CASE Finish
    <3>1. regs' \in [Registers -> Word] /\ mem' \in [0 .. Size - 1 -> Word]
      BY <2>1, <2>7 DEF Finish
    <3>. QED
      BY <2>7, <3>1, Returned DEF Finish
  <2>. QED
    BY <1>6, <2>5, <2>6, <2>7
<1>. QED
  BY <1>1, <1>2, <1>3, <1>4, <1>5, <1>6, AccessTypes DEF Next

\* Registers, memory and local variables hold words (the conversions to uint32_t,
\* uint16_t and uint8_t of arm_load_store.c), whatever is loaded and stored.
THEOREM TypeCorrect == Spec => []TypeOK
<1>1. Spec => []TypeInv
  BY InitTypes, TypesKept, PTL DEF Spec
<1>2. TypeInv => TypeOK
  BY DEF TypeInv
<1>. QED
  BY <1>1, <1>2, PTL

-----------------------------------------------------------------------------
(* The registers of a list in increasing order, and the words of a block *)

\* The members of a set that come before a number.
Below(S, r) == { q \in S : q < r }

LEMMA BelowFinite ==
  ASSUME NEW S \in SUBSET Registers, NEW r \in Int
  PROVE  IsFiniteSet(Below(S, r)) /\ Cardinality(Below(S, r)) \in Nat
<1>1. Pc \in Int /\ 0 \in Int /\ IsFiniteSet(0 .. Pc)
  BY PcAssumption, FS_Interval
<1>2. Below(S, r) \subseteq 0 .. Pc
  BY DEF Below, Registers
<1>3. IsFiniteSet(Below(S, r))
  BY <1>1, <1>2, FS_Subset
<1>. QED
  BY <1>3, FS_CardinalityType

\* Each member of the list moves those after it one place on.
LEMMA BelowNext ==
  ASSUME NEW S \in SUBSET Registers, NEW r \in Registers
  PROVE  Cardinality(Below(S, r + 1)) =
           Cardinality(Below(S, r)) + IF r \in S THEN 1 ELSE 0
<1>1. r \in Int /\ \A q \in S : q \in Int
  BY PcAssumption DEF Registers
<1>2. IsFiniteSet(Below(S, r)) /\ Cardinality(Below(S, r)) \in Nat
  BY <1>1, BelowFinite
<1>3. CASE r \in S
  <2>1. \A q \in S : q < r + 1 <=> q < r \/ q = r
    BY <1>1
  <2>2. ~(r < r)
    BY <1>1
  <2>3. Below(S, r + 1) = Below(S, r) \cup {r} /\ r \notin Below(S, r)
    BY <1>3, <2>1, <2>2, Zenon DEF Below
  <2>. QED
    BY <1>2, <1>3, <2>3, FS_AddElement
<1>4. CASE r \notin S
  <2>1. \A q \in S : q < r + 1 <=> q < r \/ q = r
    BY <1>1
  <2>2. Below(S, r + 1) = Below(S, r)
    BY <1>4, <2>1, Zenon DEF Below
  <2>. QED
    BY <1>2, <1>4, <2>2
<1>. QED
  BY <1>3, <1>4

\* Two members of the list have different places.
LEMMA BelowLess ==
  ASSUME NEW S \in SUBSET Registers, NEW q \in S, NEW r \in Registers, q < r
  PROVE  Cardinality(Below(S, q)) < Cardinality(Below(S, r))
<1>1. q \in Registers /\ q \in Int /\ r \in Int /\ q + 1 \in Int
  BY PcAssumption DEF Registers
<1>2. Cardinality(Below(S, q + 1)) = Cardinality(Below(S, q)) + 1
  BY <1>1, BelowNext
<1>3. Below(S, q + 1) \subseteq Below(S, r)
  <2>1. \A p \in S : p \in Int
    BY PcAssumption DEF Registers
  <2>2. \A p \in S : p < q + 1 => p < r
    BY <1>1, <2>1
  <2>. QED
    BY <2>2, Zenon DEF Below
<1>4. /\ IsFiniteSet(Below(S, r)) /\ Cardinality(Below(S, r)) \in Nat
      /\ Cardinality(Below(S, q)) \in Nat
  BY <1>1, BelowFinite
<1>5. PICK T : T = Below(S, q + 1)
  OBVIOUS
<1>6. Cardinality(T) <= Cardinality(Below(S, r))
  BY <1>3, <1>4, <1>5, FS_Subset
<1>7. Cardinality(T) = Cardinality(Below(S, q)) + 1
  BY <1>2, <1>5
<1>. QED
  BY <1>4, <1>6, <1>7

LEMMA BelowFirst ==
  ASSUME NEW S \in SUBSET Registers
  PROVE  Cardinality(Below(S, 0)) = 0
<1>1. \A q \in S : ~(q < 0)
  BY PcAssumption DEF Registers
<1>2. Below(S, 0) = {}
  BY <1>1, Zenon DEF Below
<1>. QED
  BY <1>2, FS_EmptySet

\* The next address, which wraps at both ends of the words.
LEMMA Next4Wraps ==
  ASSUME NEW a \in Word, NEW u \in BOOLEAN
  PROVE  /\ u /\ a + 1 < Modulus => Next4(a, u) = a + 1
         /\ ~u /\ a > 0 => Next4(a, u) = a - 1
         /\ ~u /\ a = 0 => Next4(a, u) = Modulus - 1
<1>1. Modulus \in Nat \ {0} /\ a \in Int /\ a < Modulus /\ a >= 0
  BY MemoryAssumption DEF Word
<1>2. CASE u /\ a + 1 < Modulus
  <2>1. PICK b \in 0 .. Modulus - 1 : b = a + 1
    BY <1>1, <1>2
  <2>2. b \in Int /\ b = Modulus * 0 + b
    BY <1>1
  <2>3. b % Modulus = b
    BY <1>1, <2>2, Unique
  <2>. QED
    BY <1>1, <1>2, <2>1, <2>3 DEF Next4
<1>3. CASE ~u /\ a > 0
  <2>1. PICK b \in 0 .. Modulus - 1 : b = a - 1
    BY <1>1, <1>3
  <2>2. b \in Int /\ b = Modulus * 0 + b
    BY <1>1
  <2>3. b % Modulus = b
    BY <1>1, <2>2, Unique
  <2>4. b = a + (-1)
    BY <1>1, <2>1
  <2>. QED
    BY <1>1, <1>3, <2>1, <2>3, <2>4 DEF Next4
<1>4. CASE ~u /\ a = 0
  <2>1. PICK b \in 0 .. Modulus - 1 : b = Modulus - 1
    BY <1>1
  <2>2. -1 = Modulus * (-1) + b
    BY <1>1, <2>1
  <2>3. (-1) % Modulus = b
    BY <1>1, <2>2, Unique
  <2>4. a + (-1) = -1
    BY <1>4
  <2>. QED
    BY <1>1, <1>4, <2>1, <2>3, <2>4 DEF Next4
<1>. QED
  BY <1>2, <1>3, <1>4

-----------------------------------------------------------------------------
(* The loop of a transfer of several registers *)

Listed == Outside!Listed(ins)
Rank(r) == Cardinality(Below(Listed, r))

\* The word so many places along the block.
At(n) == Outside!Moved(Outside!Base(ins), ins.u, n + IF ins.p THEN 1 ELSE 0)

\* The registers the loop is past.
Past(r) == r \in Listed /\ r < reg_num

Loaded ==
  /\ mem = before[2]
  /\ \A r \in Registers :
       regs[r] = IF Past(r) THEN before[2][At(Rank(r))] ELSE before[1][r]

Stored ==
  /\ regs = before[1]
  /\ \A r \in Registers : Past(r) => mem[At(Rank(r))] = before[1][r]
  /\ \A a \in 0 .. Size - 1 :
       (\A r \in Registers : Past(r) => At(Rank(r)) # a) => mem[a] = before[2][a]

\* The loop is at the word of its register, those it is past are in memory, one
\* after the other without wrapping, and have been transferred.
BlockInv ==
  loop /\ ins.kind = "multiple" =>
    /\ adresse = At(Rank(reg_num))
    /\ \A n \in 0 .. Rank(reg_num) - 1 :
         At(n) < Size /\ At(n) = At(0) + IF ins.u THEN n ELSE -n
    /\ IF ins.l THEN Loaded ELSE Stored

LEMMA InBlock ==
  ASSUME TypeInv, ins.kind = "multiple"
  PROVE  /\ loop /\ UnderWay /\ TypeOK /\ ins \in Instructions
         /\ Listed = ins.list \ {Pc} /\ Listed \in SUBSET Registers
         /\ ins.u \in BOOLEAN /\ ins.p \in BOOLEAN /\ ins.l \in BOOLEAN /\ ins.w \in BOOLEAN
         /\ ins.rn \in Registers
<1>1. loop /\ UnderWay /\ TypeOK /\ ins \in Instructions
  BY DEF TypeInv, NoInstruction, UnderWay
<1>2. Listed = ins.list \ {Pc}
  BY DEF Listed, Outside!Listed
<1>. QED
  BY <1>1, <1>2, Tried

\* The base is a word, and the first address follows from it.
LEMMA AtFirst ==
  ASSUME TypeInv, loop
  PROVE  /\ Outside!Base(ins) \in Word
         /\ Outside!Base(ins) = IF ins.rn = Pc THEN (before[1][Pc] + 1) % Modulus
                                ELSE before[1][ins.rn]
<1>1. Outside!Base(ins) = IF ins.rn = Pc THEN (before[1][Pc] + 1) % Modulus
                          ELSE before[1][ins.rn]
  BY DEF Outside!Base, Outside!ReadRegister
<1>2. Pc \in Registers /\ ins.rn \in Registers /\ before[1] \in [Registers -> Word]
  BY PcAssumption, Tried DEF Registers, TypeInv, UnderWay
<1>3. PICK x \in Int : x = before[1][Pc] + 1
  BY <1>2 DEF Word
<1>4. x % Modulus \in Word
  BY WordOf
<1>. QED
  BY <1>1, <1>2, <1>3, <1>4

LEMMA AtNext ==
  ASSUME TypeInv, loop, NEW n \in Nat
  PROVE  /\ At(n) \in Word
         /\ Next4(At(n), ins.u) = At(n + 1)
<1>1. PICK b \in Word : b = Outside!Base(ins)
  BY AtFirst
<1>2. ins.u \in BOOLEAN /\ ins.p \in BOOLEAN /\ b \in Int
  BY Tried DEF TypeInv, UnderWay, Word
<1>3. PICK x \in Int : x = b + IF ins.u THEN n + (IF ins.p THEN 1 ELSE 0)
                               ELSE -(n + (IF ins.p THEN 1 ELSE 0))
  BY <1>2
<1>4. PICK c \in Int : c = IF ins.u THEN 1 ELSE -1
  OBVIOUS
<1>5. At(n) = x % Modulus
  BY <1>1, <1>3 DEF At, Outside!Moved
<1>6. At(n + 1) = (x + c) % Modulus
  <2>1. x + c = b + IF ins.u THEN (n + 1) + (IF ins.p THEN 1 ELSE 0)
                    ELSE -((n + 1) + (IF ins.p THEN 1 ELSE 0))
    BY <1>2, <1>3, <1>4
  <2>. QED
    BY <1>1, <2>1 DEF At, Outside!Moved
<1>7. Modulus \in Nat \ {0}
  BY MemoryAssumption
<1>8. ((x % Modulus) + c) % Modulus = (x + c) % Modulus
  BY <1>7, ModAdd
<1>9. Next4(At(n), ins.u) = ((x % Modulus) + c) % Modulus
  BY <1>4, <1>5 DEF Next4
<1>. QED
  BY <1>5, <1>6, <1>8, <1>9, WordOf

\* Nothing of this changes while an instruction is under way.
LEMMA AtKept ==
  ASSUME TypeInv, loop, UNCHANGED <<loop, ins, before>>
  PROVE  /\ \A n : At(n)' = At(n)
         /\ Listed' = Listed
         /\ \A r : Rank(r)' = Rank(r)
<1>1. Outside!Base(ins)' = Outside!Base(ins)
  BY DEF Outside!Base, Outside!ReadRegister
<1>2. Listed' = Listed
  BY DEF Listed, Outside!Listed
<1>. QED
  BY <1>1, <1>2 DEF At, Outside!Moved, Rank, Below

LEMMA RankFacts ==
  ASSUME TypeInv, ins.kind = "multiple", NEW r \in Registers
  PROVE  /\ Rank(r) \in Nat
         /\ Rank(r + 1) = Rank(r) + IF r \in Listed THEN 1 ELSE 0
         /\ \A q \in Listed : q < r => Rank(q) < Rank(r)
<1>1. r \in Int
  BY PcAssumption DEF Registers
<1>. QED
  BY <1>1, InBlock, BelowFinite, BelowNext, BelowLess DEF Rank

\* The first address is that of the first place.
LEMMA FirstAt ==
  ASSUME TypeInv, ~loop, NEW i \in Instructions, Begin(i), i.kind = "multiple"
  PROVE  At(0)' = FirstAddress(i)
<1>1. PICK b \in Word : b = arm_read_register(i.rn)
  BY ReadWord, Tried DEF TypeInv
<1>2. b \in Int /\ Modulus \in Nat \ {0} /\ i.u \in BOOLEAN /\ i.p \in BOOLEAN
  BY MemoryAssumption, Tried DEF Word
<1>3. Outside!Base(ins)' = b
  BY <1>1 DEF Begin, Outside!Base, Outside!ReadRegister, arm_read_register
<1>4. At(0)' = (b + IF i.u THEN 0 + (IF i.p THEN 1 ELSE 0)
                    ELSE -(0 + (IF i.p THEN 1 ELSE 0))) % Modulus
  BY <1>3 DEF Begin, At, Outside!Moved
<1>5. CASE i.p
  <2>1. b + (IF i.u THEN 0 + (IF i.p THEN 1 ELSE 0) ELSE -(0 + (IF i.p THEN 1 ELSE 0)))
          = b + IF i.u THEN 1 ELSE -1
    BY <1>2, <1>5
  <2>. QED
    BY <1>1, <1>4, <1>5, <2>1 DEF FirstAddress, Next4
<1>6. CASE ~i.p
  <2>1. b + (IF i.u THEN 0 + (IF i.p THEN 1 ELSE 0) ELSE -(0 + (IF i.p THEN 1 ELSE 0))) = b
    BY <1>2, <1>6
  <2>2. b = Modulus * 0 + b /\ b \in 0 .. Modulus - 1
    BY <1>2 DEF Word
  <2>3. b % Modulus = b
    BY <1>2, <2>2, Unique
  <2>. QED
    BY <1>1, <1>4, <1>6, <2>1, <2>3 DEF FirstAddress
<1>. QED
  BY <1>2, <1>5, <1>6

LEMMA BlockBegins ==
  ASSUME TypeInv, NEW i \in Instructions, Begin(i)
  PROVE  BlockInv'
<1>1. SUFFICES ASSUME i.kind = "multiple" PROVE BlockInv'
  BY DEF BlockInv, Begin
<1>2. ~loop /\ reg_num' = 0 /\ ins' = i /\ before'[1] = regs /\ before'[2] = mem
      /\ UNCHANGED <<regs, mem>>
  BY DEF Begin
<1>3. TypeInv'
  BY TypesKept DEF Next
<1>4. Listed' \in SUBSET Registers
  <2>1. Listed' = i.list \ {Pc}
    BY <1>2 DEF Listed, Outside!Listed
  <2>. QED
    BY <1>1, <2>1, Tried
<1>5. Rank(reg_num)' = 0
  BY <1>2, <1>4, BelowFirst DEF Rank
<1>6. adresse' = At(Rank(reg_num))'
  BY <1>1, <1>2, <1>5, FirstAt DEF Begin
<1>7. \A r \in Registers : ~Past(r)'
  BY <1>2, PcAssumption DEF Past, Registers
<1>8. Loaded' /\ Stored'
  BY <1>2, <1>7 DEF Loaded, Stored
<1>. QED
  BY <1>5, <1>6, <1>8 DEF BlockInv

\* The word at hand, when it is in memory, follows those before it.
LEMMA AtHand ==
  ASSUME TypeInv, BlockInv, ins.kind = "multiple", adresse < Size,
         NEW n \in 0 .. Rank(reg_num)
  PROVE  At(n) < Size /\ At(n) = At(0) + IF ins.u THEN n ELSE -n
<1>1. loop /\ ins.u \in BOOLEAN /\ reg_num \in Registers
  BY InBlock DEF TypeOK
<1>2. PICK k \in Nat : k = Rank(reg_num)
  BY <1>1, RankFacts
<1>3. /\ adresse = At(k)
      /\ \A m \in 0 .. k - 1 : At(m) < Size /\ At(m) = At(0) + IF ins.u THEN m ELSE -m
  BY <1>1, <1>2 DEF BlockInv
<1>4. CASE n < k
  BY <1>2, <1>3, <1>4
<1>5. CASE n = k /\ k = 0
  <2>1. At(0) \in Int
    BY <1>1, AtNext DEF Word
  <2>. QED
    BY <1>1, <1>3, <1>5, <2>1
<1>6. CASE n = k /\ k > 0
  <2>1. PICK m \in Nat : m = k - 1
    BY <1>6
  <2>2. PICK a \in Word : a = At(m)
    BY <1>1, AtNext
  <2>3. Next4(a, ins.u) = At(m + 1)
    BY <1>1, <2>2, AtNext
  <2>4. m + 1 = k
    BY <2>1
  <2>5. m \in 0 .. k - 1
    BY <2>1
  <2>6. a < Size /\ a = At(0) + IF ins.u THEN m ELSE -m
    BY <1>3, <2>2, <2>5
  <2>7. Size \in Nat /\ Modulus \in Nat /\ Size < Modulus /\ a \in Int /\ a >= 0
    BY MemoryAssumption DEF Word
  <2>8. At(k) < Size
    BY <1>3
  <2>9. At(0) \in Int
    BY <1>1, AtNext DEF Word
  <2>10. Next4(a, ins.u) = a + IF ins.u THEN 1 ELSE -1
    <3>1. CASE ins.u
      <4>1. a + 1 < Modulus
        BY <2>6, <2>7
      <4>. QED
        BY <3>1, <4>1, Next4Wraps
    <3>2. CASE ~ins.u /\ a > 0
      <4>1. Next4(a, ins.u) = a - 1
        BY <1>1, <3>2, Next4Wraps
      <4>. QED
        BY <2>7, <3>2, <4>1
    <3>3. CASE ~ins.u /\ a = 0
      <4>1. At(k) = Modulus - 1
        BY <1>1, <2>3, <2>4, <3>3, Next4Wraps
      <4>. QED
        BY <2>7, <2>8, <4>1
    <3>. QED
      BY <1>1, <2>7, <3>1, <3>2, <3>3
  <2>11. At(k) = a + IF ins.u THEN 1 ELSE -1
    BY <2>3, <2>4, <2>10
  <2>. QED
    BY <1>1, <1>6, <2>1, <2>6, <2>7, <2>8, <2>9, <2>11
<1>. QED
  BY <1>2, <1>4, <1>5, <1>6

\* The words the loop is past are in memory, and are not the one at hand.
LEMMA Apart ==
  ASSUME TypeInv, BlockInv, ins.kind = "multiple", NEW q \in Registers, Past(q)
  PROVE  /\ At(Rank(q)) \in 0 .. Size - 1
         /\ adresse < Size => At(Rank(q)) # adresse
<1>1. loop /\ ins.u \in BOOLEAN /\ reg_num \in Registers /\ q \in Listed /\ q < reg_num
  BY InBlock DEF TypeOK, Past
<1>2. PICK k \in Nat : k = Rank(reg_num)
  BY <1>1, RankFacts
<1>3. PICK n \in Nat : n = Rank(q)
  BY RankFacts
<1>4. n < k
  BY <1>1, <1>2, <1>3, RankFacts
<1>5. n \in 0 .. k - 1 /\ n \in 0 .. k /\ k \in 0 .. k
  BY <1>4
<1>6. At(n) < Size /\ At(n) \in Word
  BY <1>1, <1>2, <1>5, AtNext DEF BlockInv
<1>7. ASSUME adresse < Size PROVE At(n) # adresse
  <2>1. /\ At(n) = At(0) + IF ins.u THEN n ELSE -n
        /\ At(k) = At(0) + IF ins.u THEN k ELSE -k
    BY <1>2, <1>5, <1>7, AtHand
  <2>2. adresse = At(k)
    BY <1>1, <1>2 DEF BlockInv
  <2>3. At(0) \in Int
    BY <1>1, AtNext DEF Word
  <2>. QED
    BY <1>1, <1>4, <2>1, <2>2, <2>3
<1>. QED
  BY <1>3, <1>6, <1>7, MemoryAssumption DEF Word

\* The word of a register does not change either.
LEMMA WordKept ==
  ASSUME TypeInv, loop, UNCHANGED <<loop, ins, before>>, NEW r \in Registers
  PROVE  At(Rank(r))' = At(Rank(r))
<1>1. PICK n : n = Rank(r)
  OBVIOUS
<1>2. Rank(r)' = n
  BY <1>1, AtKept
<1>3. At(Rank(r))' = At(n)'
  BY <1>2 DEF At, Outside!Moved
<1>. QED
  BY <1>1, <1>3, AtKept

\* Neither does the place of the loop depend on anything but its register.
LEMMA PlaceNext ==
  ASSUME TypeInv, loop, UNCHANGED <<loop, ins, before>>,
         NEW k, Rank(reg_num') = k
  PROVE  Rank(reg_num)' = k /\ At(Rank(reg_num))' = At(k)
<1>1. PICK r : r = reg_num'
  OBVIOUS
<1>2. Rank(reg_num)' = Rank(r)'
  BY <1>1 DEF Rank
<1>3. Rank(r)' = k
  BY <1>1, AtKept
<1>4. At(Rank(reg_num))' = At(k)'
  BY <1>2, <1>3 DEF At, Outside!Moved
<1>. QED
  BY <1>2, <1>3, <1>4, AtKept

LEMMA BlockPasses ==
  ASSUME TypeInv, BlockInv, Pass
  PROVE  BlockInv'
<1>1. /\ ins.kind = "multiple" /\ loop /\ reg_num \in Registers /\ reg_num \notin Listed
      /\ reg_num' = reg_num + 1 /\ UNCHANGED <<loop, ins, before, regs, mem, adresse>>
  BY InBlock DEF Pass, TypeOK
<1>2. Rank(reg_num + 1) = Rank(reg_num)
  BY <1>1, RankFacts
<1>3. /\ \A n : At(n)' = At(n)
      /\ Listed' = Listed
      /\ \A r : Rank(r)' = Rank(r)
  BY <1>1, AtKept
<1>4. Rank(reg_num)' = Rank(reg_num) /\ At(Rank(reg_num))' = At(Rank(reg_num))
  BY <1>1, <1>2, PlaceNext
<1>5. \A r \in Registers : Past(r)' <=> Past(r)
  <2>1. \A r \in Registers : r \in Listed => (r < reg_num + 1 <=> r < reg_num)
    BY <1>1, PcAssumption DEF Registers
  <2>. QED
    BY <1>1, <1>3, <2>1 DEF Past
<1>6. \A r \in Registers : At(Rank(r))' = At(Rank(r))
  BY <1>1, WordKept
<1>7. adresse' = At(Rank(reg_num))'
  BY <1>1, <1>4 DEF BlockInv
<1>8. Loaded' = Loaded /\ Stored' = Stored
  BY <1>1, <1>5, <1>6, Zenon DEF Loaded, Stored
<1>. QED
  BY <1>1, <1>3, <1>4, <1>7, <1>8 DEF BlockInv

\* A turn of the loop that finds its word.
LEMMA BlockTurns ==
  ASSUME TypeInv, BlockInv, Load \/ Store, adresse < Size
  PROVE  BlockInv'
<1>1. /\ ins.kind = "multiple" /\ loop /\ reg_num \in Registers /\ reg_num \in Listed
      /\ reg_num < Pc /\ reg_num' = reg_num + 1 /\ adresse' = Next4(adresse, ins.u)
      /\ UNCHANGED <<loop, ins, before>>
  <2>1. Turn /\ Advance
    BY DEF Load, Store
  <2>2. loop /\ TypeOK /\ Listed = ins.list \ {Pc}
    BY <2>1, InBlock DEF Turn
  <2>3. reg_num \in Registers /\ reg_num # Pc
    BY <2>1, <2>2, PcAssumption DEF Turn, TypeOK, Registers
  <2>. QED
    BY <2>1, <2>2, <2>3 DEF Turn, Advance
<1>2. PICK k \in Nat : k = Rank(reg_num)
  BY <1>1, RankFacts
<1>3. Rank(reg_num + 1) = k + 1
  BY <1>1, <1>2, RankFacts
<1>4. /\ \A n : At(n)' = At(n)
      /\ Listed' = Listed
  BY <1>1, AtKept
<1>5. Rank(reg_num)' = k + 1 /\ At(Rank(reg_num))' = At(k + 1)
  BY <1>1, <1>3, PlaceNext
<1>6. adresse = At(k)
  BY <1>1, <1>2 DEF BlockInv
<1>7. adresse' = At(Rank(reg_num))'
  BY <1>1, <1>5, <1>6, AtNext
<1>8. \A r \in Registers : Past(r)' <=> Past(r) \/ r = reg_num
  <2>1. \A r \in Registers : r < reg_num + 1 <=> r < reg_num \/ r = reg_num
    BY <1>1, PcAssumption DEF Registers
  <2>. QED
    BY <1>1, <1>4, <2>1 DEF Past
<1>9. \A r \in Registers : At(Rank(r))' = At(Rank(r))
  BY <1>1, WordKept
<1>10. \A n \in 0 .. Rank(reg_num)' - 1 :
         At(n)' < Size /\ At(n)' = At(0)' + IF ins'.u THEN n ELSE -n
  <2>1. \A n \in 0 .. (k + 1) - 1 : n \in 0 .. k
    OBVIOUS
  <2>2. \A n \in 0 .. k : At(n) < Size /\ At(n) = At(0) + IF ins.u THEN n ELSE -n
    BY <1>1, <1>2, AtHand
  <2>. QED
    BY <1>1, <1>4, <1>5, <2>1, <2>2
<1>11. /\ regs \in [Registers -> Word] /\ mem \in [0 .. Size - 1 -> Word]
       /\ adresse \in 0 .. Size - 1
  BY MemoryAssumption DEF TypeInv, TypeOK, Word
<1>12. ASSUME ins.l PROVE Loaded'
  <2>1. mem' = mem /\ regs' = [regs EXCEPT ![reg_num] = mem[adresse]]
    BY <1>12 DEF Load, Store
  <2>2. Loaded
    BY <1>1, <1>12 DEF BlockInv
  <2>3. ASSUME NEW r \in Registers
        PROVE  regs'[r] = IF Past(r)' THEN before'[2][At(Rank(r))'] ELSE before'[1][r]
    <3>1. CASE r = reg_num
      BY <1>1, <1>2, <1>6, <1>8, <1>9, <1>11, <2>1, <2>2, <3>1 DEF Loaded
    <3>2. CASE r # reg_num
      BY <1>1, <1>8, <1>9, <1>11, <2>1, <2>2, <3>2 DEF Loaded
    <3>. QED
      BY <3>1, <3>2
  <2>. QED
    BY <1>1, <2>1, <2>2, <2>3 DEF Loaded
<1>13. ASSUME ~ins.l PROVE Stored'
  <2>1. regs' = regs /\ mem' = [mem EXCEPT ![adresse] = regs[reg_num]]
    BY <1>13 DEF Load, Store
  <2>2. Stored
    BY <1>1, <1>13 DEF BlockInv
  <2>3. ASSUME NEW r \in Registers, Past(r)'
        PROVE  mem'[At(Rank(r))'] = before'[1][r]
    <3>1. CASE r = reg_num
      BY <1>1, <1>2, <1>6, <1>9, <1>11, <2>1, <2>2, <3>1 DEF Stored
    <3>2. CASE r # reg_num
      <4>1. Past(r)
        BY <1>8, <2>3, <3>2
      <4>2. At(Rank(r)) \in 0 .. Size - 1 /\ At(Rank(r)) # adresse
        BY <1>1, <4>1, Apart
      <4>. QED
        BY <1>1, <1>9, <1>11, <2>1, <2>2, <4>1, <4>2 DEF Stored
    <3>. QED
      BY <3>1, <3>2
  <2>4. ASSUME NEW a \in 0 .. Size - 1,
               \A r \in Registers : Past(r)' => At(Rank(r))' # a
        PROVE  mem'[a] = before'[2][a]
    <3>1. a # adresse
      BY <1>1, <1>2, <1>6, <1>8, <1>9, <2>4
    <3>2. \A r \in Registers : Past(r) => At(Rank(r)) # a
      BY <1>8, <1>9, <2>4
    <3>. QED
      BY <1>1, <1>11, <2>1, <2>2, <3>1, <3>2 DEF Stored
  <2>. QED
    BY <1>1, <2>1, <2>2, <2>3, <2>4 DEF Stored
<1>. QED
  BY <1>1, <1>7, <1>10, <1>12, <1>13 DEF BlockInv

LEMMA BlockKept == TypeInv /\ BlockInv /\ [Next]_vars => BlockInv'
<1>. SUFFICES ASSUME TypeInv, BlockInv, [Next]_vars PROVE BlockInv'
  OBVIOUS
<1>1. CASE loop' = FALSE
  BY <1>1 DEF BlockInv
<1>2. CASE UNCHANGED vars
  BY <1>2
  DEF vars, BlockInv, Loaded, Stored, Past, Rank, Listed, At, Below,
      Outside!Listed, Outside!Moved, Outside!Base, Outside!ReadRegister
<1>3. CASE Skip \/ \E i \in Instructions : Refuse(i)
  BY <1>3 DEF Skip, Refuse, locals, BlockInv
<1>4. CASE \E i \in Instructions : Begin(i)
  BY <1>4, BlockBegins
<1>5. CASE Pass
  BY <1>5, BlockPasses
<1>6. CASE Load \/ Store
  <2>1. CASE adresse < Size
    BY <1>6, <2>1, BlockTurns
  <2>2. CASE ~(adresse < Size)
    BY <1>1, <1>6, <2>2 DEF Load, Store, Return
  <2>. QED
    BY <2>1, <2>2
<1>7. CASE Finish \/ HalfUndefined \/ SingleLoad \/ SingleStore
  BY <1>1, <1>7 DEF Finish, HalfUndefined, SingleLoad, SingleStore, PostIndex, Return
<1>. QED
  BY <1>2, <1>3, <1>4, <1>5, <1>6, <1>7 DEF Next

-----------------------------------------------------------------------------
(* From outside: transfers of several registers *)

\* Transfers counts as this module does.
LEMMA SameCardinality ==
  ASSUME NEW S
  PROVE  Outside!Cardinality(S) = Cardinality(S)
BY Zenon DEF Outside!Cardinality, Cardinality

LEMMA OutsideAddress ==
  ASSUME NEW r
  PROVE  Outside!AddressOf(ins, r) = At(Rank(r))
<1>1. Outside!Rank(ins, r) = Rank(r)
  BY SameCardinality, Zenon DEF Outside!Rank, Rank, Below, Listed
<1>. QED
  BY <1>1, Zenon DEF Outside!AddressOf, At, Outside!Base

\* Where the loop ends is where the transfer does.
LEMMA ReachedPast ==
  ASSUME TypeInv, BlockInv, ins.kind = "multiple",
         reg_num = Pc \/ (reg_num \in Listed /\ ~(adresse < Size))
  PROVE  Outside!Reached(ins) = { r \in Listed : Past(r) }
<1>1. /\ loop /\ reg_num \in Registers
      /\ \A r \in Listed : r \in Registers /\ r # Pc
  BY InBlock DEF TypeOK
<1>2. adresse = At(Rank(reg_num))
  BY <1>1 DEF BlockInv
<1>3. ASSUME NEW r \in Listed, Past(r), NEW q \in Listed, q <= r
      PROVE  Outside!AddressOf(ins, q) < Size
  <2>1. Past(q)
    BY <1>1, <1>3, PcAssumption DEF Past, Registers
  <2>2. At(Rank(q)) \in 0 .. Size - 1
    BY <1>1, <2>1, Apart
  <2>. QED
    BY <2>2, OutsideAddress, MemoryAssumption
<1>4. ASSUME NEW r \in Listed, ~Past(r)
      PROVE  \E q \in Listed : q <= r /\ ~(Outside!AddressOf(ins, q) < Size)
  <2>1. reg_num # Pc /\ reg_num <= r
    BY <1>1, <1>4, PcAssumption DEF Past, Registers
  <2>2. ~(Outside!AddressOf(ins, reg_num) < Size)
    BY <1>2, <2>1, OutsideAddress
  <2>. QED
    BY <2>1, <2>2
<1>. QED
  BY <1>3, <1>4, Zenon DEF Outside!Reached, Listed

\* The loop has come to its end.
LEMMA AllReached ==
  ASSUME TypeInv, BlockInv, ins.kind = "multiple", reg_num = Pc
  PROVE  /\ Outside!Reached(ins) = Listed
         /\ ~Outside!Aborts(ins)
         /\ \A r : ~Outside!Failing(ins, r)
         /\ Outside!Answer(ins) = IF Pc \in ins.list THEN "UNDEFINED_INSTRUCTION" ELSE "NONE"
         /\ \A r \in Listed : Past(r)
         /\ Pc \notin ins.list => Outside!Final(ins) = adresse
<1>1. /\ loop /\ Listed = ins.list \ {Pc}
      /\ \A r \in Listed : r \in Registers /\ r # Pc
  BY InBlock
<1>2. \A r \in Listed : Past(r)
  BY <1>1, PcAssumption DEF Past, Registers
<1>3. Outside!Reached(ins) = Listed
  BY <1>2, ReachedPast
<1>4. ~Outside!Aborts(ins)
  BY <1>3 DEF Outside!Aborts, Listed
<1>5. \A r : ~Outside!Failing(ins, r)
  BY <1>3 DEF Outside!Failing, Listed
<1>6. Outside!Answer(ins) = IF Pc \in ins.list THEN "UNDEFINED_INSTRUCTION" ELSE "NONE"
  BY <1>4 DEF Outside!Answer
<1>7. ASSUME Pc \notin ins.list PROVE Outside!Final(ins) = adresse
  <2>1. ins.list = Listed /\ Below(Listed, Pc) = Listed
    <3>1. \A q \in Listed : q < Pc
      BY <1>1, PcAssumption DEF Registers
    <3>2. ins.list = Listed
      BY <1>1, <1>7
    <3>. QED
      BY <3>1, <3>2, Zenon DEF Below
  <2>2. Outside!Final(ins) = At(Cardinality(ins.list))
    BY SameCardinality, Zenon DEF Outside!Final, At, Outside!Base
  <2>3. Rank(Pc) = Cardinality(ins.list)
    BY <2>1 DEF Rank
  <2>. QED
    BY <1>1, <2>2, <2>3 DEF BlockInv
<1>. QED
  BY <1>2, <1>3, <1>4, <1>5, <1>6, <1>7

\* The loop has come to a word that is not there.
LEMMA SomeReached ==
  ASSUME TypeInv, BlockInv, ins.kind = "multiple", reg_num \in Listed, ~(adresse < Size)
  PROVE  /\ \A r : r \in Outside!Reached(ins) <=> r \in Listed /\ Past(r)
         /\ \A r : Outside!Failing(ins, r) <=> r = reg_num
         /\ Outside!Answer(ins) = "DATA_ABORT"
<1>1. \A r : r \in Outside!Reached(ins) <=> r \in Listed /\ Past(r)
  BY ReachedPast
<1>2. \A r \in Listed : r \in Int
  BY InBlock, PcAssumption DEF Registers
<1>3. reg_num \in Listed /\ ~Past(reg_num)
  BY <1>2 DEF Past
<1>4. ASSUME NEW r PROVE Outside!Failing(ins, r) <=> r = reg_num
  <2>1. ASSUME Outside!Failing(ins, r) PROVE r = reg_num
    <3>1. r \in Listed /\ ~Past(r) /\ \A q \in Listed : q < r => Past(q)
      BY <1>1, <2>1 DEF Outside!Failing, Listed
    <3>. QED
      BY <1>2, <1>3, <3>1 DEF Past
  <2>2. ASSUME r = reg_num PROVE Outside!Failing(ins, r)
    BY <1>1, <1>3, <2>2 DEF Outside!Failing, Listed, Past
  <2>. QED
    BY <2>1, <2>2
<1>5. Outside!Aborts(ins)
  BY <1>1, <1>3 DEF Outside!Aborts, Listed
<1>. QED
  BY <1>1, <1>4, <1>5 DEF Outside!Answer

\* The registers and the memory of the transfer, as the block gives them.
LEMMA BlockLoads ==
  ASSUME TypeInv, loop, ins.kind = "multiple", ins.l,
         loop' = FALSE, ins' = NoInstruction, answer' = Outside!Answer(ins),
         mem' = before[2], NEW junk \in Word, regs' \in [Registers -> Word],
         \A r \in Registers :
           regs'[r] = IF r \in Outside!Reached(ins) THEN before[2][At(Rank(r))]
                      ELSE IF Outside!Failing(ins, r) THEN junk
                      ELSE IF Outside!WrittenBack(ins, r) THEN Outside!Final(ins)
                      ELSE before[1][r]
  PROVE  Outside!BNext
<1>1. \A r \in Registers : Outside!AddressOf(ins, r) = At(Rank(r))
  BY OutsideAddress
<1>2. regs' = [r \in Registers |->
                 IF r \in Outside!Reached(ins) THEN before[2][Outside!AddressOf(ins, r)]
                 ELSE IF Outside!Failing(ins, r) THEN junk
                 ELSE IF Outside!WrittenBack(ins, r) THEN Outside!Final(ins)
                 ELSE before[1][r]]
  BY <1>1
<1>3. Outside!Done
  BY DEF Outside!Done, Outside!NoInstruction, NoInstruction
<1>4. Outside!BLoad(junk)
  BY <1>2, <1>3 DEF Outside!BLoad, Outside!Registers, Registers
<1>5. junk \in Outside!Word
  BY DEF Outside!Word, Word
<1>. QED
  BY <1>4, <1>5 DEF Outside!BNext

LEMMA BlockStores ==
  ASSUME TypeInv, loop, ins.kind = "multiple", ~ins.l,
         loop' = FALSE, ins' = NoInstruction, answer' = Outside!Answer(ins),
         mem' = mem, Stored,
         \A r \in Registers : r \in Outside!Reached(ins) <=> Past(r),
         Outside!Reached(ins) \subseteq Registers,
         regs' \in [Registers -> Word],
         \A r \in Registers :
           regs'[r] = IF Outside!WrittenBack(ins, r) THEN Outside!Final(ins)
                      ELSE before[1][r]
  PROVE  Outside!BNext
<1>1. \A r \in Registers : Outside!AddressOf(ins, r) = At(Rank(r))
  BY OutsideAddress
<1>2. regs' = [r \in Registers |-> IF Outside!WrittenBack(ins, r) THEN Outside!Final(ins)
                                   ELSE before[1][r]]
  OBVIOUS
<1>3. ASSUME NEW a \in 0 .. Size - 1
      PROVE  mem[a] = IF \E r \in Outside!Reached(ins) : Outside!AddressOf(ins, r) = a
                      THEN before[1][CHOOSE r \in Outside!Reached(ins) :
                                       Outside!AddressOf(ins, r) = a]
                      ELSE before[2][a]
  <2>1. CASE \E r \in Outside!Reached(ins) : Outside!AddressOf(ins, r) = a
    <3>1. PICK q : q = CHOOSE r \in Outside!Reached(ins) : Outside!AddressOf(ins, r) = a
      OBVIOUS
    <3>2. q \in Outside!Reached(ins) /\ Outside!AddressOf(ins, q) = a
      BY <2>1, <3>1, Zenon
    <3>3. q \in Registers /\ Past(q) /\ At(Rank(q)) = a
      BY <1>1, <3>2
    <3>4. mem[a] = before[1][q]
      BY <3>3 DEF Stored
    <3>. QED
      BY <2>1, <3>1, <3>4, Zenon
  <2>2. CASE ~\E r \in Outside!Reached(ins) : Outside!AddressOf(ins, r) = a
    <3>1. \A r \in Registers : Past(r) => At(Rank(r)) # a
      BY <1>1, <2>2
    <3>2. mem[a] = before[2][a]
      BY <3>1 DEF Stored
    <3>. QED
      BY <2>2, <3>2, Zenon
  <2>. QED
    BY <2>1, <2>2
<1>4. mem \in [0 .. Size - 1 -> Word]
  BY DEF TypeInv, TypeOK
<1>5. mem = [a \in 0 .. Size - 1 |->
               IF \E r \in Outside!Reached(ins) : Outside!AddressOf(ins, r) = a
               THEN before[1][CHOOSE r \in Outside!Reached(ins) :
                                Outside!AddressOf(ins, r) = a]
               ELSE before[2][a]]
  BY <1>3, <1>4, Zenon
<1>6. Outside!Done
  BY DEF Outside!Done, Outside!NoInstruction, NoInstruction
<1>7. (IF loop THEN before[1] ELSE regs) = before[1]
      /\ (IF loop THEN before[2] ELSE mem) = before[2]
      /\ (IF loop' THEN before'[1] ELSE regs') = regs'
      /\ (IF loop' THEN before'[2] ELSE mem') = mem'
  OBVIOUS
<1>8. Outside!BStore
  BY <1>2, <1>5, <1>6, <1>7 DEF Outside!BStore, Outside!Registers, Registers, Outside!Cells
<1>. QED
  BY <1>8 DEF Outside!BNext

LEMMA FinishMaps ==
  ASSUME TypeInv, BlockInv, Finish
  PROVE  Outside!BNext
<1>1. /\ ins.kind = "multiple" /\ reg_num = Pc
      /\ loop' = FALSE /\ ins' = NoInstruction /\ mem' = mem
      /\ answer' = IF Pc \in ins.list THEN "UNDEFINED_INSTRUCTION" ELSE "NONE"
      /\ regs' = IF Pc \notin ins.list /\ ins.w THEN [regs EXCEPT ![ins.rn] = adresse] ELSE regs
  BY DEF Finish, Return
<1>2. /\ loop /\ ~Refused(ins) /\ ins.rn \in Registers /\ ins.l \in BOOLEAN /\ ins.w \in BOOLEAN
      /\ Listed = ins.list \ {Pc} /\ Listed \in SUBSET Registers
      /\ regs \in [Registers -> Word] /\ adresse \in Word
  BY <1>1, InBlock DEF UnderWay, TypeOK
<1>3. ins.rn \in ins.list => ~ins.w
  BY <1>1, <1>2, RefusedMultiple
<1>4. /\ Outside!Reached(ins) = Listed
      /\ \A r : ~Outside!Failing(ins, r)
      /\ Outside!Answer(ins) = IF Pc \in ins.list THEN "UNDEFINED_INSTRUCTION" ELSE "NONE"
      /\ \A r \in Listed : Past(r)
      /\ Pc \notin ins.list => Outside!Final(ins) = adresse
  BY <1>1, AllReached
<1>5. \A r : Outside!WrittenBack(ins, r) <=> r = ins.rn /\ ins.w /\ Pc \notin ins.list
  BY <1>2, <1>4 DEF Outside!WrittenBack
<1>6. regs' \in [Registers -> Word]
  BY <1>1, <1>2
<1>7. \A r \in Registers : r \in Listed <=> Past(r)
  BY <1>4 DEF Past
<1>8. CASE ins.l
  <2>1. Loaded
    BY <1>1, <1>2, <1>8 DEF BlockInv
  <2>2. ASSUME NEW r \in Registers
        PROVE  regs'[r] = IF r \in Outside!Reached(ins) THEN before[2][At(Rank(r))]
                          ELSE IF Outside!Failing(ins, r) THEN 0
                          ELSE IF Outside!WrittenBack(ins, r) THEN Outside!Final(ins)
                          ELSE before[1][r]
    <3>1. regs[r] = IF r \in Listed THEN before[2][At(Rank(r))] ELSE before[1][r]
      BY <1>7, <2>1 DEF Loaded
    <3>2. CASE Outside!WrittenBack(ins, r)
      BY <1>1, <1>2, <1>3, <1>4, <1>5, <3>2
    <3>3. CASE ~Outside!WrittenBack(ins, r)
      BY <1>1, <1>2, <1>4, <1>5, <3>1, <3>3
    <3>. QED
      BY <3>2, <3>3
  <2>3. mem' = before[2] /\ 0 \in Word
    BY <1>1, <2>1, MemoryAssumption DEF Loaded, Word
  <2>. QED
    BY <1>1, <1>2, <1>4, <1>6, <1>8, <2>2, <2>3, BlockLoads
<1>9. CASE ~ins.l
  <2>1. Stored
    BY <1>1, <1>2, <1>9 DEF BlockInv
  <2>2. \A r \in Registers :
          regs'[r] = IF Outside!WrittenBack(ins, r) THEN Outside!Final(ins) ELSE before[1][r]
    BY <1>1, <1>2, <1>4, <1>5, <2>1 DEF Stored
  <2>. QED
    BY <1>1, <1>2, <1>4, <1>6, <1>7, <1>9, <2>1, <2>2, BlockStores
<1>. QED
  BY <1>8, <1>9

LEMMA AbortMaps ==
  ASSUME TypeInv, BlockInv, Load \/ Store, ~(adresse < Size)
  PROVE  Outside!BNext
<1>1. /\ Turn /\ ins.kind = "multiple"
      /\ loop' = FALSE /\ ins' = NoInstruction /\ mem' = mem /\ answer' = "DATA_ABORT"
  BY DEF Load, Store, Turn, Return
<1>2. /\ loop /\ ins.l \in BOOLEAN /\ reg_num \in Registers
      /\ Listed = ins.list \ {Pc} /\ Listed \in SUBSET Registers
      /\ regs \in [Registers -> Word]
  BY <1>1, InBlock DEF TypeOK
<1>3. reg_num \in Listed
  BY <1>1, <1>2, PcAssumption DEF Turn, Registers
<1>4. /\ \A r : r \in Outside!Reached(ins) <=> r \in Listed /\ Past(r)
      /\ \A r : Outside!Failing(ins, r) <=> r = reg_num
      /\ Outside!Answer(ins) = "DATA_ABORT"
  BY <1>1, <1>3, SomeReached
<1>5. \A r : ~Outside!WrittenBack(ins, r)
  BY <1>4 DEF Outside!WrittenBack
<1>6. \A r \in Registers : r \in Outside!Reached(ins) <=> Past(r)
  BY <1>4 DEF Past
<1>7. CASE ins.l
  <2>1. Loaded
    BY <1>1, <1>2, <1>7 DEF BlockInv
  <2>2. PICK v \in Word : regs' = [regs EXCEPT ![reg_num] = v]
    BY <1>7 DEF Load, Store, TypeInv, TypeOK
  <2>3. ~Past(reg_num)
    BY <1>2, PcAssumption DEF Past, Registers
  <2>4. ASSUME NEW r \in Registers
        PROVE  regs'[r] = IF r \in Outside!Reached(ins) THEN before[2][At(Rank(r))]
                          ELSE IF Outside!Failing(ins, r) THEN v
                          ELSE IF Outside!WrittenBack(ins, r) THEN Outside!Final(ins)
                          ELSE before[1][r]
    <3>1. regs[r] = IF Past(r) THEN before[2][At(Rank(r))] ELSE before[1][r]
      BY <2>1 DEF Loaded
    <3>2. CASE r = reg_num
      BY <1>2, <1>4, <1>6, <2>2, <2>3, <3>2
    <3>3. CASE r # reg_num
      BY <1>2, <1>4, <1>5, <1>6, <2>2, <3>1, <3>3
    <3>. QED
      BY <3>2, <3>3
  <2>5. regs' \in [Registers -> Word] /\ mem' = before[2]
    BY <1>1, <1>2, <2>1, <2>2 DEF Loaded
  <2>. QED
    BY <1>1, <1>2, <1>4, <1>7, <2>4, <2>5, BlockLoads
<1>8. CASE ~ins.l
  <2>1. Stored /\ regs' = regs
    BY <1>1, <1>2, <1>8 DEF BlockInv, Load, Store
  <2>2. \A r \in Registers :
          regs'[r] = IF Outside!WrittenBack(ins, r) THEN Outside!Final(ins) ELSE before[1][r]
    BY <1>5, <2>1 DEF Stored
  <2>3. Outside!Reached(ins) \subseteq Registers
    BY <1>2, <1>4
  <2>. QED
    BY <1>1, <1>2, <1>4, <1>6, <1>8, <2>1, <2>2, <2>3, BlockStores
<1>. QED
  BY <1>2, <1>7, <1>8

-----------------------------------------------------------------------------
(* From outside: transfers of a single register *)

LEMMA SingleFacts ==
  ASSUME TypeInv, Single
  PROVE  /\ loop /\ TypeOK /\ UnderWay /\ ins \in Instructions /\ ins.kind # "multiple"
         /\ regs = before[1] /\ mem = before[2]
         /\ adresse = Outside!Address(ins)
         /\ ins.p => adresse = Outside!BaseMoved(ins)
         /\ ~ins.p => Moved(ins, adresse) = Outside!BaseMoved(ins)
         /\ \A v : Low(v) = Outside!Sized(ins.kind, v)
         /\ Anything = Outside!Anything(ins.kind)
<1>1. /\ loop /\ TypeOK /\ UnderWay /\ ins \in Instructions /\ ins.kind # "multiple"
      /\ regs = before[1] /\ mem = before[2] /\ adresse = FirstAddress(ins)
  BY DEF TypeInv, NoInstruction, Single, UnderWay
<1>2. arm_read_register(ins.rn) = Outside!Base(ins)
  BY <1>1 DEF arm_read_register, Outside!Base, Outside!ReadRegister
<1>3. Moved(ins, arm_read_register(ins.rn)) = Outside!BaseMoved(ins)
  BY <1>2, Zenon DEF Moved, Outside!BaseMoved, Outside!Moved
<1>4. adresse = IF ins.p THEN Outside!BaseMoved(ins) ELSE Outside!Base(ins)
  BY <1>1, <1>2, <1>3, Zenon DEF FirstAddress
<1>5. ASSUME ~ins.p PROVE Moved(ins, adresse) = Outside!BaseMoved(ins)
  BY <1>2, <1>3, <1>4, <1>5, Zenon
<1>6. \A v : Low(v) = Outside!Sized(ins.kind, v)
  BY DEF Low, Outside!Sized, Outside!Low
<1>7. Anything = Outside!Anything(ins.kind)
  BY <1>6, Zenon DEF Anything, Outside!Anything, Word, Outside!Word
<1>. QED
  BY <1>1, <1>4, <1>5, <1>6, <1>7 DEF Outside!Address

\* What a local variable holds at the pc.
LEMMA HeldAtPc ==
  ASSUME TypeInv, Single, ins.rn = Pc
  PROVE  Held = Outside!AtPc(ins)
<1>1. /\ loop /\ TypeOK /\ ins.kind # "multiple" /\ regs = before[1]
      /\ Anything = Outside!Anything(ins.kind)
      /\ value = IF ins.kind = "word" THEN (arm_read_register(Pc) + 2) % Modulus ELSE Unassigned
  BY SingleFacts DEF UnderWay
<1>2. arm_read_register(Pc) = Outside!Base(ins)
  BY <1>1 DEF arm_read_register, Outside!Base, Outside!ReadRegister
<1>3. (arm_read_register(Pc) + 2) % Modulus # Unassigned
  <2>1. arm_read_register(Pc) \in Int
    BY <1>1, ReadWord, PcAssumption DEF Registers
  <2>2. PICK a \in Int : a = arm_read_register(Pc) + 2
    BY <2>1
  <2>. QED
    BY <2>2, WordOf DEF Word, Unassigned
<1>. QED
  BY <1>1, <1>2, <1>3, Zenon DEF Held, Outside!AtPc

\* A single transfer, as its access gives it.
LEMMA SingleMaps ==
  ASSUME TypeInv, Single, loop' = FALSE, ins' = NoInstruction,
         NEW fails \in Outside!Failures(ins),
         NEW v \in IF ins.l THEN Outside!LoadedValues(ins) ELSE Outside!StoredValues(ins),
         answer' = Outside!SingleAnswer(ins, fails),
         regs' = [r \in Registers |->
                    IF r = ins.rn /\ ~ins.p /\ ~ins.w /\ answer' = "NONE"
                      THEN Outside!BaseMoved(ins)
                    ELSE IF r = ins.rd /\ ins.l /\ ins.coded THEN v
                    ELSE IF r = ins.rn /\ ins.p /\ ins.w THEN Outside!BaseMoved(ins)
                    ELSE regs[r]],
         mem' = [a \in 0 .. Size - 1 |->
                   IF a = adresse /\ ~ins.l /\ ins.coded
                   THEN Outside!Placed(ins.kind, mem[a], v) ELSE mem[a]]
  PROVE  Outside!BNext
<1>1. /\ loop /\ regs = before[1] /\ mem = before[2] /\ adresse = Outside!Address(ins)
  BY SingleFacts
<1>2. Outside!BSingle(fails, v)
  BY <1>1
  DEF Outside!BSingle, Outside!MovesLast, Outside!MovesFirst, Outside!NoInstruction,
      NoInstruction, Outside!Registers, Registers, Outside!Cells
<1>. QED
  BY <1>2 DEF Outside!BNext, Single

LEMMA SingleTypes ==
  ASSUME TypeInv, Single
  PROVE  /\ ins.rn \in Registers /\ ins.rd \in Registers
         /\ ins.l \in BOOLEAN /\ ins.p \in BOOLEAN /\ ins.w \in BOOLEAN /\ ins.coded \in BOOLEAN
         /\ regs \in [Registers -> Word] /\ mem \in [0 .. Size - 1 -> Word]
         /\ adresse \in Word /\ adresse \in Int /\ Size \in Nat
BY SingleFacts, Tried, MemoryAssumption DEF TypeOK, Word

LEMMA HalfUndefinedMaps ==
  ASSUME TypeInv, HalfUndefined
  PROVE  Outside!BNext
<1>1. /\ Single /\ ~ins.coded /\ loop' = FALSE /\ ins' = NoInstruction
      /\ answer' = "UNDEFINED_INSTRUCTION" /\ regs' = Indexed /\ mem' = mem
  BY DEF HalfUndefined, Return
<1>2. PICK fails : fails \in Outside!Failures(ins)
  BY DEF Outside!Failures
<1>3. 0 \in Outside!Word
  BY MemoryAssumption DEF Outside!Word
<1>4. PICK v : v \in IF ins.l THEN Outside!LoadedValues(ins) ELSE Outside!StoredValues(ins)
  <2>1. Outside!Sized(ins.kind, 0) \in Outside!Anything(ins.kind)
    BY <1>3, Zenon DEF Outside!Anything
  <2>2. \E v : v \in Outside!AtPc(ins)
    BY <2>1, Zenon DEF Outside!AtPc
  <2>3. \E v : v \in Outside!LoadedValues(ins)
    BY <2>1, <2>2, Zenon DEF Outside!LoadedValues
  <2>4. \E v : v \in Outside!StoredValues(ins)
    BY <2>2, Zenon DEF Outside!StoredValues
  <2>. QED
    BY <2>3, <2>4, Zenon
<1>5. answer' = Outside!SingleAnswer(ins, fails)
  BY <1>1 DEF Outside!SingleAnswer
<1>6. regs' = [r \in Registers |->
                 IF r = ins.rn /\ ~ins.p /\ ~ins.w /\ answer' = "NONE"
                   THEN Outside!BaseMoved(ins)
                 ELSE IF r = ins.rd /\ ins.l /\ ins.coded THEN v
                 ELSE IF r = ins.rn /\ ins.p /\ ins.w THEN Outside!BaseMoved(ins)
                 ELSE regs[r]]
  BY <1>1, SingleFacts, SingleTypes DEF Indexed
<1>7. mem' = [a \in 0 .. Size - 1 |->
                IF a = adresse /\ ~ins.l /\ ins.coded
                THEN Outside!Placed(ins.kind, mem[a], v) ELSE mem[a]]
  BY <1>1, SingleTypes
<1>. QED
  BY <1>1, <1>2, <1>4, <1>5, <1>6, <1>7, SingleMaps

\* The answer and the registers after an access, the last word being the base's
\* when it moves last.
LEMMA PostIndexMaps ==
  ASSUME TypeInv, Single, ins.coded, NEW loaded, NEW v,
         loaded = IF ins.l THEN [Indexed EXCEPT ![ins.rd] = v] ELSE Indexed,
         NEW fails \in BOOLEAN,
         IF fails THEN Return("DATA_ABORT") /\ regs' = loaded ELSE PostIndex(loaded)
  PROVE  /\ loop' = FALSE /\ ins' = NoInstruction
         /\ answer' = Outside!SingleAnswer(ins, fails)
         /\ regs' = [r \in Registers |->
                       IF r = ins.rn /\ ~ins.p /\ ~ins.w /\ answer' = "NONE"
                         THEN Outside!BaseMoved(ins)
                       ELSE IF r = ins.rd /\ ins.l /\ ins.coded THEN v
                       ELSE IF r = ins.rn /\ ins.p /\ ins.w THEN Outside!BaseMoved(ins)
                       ELSE regs[r]]
<1>1. /\ ins.rn \in Registers /\ ins.rd \in Registers /\ regs \in [Registers -> Word]
      /\ ins.l \in BOOLEAN /\ ins.p \in BOOLEAN /\ ins.w \in BOOLEAN
  BY SingleTypes
<1>2. /\ ins.p => adresse = Outside!BaseMoved(ins)
      /\ ~ins.p => Moved(ins, adresse) = Outside!BaseMoved(ins)
  BY SingleFacts
<1>3. loaded = [r \in Registers |->
                  IF r = ins.rd /\ ins.l THEN v
                  ELSE IF r = ins.rn /\ ins.p /\ ins.w THEN Outside!BaseMoved(ins)
                  ELSE regs[r]]
  BY <1>1, <1>2 DEF Indexed
<1>4. CASE fails
  BY <1>1, <1>3, <1>4 DEF Return, Outside!SingleAnswer
<1>5. CASE ~fails /\ ins.p
  BY <1>1, <1>3, <1>5 DEF PostIndex, Return, Outside!SingleAnswer
<1>6. CASE ~fails /\ ~ins.p /\ ins.w
  BY <1>1, <1>3, <1>6 DEF PostIndex, Return, Outside!SingleAnswer
<1>7. CASE ~fails /\ ~ins.p /\ ~ins.w
  <2>1. /\ loop' = FALSE /\ ins' = NoInstruction /\ answer' = "NONE"
        /\ regs' = [loaded EXCEPT ![ins.rn] = Outside!BaseMoved(ins)]
    BY <1>2, <1>7 DEF PostIndex, Return
  <2>2. answer' = Outside!SingleAnswer(ins, fails)
    BY <1>7, <2>1 DEF Outside!SingleAnswer
  <2>3. regs' = [r \in Registers |->
                   IF r = ins.rn THEN Outside!BaseMoved(ins)
                   ELSE IF r = ins.rd /\ ins.l THEN v ELSE regs[r]]
    BY <1>1, <1>3, <1>7, <2>1
  <2>. QED
    BY <1>7, <2>1, <2>2, <2>3
<1>. QED
  BY <1>1, <1>4, <1>5, <1>6, <1>7

LEMMA SingleLoadMaps ==
  ASSUME TypeInv, SingleLoad
  PROVE  Outside!BNext
<1>1. Single /\ ins.coded /\ ins.l /\ mem' = mem
  BY DEF SingleLoad
<1>2. PICK v \in IF ins.rn # Pc /\ adresse < Size THEN { Low(mem[adresse]) } ELSE Held,
           result \in IF ins.rn = Pc THEN {0, -1}
                      ELSE { IF adresse < Size THEN 0 ELSE -1 } :
        LET loaded == [Indexed EXCEPT ![ins.rd] = v]
        IN  IF result = -1 THEN Return("DATA_ABORT") /\ regs' = loaded
            ELSE PostIndex(loaded)
  BY DEF SingleLoad
<1>3. PICK fails \in BOOLEAN : fails <=> result = -1
  OBVIOUS
<1>4. PICK loaded : loaded = [Indexed EXCEPT ![ins.rd] = v]
  OBVIOUS
<1>5. IF fails THEN Return("DATA_ABORT") /\ regs' = loaded ELSE PostIndex(loaded)
  BY <1>2, <1>3, <1>4
<1>6. /\ regs = before[1] /\ mem = before[2] /\ adresse = Outside!Address(ins) /\ loop
      /\ \A x : Low(x) = Outside!Sized(ins.kind, x)
      /\ Anything = Outside!Anything(ins.kind)
      /\ ins.rn # Pc => value = Unassigned
  BY <1>1, SingleFacts DEF UnderWay
<1>7. adresse \in Int /\ Size \in Nat
  BY <1>1, SingleTypes
<1>8. fails \in Outside!Failures(ins)
  <2>1. CASE ins.rn = Pc
    BY <1>1, <2>1 DEF Outside!Failures
  <2>2. CASE ins.rn # Pc
    <3>1. fails <=> adresse >= Size
      BY <1>2, <1>3, <1>7, <2>2
    <3>2. fails = (Outside!Address(ins) >= Size)
      BY <1>6, <1>7, <3>1
    <3>. QED
      BY <2>2, <3>2 DEF Outside!Failures
  <2>. QED
    BY <2>1, <2>2
<1>9. v \in Outside!LoadedValues(ins)
  <2>1. CASE ins.rn = Pc
    BY <1>1, <1>2, <2>1, HeldAtPc DEF Outside!LoadedValues
  <2>2. CASE ins.rn # Pc /\ adresse < Size
    BY <1>2, <1>6, <2>2 DEF Outside!LoadedValues
  <2>3. CASE ins.rn # Pc /\ ~(adresse < Size)
    BY <1>2, <1>6, <2>3 DEF Outside!LoadedValues, Held
  <2>. QED
    BY <2>1, <2>2, <2>3
<1>10. loaded = IF ins.l THEN [Indexed EXCEPT ![ins.rd] = v] ELSE Indexed
  BY <1>1, <1>4
<1>11. /\ loop' = FALSE /\ ins' = NoInstruction
       /\ answer' = Outside!SingleAnswer(ins, fails)
       /\ regs' = [r \in Registers |->
                     IF r = ins.rn /\ ~ins.p /\ ~ins.w /\ answer' = "NONE"
                       THEN Outside!BaseMoved(ins)
                     ELSE IF r = ins.rd /\ ins.l /\ ins.coded THEN v
                     ELSE IF r = ins.rn /\ ins.p /\ ins.w THEN Outside!BaseMoved(ins)
                     ELSE regs[r]]
  BY <1>1, <1>5, <1>10, PostIndexMaps
<1>12. mem' = [a \in 0 .. Size - 1 |->
                 IF a = adresse /\ ~ins.l /\ ins.coded
                 THEN Outside!Placed(ins.kind, mem[a], v) ELSE mem[a]]
  BY <1>1, SingleTypes
<1>13. v \in IF ins.l THEN Outside!LoadedValues(ins) ELSE Outside!StoredValues(ins)
  BY <1>1, <1>9
<1>. QED
  BY <1>1, <1>8, <1>11, <1>12, <1>13, SingleMaps

\* The value stored, of which the cell takes the low part.
LEMMA StoredPart ==
  ASSUME TypeInv, Single, ins.coded, ~ins.l, NEW a \in 0 .. Size - 1, a = adresse,
         NEW v \in IF ins.rn = Pc THEN Held
                   ELSE { Low(IF ins.rd = Pc THEN (Indexed[Pc] + 1) % Modulus
                              ELSE Indexed[ins.rd]) }
  PROVE  \E x \in Outside!StoredValues(ins) :
           mem[a] - Low(mem[a]) + v = Outside!Placed(ins.kind, mem[a], x)
<1>1. /\ loop /\ TypeOK /\ regs = before[1] /\ ins.kind # "multiple" /\ ins \in Instructions
      /\ ins.p => adresse = Outside!BaseMoved(ins)
  BY SingleFacts
<1>2. /\ ins.rn \in Registers /\ ins.rd \in Registers /\ Pc \in Registers
      /\ regs \in [Registers -> Word] /\ mem[a] \in Word /\ mem[a] \in Int
      /\ ins.p \in BOOLEAN /\ ins.w \in BOOLEAN
  BY SingleTypes, PcAssumption DEF Registers, Word
<1>3. ASSUME NEW x \in Word, v = Low(x)
      PROVE  mem[a] - Low(mem[a]) + v = Outside!Placed(ins.kind, mem[a], x)
  BY <1>2, <1>3 DEF Low, Outside!Placed, Outside!Low, Word
<1>4. CASE ins.rn # Pc
  <2>1. PICK x : x = IF ins.rd = Pc THEN (Indexed[Pc] + 1) % Modulus ELSE Indexed[ins.rd]
    OBVIOUS
  <2>2. v = Low(x)
    BY <1>4, <2>1
  <2>3. Indexed[Pc] = regs[Pc]
    BY <1>2, <1>4 DEF Indexed
  <2>4. x = IF ins.rd = ins.rn /\ ins.p /\ ins.w THEN Outside!BaseMoved(ins)
            ELSE Outside!ReadRegister(ins.rd)
    <3>1. CASE ins.rd = Pc
      BY <1>1, <1>4, <2>1, <2>3, <3>1 DEF Outside!ReadRegister
    <3>2. CASE ins.rd # Pc
      BY <1>1, <1>2, <2>1, <3>2 DEF Indexed, Outside!ReadRegister
    <3>. QED
      BY <3>1, <3>2
  <2>5. x \in Outside!StoredValues(ins)
    BY <1>4, <2>4 DEF Outside!StoredValues, Outside!MovesFirst
  <2>6. x \in Word
    <3>1. Indexed \in [Registers -> Word]
      BY <1>1, <1>2 DEF Indexed, TypeOK
    <3>2. PICK y \in Int : y = Indexed[Pc] + 1
      BY <1>2, <3>1 DEF Word
    <3>3. y % Modulus \in Word
      BY WordOf
    <3>. QED
      BY <1>2, <2>1, <3>1, <3>2, <3>3
  <2>. QED
    BY <1>3, <2>2, <2>5, <2>6
<1>5. CASE ins.rn = Pc
  <2>1. v \in Outside!AtPc(ins) /\ v \in Held /\ v \in Word
    BY <1>1, <1>5, HeldAtPc, HeldWord
  <2>2. v \in Outside!StoredValues(ins)
    BY <1>5, <2>1 DEF Outside!StoredValues
  <2>3. Low(v) = v
    <3>1. CASE ins.kind = "word"
      BY <3>1 DEF Low
    <3>2. CASE ins.kind # "word"
      <4>1. value = Unassigned
        BY <1>1, <3>2 DEF UnderWay, TypeInv
      <4>2. PICK x \in Word : v = Low(x)
        BY <1>1, <2>1, <4>1, HeldWord
      <4>3. v \in 0 .. Part - 1 /\ Part \in Nat \ {0}
        BY <3>2, <4>2, LowWord, MemoryAssumption
      <4>4. v = Part * 0 + v /\ v \in Int
        BY <4>3
      <4>5. v % Part = v
        BY <4>3, <4>4, Unique
      <4>. QED
        BY <3>2, <4>5 DEF Low
    <3>. QED
      BY <3>1, <3>2
  <2>. QED
    BY <1>3, <2>1, <2>2, <2>3
<1>. QED
  BY <1>4, <1>5

LEMMA SingleStoreMaps ==
  ASSUME TypeInv, SingleStore
  PROVE  Outside!BNext
<1>1. Single /\ ins.coded /\ ~ins.l
  BY DEF SingleStore
<1>2. /\ adresse \in Int /\ adresse >= 0 /\ Size \in Nat /\ mem \in [0 .. Size - 1 -> Word]
      /\ adresse = Outside!Address(ins)
  BY <1>1, SingleTypes, SingleFacts DEF Word
<1>3. PICK fails \in BOOLEAN : fails <=> adresse >= Size
  OBVIOUS
<1>4. fails \in Outside!Failures(ins)
  <2>1. fails = (Outside!Address(ins) >= Size)
    BY <1>2, <1>3
  <2>. QED
    BY <1>1, <2>1 DEF Outside!Failures
<1>5. IF fails THEN Return("DATA_ABORT") /\ regs' = Indexed ELSE PostIndex(Indexed)
  BY <1>3 DEF SingleStore
<1>6. PICK v \in Outside!StoredValues(ins) :
        mem' = [a \in 0 .. Size - 1 |->
                  IF a = adresse /\ ~ins.l /\ ins.coded
                  THEN Outside!Placed(ins.kind, mem[a], v) ELSE mem[a]]
  <2>1. CASE adresse >= Size
    <3>1. mem' = mem /\ \A a \in 0 .. Size - 1 : a # adresse
      BY <1>2, <2>1 DEF SingleStore
    <3>2. \E v : v \in Outside!StoredValues(ins)
      <4>1. ins.rn = Pc => \E v : v \in Outside!AtPc(ins)
        <5>1. 0 \in Outside!Word
          BY MemoryAssumption DEF Outside!Word
        <5>. QED
          BY <5>1, Zenon DEF Outside!AtPc, Outside!Anything
      <4>. QED
        BY <4>1, Zenon DEF Outside!StoredValues
    <3>3. mem = [a \in 0 .. Size - 1 |-> mem[a]]
      BY <1>2
    <3>. QED
      BY <3>1, <3>2, <3>3
  <2>2. CASE ~(adresse >= Size)
    <3>1. PICK d \in 0 .. Size - 1 : d = adresse
      BY <1>2, <2>2
    <3>2. PICK x \in IF ins.rn = Pc THEN Held
                     ELSE { Low(IF ins.rd = Pc THEN (Indexed[Pc] + 1) % Modulus
                                ELSE Indexed[ins.rd]) } :
            mem' = [mem EXCEPT ![d] = mem[d] - Low(mem[d]) + x]
      BY <2>2, <3>1 DEF SingleStore
    <3>3. PICK v \in Outside!StoredValues(ins) :
            mem[d] - Low(mem[d]) + x = Outside!Placed(ins.kind, mem[d], v)
      BY <1>1, <3>1, StoredPart
    <3>4. mem' = [mem EXCEPT ![d] = Outside!Placed(ins.kind, mem[d], v)]
      BY <3>2, <3>3
    <3>5. mem' = [a \in 0 .. Size - 1 |->
                    IF a = adresse /\ ~ins.l /\ ins.coded
                    THEN Outside!Placed(ins.kind, mem[a], v) ELSE mem[a]]
      BY <1>1, <1>2, <3>1, <3>4
    <3>. QED
      BY <3>5
  <2>. QED
    BY <2>1, <2>2
<1>7. PICK loaded : loaded = Indexed
  OBVIOUS
<1>8. loaded = IF ins.l THEN [Indexed EXCEPT ![ins.rd] = v] ELSE Indexed
  BY <1>1, <1>7
<1>9. IF fails THEN Return("DATA_ABORT") /\ regs' = loaded ELSE PostIndex(loaded)
  BY <1>5, <1>7
<1>10. /\ loop' = FALSE /\ ins' = NoInstruction
       /\ answer' = Outside!SingleAnswer(ins, fails)
       /\ regs' = [r \in Registers |->
                     IF r = ins.rn /\ ~ins.p /\ ~ins.w /\ answer' = "NONE"
                       THEN Outside!BaseMoved(ins)
                     ELSE IF r = ins.rd /\ ins.l /\ ins.coded THEN v
                     ELSE IF r = ins.rn /\ ins.p /\ ins.w THEN Outside!BaseMoved(ins)
                     ELSE regs[r]]
  BY <1>1, <1>8, <1>9, PostIndexMaps
<1>11. v \in IF ins.l THEN Outside!LoadedValues(ins) ELSE Outside!StoredValues(ins)
  BY <1>1, <1>6
<1>. QED
  BY <1>1, <1>4, <1>6, <1>10, <1>11, SingleMaps

-----------------------------------------------------------------------------
(* The refinement *)

LEMMA InitMaps == Init => Outside!BInit
BY DEF Init, Outside!BInit, Outside!Registers, Outside!Word, Outside!Cells,
       Outside!NoInstruction, Registers, Word, NoInstruction

\* Each step is one of a transfer or none: the transfer takes place at the last
\* turn of the loop, or with the access.
LEMMA StepMaps == TypeInv /\ BlockInv /\ [Next]_vars => [Outside!BNext]_(Outside!bvars)
<1>. SUFFICES ASSUME TypeInv, BlockInv, [Next]_vars,
                     UNCHANGED Outside!bvars => FALSE
              PROVE  Outside!BNext
  OBVIOUS
<1>1. CASE UNCHANGED vars
  BY <1>1 DEF vars, Outside!bvars
<1>2. CASE Skip \/ \E i \in Instructions : Refuse(i)
  <2>1. /\ ~loop /\ ins = NoInstruction
        /\ answer' \in {"NO_RESULT", "UNDEFINED_INSTRUCTION"}
        /\ UNCHANGED <<regs, mem, loop, ins, before>>
    BY <1>2 DEF Skip, Refuse, locals, TypeInv
  <2>2. Outside!BRefuse
    BY <2>1 DEF Outside!BRefuse, Outside!NoInstruction, NoInstruction
  <2>. QED
    BY <2>2 DEF Outside!BNext
<1>3. ASSUME NEW i \in Instructions, Begin(i) PROVE Outside!BNext
  <2>1. /\ ~loop /\ ~Refused(i) /\ ins = NoInstruction /\ ins' = i /\ loop' = TRUE
        /\ before' = <<regs, mem>> /\ answer' = "none"
    BY <1>3 DEF Begin, TypeInv
  <2>2. ~Outside!Undefined(i)
    <3>1. CASE i.kind = "multiple"
      BY <2>1, <3>1 DEF Refused, Outside!Undefined
    <3>2. CASE i.kind = "half"
      BY <2>1, <3>2 DEF Refused, Outside!Undefined
    <3>3. CASE i.kind \in {"word", "byte"}
      BY <2>1, <3>3 DEF Refused, Outside!Undefined
    <3>. QED
      BY <3>1, <3>2, <3>3, Tried
  <2>3. Outside!BAsk
    BY <2>1, <2>2 DEF Outside!BAsk, Outside!NoInstruction, NoInstruction
  <2>. QED
    BY <2>3 DEF Outside!BNext
<1>4. CASE Pass
  <2>1. loop
    BY <1>4, InBlock DEF Pass
  <2>. QED
    BY <1>4, <2>1 DEF Pass, Outside!bvars
<1>5. CASE Load \/ Store
  <2>1. CASE adresse < Size
    <3>1. loop /\ UNCHANGED <<answer, loop, ins, before>>
      BY <1>5, <2>1, InBlock DEF Load, Store, Turn, Advance
    <3>. QED
      BY <3>1 DEF Outside!bvars
  <2>2. CASE ~(adresse < Size)
    BY <1>5, <2>2, AbortMaps
  <2>. QED
    BY <2>1, <2>2
<1>6. CASE Finish \/ HalfUndefined \/ SingleLoad \/ SingleStore
  BY <1>6, FinishMaps, HalfUndefinedMaps, SingleLoadMaps, SingleStoreMaps
<1>. QED
  BY <1>1, <1>2, <1>3, <1>4, <1>5, <1>6 DEF Next

\* However its turns and accesses go, a load or store of arm_load_store.c amounts
\* to one transfer: complete, or up to the word that is not there, with the base
\* written back only when nothing went wrong, or with the last word to whichever
\* of the access and the moves of the base comes last.
THEOREM ImplementsTransfers == Spec => RefinesTransfers
<1>1. Init => TypeInv /\ BlockInv
  BY InitTypes DEF Init, BlockInv
<1>2. TypeInv /\ BlockInv /\ [Next]_vars => (TypeInv /\ BlockInv)'
  BY TypesKept, BlockKept
<1>. QED
  BY <1>1, <1>2, InitMaps, StepMaps, PTL DEF Spec, RefinesTransfers, Outside!BSpec
===============================================================================
