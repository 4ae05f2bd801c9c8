--------------------------- MODULE DiagnosticsProofs ---------------------------
(***************************************************************************)
(* Proofs about the debug file list and the traces, for every set of       *)
(* names, every size of the list and all places of the sources.  The list  *)
(* is kept sorted, which is what the binary search relies on; and the      *)
(* places on the stack are those of the accesses that are not yet popped,  *)
(* of which there are two at most.                                         *)
(***************************************************************************)
EXTENDS Diagnostics, SequenceTheorems, FiniteSetTheorems, WellFoundedInduction, TLAPS

\* The list is sorted, and holds the names that were given.
FilesInv ==
  /\ \A i, j \in 1 .. Len(debugged_files) :
       i <= j => debugged_files[i] <= debugged_files[j]
  /\ asked = { debugged_files[i] : i \in 1 .. Len(debugged_files) }

\* The write of a register is not popped before it is done, and only what such a
\* write is given is evaluated inside another access.
CallsInv ==
  /\ Len(calls) <= 2
  /\ \A i \in 1 .. Len(calls) : calls[i].popped => ~RegisterWrite(calls[i]) /\ ~calls[i].done
  /\ Len(calls) = 2 => /\ RegisterWrite(calls[1]) /\ ~calls[1].done
                       /\ ~RegisterWrite(calls[2])

One(q, a)    == Len(q) = 1 /\ q[1] = a
Two(q, a, b) == Len(q) = 2 /\ q[1] = a /\ q[2] = b

\* The places on the stack are those of the accesses not yet popped.
StackInv ==
  /\ Len(calls) = 0 => location_stack = << >>
  /\ Len(calls) = 1 =>
       IF calls[1].popped THEN location_stack = << >>
       ELSE One(location_stack, calls[1].place)
  /\ Len(calls) = 2 =>
       IF calls[2].popped THEN One(location_stack, calls[1].place)
       ELSE Two(location_stack, calls[1].place, calls[2].place)

\* Nothing is evaluated or traced before the threads are created.
IdleInv ==
  status # "running" => calls = << >> /\ location_stack = << >> /\ line = NoLine

TraceInv == CallsInv /\ StackInv /\ IdleInv /\ PlacesTruthful

-----------------------------------------------------------------------------
(* Sequences *)

\* A part of a sequence.
LEMMA PartOf ==
  ASSUME NEW S, NEW q, NEW m \in Nat, NEW n \in Nat, m <= n + 1,
         \A i \in m .. n : q[i] \in S
  PROVE  /\ SubSeq(q, m, n) \in Seq(S) /\ Len(SubSeq(q, m, n)) = n - m + 1
         /\ \A i \in 1 .. n - m + 1 : SubSeq(q, m, n)[i] = q[m + i - 1]
BY SubSeqProperties

\* The first elements of a sequence.
LEMMA StartOf ==
  ASSUME NEW S, NEW q, NEW n \in Nat, \A i \in 1 .. n : q[i] \in S
  PROVE  /\ SubSeq(q, 1, n) \in Seq(S) /\ Len(SubSeq(q, 1, n)) = n
         /\ \A i \in 1 .. n : SubSeq(q, 1, n)[i] = q[i]
BY SubSeqProperties

\* The front of a sequence and its last element.
LEMMA FrontOf ==
  ASSUME NEW S, NEW q \in Seq(S), q # << >>
  PROVE  /\ Len(q) \in Nat \ {0}
         /\ Front(q) \in Seq(S) /\ Len(Front(q)) = Len(q) - 1
         /\ \A i \in 1 .. Len(q) - 1 : Front(q)[i] = q[i]
         /\ Last(q) \in S /\ Last(q) = q[Len(q)]
<1>1. Len(q) \in Nat \ {0} /\ (\A i \in 1 .. Len(q) : q[i] \in S)
  BY ElementOfSeq
<1>2. PICK n \in Nat : n = Len(q) - 1
  BY <1>1
<1>3. Front(q) = SubSeq(q, 1, n) /\ Last(q) = q[n + 1]
  BY <1>1, <1>2 DEF Front, Last
<1>4. \A i \in 1 .. n : q[i] \in S
  BY <1>1, <1>2
<1>5. /\ SubSeq(q, 1, n) \in Seq(S) /\ Len(SubSeq(q, 1, n)) = n
      /\ \A i \in 1 .. n : SubSeq(q, 1, n)[i] = q[i]
  BY <1>4, StartOf
<1>. HIDE DEF Front, Last
<1>. QED
  BY <1>1, <1>2, <1>3, <1>5

\* Appending an element.
LEMMA Appended ==
  ASSUME NEW S, NEW q \in Seq(S), NEW x \in S
  PROVE  /\ Append(q, x) \in Seq(S) /\ Len(Append(q, x)) = Len(q) + 1
         /\ Append(q, x)[Len(q) + 1] = x
         /\ \A i \in 1 .. Len(q) : Append(q, x)[i] = q[i]
BY AppendProperties

\* Inserting an element moves those after it by one.
LEMMA Inserted ==
  ASSUME NEW S, NEW q \in Seq(S), NEW p \in 0 .. Len(q), NEW x \in S
  PROVE  /\ InsertAt(q, p + 1, x) \in Seq(S)
         /\ Len(InsertAt(q, p + 1, x)) = Len(q) + 1
         /\ \A i \in 1 .. Len(q) + 1 :
              InsertAt(q, p + 1, x)[i] =
                IF i <= p THEN q[i] ELSE IF i = p + 1 THEN x ELSE q[i - 1]
<1>1. Len(q) \in Nat /\ p \in Nat /\ p <= Len(q) /\ (\A i \in 1 .. Len(q) : q[i] \in S)
  BY ElementOfSeq
<1>2. PICK before \in Seq(S) :
        before = SubSeq(q, 1, p) /\ Len(before) = p /\ \A i \in 1 .. p : before[i] = q[i]
  <2>1. \A i \in 1 .. p : q[i] \in S
    BY <1>1
  <2>2. /\ SubSeq(q, 1, p) \in Seq(S) /\ Len(SubSeq(q, 1, p)) = p
        /\ \A i \in 1 .. p : SubSeq(q, 1, p)[i] = q[i]
    BY <1>1, <2>1, StartOf
  <2>. QED
    BY <2>2, Zenon
<1>3. PICK after \in Seq(S) :
        /\ after = SubSeq(q, p + 1, Len(q)) /\ Len(after) = Len(q) - p
        /\ \A i \in 1 .. Len(q) - p : after[i] = q[p + i]
  <2>1. PICK m \in Nat : m = p + 1
    BY <1>1
  <2>2. PICK n \in Nat : n = Len(q)
    BY <1>1
  <2>3. m <= n + 1 /\ \A i \in m .. n : q[i] \in S
    BY <1>1, <2>1, <2>2
  <2>4. /\ SubSeq(q, m, n) \in Seq(S) /\ Len(SubSeq(q, m, n)) = n - m + 1
        /\ \A i \in 1 .. n - m + 1 : SubSeq(q, m, n)[i] = q[m + i - 1]
    BY <2>3, PartOf
  <2>5. PICK s : s = SubSeq(q, m, n)
    OBVIOUS
  <2>6. /\ s \in Seq(S) /\ Len(s) = n - p /\ (\A i \in 1 .. n - p : s[i] = q[p + i])
    BY <1>1, <2>1, <2>2, <2>4, <2>5
  <2>. QED
    BY <2>1, <2>2, <2>5, <2>6
<1>4. PICK r : r = before \o <<x>>
  OBVIOUS
<1>5. /\ r \in Seq(S) /\ Len(r) = p + 1 /\ r[p + 1] = x
      /\ \A i \in 1 .. p : r[i] = q[i]
  <2>1. /\ Append(before, x) \in Seq(S) /\ Len(Append(before, x)) = p + 1
        /\ Append(before, x)[p + 1] = x
        /\ \A i \in 1 .. p : Append(before, x)[i] = before[i]
    BY <1>2, Appended
  <2>2. r = Append(before, x)
    BY <1>4, AppendIsConcat
  <2>. QED
    BY <1>2, <2>1, <2>2
<1>6. PICK t : t = r \o after
  OBVIOUS
<1>7. /\ t \in Seq(S) /\ Len(t) = Len(r) + Len(after)
      /\ \A i \in 1 .. Len(r) + Len(after) :
           t[i] = IF i <= Len(r) THEN r[i] ELSE after[i - Len(r)]
  <2>1. /\ r \o after \in Seq(S) /\ Len(r \o after) = Len(r) + Len(after)
        /\ \A i \in 1 .. Len(r) + Len(after) :
             (r \o after)[i] = IF i <= Len(r) THEN r[i] ELSE after[i - Len(r)]
    BY <1>5, ConcatProperties, Zenon
  <2>. QED
    BY <1>6, <2>1, Zenon
<1>8. Len(t) = Len(q) + 1
  BY <1>1, <1>3, <1>5, <1>7
<1>9. InsertAt(q, p + 1, x) = t
  <2>1. (p + 1) - 1 = p
    BY <1>1
  <2>2. SubSeq(q, 1, (p + 1) - 1) = SubSeq(q, 1, p)
    BY <2>1, Zenon
  <2>3. InsertAt(q, p + 1, x)
          = SubSeq(q, 1, (p + 1) - 1) \o <<x>> \o SubSeq(q, p + 1, Len(q))
    BY DEF InsertAt
  <2>. QED
    BY <1>2, <1>3, <1>4, <1>6, <2>2, <2>3, Zenon
<1>10. ASSUME NEW i \in 1 .. Len(q) + 1
       PROVE  t[i] = IF i <= p THEN q[i] ELSE IF i = p + 1 THEN x ELSE q[i - 1]
  <2>0. t[i] = IF i <= p + 1 THEN r[i] ELSE after[i - (p + 1)]
    <3>1. i \in 1 .. Len(r) + Len(after)
      BY <1>7, <1>8
    <3>2. t[i] = IF i <= Len(r) THEN r[i] ELSE after[i - Len(r)]
      BY <1>7, <3>1, Zenon
    <3>. QED
      BY <1>5, <3>2
  <2>1. CASE i <= p
    BY <1>1, <1>5, <2>0, <2>1
  <2>2. CASE i = p + 1
    BY <1>1, <1>5, <2>0, <2>2
  <2>3. CASE p + 1 < i
    <3>1. i - (p + 1) \in 1 .. Len(q) - p /\ p + (i - (p + 1)) = i - 1
      BY <1>1, <2>3
    <3>2. after[i - (p + 1)] = q[i - 1]
      BY <1>3, <3>1
    <3>. QED
      BY <1>1, <2>0, <2>3, <3>2
  <2>. QED
    BY <1>1, <2>1, <2>2, <2>3
<1>. QED
  BY <1>7, <1>8, <1>9, <1>10

-----------------------------------------------------------------------------
(* Types *)

\* The place of a name is in the list or just after it.
LEMMA PlaceInside ==
  ASSUME debugged_files \in Seq(Names), NEW name
  PROVE  PlaceOf(name) \in 0 .. Len(debugged_files)
<1>. DEFINE I == 1 .. Len(debugged_files)
            P == { i \in I : \A k \in 1 .. i : debugged_files[k] < name }
<1>1. IsFiniteSet(I) /\ Cardinality(I) = Len(debugged_files)
  <2>1. \A n \in Nat : IsFiniteSet(1 .. n) /\ Cardinality(1 .. n) = n
    BY FS_Interval
  <2>2. Len(debugged_files) \in Nat
    OBVIOUS
  <2>. QED
    BY <2>1, <2>2
<1>2. P \subseteq I
  OBVIOUS
<1>3. Cardinality(P) \in Nat /\ Cardinality(P) <= Cardinality(I)
  BY <1>1, <1>2, FS_Subset, FS_CardinalityType
<1>. QED
  BY <1>1, <1>3 DEF PlaceOf

\* A name that finds room goes into the list, at its place.
LEMMA NameAdded ==
  ASSUME TypeOK, NEW name \in Names, PlaceOf(name) < MaxFiles, ~Full
  PROVE  LET p == PlaceOf(name)
             after == InsertAt(debugged_files, p + 1, name)
         IN  /\ p \in 0 .. Len(debugged_files)
             /\ after \in Seq(Names) /\ Len(after) = Len(debugged_files) + 1
             /\ Len(after) <= MaxFiles
             /\ \A i \in 1 .. Len(debugged_files) + 1 :
                  after[i] = IF i <= p THEN debugged_files[i]
                             ELSE IF i = p + 1 THEN name ELSE debugged_files[i - 1]
<1>1. debugged_files \in Seq(Names) /\ Len(debugged_files) \in Nat
  BY DEF TypeOK
<1>2. PlaceOf(name) \in 0 .. Len(debugged_files)
  BY <1>1, PlaceInside
<1>3. Len(debugged_files) + 1 <= MaxFiles
  BY <1>1, MaxFilesAssumption DEF Full, TypeOK
<1>4. PICK p \in 0 .. Len(debugged_files) : p = PlaceOf(name)
  BY <1>2
<1>5. /\ InsertAt(debugged_files, p + 1, name) \in Seq(Names)
      /\ Len(InsertAt(debugged_files, p + 1, name)) = Len(debugged_files) + 1
      /\ \A i \in 1 .. Len(debugged_files) + 1 :
           InsertAt(debugged_files, p + 1, name)[i] =
             IF i <= p THEN debugged_files[i]
             ELSE IF i = p + 1 THEN name ELSE debugged_files[i - 1]
  BY <1>1, Inserted
<1>. QED
  BY <1>3, <1>4, <1>5, Zenon

\* Doing or popping the last access leaves the others as they are.
LEMMA Updated ==
  ASSUME TypeOK, calls # << >>, NEW c \in Call, Update(c)
  PROVE  /\ calls' \in Seq(Call)
         /\ Len(calls) \in Nat \ {0}
         /\ \A i \in 1 .. Len(calls) - 1 : calls'[i] = calls[i]
         /\ IF c.done /\ c.popped THEN Len(calls') = Len(calls) - 1
            ELSE Len(calls') = Len(calls) /\ calls'[Len(calls)] = c
<1>1. /\ Len(calls) \in Nat \ {0}
      /\ Front(calls) \in Seq(Call) /\ Len(Front(calls)) = Len(calls) - 1
      /\ \A i \in 1 .. Len(calls) - 1 : Front(calls)[i] = calls[i]
  BY FrontOf DEF TypeOK
<1>2. CASE c.done /\ c.popped
  BY <1>1, <1>2 DEF Update
<1>3. CASE ~(c.done /\ c.popped)
  <2>1. calls' = Append(Front(calls), c)
    BY <1>3 DEF Update
  <2>2. /\ calls' \in Seq(Call) /\ Len(calls') = Len(Front(calls)) + 1
        /\ calls'[Len(Front(calls)) + 1] = c
        /\ \A i \in 1 .. Len(Front(calls)) : calls'[i] = Front(calls)[i]
    BY <1>1, <2>1, Appended
  <2>. QED
    BY <1>1, <1>3, <2>2
<1>. QED
  BY <1>2, <1>3

\* The last access, done or popped.
LEMMA LastCall ==
  ASSUME TypeOK, calls # << >>
  PROVE  /\ Last(calls) \in Call /\ Last(calls) = calls[Len(calls)]
         /\ Last(calls).type \in Types /\ Last(calls).kind \in Kinds
         /\ Last(calls).place \in Places
         /\ LET c == [Last(calls) EXCEPT !.done = TRUE]
            IN  /\ c \in Call /\ c.done /\ (c.popped <=> Last(calls).popped)
                /\ c.place = Last(calls).place
                /\ (RegisterWrite(c) <=> RegisterWrite(Last(calls)))
         /\ LET c == [Last(calls) EXCEPT !.popped = TRUE]
            IN  /\ c \in Call /\ c.popped /\ (c.done <=> Last(calls).done)
                /\ c.place = Last(calls).place
                /\ (RegisterWrite(c) <=> RegisterWrite(Last(calls)))
<1>1. Last(calls) \in Call /\ Last(calls) = calls[Len(calls)]
  BY FrontOf DEF TypeOK
<1>2. ASSUME NEW l \in Call
      PROVE  /\ l.type \in Types /\ l.kind \in Kinds /\ l.place \in Places
             /\ LET c == [l EXCEPT !.done = TRUE]
                IN  /\ c \in Call /\ c.done /\ (c.popped <=> l.popped)
                    /\ c.place = l.place /\ (RegisterWrite(c) <=> RegisterWrite(l))
             /\ LET c == [l EXCEPT !.popped = TRUE]
                IN  /\ c \in Call /\ c.popped /\ (c.done <=> l.done)
                    /\ c.place = l.place /\ (RegisterWrite(c) <=> RegisterWrite(l))
  BY DEF Call, RegisterWrite
<1>. QED
  BY <1>1, <1>2

\* A new access.
LEMMA NewCall ==
  ASSUME NEW type \in Types, NEW kind \in Kinds, NEW place \in Places
  PROVE  LET c == [type |-> type, kind |-> kind, place |-> place,
                   done |-> FALSE, popped |-> FALSE]
         IN  /\ c \in Call /\ c.type = type /\ c.place = place /\ ~c.done /\ ~c.popped
             /\ RegisterWrite(c) <=> type = "write" /\ kind = "REGISTERS"
BY DEF Call, RegisterWrite

LEMMA TypesKept == TypeOK /\ [Next]_vars => TypeOK'
<1>. SUFFICES ASSUME TypeOK, [Next]_vars
              PROVE  TypeOK'
  OBVIOUS
<1>. USE DEF TypeOK
<1>1. ASSUME NEW name \in Names, add_debug_to(name)
      PROVE  TypeOK'
  <2>1. CASE UNCHANGED debugged_files
    BY <1>1, <2>1 DEF add_debug_to
  <2>2. CASE ~UNCHANGED debugged_files
    <3>1. /\ PlaceOf(name) < MaxFiles /\ ~Full
          /\ debugged_files' = InsertAt(debugged_files, PlaceOf(name) + 1, name)
      <4>1. PlaceOf(name) \in Nat
        BY PlaceInside
      <4>. QED
        BY <1>1, <2>2, <4>1, MaxFilesAssumption DEF add_debug_to
    <3>2. debugged_files' \in Seq(Names) /\ Len(debugged_files') <= MaxFiles
      BY <3>1, NameAdded
    <3>. QED
      BY <1>1, <3>2 DEF add_debug_to
  <2>. QED
    BY <2>1, <2>2
<1>2. ASSUME NEW flag \in TraceFlags, TraceFlag(flag)
      PROVE  TypeOK'
  BY <1>2 DEF TraceFlag
<1>3. ASSUME NEW mode, TraceMode(mode)
      PROVE  TypeOK'
  BY <1>3 DEF TraceMode, TraceFlags
<1>4. CASE Quit \/ Start
  BY <1>4 DEF Quit, Start, options
<1>5. ASSUME NEW type \in Types, NEW kind \in Kinds, NEW place \in Places,
             trace_start_location(type, kind, place)
      PROVE  TypeOK'
  <2>1. calls' \in Seq(Call)
    BY <1>5, NewCall, Appended DEF trace_start_location
  <2>2. location_stack' \in Seq(Places)
    BY <1>5, Appended DEF trace_start_location
  <2>. QED
    BY <1>5, <2>1, <2>2 DEF trace_start_location, options
<1>6. CASE Access
  <2>1. calls # << >> /\ Update([Last(calls) EXCEPT !.done = TRUE])
    BY <1>6 DEF Access
  <2>2. calls' \in Seq(Call)
    BY <2>1, LastCall, Updated
  <2>3. Printed \in Places \cup {"none"}
    BY FrontOf DEF Printed
  <2>4. Around \in Places \cup {"none"}
    <3>1. ASSUME Len(calls) > 1
          PROVE  calls[Len(calls) - 1] \in Call
      BY <3>1, ElementOfSeq
    <3>. QED
      BY <3>1 DEF Around, Call
  <2>5. line' \in Line \cup {NoLine}
    BY <1>6, <2>1, <2>3, <2>4, LastCall DEF Access, Line
  <2>. QED
    BY <1>6, <2>2, <2>5 DEF Access, options
<1>7. CASE trace_end_location
  <2>1. calls # << >> /\ Update([Last(calls) EXCEPT !.popped = TRUE])
    BY <1>7 DEF trace_end_location
  <2>2. calls' \in Seq(Call)
    BY <2>1, LastCall, Updated
  <2>3. location_stack' \in Seq(Places)
    <3>1. CASE location_stack = << >>
      <4>1. SubSeq(location_stack, 1, Len(location_stack) - 1) = << >>
        BY <3>1, SubSeqEmpty
      <4>. QED
        BY <1>7, <4>1 DEF trace_end_location, Front
    <3>2. CASE location_stack # << >>
      BY <1>7, <3>2, FrontOf DEF trace_end_location
    <3>. QED
      BY <3>1, <3>2
  <2>. QED
    BY <1>7, <2>2, <2>3 DEF trace_end_location, options
<1>8. CASE UNCHANGED vars
  BY <1>8 DEF vars, options
<1>. QED
  BY <1>1, <1>2, <1>3, <1>4, <1>5, <1>6, <1>7, <1>8 DEF Next, Ended

LEMMA InitTypes == Init => TypeOK
BY MaxFilesAssumption DEF Init, TypeOK

\* The list never outgrows its array, the flags and modes are those there are,
\* and the trace shows nothing but places.
THEOREM TypeCorrect == Spec => []TypeOK
BY InitTypes, TypesKept, PTL DEF Spec

-----------------------------------------------------------------------------
(* The list of files *)

LEMMA NameOf ==
  ASSUME TypeOK, NEW i \in 1 .. Len(debugged_files)
  PROVE  debugged_files[i] \in Names /\ debugged_files[i] \in Int
BY NamesAssumption, ElementOfSeq DEF TypeOK

\* The names before the place of a name are smaller, and no other is.
LEMMA PlaceSorts ==
  ASSUME TypeOK, FilesInv, NEW name \in Names, NEW i \in 1 .. Len(debugged_files)
  PROVE  IF i <= PlaceOf(name) THEN debugged_files[i] < name
         ELSE name <= debugged_files[i]
<1>. DEFINE I == 1 .. Len(debugged_files)
            P == { k \in I : \A l \in 1 .. k : debugged_files[l] < name }
            p == PlaceOf(name)
<1>1. p \in Nat /\ p <= Len(debugged_files) /\ Len(debugged_files) \in Nat
  BY PlaceInside DEF TypeOK
<1>2. \A n \in Nat : IsFiniteSet(1 .. n) /\ Cardinality(1 .. n) = n
  BY FS_Interval
<1>3. IsFiniteSet(P) /\ Cardinality(P) = p
  <2>1. P \subseteq I
    OBVIOUS
  <2>2. IsFiniteSet(P)
    BY <1>1, <1>2, <2>1, FS_Subset
  <2>. QED
    BY <2>2 DEF PlaceOf
<1>4. P \subseteq 1 .. p
  <2>. SUFFICES ASSUME NEW k \in P
                PROVE  k <= p
    BY <1>1
  <2>1. k \in Nat /\ 1 .. k \subseteq P
    BY <1>1
  <2>2. Cardinality(1 .. k) <= Cardinality(P)
    BY <1>3, <2>1, FS_Subset
  <2>. QED
    BY <1>2, <1>3, <2>1, <2>2
<1>5. P = 1 .. p
  <2>1. IsFiniteSet(1 .. p) /\ Cardinality(1 .. p) = Cardinality(P)
    BY <1>1, <1>2, <1>3
  <2>. QED
    BY <1>4, <2>1, FS_Subset
<1>. HIDE DEF p
<1>6. CASE i <= p
  <2>1. i \in P
    BY <1>1, <1>5, <1>6
  <2>. QED
    BY <1>6, <2>1 DEF p
<1>7. CASE ~(i <= p)
  <2>1. i \notin P
    BY <1>1, <1>5, <1>7
  <2>2. PICK k \in 1 .. i : ~(debugged_files[k] < name)
    BY <2>1
  <2>3. k \in 1 .. Len(debugged_files) /\ k <= i
    BY <1>1
  <2>4. name \in Int /\ debugged_files[k] \in Int /\ debugged_files[i] \in Int
    BY <2>3, NameOf, NamesAssumption
  <2>5. debugged_files[k] <= debugged_files[i]
    BY <2>3 DEF FilesInv
  <2>. QED
    BY <1>7, <2>2, <2>4, <2>5 DEF p
<1>. QED
  BY <1>6, <1>7

LEMMA FilesKept == TypeOK /\ FilesInv /\ [Next]_vars => FilesInv'
<1>. SUFFICES ASSUME TypeOK, FilesInv, [Next]_vars
              PROVE  FilesInv'
  OBVIOUS
<1>1. CASE UNCHANGED <<debugged_files, asked>>
  BY <1>1 DEF FilesInv
<1>2. CASE ~UNCHANGED <<debugged_files, asked>>
  <2>1. PICK name \in Names : add_debug_to(name)
    BY <1>2
    DEF Next, TraceFlag, TraceMode, Quit, Start, trace_start_location, Access,
        trace_end_location, Ended, vars, options
  <2>. DEFINE n == Len(debugged_files)
              p == PlaceOf(name)
  <2>2. /\ p < MaxFiles /\ ~Full
        /\ debugged_files' = InsertAt(debugged_files, p + 1, name)
        /\ asked' = asked \cup {name}
    <3>1. p \in Nat
      BY PlaceInside DEF TypeOK
    <3>. QED
      BY <1>2, <2>1, <3>1, MaxFilesAssumption DEF add_debug_to
  <2>3. /\ p \in 0 .. n /\ n \in Nat /\ Len(debugged_files') = n + 1
        /\ \A i \in 1 .. n + 1 :
             debugged_files'[i] = IF i <= p THEN debugged_files[i]
                                  ELSE IF i = p + 1 THEN name ELSE debugged_files[i - 1]
    BY <2>2, NameAdded DEF TypeOK
  <2>4. \A i \in 1 .. n : IF i <= p THEN debugged_files[i] < name
                          ELSE name <= debugged_files[i]
    BY PlaceSorts
  <2>5. \A i \in 1 .. n : debugged_files[i] \in Int
    BY NameOf
  <2>6. name \in Int
    BY NamesAssumption
  <2>7. \A i, k \in 1 .. n : i <= k => debugged_files[i] <= debugged_files[k]
    BY DEF FilesInv
  <2>. HIDE DEF n, p
  <2>8. ASSUME NEW i \in 1 .. n + 1, NEW k \in 1 .. n + 1, i <= k
        PROVE  debugged_files'[i] <= debugged_files'[k]
    <3>1. CASE i <= p
      <4>1. i \in 1 .. n /\ debugged_files'[i] = debugged_files[i]
        BY <2>3, <3>1
      <4>2. CASE k <= p
        BY <2>3, <2>7, <2>8, <4>1, <4>2
      <4>3. CASE k = p + 1
        BY <2>3, <2>4, <2>5, <2>6, <3>1, <4>1, <4>3
      <4>4. CASE k > p + 1
        <5>1. k - 1 \in 1 .. n /\ i <= k - 1 /\ debugged_files'[k] = debugged_files[k - 1]
          BY <2>3, <3>1, <4>4
        <5>. QED
          BY <2>7, <4>1, <5>1
      <4>. QED
        BY <2>3, <4>2, <4>3, <4>4
    <3>2. CASE i = p + 1
      <4>1. debugged_files'[i] = name
        BY <2>3, <3>2
      <4>2. CASE k = i
        BY <2>6, <4>1, <4>2
      <4>3. CASE k > i
        <5>1. k - 1 \in 1 .. n /\ ~(k - 1 <= p) /\ debugged_files'[k] = debugged_files[k - 1]
          BY <2>3, <3>2, <4>3
        <5>. QED
          BY <2>4, <4>1, <5>1
      <4>. QED
        BY <2>3, <2>8, <4>2, <4>3
    <3>3. CASE i > p + 1
      <4>1. /\ i - 1 \in 1 .. n /\ debugged_files'[i] = debugged_files[i - 1]
            /\ k - 1 \in 1 .. n /\ debugged_files'[k] = debugged_files[k - 1]
            /\ i - 1 <= k - 1
        BY <2>3, <2>8, <3>3
      <4>. QED
        BY <2>7, <4>1
    <3>. QED
      BY <2>3, <3>1, <3>2, <3>3
  <2>9. asked' = { debugged_files'[i] : i \in 1 .. n + 1 }
    <3>1. asked = { debugged_files[i] : i \in 1 .. n }
      BY DEF FilesInv, n
    <3>2. ASSUME NEW i \in 1 .. n + 1
          PROVE  debugged_files'[i] \in asked \cup {name}
      <4>1. CASE i <= p
        BY <2>3, <3>1, <4>1
      <4>2. CASE i = p + 1
        BY <2>3, <4>2
      <4>3. CASE i > p + 1
        <5>1. i - 1 \in 1 .. n /\ debugged_files'[i] = debugged_files[i - 1]
          BY <2>3, <4>3
        <5>. QED
          BY <3>1, <5>1
      <4>. QED
        BY <2>3, <4>1, <4>2, <4>3
    <3>3. p + 1 \in 1 .. n + 1 /\ debugged_files'[p + 1] = name
      BY <2>3
    <3>4. ASSUME NEW i \in 1 .. n
          PROVE  \E k \in 1 .. n + 1 : debugged_files'[k] = debugged_files[i]
      <4>1. CASE i <= p
        BY <2>3, <4>1
      <4>2. CASE ~(i <= p)
        <5>1. i + 1 \in 1 .. n + 1 /\ debugged_files'[i + 1] = debugged_files[(i + 1) - 1]
          BY <2>3, <4>2
        <5>2. (i + 1) - 1 = i
          OBVIOUS
        <5>. QED
          BY <5>1, <5>2
      <4>. QED
        BY <4>1, <4>2
    <3>. QED
      BY <2>2, <3>1, <3>2, <3>3, <3>4
  <2>. QED
    BY <2>3, <2>8, <2>9 DEF FilesInv
<1>. QED
  BY <1>1, <1>2

LEMMA InitFiles == Init => FilesInv
<1>. SUFFICES ASSUME Init PROVE FilesInv
  OBVIOUS
<1>1. Len(debugged_files) = 0 /\ asked = {}
  BY EmptySeq DEF Init
<1>2. 1 .. Len(debugged_files) = {}
  BY <1>1
<1>. QED
  BY <1>1, <1>2 DEF FilesInv

-----------------------------------------------------------------------------
(* The binary search *)

\* One turn of the loop, with what is found in the rest of the list given by s.
Turn(s, name, span) ==
  LET from   == span[1]
      to     == span[2]
      middle == (from + to) \div 2
      file   == debugged_files[middle + 1]
  IN  \/ /\ from < to
         /\ \/ file = name
            \/ file < name /\ s[<<middle + 1, to>>]
            \/ file > name /\ s[<<from, middle - 1>>]
      \/ from = to /\ debugged_files[from + 1] = name

\* What the search computes, for every span.
Searches(s, name) == s = [span \in Spans |-> Turn(s, name, span)]

\* The name is between two positions.
Among(name, from, to) == \E i \in from .. to : debugged_files[i + 1] = name

\* A set of numbers has a least one.
LEMMA Least ==
  ASSUME NEW T, T \subseteq Nat, T # {}
  PROVE  \E x \in T : \A y \in T : x <= y
<1>. DEFINE R == { pair \in Nat \X Nat : pair[1] < pair[2] }
<1>1. IsWellFoundedOn(R, Nat)
  BY NatLessThanWellFounded DEF OpToRel
<1>2. PICK x \in T : \A y \in T : ~(<<y, x>> \in R)
  BY <1>1, WFMin
<1>3. x \in Nat /\ \A y \in T : y \in Nat
  OBVIOUS
<1>4. ASSUME NEW y \in T PROVE x <= y
  <2>1. <<y, x>> \in Nat \X Nat
    BY <1>3
  <2>2. ~(y < x)
    BY <1>2, <2>1
  <2>. HIDE DEF R
  <2>. QED
    BY <1>3, <2>2
<1>. QED
  BY <1>4

\* A turn drops a half in which the name cannot be, the list being sorted.
LEMMA TurnKeeps ==
  ASSUME TypeOK, FilesInv, NEW name \in Names, NEW s,
         NEW from \in 0 .. Len(debugged_files), NEW to \in -1 .. Len(debugged_files) - 1,
         \A a \in 0 .. Len(debugged_files), b \in -1 .. Len(debugged_files) - 1 :
           b - a < to - from => (s[<<a, b>>] <=> Among(name, a, b))
  PROVE  Turn(s, name, <<from, to>>) <=> Among(name, from, to)
<1>. DEFINE n == Len(debugged_files)
            middle == (from + to) \div 2
            file == debugged_files[middle + 1]
<1>1. n \in Nat /\ from \in Int /\ to \in Int /\ name \in Int
  BY NamesAssumption DEF TypeOK
<1>2. \A i \in 1 .. n : debugged_files[i] \in Int
  BY NameOf
<1>3. \A i, j \in 1 .. n : i <= j => debugged_files[i] <= debugged_files[j]
  BY DEF FilesInv
<1>4. Turn(s, name, <<from, to>>) <=>
        \/ /\ from < to
           /\ \/ file = name
              \/ file < name /\ s[<<middle + 1, to>>]
              \/ file > name /\ s[<<from, middle - 1>>]
        \/ from = to /\ debugged_files[from + 1] = name
  BY DEF Turn
<1>5. \A a \in 0 .. n, b \in -1 .. n - 1 :
        b - a < to - from => (s[<<a, b>>] <=> Among(name, a, b))
  OBVIOUS
<1>6. CASE from > to
  <2>1. from .. to = {}
    BY <1>1, <1>6
  <2>. QED
    BY <1>1, <1>4, <1>6, <2>1 DEF Among
<1>7. CASE from = to
  <2>1. from .. to = {from}
    BY <1>1, <1>7
  <2>. QED
    BY <1>1, <1>4, <1>7, <2>1 DEF Among
<1>8. CASE from < to
  <2>1. middle \in Int /\ from <= middle /\ middle < to
    BY <1>1, <1>8
  <2>2. /\ middle \in from .. to
        /\ middle + 1 \in 0 .. n /\ to \in -1 .. n - 1 /\ to - (middle + 1) < to - from
        /\ from \in 0 .. n /\ middle - 1 \in -1 .. n - 1 /\ (middle - 1) - from < to - from
        /\ middle + 1 \in 1 .. n
    BY <1>1, <2>1
  <2>3. /\ s[<<middle + 1, to>>] <=> Among(name, middle + 1, to)
        /\ s[<<from, middle - 1>>] <=> Among(name, from, middle - 1)
    BY <1>5, <2>2
  <2>4. file \in Int
    BY <1>2, <2>2
  <2>5. \A i \in from .. to : i \in Int /\ i + 1 \in 1 .. n /\ debugged_files[i + 1] \in Int
    BY <1>1, <1>2
  <2>. HIDE DEF n, middle
  <2>6. CASE file = name
    BY <1>4, <1>8, <2>2, <2>6 DEF Among
  <2>7. CASE file < name
    <3>1. ASSUME NEW i \in from .. to, debugged_files[i + 1] = name
          PROVE  i \in middle + 1 .. to
      <4>1. CASE i <= middle
        <5>1. debugged_files[i + 1] <= file
          BY <1>3, <2>1, <2>2, <2>5, <4>1
        <5>. QED
          BY <1>1, <2>4, <2>5, <2>7, <3>1, <5>1
      <4>. QED
        BY <1>1, <2>1, <2>5, <4>1
    <3>2. \A i \in middle + 1 .. to : i \in from .. to
      BY <1>1, <2>1
    <3>3. Among(name, middle + 1, to) <=> Among(name, from, to)
      BY <3>1, <3>2, Zenon DEF Among
    <3>4. file # name /\ ~(file > name) /\ from # to
      BY <1>1, <1>8, <2>4, <2>7
    <3>. QED
      BY <1>4, <1>8, <2>3, <2>7, <3>3, <3>4
  <2>8. CASE file > name
    <3>1. ASSUME NEW i \in from .. to, debugged_files[i + 1] = name
          PROVE  i \in from .. middle - 1
      <4>1. CASE middle <= i
        <5>1. file <= debugged_files[i + 1]
          BY <1>3, <2>1, <2>2, <2>5, <4>1
        <5>. QED
          BY <1>1, <2>4, <2>5, <2>8, <3>1, <5>1
      <4>. QED
        BY <1>1, <2>1, <2>5, <4>1
    <3>2. \A i \in from .. middle - 1 : i \in from .. to
      BY <1>1, <2>1
    <3>3. Among(name, from, middle - 1) <=> Among(name, from, to)
      BY <3>1, <3>2, Zenon DEF Among
    <3>4. file # name /\ ~(file < name) /\ from # to
      BY <1>1, <1>8, <2>4, <2>8
    <3>. QED
      BY <1>4, <1>8, <2>3, <2>8, <3>3, <3>4
  <2>. QED
    BY <1>1, <2>4, <2>6, <2>7, <2>8
<1>. QED
  BY <1>1, <1>6, <1>7, <1>8

\* The search exists: telling where the name is solves its equation.
LEMMA SearchExists ==
  ASSUME TypeOK, FilesInv, NEW name \in Names
  PROVE  \E s : Searches(s, name)
<1>. DEFINE s == [span \in Spans |-> Among(name, span[1], span[2])]
<1>1. ASSUME NEW a \in 0 .. Len(debugged_files), NEW b \in -1 .. Len(debugged_files) - 1
      PROVE  s[<<a, b>>] <=> Among(name, a, b)
  <2>1. <<a, b>> \in Spans /\ <<a, b>>[1] = a /\ <<a, b>>[2] = b
    BY DEF Spans
  <2>. QED
    BY <2>1, Zenon
<1>2. ASSUME NEW span \in Spans
      PROVE  Among(name, span[1], span[2]) = Turn(s, name, span)
  <2>1. PICK from \in 0 .. Len(debugged_files), to \in -1 .. Len(debugged_files) - 1 :
          span = <<from, to>>
    BY DEF Spans
  <2>. HIDE DEF s
  <2>2. Turn(s, name, <<from, to>>) <=> Among(name, from, to)
    BY <1>1, TurnKeeps
  <2>3. Turn(s, name, span) \in BOOLEAN /\ Among(name, span[1], span[2]) \in BOOLEAN
    BY DEF Turn, Among
  <2>. QED
    BY <2>1, <2>2, <2>3
<1>3. s = [span \in Spans |-> Turn(s, name, span)]
  BY <1>2, Zenon
<1>. QED
  BY <1>3, Zenon DEF Searches

\* It finds what is there: a span on which it did not, the shortest one, would
\* be contradicted by its own turn.
LEMMA SearchFinds ==
  ASSUME TypeOK, FilesInv, NEW name \in Names, NEW s, Searches(s, name),
         NEW from \in 0 .. Len(debugged_files), NEW to \in -1 .. Len(debugged_files) - 1
  PROVE  s[<<from, to>>] <=> Among(name, from, to)
<1>. DEFINE n == Len(debugged_files)
            Wrong(a, b) == ~(s[<<a, b>>] <=> Among(name, a, b))
            T == { k \in Nat : \E a \in 0 .. n, b \in -1 .. n - 1 :
                     k = b - a + n + 1 /\ Wrong(a, b) }
<1>1. n \in Nat
  BY DEF TypeOK
<1>2. SUFFICES ASSUME Wrong(from, to) PROVE FALSE
  OBVIOUS
<1>3. T # {} /\ T \subseteq Nat
  <2>1. to - from + n + 1 \in Nat
    BY <1>1
  <2>. QED
    BY <1>2, <2>1
<1>4. PICK k \in T : \A l \in T : k <= l
  BY <1>3, Least
<1>5. PICK a \in 0 .. n, b \in -1 .. n - 1 : k = b - a + n + 1 /\ Wrong(a, b)
  BY <1>4
<1>6. ASSUME NEW c \in 0 .. n, NEW d \in -1 .. n - 1, d - c < b - a
      PROVE  ~Wrong(c, d)
  <2>. HIDE DEF Wrong
  <2>1. SUFFICES ASSUME Wrong(c, d) PROVE FALSE
    OBVIOUS
  <2>2. d - c + n + 1 \in Nat
    BY <1>1
  <2>3. d - c + n + 1 \in T
    BY <2>1, <2>2
  <2>4. k <= d - c + n + 1
    BY <1>4, <2>3
  <2>. QED
    BY <1>1, <1>5, <1>6, <2>4
<1>7. Turn(s, name, <<a, b>>) <=> Among(name, a, b)
  BY <1>6, TurnKeeps
<1>8. s[<<a, b>>] = Turn(s, name, <<a, b>>)
  <2>1. <<a, b>> \in Spans
    BY DEF Spans
  <2>. QED
    BY <2>1, Zenon DEF Searches
<1>. QED
  BY <1>5, <1>7, <1>8

LEMMA Found ==
  ASSUME TypeOK, FilesInv, NEW name \in Names
  PROVE  __is_debugged(name) <=> name \in asked
<1>. DEFINE n == Len(debugged_files)
            s == CHOOSE s : Searches(s, name)
<1>1. Searches(s, name)
  BY SearchExists, Zenon
<1>2. __is_debugged(name) = s[<<0, n - 1>>]
  BY SMT DEF __is_debugged, Searches, Turn
<1>3. n \in Nat /\ 0 \in 0 .. n /\ n - 1 \in -1 .. n - 1
  BY DEF TypeOK
<1>. HIDE DEF s
<1>4. s[<<0, n - 1>>] <=> Among(name, 0, n - 1)
  BY <1>1, <1>3, SearchFinds
<1>5. Among(name, 0, n - 1) <=> \E i \in 1 .. n : debugged_files[i] = name
  <2>1. \A i \in 0 .. n - 1 : i + 1 \in 1 .. n
    BY <1>3
  <2>2. \A i \in 1 .. n : i - 1 \in 0 .. n - 1 /\ (i - 1) + 1 = i
    BY <1>3
  <2>. QED
    BY <2>1, <2>2 DEF Among
<1>6. name \in asked <=> \E i \in 1 .. n : debugged_files[i] = name
  BY DEF FilesInv
<1>. QED
  BY <1>2, <1>4, <1>5, <1>6

\* The binary search of __is_debugged finds a name exactly when add_debug_to was
\* given it while there was room, whatever the order of the options.
THEOREM FilesFound == Spec => []FilesAsAsked
<1>1. Spec => [](TypeOK /\ FilesInv)
  BY InitTypes, InitFiles, TypesKept, FilesKept, PTL DEF Spec
<1>2. TypeOK /\ FilesInv => FilesAsAsked
  BY Found DEF FilesAsAsked
<1>. QED
  BY <1>1, <1>2, PTL

-----------------------------------------------------------------------------
(* The places of the accesses *)

\* What the stack becomes when the last place leaves it.
LEMMA StackPopped ==
  ASSUME NEW q \in Seq(Places), NEW a, NEW b
  PROVE  /\ One(q, a) => q # << >> /\ Front(q) = << >> /\ Last(q) = a
         /\ Two(q, a, b) => q # << >> /\ One(Front(q), a) /\ Last(q) = b
<1>1. Len(q) # 0 => q # << >>
  OBVIOUS
<1>2. ASSUME One(q, a)
      PROVE  q # << >> /\ Front(q) = << >> /\ Last(q) = a
  <2>1. q # << >>
    BY <1>1, <1>2 DEF One
  <2>2. Front(q) \in Seq(Places) /\ Len(Front(q)) = 0 /\ Last(q) = a
    BY <1>2, <2>1, FrontOf DEF One
  <2>3. Front(q) = << >>
    BY <2>2, EmptySeq
  <2>. QED
    BY <2>1, <2>2, <2>3
<1>3. ASSUME Two(q, a, b)
      PROVE  q # << >> /\ One(Front(q), a) /\ Last(q) = b
  <2>1. q # << >>
    BY <1>1, <1>3 DEF Two
  <2>2. /\ Len(Front(q)) = Len(q) - 1 /\ Last(q) = q[Len(q)]
        /\ \A i \in 1 .. Len(q) - 1 : Front(q)[i] = q[i]
    BY <2>1, FrontOf
  <2>3. Len(Front(q)) = 1 /\ Front(q)[1] = q[1] /\ Last(q) = b
    BY <1>3, <2>2 DEF Two
  <2>. QED
    BY <1>3, <2>1, <2>3 DEF One, Two
<1>. QED
  BY <1>2, <1>3

\* What the stack becomes when a place is pushed.
LEMMA StackPushed ==
  ASSUME NEW q \in Seq(Places), NEW x \in Places
  PROVE  /\ q = << >> => One(Append(q, x), x)
         /\ \A a : One(q, a) => Two(Append(q, x), a, x)
<1>1. /\ Len(Append(q, x)) = Len(q) + 1 /\ Append(q, x)[Len(q) + 1] = x
      /\ \A i \in 1 .. Len(q) : Append(q, x)[i] = q[i]
  BY Appended
<1>2. ASSUME q = << >>
      PROVE  One(Append(q, x), x)
  BY <1>1, <1>2 DEF One
<1>3. ASSUME NEW a, One(q, a)
      PROVE  Two(Append(q, x), a, x)
  <2>1. Append(q, x)[1] = q[1]
    BY <1>1, <1>3 DEF One
  <2>. QED
    BY <1>1, <1>3, <2>1 DEF One, Two
<1>. QED
  BY <1>2, <1>3

LEMMA OneOrTwo == \A n \in Nat \ {0} : n <= 2 => n = 1 \/ n = 2
OBVIOUS

LEMMA InitTraces == Init => TraceInv
BY DEF Init, TraceInv, CallsInv, StackInv, IdleInv, PlacesTruthful

LEMMA StartTraces ==
  ASSUME TypeOK, TraceInv, NEW type \in Types, NEW kind \in Kinds, NEW place \in Places,
         trace_start_location(type, kind, place)
  PROVE  TraceInv'
<1>. DEFINE c == [type |-> type, kind |-> kind, place |-> place,
                  done |-> FALSE, popped |-> FALSE]
<1>1. /\ c \in Call /\ c.place = place /\ ~c.done /\ ~c.popped
      /\ RegisterWrite(c) <=> type = "write" /\ kind = "REGISTERS"
  BY NewCall
<1>. HIDE DEF c
<1>2. /\ status = "running" /\ UNCHANGED <<status, trace_flags, line>>
      /\ calls' = Append(calls, c) /\ location_stack' = Append(location_stack, place)
      /\ calls # << >> => /\ type = "read" /\ RegisterWrite(Last(calls))
                         /\ ~Last(calls).done
  BY DEF trace_start_location, options, c
<1>3. /\ calls' \in Seq(Call) /\ Len(calls') = Len(calls) + 1
      /\ calls'[Len(calls) + 1] = c
      /\ \A i \in 1 .. Len(calls) : calls'[i] = calls[i]
  BY <1>1, <1>2, Appended DEF TypeOK
<1>4. calls' # << >>
  BY <1>3 DEF TypeOK
<1>5. IdleInv' /\ PlacesTruthful'
  BY <1>2, <1>4 DEF TraceInv, IdleInv, PlacesTruthful
<1>6. CASE calls = << >>
  <2>1. Len(calls) = 0 /\ Len(calls') = 1 /\ calls'[1] = c /\ location_stack = << >>
    BY <1>3, <1>6 DEF TraceInv, StackInv
  <2>2. One(location_stack', place)
    BY <1>2, <2>1, StackPushed DEF TypeOK
  <2>3. CallsInv'
    BY <1>1, <2>1 DEF CallsInv
  <2>4. StackInv'
    BY <1>1, <2>1, <2>2 DEF StackInv
  <2>. QED
    BY <1>5, <2>3, <2>4 DEF TraceInv
<1>7. CASE calls # << >>
  <2>1. /\ Len(calls) \in Nat \ {0} /\ Last(calls) = calls[Len(calls)]
        /\ Len(calls) <= 2
    BY <1>7, FrontOf DEF TypeOK, TraceInv, CallsInv
  <2>2. Len(calls) = 1
    <3>1. CASE Len(calls) = 2
      BY <1>2, <1>7, <2>1, <3>1 DEF TraceInv, CallsInv
    <3>. QED
      BY <2>1, <3>1, OneOrTwo
  <2>3. /\ Len(calls') = 2 /\ calls'[1] = calls[1] /\ calls'[2] = c
        /\ RegisterWrite(calls[1]) /\ ~calls[1].done /\ type = "read"
    BY <1>2, <1>3, <1>7, <2>1, <2>2
  <2>4. ~calls[1].popped /\ One(location_stack, calls[1].place)
    BY <2>2, <2>3 DEF TraceInv, CallsInv, StackInv
  <2>5. Two(location_stack', calls[1].place, place)
    BY <1>2, <2>4, StackPushed DEF TypeOK
  <2>6. CallsInv'
    BY <1>1, <2>3, <2>4 DEF CallsInv
  <2>7. StackInv'
    BY <1>1, <2>3, <2>5 DEF StackInv
  <2>. QED
    BY <1>5, <2>6, <2>7 DEF TraceInv
<1>. QED
  BY <1>6, <1>7

LEMMA AccessTraces ==
  ASSUME TypeOK, TraceInv, Access
  PROVE  TraceInv'
<1>. DEFINE l == Last(calls)
            c == [Last(calls) EXCEPT !.done = TRUE]
<1>1. /\ c \in Call /\ c.done /\ (c.popped <=> l.popped)
      /\ c.place = l.place /\ l = calls[Len(calls)]
      /\ RegisterWrite(c) <=> RegisterWrite(l)
  BY LastCall DEF Access
<1>2. /\ status = "running" /\ calls # << >> /\ ~l.done /\ Update(c)
      /\ UNCHANGED <<status, trace_flags, location_stack>>
  BY DEF Access, options
<1>3. \/ UNCHANGED line
      \/ /\ RegisterWrite(line') <=> RegisterWrite(l)
         /\ line'.place = l.place /\ line'.printed = Printed /\ line'.around = Around
  BY DEF Access, RegisterWrite
<1>. HIDE DEF c, l
<1>4. /\ calls' \in Seq(Call) /\ Len(calls) \in Nat \ {0}
      /\ \A i \in 1 .. Len(calls) - 1 : calls'[i] = calls[i]
      /\ IF c.done /\ c.popped THEN Len(calls') = Len(calls) - 1
         ELSE Len(calls') = Len(calls) /\ calls'[Len(calls)] = c
  BY <1>1, <1>2, Updated
<1>5. Len(calls) = 1 \/ Len(calls) = 2
  BY <1>4, OneOrTwo DEF TraceInv, CallsInv
<1>6. CASE Len(calls) = 1
  <2>1. CASE l.popped
    <3>1. ~RegisterWrite(l) /\ location_stack = << >>
      BY <1>1, <1>6, <2>1 DEF TraceInv, CallsInv, StackInv
    <3>2. calls' = << >> /\ Len(calls') = 0
      BY <1>1, <1>4, <1>6, <2>1, EmptySeq
    <3>3. CallsInv' /\ StackInv' /\ IdleInv'
      BY <1>2, <3>1, <3>2 DEF CallsInv, StackInv, IdleInv
    <3>4. Printed = "none" /\ Around = "none"
      BY <1>6, <3>1 DEF Printed, Around
    <3>5. PlacesTruthful'
      BY <1>2, <1>3, <3>1, <3>2, <3>4 DEF TraceInv, PlacesTruthful
    <3>. QED
      BY <3>3, <3>5 DEF TraceInv
  <2>2. CASE ~l.popped
    <3>1. One(location_stack, l.place)
      BY <1>1, <1>6, <2>2 DEF TraceInv, StackInv
    <3>2. Len(calls') = 1 /\ calls'[1] = c /\ calls' # << >>
      BY <1>1, <1>4, <1>6, <2>2
    <3>3. CallsInv' /\ StackInv' /\ IdleInv'
      BY <1>1, <1>2, <2>2, <3>1, <3>2 DEF CallsInv, StackInv, IdleInv
    <3>4. "POSITION" \in trace_flags => Printed = l.place
      BY <3>1, StackPopped DEF Printed, TypeOK
    <3>5. PlacesTruthful'
      BY <1>2, <1>3, <3>2, <3>4 DEF TraceInv, PlacesTruthful
    <3>. QED
      BY <3>3, <3>5 DEF TraceInv
  <2>. QED
    BY <2>1, <2>2
<1>7. CASE Len(calls) = 2
  <2>1. /\ RegisterWrite(calls[1]) /\ ~calls[1].done /\ ~calls[1].popped
        /\ ~RegisterWrite(l) /\ calls'[1] = calls[1]
        /\ Around = calls[1].place
    <3>1. 1 \in 1 .. Len(calls) - 1 /\ 1 \in 1 .. Len(calls)
      BY <1>7
    <3>2. Len(calls) > 1 /\ Len(calls) - 1 = 1
      BY <1>7
    <3>. QED
      BY <1>1, <1>4, <1>7, <3>1, <3>2 DEF TraceInv, CallsInv, Around
  <2>2. CASE l.popped
    <3>1. One(location_stack, calls[1].place)
      BY <1>1, <1>7, <2>2 DEF TraceInv, StackInv
    <3>2. Len(calls') = 1 /\ calls' # << >>
      BY <1>1, <1>4, <1>7, <2>2
    <3>3. CallsInv' /\ StackInv' /\ IdleInv'
      BY <1>2, <2>1, <3>1, <3>2 DEF CallsInv, StackInv, IdleInv
    <3>4. "POSITION" \in trace_flags => Printed = calls[1].place
      BY <3>1, StackPopped DEF Printed, TypeOK
    <3>5. PlacesTruthful'
      BY <1>2, <1>3, <2>1, <3>2, <3>4 DEF TraceInv, PlacesTruthful
    <3>. QED
      BY <3>3, <3>5 DEF TraceInv
  <2>3. CASE ~l.popped
    <3>1. Two(location_stack, calls[1].place, l.place)
      BY <1>1, <1>7, <2>3 DEF TraceInv, StackInv
    <3>2. Len(calls') = 2 /\ calls'[2] = c /\ calls' # << >>
      BY <1>1, <1>4, <1>7, <2>3
    <3>3. CallsInv' /\ StackInv' /\ IdleInv'
      BY <1>1, <1>2, <2>1, <2>3, <3>1, <3>2 DEF CallsInv, StackInv, IdleInv
    <3>4. "POSITION" \in trace_flags => Printed = l.place
      BY <3>1, StackPopped DEF Printed, TypeOK
    <3>5. PlacesTruthful'
      BY <1>2, <1>3, <3>2, <3>4 DEF TraceInv, PlacesTruthful
    <3>. QED
      BY <3>3, <3>5 DEF TraceInv
  <2>. QED
    BY <2>2, <2>3
<1>. QED
  BY <1>5, <1>6, <1>7

LEMMA EndTraces ==
  ASSUME TypeOK, TraceInv, trace_end_location
  PROVE  TraceInv'
<1>. DEFINE l == Last(calls)
            c == [Last(calls) EXCEPT !.popped = TRUE]
<1>1. /\ c \in Call /\ c.popped /\ (c.done <=> l.done)
      /\ c.place = l.place /\ l = calls[Len(calls)]
      /\ RegisterWrite(c) <=> RegisterWrite(l)
  BY LastCall DEF trace_end_location
<1>2. /\ status = "running" /\ calls # << >> /\ Update(c)
      /\ ~l.popped /\ (RegisterWrite(l) => l.done)
      /\ location_stack' = Front(location_stack)
      /\ UNCHANGED <<status, trace_flags, line>>
  BY DEF trace_end_location, MayPop, options
<1>. HIDE DEF c, l
<1>4. /\ calls' \in Seq(Call) /\ Len(calls) \in Nat \ {0}
      /\ \A i \in 1 .. Len(calls) - 1 : calls'[i] = calls[i]
      /\ IF c.done /\ c.popped THEN Len(calls') = Len(calls) - 1
         ELSE Len(calls') = Len(calls) /\ calls'[Len(calls)] = c
  BY <1>1, <1>2, Updated
<1>5. Len(calls) = 1 \/ Len(calls) = 2
  BY <1>4, OneOrTwo DEF TraceInv, CallsInv
<1>6. CASE Len(calls) = 1
  <2>1. One(location_stack, l.place)
    BY <1>1, <1>2, <1>6 DEF TraceInv, StackInv
  <2>2. location_stack' = << >>
    BY <1>2, <2>1, StackPopped DEF TypeOK
  <2>3. CASE l.done
    <3>1. calls' = << >> /\ Len(calls') = 0
      BY <1>1, <1>4, <1>6, <2>3, EmptySeq
    <3>. QED
      BY <1>2, <2>2, <3>1
      DEF TraceInv, CallsInv, StackInv, IdleInv, PlacesTruthful
  <2>4. CASE ~l.done
    <3>1. Len(calls') = 1 /\ calls'[1] = c /\ calls' # << >> /\ ~RegisterWrite(l)
      BY <1>1, <1>2, <1>4, <1>6, <2>4
    <3>2. CallsInv'
      BY <1>1, <2>4, <3>1 DEF CallsInv
    <3>. QED
      BY <1>1, <1>2, <2>2, <2>4, <3>1, <3>2
      DEF TraceInv, StackInv, IdleInv, PlacesTruthful
  <2>. QED
    BY <2>3, <2>4
<1>7. CASE Len(calls) = 2
  <2>1. /\ RegisterWrite(calls[1]) /\ ~calls[1].done /\ ~calls[1].popped
        /\ ~RegisterWrite(l) /\ calls'[1] = calls[1]
        /\ Two(location_stack, calls[1].place, l.place)
    <3>1. 1 \in 1 .. Len(calls) - 1 /\ 1 \in 1 .. Len(calls)
      BY <1>7
    <3>. QED
      BY <1>1, <1>2, <1>4, <1>7, <3>1 DEF TraceInv, CallsInv, StackInv
  <2>2. One(location_stack', calls[1].place)
    BY <1>2, <2>1, StackPopped DEF TypeOK
  <2>3. CASE l.done
    <3>1. Len(calls') = 1 /\ calls' # << >>
      BY <1>1, <1>4, <1>7, <2>3
    <3>. QED
      BY <1>2, <2>1, <2>2, <3>1
      DEF TraceInv, CallsInv, StackInv, IdleInv, PlacesTruthful
  <2>4. CASE ~l.done
    <3>1. Len(calls') = 2 /\ calls'[2] = c /\ calls' # << >>
      BY <1>1, <1>4, <1>7, <2>4
    <3>2. CallsInv'
      BY <1>1, <2>1, <2>4, <3>1 DEF CallsInv
    <3>. QED
      BY <1>1, <1>2, <2>1, <2>2, <3>1, <3>2
      DEF TraceInv, StackInv, IdleInv, PlacesTruthful
  <2>. QED
    BY <2>3, <2>4
<1>. QED
  BY <1>5, <1>6, <1>7

LEMMA TracesKept == TypeOK /\ TraceInv /\ [Next]_vars => TraceInv'
<1>. SUFFICES ASSUME TypeOK, TraceInv, [Next]_vars
              PROVE  TraceInv'
  OBVIOUS
<1>1. ASSUME UNCHANGED <<location_stack, calls, line>>,
             (status' = status /\ UNCHANGED trace_flags) \/ status = "options"
      PROVE  TraceInv'
  BY <1>1 DEF TraceInv, CallsInv, StackInv, IdleInv, PlacesTruthful
<1>2. CASE UNCHANGED vars
  BY <1>1, <1>2 DEF vars, options
<1>3. CASE \E name \in Names : add_debug_to(name)
  BY <1>1, <1>3 DEF add_debug_to
<1>4. CASE \E flag \in TraceFlags \ {"STATE"} : TraceFlag(flag)
  BY <1>1, <1>4 DEF TraceFlag
<1>5. CASE \E mode \in Modes \cup {"none"} : TraceMode(mode)
  BY <1>1, <1>5 DEF TraceMode
<1>6. CASE Quit \/ Start
  BY <1>1, <1>6 DEF Quit, Start
<1>. QED
  BY <1>2, <1>3, <1>4, <1>5, <1>6, StartTraces, AccessTraces, EndTraces DEF Next, Ended

\* The write of a register is shown at its own place, any other access at its
\* own, at that of the write it is read for or at none, and the stack is empty
\* when an expression is over: whatever order C takes the operands of a macro of
\* trace_location.h in, the memory writes included.
THEOREM PlacesShown == Spec => []PlacesTruthful
<1>1. Spec => [](TypeOK /\ TraceInv)
  BY InitTypes, InitTraces, TypesKept, TracesKept, PTL DEF Spec
<1>2. TraceInv => PlacesTruthful
  BY DEF TraceInv
<1>. QED
  BY <1>1, <1>2, PTL
===============================================================================
