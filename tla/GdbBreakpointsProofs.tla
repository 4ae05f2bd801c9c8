------------------------- MODULE GdbBreakpointsProofs -------------------------
(***************************************************************************)
(* Proofs about the breakpoint table, for every set of addresses and every *)
(* size of the array.  The inductive invariant adds to the three           *)
(* invariants what the loops of gdb_add_breakpoint and                     *)
(* gdb_remove_breakpoint keep true of the array while they shift it.       *)
(***************************************************************************)
EXTENDS GdbBreakpoints, FiniteSetTheorems, TLAPS

\* What is known of the request once it has passed the first tests.
PcInv ==
  /\ pc \in {"find", "insert", "delete"} => request.type = 0
  /\ pc = "insert" => request.op = "Z" /\ j < breakpoints_number
  /\ pc = "delete" =>
       /\ request.op = "z"
       /\ j <= breakpoints_number
       /\ breakpoints_number < MaxBreakpoints

\* The search stays inside the table, and has a slot left to insert into.
FindInv ==
  pc = "find" =>
    /\ end <= breakpoints_number
    /\ request.op = "Z" => breakpoints_number < MaxBreakpoints

\* While the table is shifted the address of the request is in no slot in
\* use, and what an insertion has moved is above the address to insert.
ShiftInv ==
  /\ pc \in {"insert", "delete"} =>
       \A k \in InUse : breakpoints[k] # request.address
  /\ pc = "insert" =>
       \A k \in InUse : k > j => breakpoints[k] > request.address

IInv == TypeOK /\ Sorted /\ SearchSound /\ PcInv /\ FindInv /\ ShiftInv

-----------------------------------------------------------------------------
\* The middle of a non-empty interval is inside it.
LEMMA MiddleInside ==
  ASSUME TypeOK, begin < end
  PROVE  Middle \in Int /\ begin <= Middle /\ Middle < end
BY MaxAssumption DEF TypeOK, Middle

\* A slot holds an address, which is a number: slots can be compared.
LEMMA SlotType ==
  ASSUME TypeOK, NEW k \in Index
  PROVE  /\ k \in Nat
         /\ breakpoints[k] \in Nat
         /\ breakpoints[k] \in Addr
<1>1. breakpoints[k] \in Addr
  BY DEF TypeOK
<1>2. breakpoints[k] \in Nat
  BY <1>1, AddrAssumption
<1>3. k \in Nat
  BY MaxAssumption DEF Index
<1>. QED
  BY <1>1, <1>2, <1>3

LEMMA InitInv == Init => IInv
<1>. SUFFICES ASSUME Init
              PROVE  IInv
  OBVIOUS
<1>1. TypeOK
  BY MaxAssumption DEF Init, TypeOK, Answers
<1>2. Sorted
  BY MaxAssumption DEF Init, Sorted, InUse, Index
<1>3. SearchSound /\ PcInv /\ FindInv /\ ShiftInv
  BY DEF Init, SearchSound, PcInv, FindInv, ShiftInv
<1>. QED
  BY <1>1, <1>2, <1>3 DEF IInv

\* Answering ends a request: no loop is running any more, so nothing but the
\* order of the slots in use is left to show.
LEMMA AnswerInv ==
  ASSUME IInv, NEW a \in Answers, Answer(a), UNCHANGED table,
         pc \in {"start", "find"}
  PROVE  IInv'
BY DEF IInv, TypeOK, Sorted, SearchSound, PcInv, FindInv, ShiftInv, InUse,
       Answer, table

LEMMA StartStep ==
  ASSUME IInv, (\E r \in Requests : Receive(r)) \/ RefuseType \/ RefuseFull
  PROVE  IInv'
<1>1. CASE \E r \in Requests : Receive(r)
  BY <1>1 DEF IInv, TypeOK, Sorted, SearchSound, PcInv, FindInv, ShiftInv,
              InUse, Receive, table
<1>2. CASE RefuseType
  BY <1>2, AnswerInv DEF RefuseType, Answers
<1>3. CASE RefuseFull
  BY <1>3, AnswerInv DEF RefuseFull, Answers
<1>. QED
  BY <1>1, <1>2, <1>3

LEMMA SearchStep ==
  ASSUME IInv, Search
  PROVE  IInv'
<1>1. TypeOK' /\ PcInv' /\ FindInv' /\ ShiftInv'
  BY MaxAssumption
     DEF IInv, TypeOK, PcInv, FindInv, ShiftInv, Search, StartSearch, table
<1>2. Sorted'
  BY DEF IInv, Sorted, InUse, Search, StartSearch, table
<1>3. SearchSound'
  BY MaxAssumption
     DEF IInv, TypeOK, SearchSound, InUse, Index, Search, StartSearch, table
<1>. QED
  BY <1>1, <1>2, <1>3 DEF IInv

\* Halving: a slot on the discarded side cannot hold the address, because the
\* slots in use are sorted.
LEMMA FindStep ==
  ASSUME IInv, FindLow \/ FindHigh
  PROVE  IInv'
<1>. pc = "find" /\ pc' = "find" /\ begin < end
  BY DEF FindLow, FindHigh
<1>1. Middle \in Int /\ begin <= Middle /\ Middle < end
  BY MiddleInside DEF IInv
<1>2. begin \in Nat /\ end \in Nat /\ breakpoints_number \in Nat
      /\ end <= breakpoints_number /\ end <= MaxBreakpoints
  BY MaxAssumption DEF IInv, TypeOK, FindInv
<1>3. Middle \in InUse /\ breakpoints[Middle] \in Nat
  <2>1. Middle \in Index
    BY <1>1, <1>2, MaxAssumption DEF Index
  <2>. QED
    BY <1>1, <1>2, <2>1, SlotType DEF InUse, IInv
<1>4. TypeOK' /\ PcInv' /\ FindInv' /\ ShiftInv' /\ Sorted'
  BY <1>1, <1>2, MaxAssumption
     DEF IInv, TypeOK, PcInv, FindInv, ShiftInv, Sorted, InUse,
         FindLow, FindHigh, table
<1>5. SearchSound'
  <2>. SUFFICES ASSUME NEW k \in InUse, breakpoints[k] = request.address
                PROVE  begin' <= k /\ k < end'
    BY DEF SearchSound, InUse, FindLow, FindHigh, table
  <2>1. k \in Int /\ begin <= k /\ k < end
    BY <1>2, MaxAssumption DEF IInv, SearchSound, InUse, Index
  <2>2. breakpoints[k] \in Nat
    BY SlotType DEF IInv, InUse
  <2>3. /\ k < Middle => breakpoints[k] < breakpoints[Middle]
        /\ Middle < k => breakpoints[Middle] < breakpoints[k]
    BY <1>3 DEF IInv, Sorted
  <2>. QED
    BY <1>1, <1>2, <1>3, <2>1, <2>2, <2>3 DEF FindLow, FindHigh, table
<1>. QED
  BY <1>4, <1>5 DEF IInv

LEMMA FoundStep ==
  ASSUME IInv, Found
  PROVE  IInv'
<1>. pc = "find" /\ begin < end /\ breakpoints[Middle] = request.address
  BY DEF Found
<1>1. Middle \in Int /\ begin <= Middle /\ Middle < end
  BY MiddleInside DEF IInv
<1>2. begin \in Nat /\ end \in Nat /\ breakpoints_number \in Nat
      /\ end <= breakpoints_number /\ breakpoints_number <= MaxBreakpoints
  BY MaxAssumption DEF IInv, TypeOK, FindInv
<1>3. CASE request.op # "z"
  BY <1>3, AnswerInv DEF Found, Answers
<1>4. CASE request.op = "z"
  <2>1. /\ breakpoints_number' = breakpoints_number - 1
        /\ j' = Middle
        /\ pc' = "delete"
        /\ UNCHANGED <<breakpoints, request, begin, end, answer>>
    BY <1>4 DEF Found
  <2>2. TypeOK' /\ PcInv' /\ FindInv' /\ SearchSound'
    BY <1>1, <1>2, <1>4, <2>1, MaxAssumption
       DEF IInv, TypeOK, PcInv, FindInv, SearchSound
  <2>3. InUse' = InUse \ {Middle} /\ Middle \in InUse
    BY <1>1, <1>2, <2>1, MaxAssumption DEF InUse, Index
  <2>4. Sorted'
    BY <2>1, <2>3 DEF IInv, Sorted
  <2>5. ShiftInv'
    <3>. SUFFICES ASSUME NEW k \in InUse'
                  PROVE  breakpoints[k] # breakpoints[Middle]
      BY <2>1 DEF ShiftInv
    <3>1. k \in Int /\ breakpoints[k] \in Nat /\ breakpoints[Middle] \in Nat
      BY <2>3, SlotType DEF IInv, InUse
    <3>2. k < Middle \/ Middle < k
      BY <1>1, <2>3, <3>1
    <3>. QED
      BY <2>3, <3>1, <3>2 DEF IInv, Sorted
  <2>. QED
    BY <2>2, <2>4, <2>5 DEF IInv
<1>. QED
  BY <1>3, <1>4

\* The search left nothing: no slot in use holds the address to insert.
LEMMA NotFoundStep ==
  ASSUME IInv, NotFound
  PROVE  IInv'
<1>. pc = "find" /\ begin >= end
  BY DEF NotFound
<1>1. CASE request.op # "Z"
  BY <1>1, AnswerInv DEF NotFound, Answers
<1>2. CASE request.op = "Z"
  <2>1. /\ breakpoints_number' = breakpoints_number + 1
        /\ j' = breakpoints_number
        /\ pc' = "insert"
        /\ UNCHANGED <<breakpoints, request, begin, end, answer>>
    BY <1>2 DEF NotFound
  <2>2. breakpoints_number \in Nat /\ breakpoints_number < MaxBreakpoints
    BY <1>2, MaxAssumption DEF IInv, TypeOK, FindInv
  <2>3. TypeOK' /\ PcInv' /\ FindInv' /\ SearchSound'
    BY <1>2, <2>1, <2>2, MaxAssumption
       DEF IInv, TypeOK, PcInv, FindInv, SearchSound
  <2>4. InUse' = InUse
    BY <2>1, <2>2, MaxAssumption DEF InUse, Index
  <2>5. Sorted'
    BY <2>1, <2>4 DEF IInv, Sorted
  <2>6. ShiftInv'
    <3>. SUFFICES ASSUME NEW k \in InUse
                  PROVE  /\ breakpoints[k] # request.address
                         /\ ~(k > breakpoints_number)
      BY <2>1, <2>4 DEF ShiftInv
    <3>1. k \in Nat /\ k < breakpoints_number
      BY SlotType DEF IInv, InUse
    <3>2. begin \in Nat /\ end \in Nat
      BY MaxAssumption DEF IInv, TypeOK
    <3>. QED
      BY <2>2, <3>1, <3>2 DEF IInv, SearchSound
  <2>. QED
    BY <2>3, <2>5, <2>6 DEF IInv
<1>. QED
  BY <1>1, <1>2

\* A shift fills the hole with its neighbour, which becomes the hole.
LEMMA ShiftUpTable ==
  ASSUME IInv, ShiftUp
  PROVE  /\ InUse' = (InUse \ {j - 1}) \cup {j}
         /\ j - 1 \in InUse
         /\ j \notin InUse
         /\ breakpoints'[j] = breakpoints[j - 1]
         /\ \A k \in InUse : breakpoints'[k] = breakpoints[k]
<1>1. /\ pc = "insert" /\ j > 0 /\ j' = j - 1
      /\ breakpoints' = [breakpoints EXCEPT ![j] = breakpoints[j - 1]]
      /\ UNCHANGED <<breakpoints_number, pc>>
  BY DEF ShiftUp, InsertHere
<1>2. /\ j \in Nat /\ breakpoints_number \in Nat
      /\ j < breakpoints_number /\ breakpoints_number <= MaxBreakpoints
  BY <1>1, MaxAssumption DEF IInv, TypeOK, PcInv
<1>3. j \in Index /\ j - 1 \in Index
  BY <1>1, <1>2, MaxAssumption DEF Index
<1>4. /\ InUse' = (InUse \ {j - 1}) \cup {j}
      /\ j - 1 \in InUse
      /\ j \notin InUse
  BY <1>1, <1>2, <1>3, MaxAssumption DEF InUse, Index
<1>5. /\ breakpoints'[j] = breakpoints[j - 1]
      /\ \A k \in InUse : breakpoints'[k] = breakpoints[k]
  BY <1>1, <1>3, <1>4 DEF IInv, TypeOK, InUse
<1>. QED
  BY <1>4, <1>5

LEMMA ShiftUpStep ==
  ASSUME IInv, ShiftUp
  PROVE  IInv'
<1>1. /\ pc = "insert" /\ j > 0 /\ ~(breakpoints[j - 1] <= request.address)
      /\ breakpoints' = [breakpoints EXCEPT ![j] = breakpoints[j - 1]]
      /\ j' = j - 1
      /\ UNCHANGED <<breakpoints_number, pc, request, begin, end, answer>>
  BY DEF ShiftUp, InsertHere
<1>2. /\ j \in Nat /\ breakpoints_number \in Nat
      /\ j < breakpoints_number /\ breakpoints_number <= MaxBreakpoints
  BY <1>1, MaxAssumption DEF IInv, TypeOK, PcInv
<1>3. j \in Index /\ j - 1 \in Index
  BY <1>1, <1>2, MaxAssumption DEF Index
<1>4. breakpoints[j - 1] \in Nat /\ breakpoints[j - 1] \in Addr
  BY <1>3, SlotType DEF IInv
<1>5. request.address \in Nat
  BY <1>1, AddrAssumption DEF IInv, TypeOK, Requests
<1>6. breakpoints' \in [Index -> Addr]
  BY <1>1, <1>4 DEF IInv, TypeOK
<1>7. TypeOK' /\ PcInv' /\ FindInv' /\ SearchSound'
  BY <1>1, <1>2, <1>6, MaxAssumption
     DEF IInv, TypeOK, PcInv, FindInv, SearchSound
<1>8. /\ InUse' = (InUse \ {j - 1}) \cup {j}
      /\ j - 1 \in InUse
      /\ j \notin InUse
  BY ShiftUpTable
<1>9. /\ breakpoints'[j] = breakpoints[j - 1]
      /\ \A k \in InUse : breakpoints'[k] = breakpoints[k]
  BY ShiftUpTable
<1>10. Sorted'
  <2>. SUFFICES ASSUME NEW k \in InUse', NEW l \in InUse', k < l
                PROVE  breakpoints'[k] < breakpoints'[l]
    BY DEF Sorted
  <2>0. k \in Nat /\ l \in Nat
    BY <1>2, <1>8, SlotType DEF IInv, InUse
  <2>1. CASE k = j
    <3>1. l \in InUse /\ j - 1 < l
      BY <1>2, <1>8, <2>0, <2>1
    <3>. QED
      BY <1>8, <1>9, <2>1, <3>1 DEF IInv, Sorted
  <2>2. CASE l = j
    <3>1. k \in InUse /\ k < j - 1
      BY <1>2, <1>8, <2>0, <2>2
    <3>. QED
      BY <1>8, <1>9, <2>2, <3>1 DEF IInv, Sorted
  <2>3. CASE k # j /\ l # j
    BY <1>8, <1>9, <2>3 DEF IInv, Sorted
  <2>. QED
    BY <2>1, <2>2, <2>3
<1>11. ShiftInv'
  <2>. SUFFICES ASSUME NEW k \in InUse'
                PROVE  /\ breakpoints'[k] # request.address
                       /\ k > j - 1 => breakpoints'[k] > request.address
    BY <1>1 DEF ShiftInv
  <2>1. CASE k = j
    BY <1>1, <1>4, <1>5, <1>9, <2>1
  <2>2. CASE k # j
    <3>1. k \in InUse /\ k # j - 1 /\ k \in Nat
      BY <1>8, <2>2, SlotType DEF IInv, InUse
    <3>2. k > j - 1 => k > j
      BY <1>2, <2>2, <3>1
    <3>. QED
      BY <1>1, <1>9, <3>1, <3>2 DEF IInv, ShiftInv
  <2>. QED
    BY <2>1, <2>2
<1>. QED
  BY <1>7, <1>10, <1>11 DEF IInv

\* The hole takes the address: all below it is smaller, all above larger.
LEMMA InsertTable ==
  ASSUME IInv, Insert
  PROVE  /\ InUse' = InUse \cup {j}
         /\ j \notin InUse
         /\ j \in Index
         /\ breakpoints'[j] = request.address
         /\ \A k \in InUse : breakpoints'[k] = breakpoints[k]
<1>1. /\ pc = "insert" /\ pc' = "idle"
      /\ breakpoints' = [breakpoints EXCEPT ![j] = request.address]
      /\ UNCHANGED breakpoints_number
  BY DEF Insert, Answer
<1>2. /\ j \in Nat /\ breakpoints_number \in Nat
      /\ j < breakpoints_number /\ breakpoints_number <= MaxBreakpoints
  BY <1>1, MaxAssumption DEF IInv, TypeOK, PcInv
<1>3. j \in Index
  BY <1>2, MaxAssumption DEF Index
<1>4. InUse' = InUse \cup {j} /\ j \notin InUse
  BY <1>1, <1>2, <1>3, MaxAssumption DEF InUse, Index
<1>5. /\ breakpoints'[j] = request.address
      /\ \A k \in InUse : breakpoints'[k] = breakpoints[k]
  BY <1>1, <1>3, <1>4 DEF IInv, TypeOK, InUse
<1>. QED
  BY <1>3, <1>4, <1>5

LEMMA InsertStep ==
  ASSUME IInv, Insert
  PROVE  IInv'
<1>1. /\ pc = "insert" /\ InsertHere
      /\ breakpoints' = [breakpoints EXCEPT ![j] = request.address]
      /\ answer' = "OK" /\ pc' = "idle" /\ request' = NoRequest
      /\ UNCHANGED <<begin, end, j, breakpoints_number>>
  BY DEF Insert, Answer
<1>2. /\ j \in Nat /\ breakpoints_number \in Nat
      /\ j < breakpoints_number /\ breakpoints_number <= MaxBreakpoints
  BY <1>1, MaxAssumption DEF IInv, TypeOK, PcInv
<1>3. j \in Index
  BY InsertTable
<1>4. request.address \in Addr /\ request.address \in Nat
  BY <1>1, AddrAssumption DEF IInv, TypeOK, Requests
<1>5. breakpoints' \in [Index -> Addr]
  BY <1>1, <1>4 DEF IInv, TypeOK
<1>6. TypeOK' /\ PcInv' /\ FindInv' /\ ShiftInv' /\ SearchSound'
  BY <1>1, <1>2, <1>5, MaxAssumption
     DEF IInv, TypeOK, PcInv, FindInv, ShiftInv, SearchSound, Answers
<1>7. InUse' = InUse \cup {j} /\ j \notin InUse
  BY InsertTable
<1>8. /\ breakpoints'[j] = request.address
      /\ \A k \in InUse : breakpoints'[k] = breakpoints[k]
  BY InsertTable
<1>9. \A k \in InUse : k < j => breakpoints[k] < request.address
  <2>. SUFFICES ASSUME NEW k \in InUse, k < j
                PROVE  breakpoints[k] < request.address
    OBVIOUS
  <2>1. k \in Nat /\ breakpoints[k] \in Nat
    BY SlotType DEF IInv, InUse
  <2>2. j - 1 \in InUse /\ j - 1 \in Index
    BY <1>1, <1>2, <2>1, MaxAssumption DEF InUse, Index
  <2>3. breakpoints[j - 1] \in Nat
    BY <2>2, SlotType DEF IInv
  <2>4. breakpoints[j - 1] < request.address
    BY <1>1, <1>2, <1>4, <2>1, <2>2, <2>3 DEF InsertHere, IInv, ShiftInv
  <2>5. CASE k = j - 1
    BY <2>4, <2>5
  <2>6. CASE k < j - 1
    <3>1. breakpoints[k] < breakpoints[j - 1]
      BY <2>2, <2>6 DEF IInv, Sorted
    <3>. QED
      BY <1>4, <2>1, <2>3, <2>4, <3>1
  <2>. QED
    BY <1>2, <2>1, <2>5, <2>6
<1>10. Sorted'
  <2>. SUFFICES ASSUME NEW k \in InUse', NEW l \in InUse', k < l
                PROVE  breakpoints'[k] < breakpoints'[l]
    BY DEF Sorted
  <2>0. k \in Nat /\ l \in Nat
    BY <1>2, <1>7, SlotType DEF IInv, InUse
  <2>1. CASE k = j
    <3>1. l \in InUse /\ l > j
      BY <1>2, <1>7, <2>0, <2>1
    <3>2. breakpoints[l] > request.address
      BY <1>1, <3>1 DEF IInv, ShiftInv
    <3>3. breakpoints[l] \in Nat
      BY <3>1, SlotType DEF IInv, InUse
    <3>. QED
      BY <1>4, <1>8, <2>1, <3>1, <3>2, <3>3
  <2>2. CASE l = j
    BY <1>7, <1>8, <1>9, <2>0, <2>2
  <2>3. CASE k # j /\ l # j
    BY <1>7, <1>8, <2>3 DEF IInv, Sorted
  <2>. QED
    BY <2>1, <2>2, <2>3
<1>. QED
  BY <1>6, <1>10 DEF IInv

\* The hole moves up; the last slot it reaches is the one given up.
LEMMA ShiftDownTable ==
  ASSUME IInv, ShiftDown
  PROVE  /\ InUse' = (InUse \ {j + 1}) \cup {j}
         /\ j + 1 \in InUse
         /\ j \notin InUse
         /\ breakpoints'[j] = breakpoints[j + 1]
         /\ \A k \in InUse : breakpoints'[k] = breakpoints[k]
<1>1. /\ pc = "delete" /\ j < breakpoints_number /\ j' = j + 1
      /\ breakpoints' = [breakpoints EXCEPT ![j] = breakpoints[j + 1]]
      /\ UNCHANGED <<breakpoints_number, pc>>
  BY DEF ShiftDown, table
<1>2. /\ j \in Nat /\ breakpoints_number \in Nat
      /\ breakpoints_number < MaxBreakpoints
  BY <1>1, MaxAssumption DEF IInv, TypeOK, PcInv
<1>3. j \in Index /\ j + 1 \in Index
  BY <1>1, <1>2, MaxAssumption DEF Index
<1>4. /\ InUse' = (InUse \ {j + 1}) \cup {j}
      /\ j + 1 \in InUse
      /\ j \notin InUse
  BY <1>1, <1>2, <1>3, MaxAssumption DEF InUse, Index
<1>5. /\ breakpoints'[j] = breakpoints[j + 1]
      /\ \A k \in InUse : breakpoints'[k] = breakpoints[k]
  BY <1>1, <1>3, <1>4 DEF IInv, TypeOK, InUse
<1>. QED
  BY <1>4, <1>5

LEMMA ShiftDownStep ==
  ASSUME IInv, ShiftDown
  PROVE  IInv'
<1>1. /\ pc = "delete" /\ j < breakpoints_number
      /\ breakpoints' = [breakpoints EXCEPT ![j] = breakpoints[j + 1]]
      /\ j' = j + 1
      /\ UNCHANGED <<breakpoints_number, pc, request, begin, end, answer>>
  BY DEF ShiftDown, table
<1>2. /\ j \in Nat /\ breakpoints_number \in Nat
      /\ breakpoints_number < MaxBreakpoints
  BY <1>1, MaxAssumption DEF IInv, TypeOK, PcInv
<1>3. j \in Index /\ j + 1 \in Index
  BY <1>1, <1>2, MaxAssumption DEF Index
<1>4. breakpoints[j + 1] \in Nat /\ breakpoints[j + 1] \in Addr
  BY <1>3, SlotType DEF IInv
<1>5. breakpoints' \in [Index -> Addr]
  BY <1>1, <1>4 DEF IInv, TypeOK
<1>6. TypeOK' /\ PcInv' /\ FindInv' /\ SearchSound'
  BY <1>1, <1>2, <1>5, MaxAssumption
     DEF IInv, TypeOK, PcInv, FindInv, SearchSound
<1>7. /\ InUse' = (InUse \ {j + 1}) \cup {j}
      /\ j + 1 \in InUse
      /\ j \notin InUse
  BY ShiftDownTable
<1>8. /\ breakpoints'[j] = breakpoints[j + 1]
      /\ \A k \in InUse : breakpoints'[k] = breakpoints[k]
  BY ShiftDownTable
<1>9. Sorted'
  <2>. SUFFICES ASSUME NEW k \in InUse', NEW l \in InUse', k < l
                PROVE  breakpoints'[k] < breakpoints'[l]
    BY DEF Sorted
  <2>0. k \in Nat /\ l \in Nat
    BY <1>2, <1>7, SlotType DEF IInv, InUse
  <2>1. CASE k = j
    <3>1. l \in InUse /\ j + 1 < l
      BY <1>2, <1>7, <2>0, <2>1
    <3>. QED
      BY <1>7, <1>8, <2>1, <3>1 DEF IInv, Sorted
  <2>2. CASE l = j
    <3>1. k \in InUse /\ k < j + 1
      BY <1>2, <1>7, <2>0, <2>2
    <3>. QED
      BY <1>7, <1>8, <2>2, <3>1 DEF IInv, Sorted
  <2>3. CASE k # j /\ l # j
    BY <1>7, <1>8, <2>3 DEF IInv, Sorted
  <2>. QED
    BY <2>1, <2>2, <2>3
<1>10. ShiftInv'
  BY <1>1, <1>7, <1>8 DEF IInv, ShiftInv
<1>. QED
  BY <1>6, <1>9, <1>10 DEF IInv

LEMMA DeletedStep ==
  ASSUME IInv, Deleted
  PROVE  IInv'
<1>1. /\ pc = "delete" /\ j >= breakpoints_number
      /\ answer' = "OK" /\ pc' = "idle" /\ request' = NoRequest
      /\ UNCHANGED <<breakpoints, breakpoints_number, begin, end, j>>
  BY DEF Deleted, Answer, table
<1>2. /\ j \in Nat /\ breakpoints_number \in Nat
      /\ j = breakpoints_number /\ breakpoints_number < MaxBreakpoints
  BY <1>1, MaxAssumption DEF IInv, TypeOK, PcInv
<1>3. TypeOK' /\ PcInv' /\ FindInv' /\ ShiftInv' /\ SearchSound'
  BY <1>1 DEF IInv, TypeOK, PcInv, FindInv, ShiftInv, SearchSound, Answers
<1>4. InUse' = InUse
  BY <1>1, <1>2, MaxAssumption DEF InUse, Index
<1>5. Sorted'
  BY <1>1, <1>4 DEF IInv, Sorted
<1>. QED
  BY <1>3, <1>5 DEF IInv

-----------------------------------------------------------------------------
LEMMA Invariance == IInv /\ [Next]_vars => IInv'
<1>. SUFFICES ASSUME IInv, [Next]_vars
              PROVE  IInv'
  OBVIOUS
<1>1. CASE UNCHANGED vars
  BY <1>1 DEF IInv, TypeOK, Sorted, SearchSound, PcInv, FindInv, ShiftInv,
              InUse, vars
<1>2. CASE Next
  BY <1>2, StartStep, SearchStep, FindStep, FoundStep, NotFoundStep,
     ShiftUpStep, InsertStep, ShiftDownStep, DeletedStep DEF Next, Code
<1>. QED
  BY <1>1, <1>2

THEOREM Inductive == Spec => []IInv
BY InitInv, Invariance, PTL DEF Spec

\* The array, the count and the loop variables keep their types: no loop of
\* gdb_protocol.c counts past MAX_BREAKPOINTS_NUMBER.
THEOREM TypeCorrect == Spec => []TypeOK
<1>1. IInv => TypeOK
  BY DEF IInv
<1>. QED
  BY <1>1, Inductive, PTL

\* The slots in use are strictly increasing through every iteration of
\* gdb_add_breakpoint and gdb_remove_breakpoint.
THEOREM TableSorted == Spec => []Sorted
<1>1. IInv => Sorted
  BY DEF IInv
<1>. QED
  BY <1>1, Inductive, PTL

\* The binary search of gdb_find_breakpoint never discards the address it
\* looks for: it answers -1 only for an address that is not in the table.
THEOREM SearchCorrect == Spec => []SearchSound
<1>1. IInv => SearchSound
  BY DEF IInv
<1>. QED
  BY <1>1, Inductive, PTL

-----------------------------------------------------------------------------
(* The array implements the bounded set. *)

\* No address is in two slots, so the set of addresses is full exactly when
\* every slot is in use: the count the code compares is the size of the set.
LEMMA Capacity ==
  ASSUME IInv, pc # "delete"
  PROVE  Cardinality(BpSet) < MaxBreakpoints <=> InUse # Index
<1>. DEFINE f == [k \in InUse |-> breakpoints[k]]
<1>1. IsFiniteSet(Index) /\ Cardinality(Index) = MaxBreakpoints
  BY FS_Interval, MaxAssumption DEF Index
<1>2. InUse \subseteq Index
  BY DEF InUse
<1>3. /\ IsFiniteSet(InUse)
      /\ Cardinality(InUse) <= MaxBreakpoints
      /\ Cardinality(InUse) = MaxBreakpoints <=> InUse = Index
  BY <1>1, <1>2, FS_Subset
<1>4. BpSet = { breakpoints[k] : k \in InUse }
  BY DEF BpSet
<1>5. \A k, l \in InUse : breakpoints[k] = breakpoints[l] => k = l
  <2>. SUFFICES ASSUME NEW k \in InUse, NEW l \in InUse, k # l
                PROVE  breakpoints[k] # breakpoints[l]
    OBVIOUS
  <2>1. /\ k \in Nat /\ breakpoints[k] \in Nat
        /\ l \in Nat /\ breakpoints[l] \in Nat
    BY <1>2, SlotType DEF IInv
  <2>2. k < l \/ l < k
    BY <2>1
  <2>. QED
    BY <2>1, <2>2 DEF IInv, Sorted
<1>6. f \in Bijection(InUse, BpSet)
  BY <1>4, <1>5 DEF Bijection, Injection, Surjection, IsInjective
<1>7. Cardinality(BpSet) = Cardinality(InUse)
  BY <1>3, <1>6, FS_Bijection DEF ExistsBijection
<1>8. Cardinality(InUse) \in Nat
  BY <1>3, FS_CardinalityType
<1>. QED
  BY <1>3, <1>7, <1>8, MaxAssumption

LEMMA SameCardinality ==
  ASSUME NEW S
  PROVE  Abstract!Cardinality(S) = Cardinality(S)
BY DEF Abstract!Cardinality, Cardinality

LEMMA RefinesInit == Init => Abstract!SInit
BY MaxAssumption
   DEF Init, Abstract!SInit, BpSet, InUse, Index, NoRequest, Abstract!NoRequest

\* The steps a caller cannot see: the search, and each shift.
LEMMA RefinesSilent ==
  ASSUME IInv,
         Search \/ FindLow \/ FindHigh \/ ShiftUp \/ ShiftDown
  PROVE  UNCHANGED Abstract!svars
<1>1. CASE Search \/ FindLow \/ FindHigh
  BY <1>1 DEF Search, StartSearch, FindLow, FindHigh, table, Abstract!svars,
              BpSet, InUse
<1>2. CASE ShiftUp
  BY <1>2, ShiftUpTable DEF ShiftUp, Abstract!svars, BpSet
<1>3. CASE ShiftDown
  BY <1>3, ShiftDownTable DEF ShiftDown, Abstract!svars, BpSet
<1>. QED
  BY <1>1, <1>2, <1>3

\* The requests that are answered before or without a search.
LEMMA RefinesStart ==
  ASSUME IInv,
         (\E r \in Requests : Receive(r)) \/ RefuseType \/ RefuseFull
  PROVE  Abstract!SNext
<1>1. CASE \E r \in Requests : Receive(r)
  <2>1. PICK r \in Requests : Receive(r)
    BY <1>1
  <2>2. BpSet' = BpSet /\ request = NoRequest
    BY <2>1 DEF Receive, table, BpSet, InUse, IInv, TypeOK
  <2>3. Abstract!Ask(r)
    BY <2>1, <2>2 DEF Receive, Abstract!Ask, NoRequest, Abstract!NoRequest
  <2>. QED
    BY <2>3 DEF Abstract!SNext, Requests, Abstract!Requests
<1>2. CASE RefuseType
  <2>1. request.op \in {"Z", "z"}
    BY <1>2 DEF RefuseType, IInv, TypeOK, Requests
  <2>2. BpSet' = BpSet
    BY <1>2 DEF RefuseType, Answer, table, BpSet, InUse
  <2>. QED
    BY <1>2, <2>1, <2>2
       DEF RefuseType, Answer, Abstract!SNext, Abstract!ServeUnsupported,
           Abstract!Served, NoRequest, Abstract!NoRequest
<1>3. CASE RefuseFull
  <2>1. BpSet' = BpSet
    BY <1>3 DEF RefuseFull, Answer, table, BpSet, InUse
  <2>2. InUse = Index
    BY <1>3, MaxAssumption DEF RefuseFull, InUse, Index, IInv, TypeOK
  <2>3. ~(Cardinality(BpSet) < MaxBreakpoints)
    BY <1>3, <2>2, Capacity DEF RefuseFull
  <2>4. Abstract!Served(BpSet, "E04")
    BY <1>3, <2>1 DEF RefuseFull, Answer, Abstract!Served, NoRequest,
                      Abstract!NoRequest
  <2>5. Abstract!ServeSet
    BY <1>3, <2>3, <2>4, SameCardinality DEF RefuseFull, Abstract!ServeSet
  <2>. QED
    BY <2>5 DEF Abstract!SNext
<1>. QED
  BY <1>1, <1>2, <1>3

\* The address is found: already set, hit, or (silently) about to go.
LEMMA RefinesFound ==
  ASSUME IInv, Found
  PROVE  Abstract!SNext \/ UNCHANGED Abstract!svars
<1>. pc = "find" /\ begin < end /\ breakpoints[Middle] = request.address
     /\ request.type = 0
  BY DEF Found, IInv, PcInv
<1>1. Middle \in Int /\ begin <= Middle /\ Middle < end
  BY MiddleInside DEF IInv
<1>2. begin \in Nat /\ end <= breakpoints_number
      /\ breakpoints_number \in Nat /\ breakpoints_number <= MaxBreakpoints
  BY MaxAssumption DEF IInv, TypeOK, FindInv
<1>3. Middle \in InUse
  BY <1>1, <1>2, MaxAssumption DEF InUse, Index, IInv, TypeOK
<1>4. request.address \in BpSet
  BY <1>3 DEF BpSet
<1>5. CASE request.op = "Z"
  <2>1. BpSet' = BpSet \cup {request.address}
    BY <1>4, <1>5 DEF Found, Answer, table, BpSet, InUse
  <2>2. breakpoints_number \in Index /\ breakpoints_number \notin InUse
    BY <1>2, <1>5, MaxAssumption DEF IInv, FindInv, InUse, Index
  <2>3. Cardinality(BpSet) < MaxBreakpoints
    BY <2>2, Capacity
  <2>4. Abstract!Served(BpSet \cup {request.address}, "OK")
    BY <1>5, <2>1 DEF Found, Answer, Abstract!Served, NoRequest,
                      Abstract!NoRequest
  <2>5. Abstract!ServeSet
    BY <1>5, <2>3, <2>4, SameCardinality DEF Abstract!ServeSet
  <2>. QED
    BY <2>5 DEF Abstract!SNext
<1>6. CASE request.op = "hit"
  <2>1. BpSet' = BpSet
    BY <1>6 DEF Found, Answer, table, BpSet, InUse
  <2>. QED
    BY <1>4, <1>6, <2>1
       DEF Found, Answer, Abstract!SNext, Abstract!ServeHit, Abstract!Served,
           NoRequest, Abstract!NoRequest
<1>7. CASE request.op = "z"
  <2>1. /\ breakpoints_number' = breakpoints_number - 1
        /\ j' = Middle
        /\ pc' = "delete"
        /\ UNCHANGED <<breakpoints, request, answer>>
    BY <1>7 DEF Found
  <2>2. InUse' = InUse \ {Middle}
    BY <1>1, <1>2, <2>1, MaxAssumption DEF InUse, Index
  <2>3. BpSet' = BpSet
    BY <1>3, <2>1, <2>2 DEF BpSet
  <2>. QED
    BY <2>1, <2>3 DEF Abstract!svars
<1>. QED
  BY <1>5, <1>6, <1>7 DEF Found

\* The address is not in the table: the search has looked everywhere.
LEMMA RefinesNotFound ==
  ASSUME IInv, NotFound
  PROVE  Abstract!SNext \/ UNCHANGED Abstract!svars
<1>. pc = "find" /\ begin >= end /\ request.type = 0
  BY DEF NotFound, IInv, PcInv
<1>1. request.address \notin BpSet
  <2>. SUFFICES ASSUME NEW k \in InUse, breakpoints[k] = request.address
                PROVE  FALSE
    BY DEF BpSet
  <2>1. k \in Nat /\ begin \in Nat /\ end \in Nat
    BY SlotType, MaxAssumption DEF IInv, TypeOK, InUse
  <2>. QED
    BY <2>1 DEF IInv, SearchSound
<1>2. CASE request.op = "z" \/ request.op = "hit"
  <2>1. BpSet' = BpSet
    BY <1>2 DEF NotFound, Answer, table, BpSet, InUse
  <2>. QED
    BY <1>1, <1>2, <2>1
       DEF NotFound, Answer, Abstract!SNext, Abstract!ServeHit,
           Abstract!ServeRemove, Abstract!Served, NoRequest,
           Abstract!NoRequest
<1>3. CASE request.op = "Z"
  <2>1. /\ breakpoints_number' = breakpoints_number + 1
        /\ j' = breakpoints_number
        /\ pc' = "insert"
        /\ UNCHANGED <<breakpoints, request, answer>>
    BY <1>3 DEF NotFound
  <2>2. breakpoints_number \in Nat
    BY MaxAssumption DEF IInv, TypeOK
  <2>3. InUse' = InUse
    BY <2>1, <2>2, MaxAssumption DEF InUse, Index
  <2>. QED
    BY <2>1, <2>3 DEF Abstract!svars, BpSet
<1>. QED
  BY <1>2, <1>3 DEF NotFound

LEMMA RefinesInsert ==
  ASSUME IInv, Insert
  PROVE  Abstract!SNext
<1>. pc = "insert" /\ request.type = 0 /\ request.op = "Z"
  BY DEF Insert, IInv, PcInv
<1>1. BpSet' = BpSet \cup {request.address}
  BY InsertTable DEF Insert, Answer, BpSet
<1>2. Cardinality(BpSet) < MaxBreakpoints
  BY InsertTable, Capacity
<1>3. Abstract!Served(BpSet \cup {request.address}, "OK")
  BY <1>1 DEF Insert, Answer, Abstract!Served, NoRequest, Abstract!NoRequest
<1>4. Abstract!ServeSet
  BY <1>2, <1>3, SameCardinality DEF Abstract!ServeSet
<1>. QED
  BY <1>4 DEF Abstract!SNext

LEMMA RefinesDeleted ==
  ASSUME IInv, Deleted
  PROVE  Abstract!SNext
<1>. pc = "delete" /\ request.type = 0 /\ request.op = "z"
  BY DEF Deleted, IInv, PcInv
<1>1. breakpoints_number \in Nat /\ j = breakpoints_number
  BY MaxAssumption DEF Deleted, IInv, TypeOK, PcInv
<1>2. InUse' = InUse /\ breakpoints' = breakpoints
  BY <1>1, MaxAssumption DEF Deleted, Answer, table, InUse, Index
<1>3. BpSet' = BpSet \ {request.address} /\ request.address \in BpSet
  BY <1>2 DEF Deleted, Answer, BpSet, IInv, ShiftInv
<1>. QED
  BY <1>3
     DEF Deleted, Answer, Abstract!SNext, Abstract!ServeRemove,
         Abstract!Served, NoRequest, Abstract!NoRequest

LEMMA RefinesNext == IInv /\ [Next]_vars => [Abstract!SNext]_(Abstract!svars)
<1>. SUFFICES ASSUME IInv, [Next]_vars
              PROVE  Abstract!SNext \/ UNCHANGED Abstract!svars
  OBVIOUS
<1>1. CASE UNCHANGED vars
  BY <1>1 DEF vars, Abstract!svars, BpSet, InUse
<1>2. CASE Next
  BY <1>2, RefinesSilent, RefinesStart, RefinesFound, RefinesNotFound,
     RefinesInsert, RefinesDeleted DEF Next, Code
<1>. QED
  BY <1>1, <1>2

\* The sorted array with its searches and shifts behaves, for set_breakpoint,
\* remove_breakpoint and cont, as the bounded set of BreakpointSet: every
\* answer is the one the set gives, and only complete requests change it.
THEOREM ImplementsSet == Spec => RefinesSet
BY Inductive, RefinesInit, RefinesNext, PTL
   DEF Spec, RefinesSet, Abstract!SSpec
===============================================================================
