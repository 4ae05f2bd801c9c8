---------------------------- MODULE GdbBreakpoints ----------------------------
(***************************************************************************)
(* The breakpoint table of the gdb server (gdb_protocol.c): an array of    *)
(* fixed size whose first breakpoints_number entries are kept sorted, with *)
(* gdb_find_breakpoint (binary search), gdb_add_breakpoint (search, then   *)
(* insertion by shifting) and gdb_remove_breakpoint (search, then deletion *)
(* by shifting) taken one loop iteration at a time.  The table has one     *)
(* user, the gdb thread, so the requests come one after the other.         *)
(***************************************************************************)
EXTENDS Integers

CONSTANTS
  Addr,           \* the addresses a request may name
  MaxBreakpoints  \* MAX_BREAKPOINTS_NUMBER

ASSUME AddrAssumption == Addr \subseteq Nat
ASSUME MaxAssumption  == MaxBreakpoints \in Nat \ {0}

VARIABLES
  breakpoints,         \* the array; the entries past the count are leftovers
  breakpoints_number,  \* how many entries are in use
  pc,                  \* the loop the code is in
  request,             \* the request being served, or NoRequest
  begin, end,          \* the interval the binary search still has to look at
  j,                   \* the index of the shifting loops
  answer               \* the answer to the last request served

vars == <<breakpoints, breakpoints_number, pc, request, begin, end, j, answer>>
table == <<breakpoints, breakpoints_number>>

Index == 0 .. MaxBreakpoints - 1

Requests ==
  [op : {"Z", "z"}, type : {0, 1}, address : Addr]
    \cup [op : {"hit"}, type : {0}, address : Addr]

NoRequest == [op |-> "none"]

Answers == {"OK", "E03", "E04", "E05", "hit", "miss", "none"}

-----------------------------------------------------------------------------
\* gdb_init_data allocates the structure with malloc and only clears the
\* count: the array holds whatever was there.
Init ==
  /\ breakpoints \in [Index -> Addr]
  /\ breakpoints_number = 0
  /\ pc = "idle"
  /\ request = NoRequest
  /\ begin = 0
  /\ end = 0
  /\ j = 0
  /\ answer = "none"

\* The entry of gdb_find_breakpoint.
StartSearch ==
  /\ pc' = "find"
  /\ begin' = 0
  /\ end' = breakpoints_number

Answer(a) ==
  /\ answer' = a
  /\ pc' = "idle"
  /\ request' = NoRequest
  /\ UNCHANGED <<begin, end, j>>

\* A packet Z or z, or the lookup of cont, up to its first loop.
Receive(r) ==
  /\ pc = "idle"
  /\ request' = r
  /\ pc' = "start"
  /\ UNCHANGED <<table, begin, end, j, answer>>

\* set_breakpoint and remove_breakpoint answer E03 for any other type.
RefuseType ==
  /\ pc = "start"
  /\ request.type # 0
  /\ Answer("E03")
  /\ UNCHANGED table

\* Mutant: the last slot is never given out.
RefuseFullEarly ==
  /\ pc = "start"
  /\ request.type = 0
  /\ request.op = "Z"
  /\ breakpoints_number >= MaxBreakpoints - 1
  /\ Answer("E04")
  /\ UNCHANGED table

\* gdb_add_breakpoint looks at the count before it looks for the address.
RefuseFull ==
  /\ pc = "start"
  /\ request.type = 0
  /\ request.op = "Z"
  /\ breakpoints_number >= MaxBreakpoints
  /\ Answer("E04")
  /\ UNCHANGED table

\* Mutant: the capacity is not looked at.
SearchUnbounded ==
  /\ pc = "start"
  /\ request.type = 0
  /\ StartSearch
  /\ UNCHANGED <<table, request, j, answer>>

Search ==
  /\ pc = "start"
  /\ request.type = 0
  /\ request.op = "Z" => breakpoints_number < MaxBreakpoints
  /\ StartSearch
  /\ UNCHANGED <<table, request, j, answer>>

-----------------------------------------------------------------------------
Middle == (begin + end) \div 2

\* Mutant: the middle is dropped although the interval excludes its end.
FindLowInclusive ==
  /\ pc = "find"
  /\ begin < end
  /\ breakpoints[Middle] > request.address
  /\ end' = IF Middle = 0 THEN 0 ELSE Middle - 1
  /\ UNCHANGED <<table, pc, request, begin, j, answer>>

\* One iteration of the loop of gdb_find_breakpoint that does not end it.
FindLow ==
  /\ pc = "find"
  /\ begin < end
  /\ breakpoints[Middle] > request.address
  /\ end' = Middle
  /\ UNCHANGED <<table, pc, request, begin, j, answer>>

\* Mutant: the middle is kept, so an interval of one slot never shrinks.
FindHighStuck ==
  /\ pc = "find"
  /\ begin < end
  /\ breakpoints[Middle] < request.address
  /\ begin' = Middle
  /\ UNCHANGED <<table, pc, request, end, j, answer>>

FindHigh ==
  /\ pc = "find"
  /\ begin < end
  /\ breakpoints[Middle] < request.address
  /\ begin' = Middle + 1
  /\ UNCHANGED <<table, pc, request, end, j, answer>>

\* The search returns a position: the address is known.
Found ==
  /\ pc = "find"
  /\ begin < end
  /\ breakpoints[Middle] = request.address
  /\ \/ /\ request.op = "Z"
        /\ Answer("OK")
        /\ UNCHANGED table
     \/ /\ request.op = "hit"
        /\ Answer("hit")
        /\ UNCHANGED table
     \/ /\ request.op = "z"
        /\ breakpoints_number' = breakpoints_number - 1
        /\ j' = Middle
        /\ pc' = "delete"
        /\ UNCHANGED <<breakpoints, request, begin, end, answer>>

\* The search returns -1: the address is not in the table.
NotFound ==
  /\ pc = "find"
  /\ begin >= end
  /\ \/ /\ request.op = "z"
        /\ Answer("E05")
        /\ UNCHANGED table
     \/ /\ request.op = "hit"
        /\ Answer("miss")
        /\ UNCHANGED table
     \/ /\ request.op = "Z"
        /\ j' = breakpoints_number
        /\ breakpoints_number' = breakpoints_number + 1
        /\ pc' = "insert"
        /\ UNCHANGED <<breakpoints, request, begin, end, answer>>

-----------------------------------------------------------------------------
\* Mutant: the shift stops one slot early.
InsertHereFirst == j > 1 => breakpoints[j - 1] <= request.address

InsertHere == j > 0 => breakpoints[j - 1] <= request.address

ShiftUp ==
  /\ pc = "insert"
  /\ ~InsertHere
  /\ breakpoints' = [breakpoints EXCEPT ![j] = breakpoints[j - 1]]
  /\ j' = j - 1
  /\ UNCHANGED <<breakpoints_number, pc, request, begin, end, answer>>

Insert ==
  /\ pc = "insert"
  /\ InsertHere
  /\ breakpoints' = [breakpoints EXCEPT ![j] = request.address]
  /\ Answer("OK")
  /\ UNCHANGED breakpoints_number

ShiftDown ==
  /\ pc = "delete"
  /\ j < breakpoints_number
  /\ breakpoints' = [breakpoints EXCEPT ![j] = breakpoints[j + 1]]
  /\ j' = j + 1
  /\ UNCHANGED <<breakpoints_number, pc, request, begin, end, answer>>

Deleted ==
  /\ pc = "delete"
  /\ j >= breakpoints_number
  /\ Answer("OK")
  /\ UNCHANGED table

\* The code of the gdb thread; the requests are its environment.
Code ==
  \/ RefuseType \/ RefuseFull \/ Search
  \/ FindLow \/ FindHigh \/ Found \/ NotFound
  \/ ShiftUp \/ Insert \/ ShiftDown \/ Deleted

Next == (\E r \in Requests : Receive(r)) \/ Code

Spec == Init /\ [][Next]_vars

\* The gdb thread does not stop in the middle of a function.
FairSpec == Spec /\ WF_vars(Code)

-----------------------------------------------------------------------------
(* Properties *)

TypeOK ==
  /\ breakpoints \in [Index -> Addr]
  /\ breakpoints_number \in 0 .. MaxBreakpoints
  /\ pc \in {"idle", "start", "find", "insert", "delete"}
  /\ IF pc = "idle" THEN request = NoRequest ELSE request \in Requests
  /\ begin \in 0 .. MaxBreakpoints
  /\ end \in 0 .. MaxBreakpoints
  /\ j \in 0 .. MaxBreakpoints
  /\ answer \in Answers

\* The slots that hold a breakpoint.  While entries are being shifted slot j
\* is a hole; a deletion has already given up the last slot it still reads.
InUse ==
  { k \in Index : /\ IF pc = "delete" THEN k <= breakpoints_number
                                      ELSE k < breakpoints_number
                  /\ pc \in {"insert", "delete"} => k # j }

\* The slots in use are in strictly increasing order (no address twice),
\* through every iteration of the shifting loops of gdb_add_breakpoint and
\* gdb_remove_breakpoint: it is what the binary search relies on.
Sorted ==
  \A k, l \in InUse : k < l => breakpoints[k] < breakpoints[l]

\* gdb_find_breakpoint never discards the slot it looks for: an address of
\* the table is in the interval that is left, so "not found" is never wrong.
SearchSound ==
  pc = "find" =>
    \A k \in InUse : breakpoints[k] = request.address => begin <= k /\ k < end

\* The table as a set, once the request under way is taken as not yet served:
\* a deletion in progress has already overwritten the address it removes.
BpSet ==
  { breakpoints[k] : k \in InUse }
    \cup (IF pc = "delete" THEN {request.address} ELSE {})

\* The array with its loops implements the bounded set of BreakpointSet.
Abstract == INSTANCE BreakpointSet WITH bps <- BpSet
RefinesSet == Abstract!SSpec

\* Every request is answered: the three loops terminate whatever the table.
Answered == (pc # "idle") ~> (pc = "idle")
===============================================================================
