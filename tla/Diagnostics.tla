------------------------------ MODULE Diagnostics ------------------------------
(***************************************************************************)
(* What the options of the simulator (main) turn on: the debug messages of *)
(* the files in a sorted list (debug.c), and the traces of the accesses to *)
(* registers and memory (trace.c), each with the place in the sources that *)
(* the macros of trace_location.h put around it.                           *)
(***************************************************************************)
EXTENDS Integers, SequencesExt

CONSTANTS
  Names,     \* the names of files, numbers in the order of strcmp
  MaxFiles,  \* MAX_FILES_NUMBER
  Places,    \* the places in the sources where registers and memory are accessed
  Modes      \* the modes --trace-state knows

ASSUME NamesAssumption == Names \subseteq Int
ASSUME MaxFilesAssumption == MaxFiles \in Nat \ {0}

\* The kinds of access that a flag turns the trace on for.
Kinds == {"MEMORY", "REGISTERS"}
TraceFlags == Kinds \cup {"STATE", "POSITION"}

VARIABLES
  status,          \* what the process is at, or how it has ended
  debugged_files,  \* the names in the list
  asked,           \* the names given while there was room for them
  trace_flags,     \* the flags that are set
  states,          \* the modes whose registers are shown
  location_stack,  \* the places pushed and not yet popped
  calls,           \* the accesses of the expression that is evaluated
  line             \* the last line of the trace

options == <<debugged_files, asked, trace_flags, states>>
vars == <<status, options, location_stack, calls, line>>

NoLine == [type |-> "none"]
Types == {"read", "write"}
Call == [type : Types, kind : Kinds, place : Places, done : BOOLEAN, popped : BOOLEAN]
Line == [type : Types, kind : Kinds, place : Places,
         printed : Places \cup {"none"}, around : Places \cup {"none"}]

Init ==
  /\ status = "options"
  /\ debugged_files = << >> /\ asked = {}
  /\ trace_flags = {} /\ states = {}
  /\ location_stack = << >> /\ calls = << >>
  /\ line = NoLine

-----------------------------------------------------------------------------
(* debug.c *)

\* What the search may have left: the first position and the last one, past each
\* other when nothing is.
Spans == (0 .. Len(debugged_files)) \X (-1 .. Len(debugged_files) - 1)

\* __is_debugged: the binary search, one turn of the loop after another.
__is_debugged(name) ==
  LET Search[span \in Spans] ==
        LET from   == span[1]
            to     == span[2]
            middle == (from + to) \div 2
            file   == debugged_files[middle + 1]
        IN  \/ /\ from < to
               /\ \/ file = name
                  \/ file < name /\ Search[<<middle + 1, to>>]
                  \/ file > name /\ Search[<<from, middle - 1>>]
            \/ from = to /\ debugged_files[from + 1] = name
  IN  Search[<<0, Len(debugged_files) - 1>>]

\* Mutant: the names are not compared.
PlaceLast(name) == Len(debugged_files)

\* Where a name goes: before the first one that does not come before it.
PlaceOf(name) ==
  Cardinality({ i \in 1 .. Len(debugged_files) :
                  \A j \in 1 .. i : debugged_files[j] < name })

\* Mutant: one name too many.
FullLate == Len(debugged_files) > MaxFiles

Full == Len(debugged_files) = MaxFiles

\* With no room left a name past all others is dropped, and one that goes before
\* another moves the last one out of the array, where the sanitizer of the build
\* ends the process.
add_debug_to(name) ==
  /\ status = "options"
  /\ IF PlaceOf(name) >= MaxFiles
     THEN UNCHANGED <<status, debugged_files, asked>>
     ELSE IF Full
     THEN status' = "aborted" /\ UNCHANGED <<debugged_files, asked>>
     ELSE /\ debugged_files' = InsertAt(debugged_files, PlaceOf(name) + 1, name)
          /\ asked' = asked \cup {name}
          /\ UNCHANGED status
  /\ UNCHANGED <<trace_flags, states, location_stack, calls, line>>

-----------------------------------------------------------------------------
(* The options of main *)

\* trace_add, of a flag.
TraceFlag(flag) ==
  /\ status = "options"
  /\ trace_flags' = trace_flags \cup {flag}
  /\ UNCHANGED <<status, debugged_files, asked, states, location_stack, calls, line>>

\* trace_add, of the number of a mode; a name that is none has -1, which it
\* ignores.
TraceMode(mode) ==
  /\ status = "options"
  /\ IF mode \in Modes
     THEN trace_flags' = trace_flags \cup {"STATE"} /\ states' = states \cup {mode}
     ELSE UNCHANGED <<trace_flags, states>>
  /\ UNCHANGED <<status, debugged_files, asked, location_stack, calls, line>>

\* The help, a trace file that cannot be opened, an option that is none.
Quit ==
  /\ status = "options"
  /\ status' = "exited"
  /\ UNCHANGED <<options, location_stack, calls, line>>

\* The threads are created.
Start ==
  /\ status = "options"
  /\ status' = "running"
  /\ UNCHANGED <<options, location_stack, calls, line>>

-----------------------------------------------------------------------------
(* trace_location.h and trace.c: an expression of the processor *)

RegisterWrite(access) == access.type = "write" /\ access.kind = "REGISTERS"

\* LOCATION.  The program gives accesses to the writes of registers only, and
\* these are reads of registers.
trace_start_location(type, kind, place) ==
  /\ status = "running"
  /\ calls # << >> => /\ type = "read" /\ kind = "REGISTERS"
                     /\ RegisterWrite(Last(calls)) /\ ~Last(calls).done
  /\ calls' = Append(calls, [type |-> type, kind |-> kind, place |-> place,
                             done |-> FALSE, popped |-> FALSE])
  /\ location_stack' = Append(location_stack, place)
  /\ UNCHANGED <<status, options, line>>

\* An access that is done and popped leaves the expression.
Update(call) ==
  calls' = IF call.done /\ call.popped THEN Front(calls)
           ELSE Append(Front(calls), call)

\* trace_print_location
Printed ==
  IF "POSITION" \in trace_flags /\ location_stack # << >>
  THEN Last(location_stack) ELSE "none"

\* The place an access is nested in.
Around == IF Len(calls) > 1 THEN calls[Len(calls) - 1].place ELSE "none"

\* trace_memory, trace_register: the access itself.
Access ==
  /\ status = "running"
  /\ calls # << >> /\ ~Last(calls).done
  /\ Update([Last(calls) EXCEPT !.done = TRUE])
  /\ line' = IF Last(calls).kind \in trace_flags
             THEN [type |-> Last(calls).type, kind |-> Last(calls).kind,
                   place |-> Last(calls).place, printed |-> Printed,
                   around |-> Around]
             ELSE line
  /\ UNCHANGED <<status, options, location_stack>>

\* Mutant: the macros of the register writes do not hold END_LOCATION back.
MayPopAny(call) == ~call.popped

\* The macros of the register writes have END_LOCATION after the access; those
\* of the reads and of the memory writes add it to the result, and C orders the
\* operands of + as it likes.
MayPop(call) == ~call.popped /\ (RegisterWrite(call) => call.done)

trace_end_location ==
  /\ status = "running"
  /\ calls # << >> /\ MayPop(Last(calls))
  /\ location_stack' = Front(location_stack)
  /\ Update([Last(calls) EXCEPT !.popped = TRUE])
  /\ UNCHANGED <<status, options, line>>

Ended == status \in {"exited", "aborted"} /\ UNCHANGED vars

Next ==
  \/ \E name \in Names : add_debug_to(name)
  \/ \E flag \in TraceFlags \ {"STATE"} : TraceFlag(flag)
  \/ \E mode \in Modes \cup {"none"} : TraceMode(mode)
  \/ Quit \/ Start
  \/ \E type \in Types, kind \in Kinds, place \in Places :
       trace_start_location(type, kind, place)
  \/ Access
  \/ trace_end_location
  \/ Ended

Spec == Init /\ [][Next]_vars

-----------------------------------------------------------------------------
(* Properties *)

TypeOK ==
  /\ status \in {"options", "running", "exited", "aborted"}
  /\ debugged_files \in Seq(Names) /\ Len(debugged_files) <= MaxFiles
  /\ asked \subseteq Names
  /\ trace_flags \subseteq TraceFlags /\ states \subseteq Modes
  /\ calls \in Seq(Call) /\ location_stack \in Seq(Places)
  /\ line \in Line \cup {NoLine}

\* The binary search finds a name exactly when an option gave it while there
\* was room, in whatever order and however often the names were given.
FilesAsAsked == \A name \in Names : __is_debugged(name) <=> name \in asked

\* With its position traced, the write of a register is shown at its own place,
\* although what is read to compute its value pushes and pops places of its own
\* before it.  Any other access is shown at its own place or, where C takes
\* END_LOCATION before the access, at what lies under it: the place of the write
\* it is read for, or none.  And no place outlives its expression, to be shown
\* for the accesses of another.
PlacesTruthful ==
  /\ calls = << >> => location_stack = << >>
  /\ (line # NoLine /\ "POSITION" \in trace_flags) =>
       \/ line.printed = line.place
       \/ ~RegisterWrite(line) /\ line.printed = line.around
===============================================================================
