# Armator: a verification of the ARMv5 simulator and its gdb server

The repository is a simulator of an ARMv5 processor that a gdb client drives
over a socket. This directory holds TLA+ modules that model its core, the TLC
configurations that check them on small instances, and proofs that TLAPS checks
for every value of the constants. `PROJECT.json` lists the components, the
runs, the source lines each definition models, the mutants that show a property
can fail, the hazards and the theorems.

To check a module: `tlc -config X.cfg M`. To check the proofs of a module:
`tlapm M.tla`.

Contents: 1 the system; 2 the modules; 3 the runs; 4 the proofs; 5 where code
and documentation disagree; 6 what is not modelled; 7 the plan.

## 1. The system

### Components

| component | source | state | operations |
|---|---|---|---|
| simulator process | `arm_simulator.c` | the mutex, `target_exception`, the two sockets | `main`, `gdb_listener`, `irq_listener` |
| gdb server | `gdb_protocol.c` | breakpoint table, last packet sent, error buffer | one handler per packet |
| packet lexer | `scanner.l` | packet buffer, checksum | one token per packet, ack, nack |
| processor core | `arm_core.c` | registers, memory, cycle count | accesses to them, `arm_fetch`, `cond_not_respect` (defined there) |
| register file | `registers.c` | 37 words: r0-r15 with banked copies, cpsr, five spsr | read and write by register and mode |
| memory | `memory.c` | an array of bytes, its size | read and write of 1, 2, 4 bytes, either endianness |
| exceptions | `arm_exception.c` | none | `arm_exception`: RESET, the SWI numbers the simulator serves |
| decoding | `arm_instruction.c` | none | `arm_step`, `arm_execute_instruction` |
| data processing | `arm_data_processing.c` | none | shifter, sixteen operations, flags |
| load and store | `arm_load_store.c` | none | LDR/STR in all widths, LDM/STM |
| branches, MSR, BX, SWI | `arm_branch_other.c` | none | one handler per instruction |
| tracing | `trace.c`, `trace_location.h` | flags, stack of source locations | add a flag; push, trace, pop around each access |
| debug list | `debug.c` | a sorted list of file names | add, look up |
| `send_irq` | `send_irq.c` | none | sends one byte to the irq socket |

`csapp.c` is a textbook's library of wrappers, `scanner.c` and the configure
files are generated, the `*_test.c` files and `Examples/` are programs of their
own.

### How they interact

`main` creates memory and core, opens the two sockets and starts two threads.
`gdb_listener` accepts one client and runs the lexer on its connection until it
closes; each packet goes to `gdb_packet_analysis`, which takes the mutex, calls
the handler, and releases it. `irq_listener` accepts senders for ever; each
byte it reads is an exception number it raises with `arm_exception`, under the
same mutex. `main` joins the gdb thread only; then it frees core, registers and
memory and returns, while the irq thread may still be running.

A handler reaches the processor through `arm_core.c`, one access at a time.
`step` calls `arm_step` once, `cont` until the pc is at a breakpoint or an
exception is reported; both hold the mutex throughout. Inside a step,
`arm_fetch` moves the pc, the instruction executes, and `arm_exception` is
called with what it returns if that is not NONE.

### What is hard, and what makes each component correct

* *Simulator process.* Three threads, a lock, and tear-down without a join of
  the third. A handler must see a processor nothing else changes; a reset
  writes the cpsr and then the pc and must not be seen in between; a reply must
  be true of the state it describes; nobody may keep the mutex; the process
  must end with the session, and the use of the freed processor must not reach
  a client that still debugs.
* *Breakpoint table.* A sorted array with a binary search, shifted in place, of
  fixed capacity. The order must survive each turn of the shifting loops, the
  search must not discard the slot it looks for, and every loop must end.
* *Register file.* Two switches over seven modes with six copies of r13 and
  r14, two of r8 to r12 and five spsr. What a mode writes must be what that
  mode reads later, whatever other modes did meanwhile; a mode number that is
  none of the seven must not reach memory outside the array.
* *Instructions.* Flags come from a 64-bit intermediate result. Comparisons must
  agree with the conditions that use them, carries must get through chains of
  additions, opposite conditions must be opposite, and the shifter must give
  the bits it is asked for. The status changes hands between instructions, MSR,
  returns from exceptions, resets and gdb: which of them can bring a processor
  into a mode that is none, and out of it; and what fails must leave it alone.
* *Memory.* Values in either endianness, at any address; what is written must
  be read back by parts, and neighbours must be left alone. The bound is
  compared with the first byte of an access only. gdb writes strings that may go
  past the end.
* *Framing.* Acknowledgements, retransmissions in both directions and an error
  buffer that delays its complaint to the next token. A packet that is damaged
  must not make a handler run twice or not at all, and neither side may wait
  for a character the other has sent or will not send.
* *Load and store.* The base moves before the access or after it, is perhaps the
  register that is loaded or stored, and an access can fail after registers or
  memory have changed. What a transfer of several registers has done must be a
  prefix of it, and its base must stay; of base and register the one the
  instruction moves last must win.
* *Tracing and debug list.* An insertion into a sorted array of fixed size, and
  its binary search. The stack of locations must be empty after each expression
  although C leaves open when a read or a memory write pops it, and a trace must
  not show the place of an access that has nothing to do with it.

The build has `-fsanitize=address` (`Makefile.am:3`) and
`BIG_ENDIAN_SIMULATOR` (`Makefile.am:6`). With the sanitizer, an access to freed
memory or outside the heap block ends the process: this is how the models take
it. Both happen in this program: the irq thread can use the processor main has
freed, once the session is over; and an access to a word or a half that begins
in the last bytes of the memory passes the test of `memory.c` and runs past the
block, in the middle of a session.

## 2. The modules

| module | models | extends |
|---|---|---|
| `BreakpointSet` | what the breakpoint table promises: a bounded set | |
| `GdbBreakpoints` | the table, one loop iteration at a time | |
| `GdbBreakpointsProofs` | its invariants; it implements `BreakpointSet` | `GdbBreakpoints` |
| `TargetOutcomes` | what a step can do, packets, replies | |
| `DebugTarget` | what the simulator promises: an atomic target | `TargetOutcomes` |
| `ArmSimulator` | the three threads, the mutex, the handlers | `TargetOutcomes` |
| `ArmSimulatorProofs` | its invariants; it implements `DebugTarget` | `ArmSimulator` |
| `RegisterNames` | modes, registers, status words | |
| `ModeViews` | what the register file promises: a view for each mode | `RegisterNames` |
| `RegisterFile` | the array and its switches, the packets g and G | `RegisterNames` |
| `RegisterFileProofs` | it implements `ModeViews` | `RegisterFile` |
| `Alu` | shifter, sixteen operations, flags, sixteen conditions: operators | |
| `ArmInstruction` | the choice of a handler, data processing, branches, MSR, SWI | `Alu` |
| `ArmInstructionProofs` | the shifter, its invariants and action properties | `ArmInstruction` |
| `Memory` | the array of bytes, its six accesses, the packets m and X | |
| `MemoryProofs` | what is written is read back | `Memory` |
| `GdbCalls` | what packets are for: a call, one run of its handler, its reply | |
| `GdbFraming` | scanner, checksum, acknowledgement, retransmission | |
| `GdbFramingProofs` | its invariants; it implements `GdbCalls` | `GdbFraming` |
| `Transfers` | what a load or store amounts to, from outside | |
| `LoadStore` | `arm_load_store` and `arm_load_store_multiple`, access by access | |
| `LoadStoreProofs` | it implements `Transfers` | `LoadStore` |
| `Diagnostics` | the options, the list of debugged files, the places of the trace | |
| `DiagnosticsProofs` | what the search finds, which places are shown | `Diagnostics` |
| `MC*` | the values of constants for TLC | the module checked |

### GdbBreakpoints, BreakpointSet

`breakpoints` and `breakpoints_number` are the fields of `gdb_data`; `begin`,
`end` and `j` the local variables of the loops; `pc` the loop the code is in.
`Receive` starts a request: a packet Z or z with its type, or the lookup `cont`
makes after a step. `RefuseType` and `RefuseFull` are the early returns with
E03 and E04, `Search` the entry of `gdb_find_breakpoint`, `FindLow` and
`FindHigh` one turn of its loop, `Found` and `NotFound` its two ends with what
each caller does next, `ShiftUp`, `Insert`, `ShiftDown` and `Deleted` the loops
of `gdb_add_breakpoint` and `gdb_remove_breakpoint`. The array starts with
arbitrary contents: `gdb_init_data` allocates with malloc and clears the count.

`BreakpointSet` is the contract: a set, each request answered once, from the
set as it was when served. Two details of the code are part of it: the capacity
is tested before the search, so a full table answers E04 for an address it
already has; and an address set twice is answered OK.

### ArmSimulator, DebugTarget, TargetOutcomes

One action per access of a thread to shared state. The labels of `gdb`:

    accept -> scan -> lock -> fetch -> execute [-> except [-> resetPc]]
                              -> (s) reply
                              -> (c) readPc -> check -> fetch | reply
                           -> readRegs -> readCpsr      (g)
                           -> writeRegs -> writeCpsr    (G)
                           -> handle                    (Z z ? q k)
              ... -> unlock -> scan ;   scan -> closing -> done

The irq thread: `accept -> read -> lock -> except [-> resetPc] -> unlock ->
read`. Main: `join -> destroyArm -> destroyRegisters -> destroyMemory ->
return`.

The instruction set is the constant `Outcomes`: for each address, the set of
outcomes (next pc, mode, exception reported) its instruction may have; the
registers and the memory choose among them. `exception` is `target_exception`,
`result` what `arm_execute_instruction` returned, `snapshot` what a handler has
read of the processor and not used yet: the address `arm_fetch` fetched at, the
pc `cont` read, the pc `g` has put in its reply. `status` tells how the process
ends: `exited`; `useAfterFree` and `overrun`, where the sanitizer ends it; or
`sigpipe`: `k` shuts the writing side of the connection and stops nothing else,
so the acknowledgement of the next packet kills the process.

The pc counts words here, and what it has below a word is abstracted. So a fetch
at the last word may or may not overrun the memory (`GdbFetch`); a software
interrupt sent by `send_irq` reads the word before the pc, which overruns only
when the pc is past the memory (`IrqDies`); and the constant `Overruns` says
which instructions may load or store across the end (`GdbExecute`). A software
interrupt of the program reads the word that was just fetched, and overruns no
more than the fetch did. `MemWords` itself stands for all addresses past the
memory: `arm_fetch` fails there, its result is dropped, and what is executed,
`Outcomes[MemWords]`, is whatever `ins` holds. An end of the process leaves the
state as it is: for `DebugTarget` the target just stops.

`bps` is a set: that the table implements one is the theorem of
`GdbBreakpoints`. A full table is left out here; it answers E04 and changes
nothing.

`DebugTarget` is the contract: an instruction is one step; a request is asked,
begun and served, and from its beginning on nothing else changes the processor;
a reset is one step, between two requests. The refinement mapping
(`PcNow`, `ModeNow`, `ExceptionNow`, `PhaseNow`, `PacketNow`, `ReplyNow`) takes
an instruction as done when it executes and a reset when its cpsr is written.

### RegisterFile, ModeViews, RegisterNames

Registers are told apart by how modes share them: `Unbanked` (r0 to r7; the pc
is of this kind too), `FiqBanked` (r8 to r12), `ModeBanked` (r13, r14).
`registre` is the array, indexed by register and bank (`Slots`); `Bank` is the
pair of nested switches; `registers_read` and the others keep their names. A
mode the five bits name wrongly is `"invalid"`: r13 and r14 then read as zero
and drop what is written. `last` records the last operation with its value; the
two specifications must agree on it, so that a write that is lost is not taken
for a step that does nothing.

`ModeViews` gives each mode a view of its own, and `Shares` says in which other
views a write shows, as the names in `registers.h` tell the registers apart. It
says nothing of arrays or switches.

The packets `g` and `G` read and write all registers of the current mode in one
go: `G` writes the cpsr last, so that the registers go to the mode that is left
(`write_general_registers`; `ReadAllAs` and `WriteAllAs` in `ModeViews`). In
`ArmSimulator` the same packets are two accesses each, of the pc and the status,
which is what the threads could see of them.

The 4 that `arm_read_register` adds for the pc is left out here: it depends on
nothing the register file keeps. `LoadStore` has it; the operands of
`ArmInstruction` hold anything.

### Alu, ArmInstruction

`Alu` has operators only, over words of `Width` bits; `PowerOfTwo` is the C shift
of 1. `TempOf` is `Effectuer_Operation`, with `temp` of
twice the width of a word (the code's `uint64_t` for 32-bit words: what is below
zero wraps to the top); `FlagsOf` is `Update_Flags`; `Determiner_Decalage`
names the shift and the operators after it are the shifter; `cond_not_respect` the sixteen tests as they are written, the ones that
disagree with their comments included. Logical operations are folds over the
bits.

`ArmInstruction` is `arm_step`. An instruction is its condition, its bits 27 to
25, which of the other decoding bits are set, and whether its destination is the
pc. `HandlerOf` is the decision tree of `arm_execute_instruction`; each handler
has one action (`SkipDataProcessing` and `DataProcessing` are one, with the
condition failed or not), and `Return` is what `arm_step` does with the answer:
an answer of RESET, which includes the 1 a failed condition returns, resets.
`Interrupt` is the RESET of the irq thread and `GdbWrites` the packet `G`. The
general registers and what is fetched hold anything. `setter` is history: the
last ADDS or CMP whose flags are still in force.

What the decision tree makes of some instructions is modelled as it is. MSR of
an immediate runs as a comparison (`group` 1). BX passes the test of MSR, which
comes first, so its own is never reached. SWI looks at no condition. The bits
MSR keeps go through a logical not, which clears them, and its mask of the mode
has four bits of five.

### Memory

A value is the tuple of its bytes, most significant first; `Offset` is the
endianness. `Refuse` is the test of the address, `Straddle` an access that
begins inside the array and ends outside, `Read` and `Write` the rest.
`read_memory` and `write_memory_binary` are the packets m and X: the bytes of a
string the memory has are read or written, and an answer that is not an error
is 0. `written` is history: a value or a string written that no later write has
overlapped; it is chosen among them, so the property speaks of each.

### GdbFraming, GdbCalls

`toServer` and `toClient` are the two directions of the connection, sequences
of tokens as the rules of `scanner.l` recognise them. A packet is its number and
whether its checksum is right. `ScanAck`, `ScanNack`, `RefusePacket`,
`TakePacket`, `ScanNoise` and `ScanEof` are the rules, each with the
`handle_error` it starts with; `RefusePacket` and `TakePacket` go on as
`gdb_packet_analysis` does, and `Handle` is the handler and `gdb_send_buffer`.
`len` is the number of characters in the error buffer, `sent` what is in
`packet`, which `gdb_transmit_packet` sends again. The handler of `kill`, which
answers nothing and shuts the connection, and a `cont` that does not end are
in `ArmSimulator`.

The client is gdb, which is not in the repository: it sends its packet again
until it is acknowledged, asks for a reply again until its checksum is right,
and waits for the reply before it sends another request. Its timeouts are left
out. The line damages a packet so that its checksum is wrong (never its
delimiters, nor an acknowledgement), or brings a character that no rule but the
last recognises.

`GdbCalls` counts requests, runs of a handler and replies taken. `RefinesCalls`
says `GdbFraming` implements it as long as the line has brought no character of
its own, whatever packets it has damaged. Once it has, the complaint about such
characters is sent when the next token is there, just before the "+" for a
packet that is right; the client takes the "-" for a refusal, sends the packet
again, and the handler runs twice. From then on each reply is the one to the
request before. If the line also damages packets, a request can be left out.
`HandledInOrder` is what remains without damage. No text of the repository
promises more. TCP adds no such characters; gdb itself sends one, 0x03, to
interrupt a program that runs, for which the scanner has no rule: it is one of
the characters meant here.

### LoadStore, Transfers

`loop`, `ins`, `adresse`, `reg_num` and `value` are the local variables of the
two handlers; `Skip` and `Refuse` are the early returns that come before anything
is moved, `Begin` what precedes the loop or the access. For several registers
`Pass`, `Load` and `Store` are a turn of the loop and `Finish` what follows it;
for one, `HalfUndefined`, `SingleLoad` and `SingleStore` are the access with the
moves of the base before (`Indexed`) and after it (`PostIndex`). `value` starts
`Unassigned`: a load whose access fails writes it to the register, whatever it
holds. With the pc as base the single handlers make no access and, for a load,
test a result nobody has assigned: both outcomes are modelled. `before` is history for
the refinement: the registers and memory before the instruction.

Addresses count words and registers hold addresses; a byte or half word is the
low part of a word, and the ends of memory and words that are not aligned are
those of `Memory`. The modulus is larger than the memory, so that some words are
not there, and a transfer may go through zero.

`Transfers` has no loop and no order of accesses: it gives the address of each
register of a list by its rank, says which are reached, and who of base and
register has the last word. Some details of the code are part of it. With the
pc in the list all the others are transferred before the instruction is found
to be undefined. With the bit P set the base that is written back is one word
past the block, so that STMDB with write-back and LDMIA with write-back do not
undo each other; no text of the repository says they do. A single access with
the base moved last and the bit W is found undefined after it is made.

### Diagnostics

`add_debug_to` is the sorted insertion, with the two things it does when the
array is full: a name past all others is dropped, and one that goes before
another moves the last one past the end. `__is_debugged` is the binary search, a recursive function of the pair of its two ends.
`TraceFlag`, `TraceMode`, `Quit` and `Start` are the options of `main` and the end
of them. Then `trace_start_location`, `Access` and `trace_end_location` are the
three parts of an access as the macros of `trace_location.h` write it, `calls`
the accesses that are nested in the expression being evaluated. In the program
these are writes of registers whose value is an expression that reads another;
memory accesses are given variables. The macros of the register writes are
comma expressions, with `END_LOCATION` last. Those of all reads and of the memory
writes add `END_LOCATION` to the result of the access, and C may evaluate either
first: `MayPop` allows both. `PlacesTruthful` says what is true for any choice: a
register write is shown at its own place, the others at theirs or at what the
early pop uncovers, and the stack is empty between expressions. `asked` is
history: the names given while there was room.

## 3. The runs

Runs that pass:

| run | bounds | states | shows |
|---|---|---|---|
| `breakpoints` | 3 slots, 4 addresses, any initial array | 71 011 | `Sorted`, `SearchSound`, `RefinesSet`, `Answered` |
| `simulator` | 2 words of memory and what is past it, 2 modes, a looping program with 7 outcomes | 300 335 | `SnapshotFresh`, `StopTruthful`, `FreedOnlyAtExit`, `RefinesTarget`, `PacketServed`, `IrqServed`, `EndsWithSession` |
| `instructions` | words of 3 bits, temp of 6 bits, 3 operands, 44 instructions, 3 modes | 32 035 | `CompareEqual`, `CarryChain`, `OppositeConditions`, `ShifterCorrect`, `LostUntilReset`, `FailureKeepsStatus` |
| `registers` | 1 register of each kind, 5 modes, 2 values, 2 packets | 125 704 | `RefinesViews` |
| `memory` | 5 bytes, 2 values of a byte, strings of 0 and 3 | 103 168 | `ReadParts` |
| `framing` | 3 requests, 4 damaged packets, 4 characters, an error buffer of 3 | 711 366 | `RefinesCalls`, `HandledInOrder`, `Answered` |
| `load_store` | 2 registers and the pc, 4 addresses, 2 of them in memory, words of 2 parts | 673 792 | `RefinesTransfers` |
| `diagnostics` | 6 names for 4 slots, 2 places, 1 mode | 650 496 | `FilesAsAsked`, `PlacesTruthful` |

Each module's type invariant is checked too, by one of its runs.

Why the bounds are enough:

* `breakpoints`: one address more than slots, so the table fills and refuses;
  three slots give the search an interval with two sides and the shifts more
  than one turn. The safety properties are proved for every size.
* `simulator`: the program has an instruction that changes the mode or does
  not, one whose condition fails in both ways or that is `my_putchar`, and past
  the memory what ends the simulation or aborts; three addresses put
  breakpoints before, at and after the pc. The first instruction and what is
  executed past the memory may overrun it, the second is fetched from the last
  word. Two modes are the one RESET enters and another. The safety properties
  are proved for every program.
* `instructions`: three bits have a sign, a bit between it and the last, and two
  amounts to shift by; sums of the operands reach four bits, and differences go
  below zero, so truncation, carry and borrow all happen. The instructions are
  every operation with the bit S, some without it or with the pc as
  destination, every form of MSR, and one or two that reach each other handler,
  with and without a condition. The operands are the least word, the one with the
  sign only, and the greatest; `CarryChain` and `ShifterCorrect` take all words.
  The modes are one without an spsr, one with, and none of the seven. Everything
  is proved for every width.
* `registers`: registers of one kind are alike in the code, and the modes
  chosen hold one of each: two that share (USR, SYS), one with its own r13 and
  r14 (SVC), one with its own r8 to r12 as well (FIQ), and none of the seven.
  Proved for all.
* `memory`: a word with a neighbour on one side or the other, and a string that
  ends before, at and after the end. Proved for every size.
* `framing`: each of the four packets of a call (request, its retransmission,
  reply, its retransmission) can be damaged, all four in one call or spread
  over several. Four characters overfill an error buffer of three, whose last
  place is for the final zero. The client has one request under way; the third
  request is there to take the reply of the second.
* `load_store`: any contents and any instruction, then any other. A list has up
  to two registers besides the pc, so a transfer can fail at its first word and
  at a later one, and with four addresses it can step from the memory out of it
  and through zero into it. The single accesses have every combination of the
  bits P and W, a code that is right or not, up for loads and down for stores,
  and the base itself, another register or the pc as register, or the pc as
  base.
* `diagnostics`: two names more than slots, so that a full list refuses some and
  aborts for others; the search meets intervals of one, two, three and four
  names. An expression is an access, or a write with reads inside, which is
  what the code has.

Deadlock is checked in all runs: the processor, its registers and memory always
accept an operation, and the end of a process is the explicit action `Ended`.

### Fairness

Threads get fairness, each a weak one: a thread that can take a step takes
one in the end (`WF` of `GdbCode`, `IrqCode`, `MainCode`; `Code` in
`GdbBreakpoints`; `Server` in `GdbFraming`). The clients may send nothing, or
stay. In `GdbFraming` alone the client gets fairness for what it does while it
waits: gdb reads what it is sent and answers it; that it asks or closes is not
supposed. The line damages and brings a bounded number of packets and
characters, without which nobody could get through.

A pthread mutex promises no order among waiters, and TLC shows that with weak
fairness either thread can starve the other. So `PacketServed` supposes that
the senders of interrupts become quiet, and `IrqServed` that the gdb client
does; under these premises they still fail if any path keeps the mutex.
`PacketServed` holds for programs that report an exception again and again, as
that of the run does; `cont` runs for ever on others. `FairLockSpec` adds strong
fairness of the two lock actions; it is used by the violation run
`irq_while_running` alone, to show that the exception is not raised even with a
mutex that starves nobody.

### Mutants

Each property of a passing run has a mutant: a definition with a plausible bug
(a dropped guard, a branch forgotten, a bound off by one), defined just before
the definition it replaces and marked "Mutant". TLC finds the property violated
with the mutant in place.

## 4. The proofs

| theorem | for every | establishes |
|---|---|---|
| `GdbBreakpointsProofs!TypeCorrect` | set of addresses, table size | the loops stay in the array |
| `GdbBreakpointsProofs!TableSorted` | same | `Sorted` |
| `GdbBreakpointsProofs!SearchCorrect` | same | `SearchSound` |
| `GdbBreakpointsProofs!ImplementsSet` | same | `RefinesSet` |
| `ArmSimulatorProofs!TypeCorrect` | memory size, modes, program | `TypeOK` |
| `ArmSimulatorProofs!SnapshotsStayFresh` | same | `SnapshotFresh` |
| `ArmSimulatorProofs!StopsAreTruthful` | same | `StopTruthful` |
| `ArmSimulatorProofs!FreedUnusedInSession` | same | `FreedOnlyAtExit` |
| `ArmSimulatorProofs!ImplementsTarget` | same | `RefinesTarget` |
| `RegisterFileProofs!TypeCorrect` | modes, registers, words | `TypeOK` |
| `RegisterFileProofs!ImplementsViews` | same | `RefinesViews` |
| `ArmInstructionProofs!CompareEqualCorrect` | width, modes, instructions tried | `CompareEqual` |
| `ArmInstructionProofs!CarryChainCorrect` | same | `CarryChain` |
| `ArmInstructionProofs!OppositeConditionsCorrect` | same | `OppositeConditions` |
| `ArmInstructionProofs!LostCorrect` | same | `LostUntilReset` |
| `ArmInstructionProofs!FailureCorrect` | same | `FailureKeepsStatus` |
| `ArmInstructionProofs!TypeCorrect` | same | `TypeOK` |
| `ArmInstructionProofs!ShifterIsCorrect` | same | `ShifterCorrect` |
| `MemoryProofs!TypeCorrect` | memory size, byte values | `TypeOK` |
| `MemoryProofs!PartsReadBack` | same | `ReadParts` |
| `GdbFramingProofs!TypeCorrect` | numbers of requests, damaged packets, characters; error buffer size | `TypeOK` |
| `GdbFramingProofs!InOrder` | same | `HandledInOrder` |
| `GdbFramingProofs!ImplementsCalls` | same | `RefinesCalls` |
| `LoadStoreProofs!TypeCorrect` | registers, memory, words, parts of a word, instructions tried | `TypeOK` |
| `LoadStoreProofs!ImplementsTransfers` | same | `RefinesTransfers` |
| `DiagnosticsProofs!TypeCorrect` | names, slots, places, modes | `TypeOK` |
| `DiagnosticsProofs!FilesFound` | same | `FilesAsAsked` |
| `DiagnosticsProofs!PlacesShown` | same | `PlacesTruthful` |

The assumptions are those the modules name, which TLC evaluates in every run:

* `AddrAssumption`, `MaxAssumption`: addresses are natural numbers, a table has a
  slot.
* `MemAssumption`, `ModeAssumption`, `OutcomeAssumption`, `OverrunAssumption`:
  memory has a word, RESET enters a mode, each address has an outcome, and what
  may overrun the memory has an address.
* `RegistersAssumption`, `ModesAssumption`, `WordsAssumption`,
  `PacketsAssumption`: the kinds of registers are disjoint, the modes are among
  the seven and the invalid one, 0 is a value, and the packets of gdb give a
  word to each register.
* `SizeAssumption`, `ByteAssumption`, `PacketAssumption`: memory has a byte, a byte
  has a value, a string a length.
* `ModulusAssumption`, `TriedAssumption` of `ArmInstruction`: the modulus is the
  power of two of a width of at least one, and what is tried has its type.
* `BoundsAssumption`, `ErrorSizeAssumption`: the bounds of a session are numbers,
  and the error buffer has room for three characters (the code has 1024).
* `PcAssumption`, `MemoryAssumption`, `TriedAssumption` of `LoadStore`: there is a
  register besides the pc; not every word names one of the memory, which is so
  of any memory `arm_simulator.c` makes (32 KB in words of 32 bits); a word is
  made of whole bytes and half words.
* `NamesAssumption`, `MaxFilesAssumption`: names are ordered as integers are (which
  is what `strcmp` gives), and the list has a slot.

The arguments:

* *Breakpoints.* The inductive invariant joins the types, `Sorted` (which skips
  the hole at `j` while entries shift), `SearchSound`, the bounds of each loop
  variable (`PcInv`, `FindInv`), and what the shifting loops know of the
  requested address (`ShiftInv`): it is in no slot in use, and during an
  insertion it is below every entry already moved, and so fits in the hole.
  `Sorted` alone is not inductive: the last write of an insertion keeps the
  order only because of what is known of the hole. `ImplementsSet` needs
  cardinalities: the set has as many elements as slots are in use, which
  follows from the order (no address twice).
* *Simulator.* The inductive invariant says who owns the mutex at each label
  (`LockInv`), that a packet is there exactly when one is served and is of the
  kind its labels belong to (`PacketInv`), what a pending RESET has done
  (`ResetInv`), and that main frees only after the gdb thread is done
  (`ExitInv`), with `SnapshotFresh` and `StopTruthful`. From `LockInv` the two
  threads are never both under the mutex, so that a step of the irq thread
  leaves everything the gdb thread has read alone: `ImplementsTarget` goes
  through each action and gives the step of `DebugTarget` it is, or a stutter.
* *Registers.* `Bank` sends a register of two modes to one slot exactly when
  they share it (`SameBank`), and to none exactly for r13 and r14 of an invalid
  mode (`NoBank`); `ReadAfterWrite` follows, and with it the refinement.
* *Memory.* The remembered value is in the array at its offsets; a write either
  replaces it or misses its interval.
* *Instructions.* `Typed` and `Remembered`: the flags are those `FlagsOf` gives
  for the operands of `setter`, through every instruction that leaves
  them. `CompareEqual` follows because the difference of two words is zero
  modulo the square of the modulus only when they are equal (`Comparison`), and
  `CarryChain` because the bit above the low word of a sum is its quotient by
  the modulus (`Addition`, `TwoWords`). The two action properties go through the
  actions one by one.
* *Shifter.* Three facts carry it. Two words with the same bits are the same
  (`BitsTell`, by the remainders modulo one power of two after the other). Two
  words without a bit in common add up to the word that has the bits of both
  (`BitsAdd`: no remainder of the sum overflows). And what the fold of `ValueOf`
  makes of a set of bits is the word that has these bits (`ValueBits`), whichever
  element it takes first. The bits of a product by a power of two, of a quotient
  and of a remainder (`UpBits`, `DownBits`, `BitsTruncated`) then give each
  encoding of a shift its word, and the logical operations theirs.
* *Framing.* Two inductive invariants about what is on the line. As long as the
  line brings no characters, a call is at one of four places (`CallInv`): both
  sides rest, the request is on its way or its refusal is, the handler runs, or
  the reply is on its way or its refusal is; each place says which few tokens
  the two directions hold, and that the error buffer is empty. A damaged packet
  goes from a place to itself, which is the stutter of `GdbCalls`. As long as the
  line damages nothing (`OrderInv`), the requests the server has not read are
  whole, never go back and leave none out between the one it is at and the last
  one asked, whatever complaints make the client send again.
* *Load and store.* `BlockInv` follows a transfer of several registers by the rank
  of the register it is at (`Rank`, a cardinality): the address is that of the
  rank, all the ranks before were inside the memory, so that no address has gone
  round the modulus and come back to one already used (this is where the memory
  must be smaller than the words), and the registers or the memory are those
  of before with exactly these ranks transferred. When the turn fails or the
  loop ends, that is what `Transfers` says. A single access is one step; its
  cases are compared one by one.
* *Debug file list.* `FilesInv`: the list is sorted and holds the names given. That
  the search finds a name there is by induction on the distance of its two
  ends: a half that is dropped has no name equal to the one looked for, the list
  being sorted (`TurnKeeps`).
* *Traces.* `TraceInv`: at most two accesses are under way, the outer one of two
  a register write that is neither done nor popped and the inner one no
  register write, and the stack has exactly the places of those that have not
  popped theirs. An access that is traced finds its own place on top, or has
  popped it and finds what was under it.

Inductions. The library's induction theorems have an operator as parameter and
cannot be instantiated by the provers. What an argument needs is taken instead
from the fact that a set of natural numbers that is not empty has a least one
(`Least`, from `WFMin`, and `Induction` after it), which has sets as parameters
only. The same fact shows that the functions the models define recursively exist
(`PowerExists`, `SumExists`, `SearchExists`), without which nothing could be said of
their values.

What stays with TLC: the liveness properties (`Answered`, `PacketServed`,
`IrqServed`, `EndsWithSession`), since the prover handles neither fairness nor
ENABLED. Every invariant and every other action property of a passing run has
its theorem.

## 5. Where code and documentation disagree

Each has a run that ends in a violation, of what the quoted text says.

| run | the code | the text |
|---|---|---|
| `irq_while_running` | `cont` keeps the mutex until it stops; an exception sent meanwhile is not raised | "small command to send exception to a running simulator" (`README:64`) |
| `conditions` | PL tests N as MI does (`arm_core.c:255`) | "On veut que N=0 -> PL" (`arm_core.c:254`) |
| `conditions` | `flagZ =! 1` assigns; LE always executes (`arm_core.c:312`) | "On veut que Z==1 \|\| N!=V -> Le" (`arm_core.c:311`) |
| `flag_z` | Z from the 64-bit result (`arm_data_processing.c:104`) | `test_immediate.c:40-42` |
| `memory_bounds` | only the first byte is compared with the size (`memory.c:79`) | "a succes (0) or a failure (-1)" (`memory.h:43`) |

Met while modelling, and modelled as it is, without a property:

* C after a subtraction is the borrow, where ARM has its complement, and V is
  set by what does not fit a word; so HI, LS, GE and LT after CMP do not follow
  the unsigned and signed order. No text of the repository promises it.
* `cond_not_respect` returns 2 for condition 15, where `arm_core.h:61-62` has 0
  and 1; `arm_branch` relies on it (`arm_branch_other.c:32`).
* A data processing instruction whose condition fails returns 1, the number of
  RESET, and `arm_step` resets the processor; a branch returns -1.
* BX is shadowed by MSR, and MSR of an immediate by the comparisons
  (`arm_instruction.c`, `arm_branch_other.c`). MSR keeps no bit it does not write
  (a logical not, `arm_branch_other.c:111`) and leaves no mode: `LostUntilReset`
  states what follows. SWI ignores its condition.
* A branch goes to its own address plus four plus the offset, and its link is
  the second instruction after it; `test_branch.c:59-60` expects both.
* A load writes its destination before it looks at the result of the access.
* `p` reads its register number in decimal.
* "for each traced access, outputs the file and line at which the access has
  been performed" (`arm_simulator.c:126-127`): of the accesses whose macro adds
  `END_LOCATION` to the result (`trace_location.h:30-37`, `45-56`), a compiler that
  evaluates it first shows none, or for a read inside a register write the
  place of that write. `PlacesTruthful` gives them this much and no more; only
  register writes are shown where they are performed whatever the compiler.
* `arm_instruction.c` as committed holds each `case` label twice, left by a
  merge, and does not compile; the models take the two versions as one.

## 6. What is not modelled

* General registers and memory in `ArmInstruction`, and with them the link
  register and the half word BLX adds to its target: they hold anything there,
  and are the state of `RegisterFile`, `LoadStore` and `Memory`. `ArmSimulator`
  takes any program of outcomes for the instructions.
* How `p` and `P` number the registers, and the text of all packets.
* `ArmSimulator` starts at a packet whose checksum is right, as `GdbFraming`
  ends there; the two are not composed, since their shared state is that one
  token.
* The lines of `trace_arm_state` and of the traces beyond which place they show.
  `trace_enable` and `trace_disable` have no caller. The cycle count is only
  shown.
* Socket set-up, printing, the tables of names: pure input and output. A failed
  wrapper of `csapp.c` exits the process; `IrqReadError` is one such exit.
* Generated files (`scanner.c` comes from `scanner.l`, which is modelled), tests,
  examples.

## 7. The plan

Done, in this order: the breakpoint table, the simulator process on top of it,
the arithmetic, the register file, the memory; the framing of packets; the
loads and stores; the instructions and their decoding; the packets of registers
and memory; options, traces and the debug list; and the proofs of all their
safety properties and refinements.

Next: `ArmCpu`, that is `ArmInstruction` over `RegisterFile`, as an instance of
`Outcomes` for `ArmSimulator`.
