----------------------------- MODULE ArmSimulator -----------------------------
(***************************************************************************)
(* The three threads of arm_simulator.c: main, gdb_listener (with the      *)
(* handlers of gdb_protocol.c) and irq_listener, the mutex the last two    *)
(* share, and the processor they act on.  A handler is taken one access to *)
(* the processor at a time: arm_fetch moves the pc before the instruction  *)
(* executes, arm_exception writes the cpsr before the pc, cont reads the   *)
(* pc and looks it up later, g and G go through the registers and then     *)
(* the cpsr.                                                               *)
(***************************************************************************)
EXTENDS TargetOutcomes

CONSTANT
  Overruns   \* the addresses whose instruction may load or store a word or a
             \* half that begins in the memory and ends past it

ASSUME OverrunAssumption == Overruns \subseteq Addr

VARIABLES
  pc, mode,   \* the processor: r15, and the mode in the cpsr
  bps,        \* the breakpoints, as the set GdbBreakpoints implements
  exception,  \* target_exception
  lock,       \* the owner of the mutex, or "free"
  gdb,        \* where the gdb thread is
  packet,     \* the packet it serves, or NoPacket
  result,     \* what arm_execute_instruction returned
  snapshot,   \* the pc a handler has fetched at, or read, and not used yet
  reply,      \* the reply to the packet, or to the last one
  wshut,      \* kill_request has shut the writing side of the connection
  irq,        \* where the irq thread is
  byte,       \* the exception it has read
  main,       \* where the main thread is
  status      \* how the process is doing, or ended

vars == <<pc, mode, bps, exception, lock, gdb, packet, result, snapshot,
          reply, wshut, irq, byte, main, status>>
cpu     == <<pc, mode>>
target  == <<pc, mode, bps, exception>>
session == <<packet, result, snapshot, reply, wshut>>
gdbVars == <<gdb, packet, result, snapshot, reply, wshut>>
irqVars == <<irq, byte>>

GdbLocked == { "fetch", "execute", "except", "resetPc", "readPc", "check",
               "reply", "readRegs", "readCpsr", "writeRegs", "writeCpsr",
               "handle", "unlock" }
GdbLabels == GdbLocked \cup {"accept", "scan", "lock", "closing", "done"}

IrqLocked == {"except", "resetPc", "unlock"}
IrqLabels == IrqLocked \cup {"accept", "read", "lock"}

\* The bytes send_irq can send, in classes: the one that resets, the one for
\* which arm_exception reads the pc and the memory, and those it ignores.
Bytes == {"RESET", "SOFTWARE_INTERRUPT", "ignored"}

MainLabels == {"join", "destroyArm", "destroyRegisters", "destroyMemory",
               "return"}

Alive == status = "alive"

-----------------------------------------------------------------------------
\* main up to pthread_create: arm_create has raised RESET.
Init ==
  /\ pc = 0 /\ mode = Svc
  /\ bps = {} /\ exception = "NONE"
  /\ lock = "free"
  /\ gdb = "accept" /\ packet = NoPacket /\ result = "NONE" /\ snapshot = 0
  /\ reply = Plain("none") /\ wshut = FALSE
  /\ irq = "accept" /\ byte = "ignored"
  /\ main = "join" /\ status = "alive"

-----------------------------------------------------------------------------
(* The gdb thread *)

GdbAccept ==
  /\ Alive /\ gdb = "accept"
  /\ gdb' = "scan"
  /\ UNCHANGED <<target, session, lock, irqVars, main, status>>

\* The scanner recognises a packet and gdb_packet_analysis acknowledges it.
\* After a kill the socket is shut for writing, and SIGPIPE ends the process.
\* A packet without a handler is answered without taking the lock.
GdbPacket(p) ==
  /\ Alive /\ gdb = "scan"
  /\ IF wshut
     THEN status' = "sigpipe" /\ UNCHANGED gdbVars
     ELSE /\ UNCHANGED <<status, result, snapshot, wshut>>
          /\ IF p.op = "unsupported"
             THEN reply' = Plain("empty") /\ UNCHANGED <<gdb, packet>>
             ELSE gdb' = "lock" /\ packet' = p /\ reply' = Plain("none")
  /\ UNCHANGED <<target, lock, irqVars, main>>

\* Where the handler of a packet starts.
Entry(op) ==
  IF op \in {"s", "c"} THEN "fetch"
  ELSE IF op = "g" THEN "readRegs"
  ELSE IF op = "G" THEN "writeRegs"
  ELSE "handle"

\* Mutant: the handler runs whoever holds the mutex.
GdbLockBusy ==
  /\ Alive /\ gdb = "lock"
  /\ lock' = "gdb"
  /\ gdb' = Entry(packet.op)
  /\ UNCHANGED <<target, session, irqVars, main, status>>

GdbLock ==
  /\ Alive /\ gdb = "lock"
  /\ lock = "free"
  /\ lock' = "gdb"
  /\ gdb' = Entry(packet.op)
  /\ UNCHANGED <<target, session, irqVars, main, status>>

\* Mutant: a handler that ends early leaves without the unlock.
GdbUnlockForgotten ==
  /\ Alive /\ gdb = "unlock"
  /\ lock' = IF packet.op = "k" THEN lock ELSE "free"
  /\ gdb' = "scan"
  /\ packet' = NoPacket
  /\ UNCHANGED <<target, result, snapshot, reply, wshut, irqVars, main, status>>

GdbUnlock ==
  /\ Alive /\ gdb = "unlock"
  /\ lock' = "free"
  /\ gdb' = "scan"
  /\ packet' = NoPacket
  /\ UNCHANGED <<target, result, snapshot, reply, wshut, irqVars, main, status>>

-----------------------------------------------------------------------------
(* single_step, then step or cont *)

Handler == Alive /\ UNCHANGED <<lock, irqVars, main, status, wshut, packet>>

\* memory.c tests the first byte of an access only: where the others are past
\* the block of the memory, the sanitizer ends the process.
Overrun ==
  /\ Alive
  /\ status' = "overrun"
  /\ UNCHANGED <<target, gdbVars, lock, irqVars, main>>

\* What follows single_step in step and in cont.
AfterStep == IF packet.op = "s" THEN "reply" ELSE "readPc"

\* arm_fetch moves the pc and reads the instruction it was at.  The pc is any
\* number of bytes: one inside the last word makes the fetch an overrun, and one
\* past the memory leaves what is executed to whatever ins holds.
GdbFetch ==
  /\ gdb = "fetch"
  /\ \/ pc = LastWord /\ Overrun
     \/ /\ Handler
        /\ snapshot' = pc
        /\ pc' = Following(pc)
        /\ gdb' = "execute"
        /\ UNCHANGED <<mode, bps, exception, result, reply>>

\* arm_execute_instruction, then the test of its result in arm_step.
GdbExecute ==
  /\ gdb = "execute"
  /\ \/ snapshot \in Overruns /\ Overrun
     \/ /\ Handler
        /\ \E o \in Outcomes[snapshot] :
             /\ pc' = o.pc
             /\ mode' = NewMode(o, mode)
             /\ IF o.result = "NONE"
                THEN exception' = "NONE" /\ gdb' = AfterStep /\ UNCHANGED result
                ELSE result' = o.result /\ gdb' = "except" /\ UNCHANGED exception
        /\ snapshot' = 0
        /\ UNCHANGED <<bps, reply>>

\* arm_exception, called by arm_step.  For a software interrupt it reads
\* the word that was fetched, which overruns no more than the fetch did.
GdbException ==
  /\ Handler /\ gdb = "except"
  /\ IF result = "RESET"
     THEN /\ mode' = Svc
          /\ gdb' = "resetPc"
          /\ UNCHANGED <<exception, result>>
     ELSE /\ exception' = ExceptionOf(result)
          /\ gdb' = AfterStep
          /\ result' = "NONE"
          /\ UNCHANGED mode
  /\ UNCHANGED <<pc, bps, snapshot, reply>>

GdbResetPc ==
  /\ Handler /\ gdb = "resetPc"
  /\ pc' = 0
  /\ exception' = "RESET"
  /\ result' = "NONE"
  /\ gdb' = AfterStep
  /\ UNCHANGED <<mode, bps, snapshot, reply>>

\* cont reads the pc, and then decides with what it has read.
GdbReadPc ==
  /\ Handler /\ gdb = "readPc"
  /\ snapshot' = pc
  /\ gdb' = "check"
  /\ UNCHANGED <<target, result, reply>>

GdbCheck ==
  /\ Handler /\ gdb = "check"
  /\ gdb' = IF snapshot \in bps \/ exception # "NONE" THEN "reply" ELSE "fetch"
  /\ snapshot' = 0
  /\ UNCHANGED <<target, result, reply>>

GdbReply ==
  /\ Handler /\ gdb = "reply"
  /\ reply' = Stopped(exception)
  /\ gdb' = "unlock"
  /\ UNCHANGED <<target, result, snapshot>>

-----------------------------------------------------------------------------
(* The other handlers *)

\* read_general_registers: r0 to r15, then the cpsr.
GdbReadRegs ==
  /\ Handler /\ gdb = "readRegs"
  /\ snapshot' = pc
  /\ gdb' = "readCpsr"
  /\ UNCHANGED <<target, result, reply>>

GdbReadCpsr ==
  /\ Handler /\ gdb = "readCpsr"
  /\ reply' = Registers(snapshot, mode)
  /\ snapshot' = 0
  /\ gdb' = "unlock"
  /\ UNCHANGED <<target, result>>

\* write_general_registers: r0 to r15, then the cpsr.
GdbWriteRegs ==
  /\ Handler /\ gdb = "writeRegs"
  /\ pc' = packet.pc
  /\ gdb' = "writeCpsr"
  /\ UNCHANGED <<mode, bps, exception, result, snapshot, reply>>

GdbWriteCpsr ==
  /\ Handler /\ gdb = "writeCpsr"
  /\ mode' = packet.mode
  /\ reply' = Plain("OK")
  /\ gdb' = "unlock"
  /\ UNCHANGED <<pc, bps, exception, result, snapshot>>

GdbBreakpoint ==
  /\ Handler /\ gdb = "handle"
  /\ \/ /\ packet.op = "Z"
        /\ bps' = bps \cup {packet.address}
        /\ reply' = Plain("OK")
     \/ /\ packet.op = "z"
        /\ bps' = bps \ {packet.address}
        /\ reply' = Plain(IF packet.address \in bps THEN "OK" ELSE "E05")
  /\ gdb' = "unlock"
  /\ UNCHANGED <<cpu, exception, result, snapshot>>

GdbInform ==
  /\ Handler /\ gdb = "handle"
  /\ \/ packet.op = "?" /\ reply' = Stopped(exception)
     \/ packet.op = "q" /\ reply' = Plain("info")
  /\ gdb' = "unlock"
  /\ UNCHANGED <<target, result, snapshot>>

\* kill_request shuts the connection for writing; it stops nothing else.
GdbKill ==
  /\ Alive /\ gdb = "handle" /\ packet.op = "k"
  /\ wshut' = TRUE
  /\ gdb' = "unlock"
  /\ UNCHANGED <<target, packet, result, snapshot, reply, lock, irqVars, main,
                 status>>

\* The client closes the connection: the scanner returns, gdb_listener ends.
GdbEof ==
  /\ Alive /\ gdb = "scan"
  /\ gdb' = "closing"
  /\ UNCHANGED <<target, session, lock, irqVars, main, status>>

GdbExit ==
  /\ Alive /\ gdb = "closing"
  /\ gdb' = "done"
  /\ UNCHANGED <<target, session, lock, irqVars, main, status>>

-----------------------------------------------------------------------------
(* The irq thread *)

IrqAccept ==
  /\ Alive /\ irq = "accept"
  /\ irq' = "read"
  /\ UNCHANGED <<target, gdbVars, lock, byte, main, status>>

IrqRead(b) ==
  /\ Alive /\ irq = "read"
  /\ byte' = b
  /\ irq' = "lock"
  /\ UNCHANGED <<target, gdbVars, lock, main, status>>

IrqDisconnect ==
  /\ Alive /\ irq = "read"
  /\ irq' = "accept"
  /\ UNCHANGED <<target, gdbVars, lock, byte, main, status>>

\* A read that fails goes through unix_error, which exits the process.
IrqReadError ==
  /\ Alive /\ irq = "read"
  /\ status' = "exited"
  /\ UNCHANGED <<target, gdbVars, lock, irqVars, main>>

\* Mutant: the exception is raised whoever holds the mutex.
IrqLockBusy ==
  /\ Alive /\ irq = "lock"
  /\ lock' = "irq"
  /\ irq' = "except"
  /\ UNCHANGED <<target, gdbVars, byte, main, status>>

IrqLock ==
  /\ Alive /\ irq = "lock"
  /\ lock = "free"
  /\ lock' = "irq"
  /\ irq' = "except"
  /\ UNCHANGED <<target, gdbVars, byte, main, status>>

\* main frees the processor without the mutex and without waiting for this
\* thread: the sanitizer then ends the process at the next use.
ArmFreed == main \notin {"join", "destroyArm"}

\* A RESET and a software interrupt use the processor, and the software
\* interrupt reads the word before the pc, which may be the last one.
IrqDies ==
  \/ byte # "ignored" /\ ArmFreed /\ status' = "useAfterFree"
  \/ /\ byte = "SOFTWARE_INTERRUPT" /\ ~ArmFreed
     /\ pc = MemWords
     /\ status' = "overrun"

\* Mutant: the mutex is released between the cpsr and the pc.
IrqExceptionUnlocks ==
  /\ Alive /\ irq = "except"
  /\ \/ IrqDies /\ UNCHANGED <<mode, irq, lock>>
     \/ /\ byte = "ignored" \/ ~ArmFreed
        /\ IF byte = "RESET"
           THEN mode' = Svc /\ irq' = "resetPc" /\ lock' = "free"
           ELSE irq' = "unlock" /\ UNCHANGED <<mode, lock>>
        /\ UNCHANGED status
  /\ UNCHANGED <<pc, bps, exception, gdbVars, byte, main>>

\* arm_exception, called by irq_listener; what it returns is dropped.
IrqException ==
  /\ Alive /\ irq = "except"
  /\ \/ IrqDies /\ UNCHANGED <<mode, irq>>
     \/ /\ byte = "ignored" \/ ~ArmFreed
        /\ IF byte = "RESET"
           THEN mode' = Svc /\ irq' = "resetPc"
           ELSE irq' = "unlock" /\ UNCHANGED mode
        /\ UNCHANGED status
  /\ UNCHANGED <<pc, bps, exception, gdbVars, lock, byte, main>>

IrqResetPc ==
  /\ Alive /\ irq = "resetPc"
  /\ IF ArmFreed
     THEN status' = "useAfterFree" /\ UNCHANGED <<pc, irq>>
     ELSE pc' = 0 /\ irq' = "unlock" /\ UNCHANGED status
  /\ UNCHANGED <<mode, bps, exception, gdbVars, lock, byte, main>>

\* Mutant: the mutex is not released.
IrqUnlockForgotten ==
  /\ Alive /\ irq = "unlock"
  /\ irq' = "read"
  /\ byte' = "ignored"
  /\ UNCHANGED <<target, gdbVars, lock, main, status>>

IrqUnlock ==
  /\ Alive /\ irq = "unlock"
  /\ lock' = "free"
  /\ irq' = "read"
  /\ byte' = "ignored"
  /\ UNCHANGED <<target, gdbVars, main, status>>

-----------------------------------------------------------------------------
(* The main thread *)

\* Mutants: main waits for nobody; main waits for both threads.
MainJoinNobody ==
  /\ Alive /\ main = "join"
  /\ main' = "destroyArm"
  /\ UNCHANGED <<target, gdbVars, lock, irqVars, status>>

MainJoinBoth ==
  /\ Alive /\ main = "join"
  /\ gdb = "done" /\ irq = "done"
  /\ main' = "destroyArm"
  /\ UNCHANGED <<target, gdbVars, lock, irqVars, status>>

MainJoin ==
  /\ Alive /\ main = "join"
  /\ gdb = "done"
  /\ main' = "destroyArm"
  /\ UNCHANGED <<target, gdbVars, lock, irqVars, status>>

MainDestroy ==
  /\ Alive
  /\ \/ main = "destroyArm"       /\ main' = "destroyRegisters"
     \/ main = "destroyRegisters" /\ main' = "destroyMemory"
     \/ main = "destroyMemory"    /\ main' = "return"
  /\ UNCHANGED <<target, gdbVars, lock, irqVars, status>>

\* Returning from main exits, and the irq thread is gone.
MainReturn ==
  /\ Alive /\ main = "return"
  /\ status' = "exited"
  /\ UNCHANGED <<target, gdbVars, lock, irqVars, main>>

\* The process is no more.
Ended == ~Alive /\ UNCHANGED vars

-----------------------------------------------------------------------------
GdbCode ==
  \/ GdbLock \/ GdbUnlock
  \/ GdbFetch \/ GdbExecute \/ GdbException \/ GdbResetPc
  \/ GdbReadPc \/ GdbCheck \/ GdbReply
  \/ GdbReadRegs \/ GdbReadCpsr \/ GdbWriteRegs \/ GdbWriteCpsr
  \/ GdbBreakpoint \/ GdbInform \/ GdbKill \/ GdbExit

IrqCode == IrqLock \/ IrqException \/ IrqResetPc \/ IrqUnlock

MainCode == MainJoin \/ MainDestroy \/ MainReturn

\* What the clients do.
Environment ==
  \/ GdbAccept \/ GdbEof \/ \E p \in Packets : GdbPacket(p)
  \/ IrqAccept \/ IrqDisconnect \/ IrqReadError \/ \E b \in Bytes : IrqRead(b)

Next == GdbCode \/ IrqCode \/ MainCode \/ Environment \/ Ended

Spec == Init /\ [][Next]_vars

\* A thread that can run does, which says nothing of who gets the mutex.
FairSpec == Spec /\ WF_vars(GdbCode) /\ WF_vars(IrqCode) /\ WF_vars(MainCode)

\* A mutex that starves no waiter.
FairLockSpec == FairSpec /\ SF_vars(GdbLock) /\ SF_vars(IrqLock)

-----------------------------------------------------------------------------
(* Properties *)

TypeOK ==
  /\ pc \in Addr
  /\ mode \in Modes
  /\ bps \subseteq Addr
  /\ exception \in Exceptions
  /\ lock \in {"free", "gdb", "irq"}
  /\ gdb \in GdbLabels
  /\ packet \in Packets \cup {NoPacket}
  /\ result \in Results
  /\ snapshot \in Addr
  /\ reply \in Replies
  /\ wshut \in BOOLEAN
  /\ irq \in IrqLabels
  /\ byte \in Bytes
  /\ main \in MainLabels
  /\ status \in {"alive", "exited", "sigpipe", "overrun", "useAfterFree"}

\* What a handler has read of the processor is still true when it uses it:
\* the instruction single_step has fetched is the one before the pc, the pc
\* cont looks up in the breakpoints and the pc g sends are still the pc.
SnapshotFresh ==
  /\ gdb = "execute" => pc = Following(snapshot)
  /\ gdb \in {"check", "readCpsr"} => snapshot = pc

\* The client is only told that a continue has stopped when the processor is
\* at a breakpoint or has reported an exception, and it still is when told.
StopTruthful ==
  gdb = "reply" /\ packet.op = "c" => pc \in bps \/ exception # "NONE"

\* While a client debugs, no thread touches a processor that main has freed:
\* the irq thread can only meet it after the gdb session, although nothing
\* makes main wait for the irq thread.  (An access that overruns the memory
\* may end the process in the middle of a session; it is not meant here.)
FreedOnlyAtExit == status = "useAfterFree" => gdb = "done"

-----------------------------------------------------------------------------
(* The threads implement DebugTarget.  A step counts as taken when its       *)
(* instruction executes and an exception when its cpsr is written, what is   *)
(* left of it being under the mutex.                                         *)

Resetting ==
  \/ irq = "resetPc"
  \/ gdb \in {"except", "resetPc"} /\ result = "RESET"

PcNow ==
  IF Resetting THEN 0 ELSE IF gdb = "execute" THEN snapshot ELSE pc

ModeNow ==
  IF Resetting THEN Svc ELSE IF gdb = "writeCpsr" THEN packet.mode ELSE mode

ExceptionNow ==
  IF gdb \in {"except", "resetPc"} THEN ExceptionOf(result) ELSE exception

Stepped == gdb \in {"except", "resetPc", "readPc", "check"}

\* The request has had its effect, and its reply is known.
Committed ==
  \/ gdb \in {"reply", "writeCpsr", "unlock"}
  \/ /\ Stepped
     /\ packet.op = "s" \/ PcNow \in bps \/ ExceptionNow # "NONE"

PhaseNow ==
  IF gdb = "lock" THEN "asked"
  ELSE IF gdb \in GdbLocked /\ ~Committed THEN "serving"
  ELSE "idle"

PacketNow == IF PhaseNow = "idle" THEN NoPacket ELSE packet

ReplyNow ==
  IF Committed /\ gdb # "unlock"
  THEN IF gdb = "writeCpsr" THEN Plain("OK") ELSE Stopped(ExceptionNow)
  ELSE reply

Abstract ==
  INSTANCE DebugTarget
    WITH pc <- PcNow, mode <- ModeNow, exception <- ExceptionNow,
         phase <- PhaseNow, packet <- PacketNow, reply <- ReplyNow

\* Whole instructions, one request at a time, interrupts between two requests.
RefinesTarget == Abstract!DSpec

-----------------------------------------------------------------------------
\* Once no more exceptions are sent, every packet with a handler is served:
\* no path through a handler keeps the mutex, and cont stops when the program
\* it runs comes to an exception again and again.
PacketServed ==
  <>[](irq \in {"accept", "read"})
    => (gdb = "lock" ~> (gdb = "scan" \/ ~Alive))

\* Once the gdb client stays quiet, every exception received is raised.
IrqServed ==
  <>[](gdb \in {"accept", "scan", "done"})
    => (irq = "lock" ~> (irq = "read" \/ ~Alive))

\* When the gdb client leaves, the simulator ends, whatever the irq thread
\* does: it waits for no one who may never come.
EndsWithSession == gdb = "closing" ~> ~Alive

\* The usage message has a simulator that "can receive interrupts", and the
\* README a send_irq that sends an exception "to a running simulator": an
\* exception sent is raised, be it while a continue runs.
IrqReachesTarget == irq = "lock" ~> (irq # "lock" \/ ~Alive)
===============================================================================
