-------------------------- MODULE ArmSimulatorProofs --------------------------
(***************************************************************************)
(* Proofs about the threads of the simulator, for every size of memory,    *)
(* every set of modes and every program.  The inductive invariant says who *)
(* holds the mutex at each point of the two threads, and what a handler    *)
(* knows of the packet it serves.                                          *)
(***************************************************************************)
EXTENDS ArmSimulator, TLAPS

\* The mutex belongs to the thread that is between its lock and its unlock.
LockInv ==
  /\ lock = "gdb" <=> gdb \in GdbLocked
  /\ lock = "irq" <=> irq \in IrqLocked

StepLabels == {"fetch", "execute", "except", "resetPc", "readPc", "check"}

\* Each handler runs for the packets it handles.
PacketInv ==
  /\ gdb \in GdbLocked \cup {"lock"} => packet \in Packets
  /\ gdb \in StepLabels => packet.op \in {"s", "c"}
  /\ gdb \in {"readPc", "check"} => packet.op = "c"
  /\ gdb \in {"writeRegs", "writeCpsr"} => packet.op = "G"
  /\ gdb = "resetPc" => result = "RESET"
  /\ gdb \in {"readRegs", "readCpsr"} => packet.op = "g"
  /\ gdb \in {"lock", "handle"} => reply = Plain("none")

\* An exception that has written the cpsr has not been overtaken.
ResetInv == gdb = "resetPc" \/ irq = "resetPc" => mode = Svc

\* main has left the join only after the gdb thread has ended.
ExitInv ==
  /\ main # "join" => gdb = "done"
  /\ status = "useAfterFree" => main # "join"

IInv ==
  /\ TypeOK /\ LockInv /\ PacketInv /\ ResetInv /\ ExitInv
  /\ SnapshotFresh /\ StopTruthful

-----------------------------------------------------------------------------
LEMMA ExceptionType ==
  ASSUME NEW r \in Results
  PROVE  ExceptionOf(r) \in Exceptions
BY DEF Results, Exceptions, ExceptionOf

LEMMA ReplyType ==
  /\ \A k \in {"none", "empty", "OK", "E05", "info"} : Plain(k) \in Replies
  /\ \A e : Stopped(e) \in Replies
  /\ \A a \in Addr, m \in Modes : Registers(a, m) \in Replies
<1>1. \A e : StopReason(e) \in StopReasons
  BY DEF StopReason, StopReasons
<1>. QED
  BY <1>1 DEF Plain, Stopped, Registers, Replies

LEMMA ZeroAddr == 0 \in Addr
BY MemAssumption DEF Addr

LEMMA InitInv == Init => IInv
<1>. SUFFICES ASSUME Init
              PROVE  IInv
  OBVIOUS
<1>1. TypeOK
  BY ZeroAddr, ModeAssumption, ReplyType
     DEF Init, TypeOK, Exceptions, GdbLabels, IrqLabels, Results, Bytes,
         MainLabels
<1>. QED
  BY <1>1 DEF Init, IInv, LockInv, PacketInv, ResetInv, ExitInv, SnapshotFresh,
              StopTruthful, GdbLocked, IrqLocked, StepLabels

LEMMA PacketFields ==
  ASSUME NEW p \in Packets
  PROVE  /\ p.op = "G" => p.pc \in Addr /\ p.mode \in Modes
         /\ p.op \in {"Z", "z"} => p.address \in Addr
BY DEF Packets, PlainOps

LEMMA OutcomeFields ==
  ASSUME NEW a \in Addr, NEW o \in Outcomes[a], NEW m \in Modes
  PROVE  /\ o.pc \in Addr
         /\ o.result \in Results
         /\ NewMode(o, m) \in Modes
BY OutcomeAssumption DEF Outcome, NewMode

\* What arm_fetch moves the pc to is an address.
LEMMA NextAddr ==
  ASSUME NEW a \in Addr
  PROVE  Following(a) \in Addr
BY MemAssumption DEF Addr, Following

\* The clients: they connect, send, and go away.
LEMMA EnvironmentStep ==
  ASSUME IInv, Environment
  PROVE  IInv'
<1>. USE DEF IInv, LockInv, PacketInv, ResetInv, ExitInv, SnapshotFresh,
             StopTruthful, StepLabels, GdbLocked, IrqLocked, target, cpu
<1>1. CASE GdbAccept \/ GdbEof
  BY <1>1 DEF GdbAccept, GdbEof, TypeOK, GdbLabels, session, irqVars
<1>2. CASE \E p \in Packets : GdbPacket(p)
  <2>1. PICK p \in Packets : GdbPacket(p)
    BY <1>2
  <2>2. CASE wshut
    BY <2>1, <2>2 DEF GdbPacket, TypeOK, gdbVars, irqVars
  <2>3. CASE ~wshut
    BY <2>1, <2>3, ReplyType
       DEF GdbPacket, TypeOK, GdbLabels, gdbVars, irqVars
  <2>. QED
    BY <2>2, <2>3
<1>3. CASE IrqAccept \/ IrqDisconnect \/ IrqReadError
  BY <1>3 DEF IrqAccept, IrqDisconnect, IrqReadError, TypeOK, IrqLabels,
              gdbVars, irqVars
<1>4. CASE \E b \in Bytes : IrqRead(b)
  BY <1>4 DEF IrqRead, TypeOK, IrqLabels, gdbVars
<1>. QED
  BY <1>1, <1>2, <1>3, <1>4 DEF Environment

LEMMA MutexStep ==
  ASSUME IInv, GdbLock \/ GdbUnlock \/ IrqLock \/ IrqUnlock
  PROVE  IInv'
<1>. USE DEF IInv, LockInv, PacketInv, ResetInv, ExitInv, SnapshotFresh,
             StopTruthful, StepLabels, GdbLocked, IrqLocked, target, cpu
<1>1. CASE GdbLock
  BY <1>1 DEF GdbLock, Entry, TypeOK, GdbLabels, session, irqVars
<1>2. CASE GdbUnlock
  BY <1>2 DEF GdbUnlock, TypeOK, GdbLabels, irqVars
<1>3. CASE IrqLock
  BY <1>3 DEF IrqLock, TypeOK, IrqLabels, gdbVars
<1>4. CASE IrqUnlock
  BY <1>4 DEF IrqUnlock, TypeOK, IrqLabels, Bytes, gdbVars
<1>. QED
  BY <1>1, <1>2, <1>3, <1>4

\* An access past the memory ends the process and changes nothing else.
LEMMA OverrunStep ==
  ASSUME IInv, Overrun
  PROVE  IInv'
BY DEF Overrun, IInv, TypeOK, LockInv, PacketInv, ResetInv, ExitInv,
       SnapshotFresh, StopTruthful, StepLabels, target, gdbVars, irqVars

\* single_step: fetch, execute, and the exception of the instruction.
LEMMA InstructionStep ==
  ASSUME IInv, GdbFetch \/ GdbExecute \/ GdbException \/ GdbResetPc
  PROVE  IInv'
<1>. USE DEF IInv, LockInv, PacketInv, ResetInv, ExitInv, SnapshotFresh,
             StopTruthful, StepLabels, GdbLocked, IrqLocked, irqVars, AfterStep
<1>1. CASE GdbFetch /\ ~Overrun
  <2>1. pc \in Addr
    BY DEF TypeOK
  <2>. QED
    BY <1>1, <2>1, NextAddr DEF GdbFetch, Handler, TypeOK, GdbLabels
<1>2. CASE GdbExecute /\ ~Overrun
  <2>1. PICK o \in Outcomes[snapshot] :
          /\ pc' = o.pc
          /\ mode' = NewMode(o, mode)
          /\ IF o.result = "NONE"
             THEN exception' = "NONE" /\ gdb' = AfterStep /\ UNCHANGED result
             ELSE result' = o.result /\ gdb' = "except" /\ UNCHANGED exception
    BY <1>2 DEF GdbExecute
  <2>2. /\ gdb = "execute" /\ snapshot \in Addr /\ snapshot' = 0
        /\ UNCHANGED <<lock, irq, byte, main, status, wshut, packet, bps,
                       reply>>
    BY <1>2 DEF GdbExecute, Handler, TypeOK
  <2>3. pc' \in Addr /\ o.result \in Results /\ mode' \in Modes
    BY <2>1, <2>2, OutcomeFields DEF TypeOK
  <2>4. TypeOK'
    BY <2>1, <2>2, <2>3, ZeroAddr DEF TypeOK, GdbLabels, Exceptions
  <2>. QED
    BY <2>1, <2>2, <2>4
<1>3. CASE GdbException
  BY <1>3, ModeAssumption, ExceptionType
     DEF GdbException, Handler, TypeOK, GdbLabels, Results
<1>4. CASE GdbResetPc
  BY <1>4, ZeroAddr
     DEF GdbResetPc, Handler, TypeOK, GdbLabels, Results, Exceptions
<1>. QED
  BY <1>1, <1>2, <1>3, <1>4, OverrunStep

\* The tail of a step or of a turn of cont's loop.
LEMMA StopStep ==
  ASSUME IInv, GdbReadPc \/ GdbCheck \/ GdbReply
  PROVE  IInv'
<1>. USE DEF IInv, LockInv, PacketInv, ResetInv, ExitInv, SnapshotFresh,
             StopTruthful, StepLabels, GdbLocked, IrqLocked, irqVars, Handler, target
<1>1. CASE GdbReadPc
  BY <1>1 DEF GdbReadPc, TypeOK, GdbLabels
<1>2. CASE GdbCheck
  BY <1>2, ZeroAddr DEF GdbCheck, TypeOK, GdbLabels
<1>3. CASE GdbReply
  BY <1>3, ReplyType DEF GdbReply, TypeOK, GdbLabels
<1>. QED
  BY <1>1, <1>2, <1>3

\* The handlers that do not run the processor.
LEMMA HandlerStep ==
  ASSUME IInv, \/ GdbReadRegs \/ GdbReadCpsr \/ GdbWriteRegs \/ GdbWriteCpsr
               \/ GdbBreakpoint \/ GdbInform \/ GdbKill \/ GdbExit
  PROVE  IInv'
<1>. USE DEF IInv, LockInv, PacketInv, ResetInv, ExitInv, SnapshotFresh,
             StopTruthful, StepLabels, GdbLocked, IrqLocked, irqVars, Handler, target, cpu
<1>1. CASE GdbReadRegs
  BY <1>1 DEF GdbReadRegs, TypeOK, GdbLabels
<1>2. CASE GdbReadCpsr
  BY <1>2, ReplyType, ZeroAddr DEF GdbReadCpsr, TypeOK, GdbLabels
<1>3. CASE GdbWriteRegs
  BY <1>3, PacketFields DEF GdbWriteRegs, TypeOK, GdbLabels
<1>4. CASE GdbWriteCpsr
  BY <1>4, PacketFields, ReplyType DEF GdbWriteCpsr, TypeOK, GdbLabels
<1>5. CASE GdbBreakpoint
  BY <1>5, PacketFields, ReplyType DEF GdbBreakpoint, TypeOK, GdbLabels
<1>6. CASE GdbInform
  BY <1>6, ReplyType DEF GdbInform, TypeOK, GdbLabels
<1>7. CASE GdbKill \/ GdbExit
  BY <1>7 DEF GdbKill, GdbExit, TypeOK, GdbLabels, session
<1>. QED
  BY <1>1, <1>2, <1>3, <1>4, <1>5, <1>6, <1>7

\* The irq thread changes the processor only while no handler can look.
LEMMA IrqStep ==
  ASSUME IInv, IrqException \/ IrqResetPc
  PROVE  IInv'
<1>. USE DEF IInv, LockInv, PacketInv, ResetInv, ExitInv, SnapshotFresh,
             StopTruthful, StepLabels, GdbLocked, IrqLocked, gdbVars, ArmFreed, IrqDies
<1>1. CASE IrqException
  BY <1>1, ModeAssumption DEF IrqException, TypeOK, IrqLabels
<1>2. CASE IrqResetPc
  BY <1>2, ZeroAddr DEF IrqResetPc, TypeOK, IrqLabels
<1>. QED
  BY <1>1, <1>2

LEMMA MainStep ==
  ASSUME IInv, MainCode
  PROVE  IInv'
BY DEF MainCode, MainJoin, MainDestroy, MainReturn, IInv, TypeOK, LockInv,
       PacketInv, ResetInv, ExitInv, SnapshotFresh, StopTruthful, StepLabels, GdbLocked,
       IrqLocked, gdbVars, irqVars, target, MainLabels, Alive

LEMMA Invariance == IInv /\ [Next]_vars => IInv'
<1>. SUFFICES ASSUME IInv, [Next]_vars
              PROVE  IInv'
  OBVIOUS
<1>1. CASE UNCHANGED vars \/ Ended
  BY <1>1 DEF Ended, vars, IInv, TypeOK, LockInv, PacketInv, ResetInv, ExitInv,
              SnapshotFresh, StopTruthful, StepLabels, GdbLocked, IrqLocked
<1>2. CASE Next
  BY <1>1, <1>2, EnvironmentStep, MutexStep, InstructionStep, StopStep,
     HandlerStep, IrqStep, MainStep DEF Next, GdbCode, IrqCode
<1>. QED
  BY <1>1, <1>2

THEOREM Inductive == Spec => []IInv
BY InitInv, Invariance, PTL DEF Spec

\* The processor, the threads and the mutex keep their types.
THEOREM TypeCorrect == Spec => []TypeOK
<1>1. IInv => TypeOK
  BY DEF IInv
<1>. QED
  BY <1>1, Inductive, PTL

\* What cont and read_general_registers have read of the processor has not
\* changed when they use it, whatever exceptions arrive meanwhile.
THEOREM SnapshotsStayFresh == Spec => []SnapshotFresh
<1>1. IInv => SnapshotFresh
  BY DEF IInv
<1>. QED
  BY <1>1, Inductive, PTL

\* gdb_send_stop_reason only reports a stop that is one.
THEOREM StopsAreTruthful == Spec => []StopTruthful
<1>1. IInv => StopTruthful
  BY DEF IInv
<1>. QED
  BY <1>1, Inductive, PTL

\* The irq thread, which nobody waits for, cannot use the freed processor before
\* the gdb session is over.
THEOREM FreedUnusedInSession == Spec => []FreedOnlyAtExit
<1>1. IInv => FreedOnlyAtExit
  BY DEF IInv, ExitInv, FreedOnlyAtExit
<1>. QED
  BY <1>1, Inductive, PTL

-----------------------------------------------------------------------------
(* The threads implement the atomic target *)

\* The operators of TargetOutcomes mean the same on both sides.
LEMMA SameOperators ==
  /\ Abstract!Packets = Packets
  /\ Abstract!NoPacket = NoPacket
  /\ \A k : Abstract!Plain(k) = Plain(k)
  /\ \A e : Abstract!Stopped(e) = Stopped(e)
  /\ \A a, m : Abstract!Registers(a, m) = Registers(a, m)
  /\ \A r : Abstract!ExceptionOf(r) = ExceptionOf(r)
  /\ \A o, m : Abstract!NewMode(o, m) = NewMode(o, m)
<1>1. \A r : Abstract!ExceptionOf(r) = ExceptionOf(r)
  BY DEF Abstract!ExceptionOf, ExceptionOf
<1>2. \A e : Abstract!StopReason(e) = StopReason(e)
  BY DEF Abstract!StopReason, StopReason
<1>3. Abstract!Packets = Packets
  BY DEF Abstract!Packets, Packets, Abstract!PlainOps, PlainOps,
         Abstract!Addr, Addr
<1>4. /\ Abstract!NoPacket = NoPacket
      /\ \A k : Abstract!Plain(k) = Plain(k)
      /\ \A e : Abstract!Stopped(e) = Stopped(e)
      /\ \A a, m : Abstract!Registers(a, m) = Registers(a, m)
      /\ \A o, m : Abstract!NewMode(o, m) = NewMode(o, m)
  BY <1>2 DEF Abstract!NoPacket, NoPacket, Abstract!Plain, Plain,
              Abstract!Stopped, Stopped, Abstract!Registers, Registers,
              Abstract!NewMode, NewMode
<1>. QED
  BY <1>1, <1>3, <1>4

LEMMA PlainExceptions ==
  ExceptionOf("NONE") = "NONE" /\ ExceptionOf("RESET") = "RESET"
BY DEF ExceptionOf

LEMMA RefinesInit == Init => Abstract!DInit
BY SameOperators
   DEF Init, Abstract!DInit, PcNow, ModeNow, ExceptionNow, PhaseNow,
       PacketNow, ReplyNow, Resetting, Committed, Stepped, GdbLocked

\* Steps of the gdb thread that the client and the target cannot tell.
LEMMA RefinesGdbSilent ==
  ASSUME IInv,
         \/ Overrun
         \/ GdbAccept \/ GdbEof \/ GdbExit \/ GdbUnlock
         \/ GdbFetch \/ GdbException \/ GdbResetPc
         \/ GdbReadPc \/ GdbCheck \/ GdbReply \/ GdbReadRegs \/ GdbWriteCpsr
  PROVE  UNCHANGED Abstract!dvars
<1>. USE DEF Abstract!dvars, PcNow, ModeNow, ExceptionNow, PhaseNow,
             PacketNow, ReplyNow, Resetting, Committed, Stepped, GdbLocked,
             IInv, LockInv, IrqLocked, target, cpu, session, irqVars, Handler
<1>1. CASE GdbAccept \/ GdbEof \/ GdbExit \/ GdbUnlock
  BY <1>1 DEF GdbAccept, GdbEof, GdbExit, GdbUnlock
<1>2. CASE GdbFetch
  BY <1>2 DEF GdbFetch, Overrun, gdbVars
<1>3. CASE GdbException
  BY <1>3 DEF GdbException, AfterStep, PacketInv, StepLabels
<1>4. CASE GdbResetPc
  BY <1>4, PlainExceptions DEF GdbResetPc, AfterStep, PacketInv, ResetInv, StepLabels
<1>5. CASE GdbReadPc
  BY <1>5 DEF GdbReadPc, PacketInv
<1>6. CASE GdbCheck
  BY <1>6 DEF GdbCheck, PacketInv, SnapshotFresh
<1>7. CASE GdbReply
  BY <1>7 DEF GdbReply
<1>8. CASE GdbReadRegs
  BY <1>8 DEF GdbReadRegs
<1>9. CASE GdbWriteCpsr
  BY <1>9 DEF GdbWriteCpsr
<1>10. CASE Overrun
  BY <1>10 DEF Overrun, gdbVars
<1>. QED
  BY <1>10, <1>1, <1>2, <1>3, <1>4, <1>5, <1>6, <1>7, <1>8, <1>9

LEMMA RefinesPacket ==
  ASSUME IInv, NEW p \in Packets, GdbPacket(p)
  PROVE  Abstract!DNext \/ UNCHANGED Abstract!dvars
<1>. USE DEF PcNow, ModeNow, ExceptionNow, PhaseNow, PacketNow, ReplyNow,
             Resetting, Committed, Stepped, GdbLocked, GdbPacket, target, cpu,
             irqVars, gdbVars
<1>1. CASE wshut
  BY <1>1 DEF Abstract!dvars
<1>2. CASE ~wshut
  <2>1. Abstract!Ask(p)
    BY <1>2, SameOperators DEF Abstract!Ask, Abstract!cpu
  <2>. QED
    BY <2>1, SameOperators DEF Abstract!DNext
<1>. QED
  BY <1>1, <1>2

LEMMA RefinesLock ==
  ASSUME IInv, GdbLock
  PROVE  Abstract!DNext
<1>1. Abstract!Begin
  BY DEF Abstract!Begin, Abstract!cpu, PcNow, ModeNow, ExceptionNow, PhaseNow,
         PacketNow, ReplyNow, Resetting, Committed, Stepped, GdbLocked,
         GdbLock, Entry, IInv, LockInv, PacketInv, IrqLocked, target, cpu,
         session, irqVars
<1>. QED
  BY <1>1 DEF Abstract!DNext

\* A step or a turn of cont takes effect when its instruction executes.
LEMMA RefinesExecute ==
  ASSUME IInv, GdbExecute, ~Overrun
  PROVE  Abstract!DNext
<1>. DEFINE last == packet.op = "s" \/ PcNow' \in bps \/ ExceptionNow' # "NONE"
<1>1. PICK o \in Outcomes[snapshot] :
        /\ pc' = o.pc
        /\ mode' = NewMode(o, mode)
        /\ IF o.result = "NONE"
           THEN exception' = "NONE" /\ gdb' = AfterStep /\ UNCHANGED result
           ELSE result' = o.result /\ gdb' = "except" /\ UNCHANGED exception
  BY DEF GdbExecute
<1>2. /\ gdb = "execute" /\ packet.op \in {"s", "c"}
      /\ irq # "resetPc"
      /\ UNCHANGED <<lock, irq, byte, main, status, wshut, packet, bps, reply>>
  BY DEF GdbExecute, Handler, irqVars, IInv, PacketInv, StepLabels, LockInv,
         GdbLocked, IrqLocked
<1>3. PcNow = snapshot /\ ModeNow = mode
  BY <1>2 DEF PcNow, ModeNow, Resetting
<1>4. /\ PhaseNow = "serving" /\ PacketNow = packet
      /\ ReplyNow = reply
  BY <1>2 DEF PhaseNow, PacketNow, ReplyNow, Committed, Stepped, GdbLocked
<1>5. Abstract!Execute(o)
  BY <1>1, <1>2, <1>3, SameOperators, PlainExceptions
     DEF Abstract!Execute, PcNow, ModeNow, ExceptionNow, Resetting, AfterStep
<1>6. ExceptionNow' = ExceptionOf(o.result)
  BY <1>1, <1>2, PlainExceptions DEF ExceptionNow, AfterStep
<1>7. CASE last
  <2>1. Committed'
    BY <1>1, <1>2, <1>7 DEF Committed, Stepped, AfterStep
  <2>2. /\ PhaseNow' = "idle" /\ PacketNow' = NoPacket
        /\ ReplyNow' = Stopped(ExceptionNow')
    BY <1>1, <1>2, <2>1
       DEF PhaseNow, PacketNow, ReplyNow, GdbLocked, AfterStep
  <2>3. Abstract!Finish(Stopped(ExceptionNow'))
    BY <2>2, SameOperators DEF Abstract!Finish
  <2>4. CASE packet.op = "s"
    <3>1. Abstract!ServeStep
      BY <1>3, <1>4, <1>5, <1>6, <2>3, <2>4, SameOperators
         DEF Abstract!ServeStep, Abstract!Serving
    <3>. QED
      BY <3>1 DEF Abstract!DNext
  <2>5. CASE packet.op = "c"
    <3>1. PcNow' \in bps' \/ ExceptionNow' # "NONE"
      BY <1>2, <1>7, <2>5
    <3>2. Abstract!ServeContinue
      BY <1>3, <1>4, <1>5, <2>3, <2>5, <3>1, SameOperators, <1>2
         DEF Abstract!ServeContinue, Abstract!Serving
    <3>. QED
      BY <3>2 DEF Abstract!DNext
  <2>. QED
    BY <1>2, <2>4, <2>5
<1>8. CASE ~last
  <2>1. packet.op = "c" /\ gdb' \in {"except", "readPc"} /\ ~Committed'
    BY <1>1, <1>2, <1>8 DEF Committed, Stepped, AfterStep
  <2>2. /\ PhaseNow' = "serving" /\ PacketNow' = packet
        /\ ReplyNow' = reply
    BY <1>2, <2>1 DEF PhaseNow, PacketNow, ReplyNow, GdbLocked
  <2>3. Abstract!ServeContinue
    BY <1>2, <1>3, <1>4, <1>5, <1>8, <2>1, <2>2
       DEF Abstract!ServeContinue, Abstract!Serving
  <2>. QED
    BY <2>3 DEF Abstract!DNext
<1>. QED
  BY <1>7, <1>8

\* The other handlers take effect in one access.
LEMMA RefinesHandlers ==
  ASSUME IInv,
         GdbReadCpsr \/ GdbWriteRegs \/ GdbBreakpoint \/ GdbInform \/ GdbKill
  PROVE  Abstract!DNext
<1>. USE SameOperators
     DEF PcNow, ModeNow, ExceptionNow, PhaseNow, PacketNow, ReplyNow,
         Resetting, Committed, Stepped, GdbLocked, IInv, LockInv, IrqLocked,
         target, cpu, irqVars, Handler, Abstract!Serving, Abstract!Finish,
         Abstract!cpu
<1>1. CASE GdbReadCpsr
  <2>1. packet.op = "g"
    BY <1>1 DEF GdbReadCpsr, PacketInv
  <2>2. Abstract!ServeRead
    BY <1>1, <2>1 DEF GdbReadCpsr, SnapshotFresh, Abstract!ServeRead
  <2>. QED
    BY <2>2 DEF Abstract!DNext
<1>2. CASE GdbWriteRegs
  <2>1. Abstract!ServeWrite
    BY <1>2 DEF GdbWriteRegs, PacketInv, Abstract!ServeWrite
  <2>. QED
    BY <2>1 DEF Abstract!DNext
<1>3. CASE GdbBreakpoint
  <2>1. Abstract!ServeBreakpoint
    BY <1>3 DEF GdbBreakpoint, Abstract!ServeBreakpoint
  <2>. QED
    BY <2>1 DEF Abstract!DNext
<1>4. CASE GdbInform
  <2>1. Abstract!ServeOther
    BY <1>4 DEF GdbInform, Abstract!ServeOther
  <2>. QED
    BY <2>1 DEF Abstract!DNext
<1>5. CASE GdbKill
  <2>1. Abstract!ServeOther
    BY <1>5 DEF GdbKill, PacketInv, Abstract!ServeOther
  <2>. QED
    BY <2>1 DEF Abstract!DNext
<1>. QED
  BY <1>1, <1>2, <1>3, <1>4, <1>5


\* The irq thread: an exception is taken when its cpsr is written.
LEMMA RefinesIrq ==
  ASSUME IInv, IrqCode
  PROVE  Abstract!DNext \/ UNCHANGED Abstract!dvars
<1>. USE DEF PcNow, ModeNow, ExceptionNow, PhaseNow, PacketNow, ReplyNow,
             Resetting, Committed, Stepped, GdbLocked, IInv, LockInv,
             IrqLocked, target, gdbVars
<1>1. CASE IrqLock \/ IrqUnlock
  BY <1>1 DEF IrqLock, IrqUnlock, Abstract!dvars
<1>2. CASE IrqException
  <2>1. CASE IrqDies
    BY <1>2, <2>1 DEF IrqException, IrqDies, ArmFreed, Abstract!dvars
  <2>2. CASE ~IrqDies /\ byte = "RESET"
    <3>1. Abstract!Reset
      BY <1>2, <2>2 DEF IrqException, Abstract!Reset
    <3>. QED
      BY <3>1 DEF Abstract!DNext
  <2>3. CASE ~IrqDies /\ byte # "RESET"
    BY <1>2, <2>3 DEF IrqException, Abstract!dvars
  <2>. QED
    BY <2>1, <2>2, <2>3
<1>3. CASE IrqResetPc
  BY <1>3 DEF IrqResetPc, ResetInv, Abstract!dvars
<1>. QED
  BY <1>1, <1>2, <1>3 DEF IrqCode

LEMMA RefinesOther ==
  ASSUME IInv,
         \/ IrqAccept \/ IrqDisconnect \/ IrqReadError
         \/ (\E b \in Bytes : IrqRead(b))
         \/ MainCode \/ Ended \/ UNCHANGED vars
  PROVE  UNCHANGED Abstract!dvars
BY DEF IrqAccept, IrqDisconnect, IrqReadError, IrqRead, MainCode, MainJoin,
       MainDestroy, MainReturn, Ended, vars, target, gdbVars, irqVars,
       Abstract!dvars, PcNow, ModeNow, ExceptionNow, PhaseNow, PacketNow,
       ReplyNow, Resetting, Committed, Stepped

LEMMA RefinesNext == IInv /\ [Next]_vars => [Abstract!DNext]_(Abstract!dvars)
<1>. SUFFICES ASSUME IInv, [Next]_vars
              PROVE  Abstract!DNext \/ UNCHANGED Abstract!dvars
  OBVIOUS
<1>. QED
  BY RefinesGdbSilent, RefinesPacket, RefinesLock, RefinesExecute,
     RefinesHandlers, RefinesIrq, RefinesOther
     DEF Next, GdbCode, Environment

\* The three threads under the mutex are, for a client, one processor that
\* executes whole instructions, serves one request at a time, and takes
\* exceptions between two requests only.
THEOREM ImplementsTarget == Spec => RefinesTarget
BY Inductive, RefinesInit, RefinesNext, PTL
   DEF Spec, RefinesTarget, Abstract!DSpec
===============================================================================
