------------------------------ MODULE DebugTarget ------------------------------
(***************************************************************************)
(* What the simulator promises to a gdb client and to the senders of       *)
(* interrupts: a processor that executes whole instructions, one debugger  *)
(* request served at a time from a state nothing else changes meanwhile,   *)
(* and interrupts that are taken whole and between two requests.           *)
(***************************************************************************)
EXTENDS TargetOutcomes

VARIABLES
  pc, mode,   \* the processor
  bps,        \* the breakpoints
  exception,  \* the exception of the last step (target_exception)
  phase,      \* "idle", "asked" (not begun) or "serving"
  packet,     \* the request, when there is one
  reply       \* the reply to the request, or to the last one

dvars == <<pc, mode, bps, exception, phase, packet, reply>>
cpu == <<pc, mode>>

DInit ==
  /\ pc = 0
  /\ mode = Svc
  /\ bps = {}
  /\ exception = "NONE"
  /\ phase = "idle"
  /\ packet = NoPacket
  /\ reply = Plain("none")

Ask(p) ==
  /\ phase = "idle"
  /\ IF p.op = "unsupported"
     THEN reply' = Plain("empty") /\ UNCHANGED <<phase, packet>>
     ELSE phase' = "asked" /\ packet' = p /\ reply' = Plain("none")
  /\ UNCHANGED <<cpu, bps, exception>>

Begin ==
  /\ phase = "asked"
  /\ phase' = "serving"
  /\ UNCHANGED <<cpu, bps, exception, packet, reply>>

Finish(r) ==
  /\ phase' = "idle"
  /\ packet' = NoPacket
  /\ reply' = r

Serving(op) == phase = "serving" /\ packet.op = op

\* One whole instruction: an instruction that reports RESET resets.
Execute(o) ==
  /\ IF o.result = "RESET"
     THEN pc' = 0 /\ mode' = Svc
     ELSE pc' = o.pc /\ mode' = NewMode(o, mode)
  /\ exception' = ExceptionOf(o.result)
  /\ UNCHANGED bps

ServeStep ==
  /\ Serving("s")
  /\ \E o \in Outcomes[pc] :
       /\ Execute(o)
       /\ Finish(Stopped(ExceptionOf(o.result)))

\* A step of a continue: it is the last one when it reports an exception or
\* gets to a breakpoint, and only then.
ServeContinue ==
  /\ Serving("c")
  /\ \E o \in Outcomes[pc] :
       /\ Execute(o)
       /\ IF pc' \in bps \/ exception' # "NONE"
          THEN Finish(Stopped(exception'))
          ELSE UNCHANGED <<phase, packet, reply>>

ServeRead ==
  /\ Serving("g")
  /\ Finish(Registers(pc, mode))
  /\ UNCHANGED <<cpu, bps, exception>>

ServeWrite ==
  /\ Serving("G")
  /\ pc' = packet.pc
  /\ mode' = packet.mode
  /\ Finish(Plain("OK"))
  /\ UNCHANGED <<bps, exception>>

ServeBreakpoint ==
  /\ \/ /\ Serving("Z")
        /\ bps' = bps \cup {packet.address}
        /\ Finish(Plain("OK"))
     \/ /\ Serving("z")
        /\ bps' = bps \ {packet.address}
        /\ Finish(Plain(IF packet.address \in bps THEN "OK" ELSE "E05"))
  /\ UNCHANGED <<cpu, exception>>

\* A kill is not answered.
ServeOther ==
  /\ \/ Serving("?") /\ Finish(Stopped(exception))
     \/ Serving("q") /\ Finish(Plain("info"))
     \/ Serving("k") /\ Finish(Plain("none"))
  /\ UNCHANGED <<cpu, bps, exception>>

\* An interrupt is taken whole, and never while a request is served.
Reset ==
  /\ phase # "serving"
  /\ pc' = 0
  /\ mode' = Svc
  /\ UNCHANGED <<bps, exception, phase, packet, reply>>

DNext ==
  \/ \E p \in Packets : Ask(p)
  \/ Begin
  \/ ServeStep \/ ServeContinue \/ ServeRead \/ ServeWrite
  \/ ServeBreakpoint \/ ServeOther
  \/ Reset

DSpec == DInit /\ [][DNext]_dvars
===============================================================================
