---------------------------- MODULE BreakpointSet ----------------------------
(***************************************************************************)
(* What the breakpoint table of gdb_protocol.c promises to its callers     *)
(* (set_breakpoint, remove_breakpoint and cont): a set of addresses of     *)
(* bounded size, changed by one request at a time, each request answered   *)
(* exactly once and from the set as it was when the request was served.    *)
(***************************************************************************)
EXTENDS Naturals, FiniteSets

CONSTANTS
  Addr,           \* the addresses a request may name
  MaxBreakpoints  \* MAX_BREAKPOINTS_NUMBER

VARIABLES
  bps,      \* the set of addresses with a breakpoint
  request,  \* the request being served, or NoRequest
  answer    \* the answer to the last request served

svars == <<bps, request, answer>>

\* "Z" and "z" are the packets; "hit" is the lookup cont makes after a step.
\* type is the first field of the packet, 0 being a software breakpoint.
Requests ==
  [op : {"Z", "z"}, type : {0, 1}, address : Addr]
    \cup [op : {"hit"}, type : {0}, address : Addr]

NoRequest == [op |-> "none"]

Answers == {"OK", "E03", "E04", "E05", "hit", "miss", "none"}

SInit ==
  /\ bps = {}
  /\ request = NoRequest
  /\ answer = "none"

Ask(r) ==
  /\ request = NoRequest
  /\ request' = r
  /\ UNCHANGED <<bps, answer>>

Served(newBps, newAnswer) ==
  /\ bps' = newBps
  /\ answer' = newAnswer
  /\ request' = NoRequest

ServeUnsupported ==
  /\ request.op \in {"Z", "z"}
  /\ request.type # 0
  /\ Served(bps, "E03")

\* A full table refuses every address, one that already has a breakpoint too.
ServeSet ==
  /\ request.op = "Z"
  /\ request.type = 0
  /\ IF Cardinality(bps) < MaxBreakpoints
     THEN Served(bps \cup {request.address}, "OK")
     ELSE Served(bps, "E04")

ServeRemove ==
  /\ request.op = "z"
  /\ request.type = 0
  /\ IF request.address \in bps
     THEN Served(bps \ {request.address}, "OK")
     ELSE Served(bps, "E05")

ServeHit ==
  /\ request.op = "hit"
  /\ Served(bps, IF request.address \in bps THEN "hit" ELSE "miss")

SNext ==
  \/ \E r \in Requests : Ask(r)
  \/ ServeUnsupported
  \/ ServeSet
  \/ ServeRemove
  \/ ServeHit

SSpec == SInit /\ [][SNext]_svars
===============================================================================
