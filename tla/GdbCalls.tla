------------------------------- MODULE GdbCalls -------------------------------
(***************************************************************************)
(* What the packets of the gdb protocol are for: calls.  The client asks,  *)
(* the handler runs once, the client gets what it returned, and only then  *)
(* asks again.  Requests and replies are numbered in the order of the      *)
(* requests, which the packets themselves are not.                         *)
(***************************************************************************)
EXTENDS Naturals

CONSTANT MaxRequests  \* bound on the requests of a session

VARIABLES
  asked,    \* the requests the client has made
  handled,  \* the runs of a handler
  accepted  \* the request whose reply the client has last taken

cvars == <<asked, handled, accepted>>

CInit == asked = 0 /\ handled = 0 /\ accepted = 0

CAsk ==
  /\ accepted = asked
  /\ asked < MaxRequests
  /\ asked' = asked + 1
  /\ UNCHANGED <<handled, accepted>>

CHandle ==
  /\ handled < asked
  /\ handled' = handled + 1
  /\ UNCHANGED <<asked, accepted>>

CAccept ==
  /\ accepted < handled
  /\ accepted' = handled
  /\ UNCHANGED <<asked, handled>>

CNext == CAsk \/ CHandle \/ CAccept

CSpec == CInit /\ [][CNext]_cvars
===============================================================================
