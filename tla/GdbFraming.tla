------------------------------ MODULE GdbFraming ------------------------------
(***************************************************************************)
(* The framing of packets: the scanner of scanner.l, which cuts what gdb   *)
(* sends into acknowledgements, requests for retransmission, packets and   *)
(* characters that are none of these, and the functions of gdb_protocol.c  *)
(* that check, acknowledge, answer and retransmit.  The line may damage a  *)
(* packet, so that its checksum is wrong, or bring characters nobody sent. *)
(* The client is gdb: it sends a packet until it is acknowledged, and asks *)
(* for the reply until it is right.                                        *)
(***************************************************************************)
EXTENDS Naturals, Sequences

CONSTANTS
  MaxRequests,   \* bound on the requests of a session
  MaxDamage,     \* bound on the packets the line damages
  MaxNoise,      \* bound on the characters the line brings
  MaxErrorSize   \* MAX_ERROR_SIZE

ASSUME BoundsAssumption ==
  MaxRequests \in Nat /\ MaxDamage \in Nat /\ MaxNoise \in Nat
ASSUME ErrorSizeAssumption == MaxErrorSize \in Nat /\ MaxErrorSize >= 3

VARIABLES
  toServer,  \* what the server has not read yet
  toClient,  \* what the client has not read yet
  len,       \* the characters in the error buffer
  sent,      \* the number of the last reply, 0 for none: what is in packet
  server,    \* "scan", "handle" while a handler runs, or "closed"
  request,   \* the number of the request being handled
  handled,   \* the runs of a handler
  client,    \* what the client waits for, "idle" for nothing, or "closed"
  asked,     \* the number of the request the client is at
  accepted,  \* the number of the reply it has last taken
  damage, noise  \* what the line has done

vars == <<toServer, toClient, len, sent, server, request, handled,
          client, asked, accepted, damage, noise>>
serverVars == <<len, sent, server, request, handled>>
clientVars == <<client, asked, accepted>>
lineVars   == <<damage, noise>>

\* What the scanner recognises.
Token(kind) == [kind |-> kind, number |-> 0, good |-> TRUE]
Ack    == Token("ack")
Nack   == Token("nack")
Noise  == Token("noise")
Eof    == Token("eof")
Packet(n) == [kind |-> "packet", number |-> n, good |-> TRUE]
Spoilt(n) == [kind |-> "packet", number |-> n, good |-> FALSE]

Init ==
  /\ toServer = << >> /\ toClient = << >>
  /\ len = 0 /\ sent = 0
  /\ server = "scan" /\ request = 0 /\ handled = 0
  /\ client = "idle" /\ asked = 0 /\ accepted = 0
  /\ damage = 0 /\ noise = 0

-----------------------------------------------------------------------------
(* The server *)

\* The next token, of one kind; every rule but the last starts with
\* handle_error.
Scan(kind) ==
  /\ server = "scan"
  /\ toServer # << >>
  /\ Head(toServer).kind = kind
  /\ toServer' = Tail(toServer)
  /\ UNCHANGED <<clientVars, lineVars>>

\* What handle_error sends.
Complaint == IF len > 0 THEN <<Nack>> ELSE << >>

\* handle_error, and what the rule sends after it.
handle_error(then) ==
  /\ toClient' = toClient \o Complaint \o then
  /\ len' = 0

\* gdb_transmit_packet: nothing before the first reply, its length being 0.
LastPacket == IF sent = 0 THEN << >> ELSE <<Packet(sent)>>

\* The rule of "+".
ScanAck ==
  /\ Scan("ack")
  /\ handle_error(<< >>)
  /\ UNCHANGED <<sent, server, request, handled>>

\* Mutant: the request for retransmission runs the handler again.
ScanNackAgain ==
  /\ Scan("nack")
  /\ handle_error(<< >>)
  /\ request' = sent
  /\ server' = "handle"
  /\ UNCHANGED <<sent, handled>>

\* The rule of "-".
ScanNack ==
  /\ Scan("nack")
  /\ handle_error(LastPacket)
  /\ UNCHANGED <<sent, server, request, handled>>

\* Mutant: the sum goes one character too far, and comes out wrong at times.
RefusePacketAnyhow ==
  /\ Scan("packet")
  /\ handle_error(<<Nack>>)
  /\ UNCHANGED <<sent, server, request, handled>>

\* gdb_packet_analysis, the checksum being wrong.
RefusePacket ==
  /\ Scan("packet")
  /\ ~Head(toServer).good
  /\ handle_error(<<Nack>>)
  /\ UNCHANGED <<sent, server, request, handled>>

\* Mutant: a packet that follows an error is left to its retransmission.
TakePacketClean ==
  /\ Scan("packet")
  /\ Head(toServer).good
  /\ IF len > 0
     THEN handle_error(<< >>) /\ UNCHANGED <<request, server>>
     ELSE /\ handle_error(<<Ack>>)
          /\ request' = Head(toServer).number
          /\ server' = "handle"
  /\ UNCHANGED <<sent, handled>>

\* gdb_packet_analysis, up to the call of the handler.
TakePacket ==
  /\ Scan("packet")
  /\ Head(toServer).good
  /\ handle_error(<<Ack>>)
  /\ request' = Head(toServer).number
  /\ server' = "handle"
  /\ UNCHANGED <<sent, handled>>

\* A handler, which ends with gdb_send_buffer, that of kill excepted; a packet
\* without a handler gets an empty reply in the same way.
Handle ==
  /\ server = "handle"
  /\ handled' = handled + 1
  /\ sent' = request
  /\ toClient' = Append(toClient, Packet(request))
  /\ server' = "scan"
  /\ UNCHANGED <<toServer, len, request, clientVars, lineVars>>

\* Mutant: no room is kept for the final zero.
NoRoomLate == len > MaxErrorSize - 1

\* The test of add_character_to_error.
NoRoom == len > MaxErrorSize - 2

\* The rule of any other character: add_character_to_error.
ScanNoise ==
  /\ Scan("noise")
  /\ IF NoRoom
     THEN len' = 1 /\ toClient' = toClient \o Complaint
     ELSE len' = len + 1 /\ UNCHANGED toClient
  /\ UNCHANGED <<sent, server, request, handled>>

ScanEof ==
  /\ Scan("eof")
  /\ handle_error(<< >>)
  /\ server' = "closed"
  /\ UNCHANGED <<sent, request, handled>>

-----------------------------------------------------------------------------
(* The client *)

Send(tokens) == toServer' = toServer \o tokens

Ask ==
  /\ client = "idle"
  /\ asked < MaxRequests
  /\ asked' = asked + 1
  /\ Send(<<Packet(asked + 1)>>)
  /\ client' = "ack"
  /\ UNCHANGED <<toClient, accepted, serverVars, lineVars>>

Close ==
  /\ client = "idle"
  /\ Send(<<Eof>>)
  /\ client' = "closed"
  /\ UNCHANGED <<toClient, asked, accepted, serverVars, lineVars>>

Read ==
  /\ toClient # << >>
  /\ toClient' = Tail(toClient)
  /\ UNCHANGED <<serverVars, lineVars>>

\* It waits for the acknowledgement; a packet that comes instead is dropped.
ReadAck ==
  /\ client = "ack"
  /\ Read
  /\ \/ /\ Head(toClient) = Ack
        /\ client' = "reply"
        /\ UNCHANGED toServer
     \/ /\ Head(toClient) = Nack
        /\ Send(<<Packet(asked)>>)
        /\ UNCHANGED client
     \/ /\ Head(toClient).kind = "packet"
        /\ Send(<<Ack>>)
        /\ UNCHANGED client
  /\ UNCHANGED <<asked, accepted>>

\* It waits for the reply, and skips what is not a packet.
ReadReply ==
  /\ client = "reply"
  /\ Read
  /\ \/ /\ Head(toClient).kind = "packet" /\ Head(toClient).good
        /\ accepted' = Head(toClient).number
        /\ Send(<<Ack>>)
        /\ client' = "idle"
     \/ /\ Head(toClient).kind = "packet" /\ ~Head(toClient).good
        /\ Send(<<Nack>>)
        /\ UNCHANGED <<client, accepted>>
     \/ /\ Head(toClient).kind # "packet"
        /\ UNCHANGED <<toServer, client, accepted>>
  /\ UNCHANGED asked

-----------------------------------------------------------------------------
(* The line *)

Damaged(channel, i) == [channel EXCEPT ![i] = Spoilt(@.number)]

Damage ==
  /\ damage < MaxDamage
  /\ damage' = damage + 1
  /\ \/ \E i \in DOMAIN toServer :
          /\ toServer[i].kind = "packet"
          /\ toServer' = Damaged(toServer, i)
          /\ UNCHANGED toClient
     \/ \E i \in DOMAIN toClient :
          /\ toClient[i].kind = "packet"
          /\ toClient' = Damaged(toClient, i)
          /\ UNCHANGED toServer
  /\ UNCHANGED <<serverVars, clientVars, noise>>

BringNoise ==
  /\ client # "closed"
  /\ noise < MaxNoise
  /\ noise' = noise + 1
  /\ Send(<<Noise>>)
  /\ UNCHANGED <<toClient, serverVars, clientVars, damage>>

\* The session is over.
Ended == server = "closed" /\ UNCHANGED vars

-----------------------------------------------------------------------------
Server ==
  \/ ScanAck \/ ScanNack \/ RefusePacket \/ TakePacket \/ ScanNoise \/ ScanEof
  \/ Handle

Client == ReadAck \/ ReadReply

Next == Server \/ Client \/ Ask \/ Close \/ Damage \/ BringNoise \/ Ended

Spec == Init /\ [][Next]_vars

\* The scanner reads what there is to read, and so does a client that waits.
FairSpec == Spec /\ WF_vars(Server) /\ WF_vars(Client)

-----------------------------------------------------------------------------
(* Properties *)

Tokens ==
  { Ack, Nack, Noise, Eof }
    \cup [kind : {"packet"}, number : 1 .. MaxRequests, good : BOOLEAN]

\* The error buffer has room for the zero handle_error puts at its end.
TypeOK ==
  /\ toServer \in Seq(Tokens) /\ toClient \in Seq(Tokens)
  /\ len \in 0 .. MaxErrorSize - 1
  /\ {sent, request, asked, accepted} \subseteq 0 .. MaxRequests
  /\ handled \in Nat
  /\ server \in {"scan", "handle", "closed"}
  /\ client \in {"idle", "ack", "reply", "closed"}
  /\ damage \in 0 .. MaxDamage /\ noise \in 0 .. MaxNoise

\* A line that only brings characters of its own can make a handler run again
\* (the complaint about them comes just before the acknowledgement of the
\* packet that follows them, and the client takes it for a refusal of that
\* packet), but the handlers still run in the order of the requests, and none
\* is left out.
HandledInOrder ==
  [][damage = 0 /\ server = "handle" /\ server' = "scan"
       => request \in {sent, sent + 1}]_vars

\* As long as the line has brought no characters of its own, whatever packets
\* it damages, each request is handled once and the client takes the reply to
\* its request.
Calls == INSTANCE GdbCalls
RefinesCalls == Calls!CInit /\ [][noise' = 0 => Calls!CNext]_(Calls!cvars)

\* The client gets through: no damage and no noise leaves the two of them
\* waiting for each other.
Answered == (client = "ack") ~> (client = "idle")
===============================================================================
