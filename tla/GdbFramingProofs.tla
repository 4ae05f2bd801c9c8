--------------------------- MODULE GdbFramingProofs ---------------------------
(***************************************************************************)
(* Proofs about the framing of packets, for every number of requests, of   *)
(* packets the line damages and of characters it brings, and every size of *)
(* the error buffer.  Two inductive invariants say what is on the line: of *)
(* a line that brings no characters, which of the few things a call goes   *)
(* through is there; of one that damages nothing, that the requests on it  *)
(* follow each other without a gap.                                        *)
(***************************************************************************)
EXTENDS GdbFraming, SequenceTheorems, TLAPS

\* A packet as it was sent, or damaged.
Copies(n) == {Packet(n), Spoilt(n)}

TypeInv ==
  /\ TypeOK
  /\ client = "ack" => asked # 0
  /\ server = "handle" => request # 0

-----------------------------------------------------------------------------
(* A line that brings no characters *)

One(q, a)    == Len(q) = 1 /\ q[1] = a
Two(q, a, b) == Len(q) = 2 /\ q[1] = a /\ q[2] = b

\* The acknowledgement of the last reply may still be before it.
AfterAck(q, a) == One(q, a) \/ Two(q, Ack, a)

\* Between two calls, or after the last one.
Resting ==
  /\ accepted = asked /\ handled = asked /\ sent = asked
  /\ toClient = << >>
  /\ \/ client = "idle" /\ server = "scan" /\ (toServer = << >> \/ One(toServer, Ack))
     \/ client = "closed" /\ server = "scan" /\ AfterAck(toServer, Eof)
     \/ client = "closed" /\ server = "closed" /\ toServer = << >>

\* The request is on its way, or its refusal is.
Requesting ==
  /\ asked = accepted + 1 /\ handled = accepted /\ sent = accepted
  /\ client = "ack" /\ server = "scan"
  /\ \/ /\ toClient = << >>
        /\ \E t \in Copies(asked) : AfterAck(toServer, t)
     \/ toServer = << >> /\ One(toClient, Nack)

Handling ==
  /\ asked = accepted + 1 /\ handled = accepted /\ sent = accepted
  /\ server = "handle" /\ request = asked
  /\ toServer = << >>
  /\ \/ client = "ack" /\ One(toClient, Ack)
     \/ client = "reply" /\ toClient = << >>

\* The reply is on its way, or its refusal is.
Replying ==
  /\ asked = accepted + 1 /\ handled = asked /\ sent = asked
  /\ server = "scan"
  /\ \/ /\ toServer = << >>
        /\ \E t \in Copies(asked) :
             \/ client = "ack" /\ Two(toClient, Ack, t)
             \/ client = "reply" /\ One(toClient, t)
     \/ client = "reply" /\ toClient = << >> /\ One(toServer, Nack)

CallInv ==
  noise = 0 => len = 0 /\ (Resting \/ Requesting \/ Handling \/ Replying)

-----------------------------------------------------------------------------
(* A line that damages nothing *)

\* The request the server is at.
Current == IF server = "handle" THEN request ELSE sent

IsRequest(t) == t.kind = "packet"

\* The requests waiting in q are whole, none is before first or after last,
\* they never go back, and none of those between is missing.
Ordered(q, first, last) ==
  /\ first <= last
  /\ \A i \in 1 .. Len(q) :
       IsRequest(q[i]) => q[i].good /\ q[i].number \in first .. last
  /\ \A i, j \in 1 .. Len(q) :
       IsRequest(q[i]) /\ IsRequest(q[j]) /\ i < j => q[i].number <= q[j].number
  /\ \A n \in first + 1 .. last :
       \E i \in 1 .. Len(q) : IsRequest(q[i]) /\ q[i].number = n

OrderInv ==
  damage = 0 =>
    /\ server = "handle" => request \in {sent, sent + 1}
    /\ Ordered(toServer, Current, asked)

-----------------------------------------------------------------------------
(* Tokens and what is waiting to be read *)

\* The tokens other than packets, and the packets of the session.
LEMMA TokenOf ==
  /\ {Ack, Nack, Noise, Eof} \subseteq Tokens
  /\ \A n \in 1 .. MaxRequests : Packet(n) \in Tokens /\ Spoilt(n) \in Tokens
BY DEF Tokens, Packet, Spoilt

\* A packet is one of the session's.
LEMMA PacketOf ==
  ASSUME NEW t \in Tokens, t.kind = "packet"
  PROVE  /\ t.number \in 1 .. MaxRequests
         /\ t.good => t = Packet(t.number)
         /\ ~t.good => t = Spoilt(t.number)
<1>1. t \in [kind : {"packet"}, number : 1 .. MaxRequests, good : BOOLEAN]
  BY DEF Tokens, Token, Ack, Nack, Noise, Eof
<1>. QED
  BY <1>1 DEF Packet, Spoilt

\* The kinds of the tokens tell them apart.
LEMMA KindOf ==
  /\ Ack.kind = "ack" /\ Nack.kind = "nack"
  /\ Noise.kind = "noise" /\ Eof.kind = "eof"
  /\ \A n : \A t \in Copies(n) : t.kind = "packet" /\ t.number = n
  /\ \A n : Packet(n).good /\ ~Spoilt(n).good
  /\ Ack # Nack
<1>1. Ack.kind = "ack" /\ Nack.kind = "nack" /\ Noise.kind = "noise" /\ Eof.kind = "eof"
  BY DEF Token, Ack, Nack, Noise, Eof
<1>2. \A n : \A t \in Copies(n) : t.kind = "packet" /\ t.number = n
  BY DEF Copies, Packet, Spoilt
<1>3. \A n : Packet(n).good /\ ~Spoilt(n).good
  BY DEF Packet, Spoilt
<1>. QED
  BY <1>1, <1>2, <1>3

\* Reading the first of what is waiting.
LEMMA Taken ==
  ASSUME NEW S, NEW q \in Seq(S), q # << >>
  PROVE  /\ Len(q) \in Nat \ {0}
         /\ Head(q) \in S /\ Head(q) = q[1]
         /\ Tail(q) \in Seq(S) /\ Len(Tail(q)) = Len(q) - 1
         /\ \A i \in 1 .. Len(q) - 1 : Tail(q)[i] = q[i + 1]
OBVIOUS

\* Sending one more.
LEMMA Put ==
  ASSUME NEW S, NEW q \in Seq(S), NEW x \in S
  PROVE  /\ q \o <<x>> \in Seq(S) /\ Len(q \o <<x>>) = Len(q) + 1
         /\ (q \o <<x>>)[Len(q) + 1] = x
         /\ \A i \in 1 .. Len(q) : (q \o <<x>>)[i] = q[i]
         /\ Append(q, x) = q \o <<x>>
BY ConcatProperties, AppendIsConcat

\* A place of what is waiting.
LEMMA Placed ==
  ASSUME NEW S, NEW q \in Seq(S), NEW i \in DOMAIN q
  PROVE  i \in 1 .. Len(q) /\ q[i] \in S
<1>1. i \in 1 .. Len(q)
  OBVIOUS
<1>. QED
  BY <1>1, ElementOfSeq

\* Damage to one of what is waiting.
LEMMA DamagedOne ==
  ASSUME NEW q \in Seq(Tokens), NEW i \in DOMAIN q, q[i].kind = "packet"
  PROVE  /\ i \in 1 .. Len(q) /\ q[i] \in Tokens
         /\ Damaged(q, i) \in Seq(Tokens)
         /\ Len(Damaged(q, i)) = Len(q)
         /\ \A j \in 1 .. Len(q) :
              Damaged(q, i)[j] = IF j = i THEN Spoilt(q[i].number) ELSE q[j]
<1>1. i \in 1 .. Len(q) /\ q[i] \in Tokens
  BY Placed
<1>2. Spoilt(q[i].number) \in Tokens
  BY <1>1, PacketOf, TokenOf
<1>3. PICK t \in Tokens : t = Spoilt(q[i].number)
  BY <1>2
<1>4. Damaged(q, i) = [q EXCEPT ![i] = t]
  BY <1>3 DEF Damaged
<1>5. /\ Damaged(q, i) \in Seq(Tokens) /\ Len(Damaged(q, i)) = Len(q)
      /\ \A j \in 1 .. Len(q) : Damaged(q, i)[j] = IF j = i THEN t ELSE q[j]
  BY <1>1, <1>4, ExceptSeq
<1>. QED
  BY <1>1, <1>3, <1>5

-----------------------------------------------------------------------------
(* Types *)

\* A rule that starts with handle_error empties the buffer and sends tokens.
LEMMA ErrorHandled ==
  ASSUME TypeOK, NEW then \in Seq(Tokens), handle_error(then)
  PROVE  toClient' \in Seq(Tokens) /\ len' = 0
<1>1. Complaint \in Seq(Tokens)
  BY TokenOf DEF Complaint
<1>. QED
  BY <1>1 DEF TypeOK, handle_error

\* What is read is a token.
LEMMA Scanned ==
  ASSUME TypeOK, NEW kind, Scan(kind)
  PROVE  /\ toServer # << >> /\ Head(toServer) \in Tokens
         /\ Head(toServer).kind = kind
         /\ toServer' \in Seq(Tokens) /\ toServer' = Tail(toServer)
         /\ server = "scan"
BY Taken DEF TypeOK, Scan

LEMMA InitTypes == Init => TypeInv
BY BoundsAssumption, ErrorSizeAssumption DEF Init, TypeInv, TypeOK

\* A rule that starts with handle_error, and may call a handler.
LEMMA RuleTypes ==
  ASSUME TypeInv, NEW kind, Scan(kind), NEW then \in Seq(Tokens), handle_error(then),
         UNCHANGED <<sent, handled>>,
         server' \in {"scan", "handle", "closed"}, request' \in 0 .. MaxRequests,
         server' = "handle" => request' # 0
  PROVE  TypeInv'
<1>1. TypeOK
  BY DEF TypeInv
<1>2. toServer' \in Seq(Tokens)
  BY <1>1, Scanned
<1>3. toClient' \in Seq(Tokens) /\ len' \in 0 .. MaxErrorSize - 1
  BY <1>1, ErrorHandled, ErrorSizeAssumption
<1>. QED
  BY <1>2, <1>3 DEF TypeInv, TypeOK, Scan, clientVars, lineVars

LEMMA ServerTypes ==
  ASSUME TypeInv, Server
  PROVE  TypeInv'
<1>. USE BoundsAssumption DEF TypeInv, TypeOK
<1>t. << >> \in Seq(Tokens) /\ <<Ack>> \in Seq(Tokens) /\ <<Nack>> \in Seq(Tokens)
  BY TokenOf
<1>1. CASE ScanAck
  BY <1>1, <1>t, RuleTypes DEF ScanAck, Scan
<1>2. CASE ScanNack
  <2>1. sent # 0 => sent \in 1 .. MaxRequests
    OBVIOUS
  <2>2. LastPacket \in Seq(Tokens)
    BY <2>1, TokenOf DEF LastPacket
  <2>. QED
    BY <1>2, <2>2, RuleTypes DEF ScanNack, Scan
<1>3. CASE RefusePacket
  BY <1>3, <1>t, RuleTypes DEF RefusePacket, Scan
<1>4. CASE TakePacket
  <2>1. Head(toServer).number \in 1 .. MaxRequests
    BY <1>4, Scanned, PacketOf DEF TakePacket
  <2>2. request' \in 0 .. MaxRequests /\ request' # 0
    BY <1>4, <2>1 DEF TakePacket
  <2>. QED
    BY <1>4, <1>t, <2>2, RuleTypes DEF TakePacket
<1>5. CASE ScanNoise
  <2>1. Complaint \in Seq(Tokens)
    BY TokenOf DEF Complaint
  <2>2. toClient \o Complaint \in Seq(Tokens)
    BY <2>1
  <2>3. toServer' \in Seq(Tokens)
    BY <1>5, Scanned DEF ScanNoise
  <2>4. len' \in 0 .. MaxErrorSize - 1
    BY <1>5, ErrorSizeAssumption DEF ScanNoise, NoRoom
  <2>. QED
    BY <1>5, <2>2, <2>3, <2>4 DEF ScanNoise, Scan, clientVars, lineVars
<1>6. CASE ScanEof
  BY <1>6, <1>t, RuleTypes DEF ScanEof
<1>7. CASE Handle
  <2>1. request \in 1 .. MaxRequests
    BY <1>7 DEF Handle
  <2>2. Packet(request) \in Tokens
    BY <2>1, TokenOf
  <2>3. toClient' \in Seq(Tokens)
    BY <1>7, <2>2, Put DEF Handle
  <2>. QED
    BY <1>7, <2>1, <2>3 DEF Handle, clientVars, lineVars
<1>. QED
  BY <1>1, <1>2, <1>3, <1>4, <1>5, <1>6, <1>7 DEF Server

LEMMA ClientTypes ==
  ASSUME TypeInv, ReadAck \/ ReadReply \/ Ask \/ Close
  PROVE  TypeInv'
<1>. USE BoundsAssumption DEF TypeInv, TypeOK
<1>1. \A t \in Tokens : Send(<<t>>) => toServer' \in Seq(Tokens)
  BY Put DEF Send
<1>2. ASSUME Read
      PROVE  /\ toClient # << >> /\ Head(toClient) \in Tokens
             /\ toClient' \in Seq(Tokens)
  BY <1>2, Taken DEF Read
<1>3. CASE ReadAck
  <2>1. toServer' \in Seq(Tokens)
    <3>1. CASE UNCHANGED toServer
      BY <3>1
    <3>2. CASE Send(<<Packet(asked)>>)
      <4>1. asked \in 1 .. MaxRequests
        BY <1>3 DEF ReadAck
      <4>. QED
        BY <1>1, <3>2, <4>1, TokenOf
    <3>3. CASE Send(<<Ack>>)
      BY <1>1, <3>3, TokenOf
    <3>. QED
      BY <1>3, <3>1, <3>2, <3>3 DEF ReadAck
  <2>. QED
    BY <1>2, <1>3, <2>1 DEF ReadAck, Read, serverVars, lineVars
<1>4. CASE ReadReply
  <2>1. toServer' \in Seq(Tokens)
    <3>1. CASE UNCHANGED toServer
      BY <3>1
    <3>2. CASE Send(<<Nack>>)
      BY <1>1, <3>2, TokenOf
    <3>3. CASE Send(<<Ack>>)
      BY <1>1, <3>3, TokenOf
    <3>. QED
      BY <1>4, <3>1, <3>2, <3>3 DEF ReadReply
  <2>2. accepted' \in 0 .. MaxRequests
    BY <1>2, <1>4, PacketOf DEF ReadReply
  <2>. QED
    BY <1>2, <1>4, <2>1, <2>2 DEF ReadReply, Read, serverVars, lineVars
<1>5. CASE Ask
  <2>1. asked + 1 \in 1 .. MaxRequests
    BY <1>5 DEF Ask
  <2>2. Packet(asked + 1) \in Tokens
    BY <2>1, TokenOf
  <2>. QED
    BY <1>1, <1>5, <2>1, <2>2 DEF Ask, serverVars, lineVars
<1>6. CASE Close
  BY <1>1, <1>6, TokenOf DEF Close, serverVars, lineVars
<1>. QED
  BY <1>3, <1>4, <1>5, <1>6

LEMMA LineTypes ==
  ASSUME TypeInv, Damage \/ BringNoise
  PROVE  TypeInv'
<1>. USE BoundsAssumption DEF TypeInv, TypeOK
<1>1. CASE Damage
  <2>1. toServer' \in Seq(Tokens) /\ toClient' \in Seq(Tokens)
    BY <1>1, DamagedOne DEF Damage
  <2>. QED
    BY <1>1, <2>1 DEF Damage, serverVars, clientVars
<1>2. CASE BringNoise
  <2>1. toServer' \in Seq(Tokens)
    BY <1>2, Put, TokenOf DEF BringNoise, Send
  <2>. QED
    BY <1>2, <2>1 DEF BringNoise, serverVars, clientVars
<1>. QED
  BY <1>1, <1>2

LEMMA TypesKept == TypeInv /\ [Next]_vars => TypeInv'
<1>1. ASSUME TypeInv, UNCHANGED vars
      PROVE  TypeInv'
  BY <1>1 DEF TypeInv, TypeOK, vars
<1>. QED
  BY <1>1, ServerTypes, ClientTypes, LineTypes DEF Next, Client, Ended

\* The types hold, and above all the error buffer keeps a place for the zero
\* that handle_error writes after its characters (add_character_to_error).
THEOREM TypeCorrect == Spec => []TypeOK
<1>1. Spec => []TypeInv
  BY InitTypes, TypesKept, PTL DEF Spec
<1>2. TypeInv => TypeOK
  BY DEF TypeInv
<1>. QED
  BY <1>1, <1>2, PTL

-----------------------------------------------------------------------------
(* Calls on a line that brings no characters *)

\* What the few shapes of a channel become when it is read or written.
LEMMA ShapeTaken ==
  ASSUME NEW q \in Seq(Tokens), NEW a
  PROVE  /\ One(q, a) => q # << >> /\ Head(q) = a /\ Tail(q) = << >>
         /\ \A b : Two(q, a, b) => q # << >> /\ Head(q) = a /\ One(Tail(q), b)
<1>1. q # << >> => /\ Len(q) \in Nat \ {0} /\ Head(q) = q[1]
                   /\ Tail(q) \in Seq(Tokens) /\ Len(Tail(q)) = Len(q) - 1
                   /\ \A i \in 1 .. Len(q) - 1 : Tail(q)[i] = q[i + 1]
  BY Taken
<1>2. Len(q) # 0 => q # << >>
  OBVIOUS
<1>3. ASSUME One(q, a)
      PROVE  q # << >> /\ Head(q) = a /\ Tail(q) = << >>
  <2>1. Len(Tail(q)) = 0 /\ Tail(q) \in Seq(Tokens)
    BY <1>1, <1>2, <1>3 DEF One
  <2>2. Tail(q) = << >>
    BY <2>1, EmptySeq
  <2>. QED
    BY <1>1, <1>2, <1>3, <2>2 DEF One
<1>4. ASSUME NEW b, Two(q, a, b)
      PROVE  q # << >> /\ Head(q) = a /\ One(Tail(q), b)
  <2>1. Tail(q)[1] = q[1 + 1]
    BY <1>1, <1>2, <1>4 DEF Two
  <2>. QED
    BY <1>1, <1>2, <1>4, <2>1 DEF One, Two
<1>. QED
  BY <1>3, <1>4

LEMMA ShapePut ==
  ASSUME NEW q \in Seq(Tokens), NEW x \in Tokens
  PROVE  /\ q = << >> => One(q \o <<x>>, x)
         /\ \A a : One(q, a) => Two(q \o <<x>>, a, x)
<1>1. /\ Len(q \o <<x>>) = Len(q) + 1
      /\ (q \o <<x>>)[Len(q) + 1] = x
      /\ \A i \in 1 .. Len(q) : (q \o <<x>>)[i] = q[i]
  BY Put
<1>2. q = << >> => One(q \o <<x>>, x)
  BY <1>1 DEF One
<1>3. ASSUME NEW a, One(q, a)
      PROVE  Two(q \o <<x>>, a, x)
  <2>1. (q \o <<x>>)[1] = q[1]
    BY <1>1, <1>3 DEF One
  <2>. QED
    BY <1>1, <1>3, <2>1 DEF One, Two
<1>. QED
  BY <1>2, <1>3

LEMMA ShapeDamaged ==
  ASSUME NEW q \in Seq(Tokens), NEW i \in DOMAIN q, q[i].kind = "packet",
         NEW n, NEW t \in Copies(n)
  PROVE  /\ One(q, t) => One(Damaged(q, i), Spoilt(n))
         /\ Two(q, Ack, t) => Two(Damaged(q, i), Ack, Spoilt(n))
         /\ ~One(q, Ack) /\ ~One(q, Nack) /\ ~One(q, Eof) /\ ~Two(q, Ack, Eof)
         /\ q # << >>
<1>1. /\ i \in 1 .. Len(q) /\ Len(Damaged(q, i)) = Len(q) /\ Len(q) \in Nat
      /\ Damaged(q, i)[i] = Spoilt(q[i].number)
      /\ \A j \in 1 .. Len(q) : j # i => Damaged(q, i)[j] = q[j]
  BY DamagedOne
<1>2. Ack.kind # "packet" /\ Nack.kind # "packet" /\ Eof.kind # "packet"
  BY KindOf
<1>3. t.number = n
  BY KindOf
<1>4. ASSUME One(q, t)
      PROVE  One(Damaged(q, i), Spoilt(n))
  BY <1>1, <1>3, <1>4 DEF One
<1>5. ASSUME Two(q, Ack, t)
      PROVE  Two(Damaged(q, i), Ack, Spoilt(n))
  <2>1. i = 2
    BY <1>1, <1>2, <1>5 DEF Two
  <2>. QED
    BY <1>1, <1>3, <1>5, <2>1 DEF Two
<1>6. ~One(q, Ack) /\ ~One(q, Nack) /\ ~One(q, Eof) /\ ~Two(q, Ack, Eof)
  BY <1>1, <1>2 DEF One, Two
<1>7. q # << >>
  BY <1>1
<1>. QED
  BY <1>4, <1>5, <1>6, <1>7

\* With an empty buffer handle_error sends nothing of its own.
LEMMA NothingToComplain ==
  ASSUME TypeOK, len = 0, NEW then \in Seq(Tokens), handle_error(then)
  PROVE  toClient' = toClient \o then /\ len' = 0
<1>1. toClient \o << >> = toClient
  BY ConcatEmptySeq DEF TypeOK
<1>. QED
  BY <1>1 DEF handle_error, Complaint

\* What the invariant says while the line has brought nothing.
CallPhase == Resting \/ Requesting \/ Handling \/ Replying

\* The scanner reads an acknowledgement, a request for retransmission, a
\* packet or the end, never a character of the line's own.
LEMMA RuleShapes ==
  ASSUME TypeInv, CallPhase, NEW kind, Scan(kind)
  PROVE  \/ /\ kind = "ack" /\ toServer' = << >> /\ One(toServer, Ack)
            /\ Resting /\ client = "idle"
         \/ /\ kind = "ack" /\ One(toServer', Eof)
            /\ Resting /\ client = "closed"
         \/ /\ kind = "ack" /\ toClient = << >>
            /\ \E t \in Copies(asked) : One(toServer', t)
            /\ Requesting
         \/ /\ kind = "eof" /\ toServer' = << >>
            /\ Resting /\ client = "closed"
         \/ /\ kind = "packet" /\ toClient = << >> /\ toServer' = << >>
            /\ Head(toServer) \in Copies(asked) /\ Requesting
         \/ /\ kind = "nack" /\ toClient = << >> /\ toServer' = << >>
            /\ Replying /\ client = "reply"
<1>1. /\ toServer \in Seq(Tokens) /\ toServer # << >>
      /\ Head(toServer).kind = kind /\ toServer' = Tail(toServer)
      /\ server = "scan"
  BY Scanned DEF TypeInv, TypeOK
<1>2. \A a : One(toServer, a) => Head(toServer) = a /\ toServer' = << >>
  BY <1>1, ShapeTaken
<1>3. \A a, b : Two(toServer, a, b) => Head(toServer) = a /\ One(toServer', b)
  BY <1>1, ShapeTaken
<1>. USE KindOf
<1>4. CASE Resting
  BY <1>1, <1>2, <1>3, <1>4 DEF Resting, AfterAck
<1>5. CASE Requesting
  <2>1. PICK t \in Copies(asked) : AfterAck(toServer, t) /\ toClient = << >>
    BY <1>1, <1>5 DEF Requesting
  <2>. QED
    BY <1>1, <1>2, <1>3, <1>5, <2>1 DEF AfterAck
<1>6. CASE Handling
  BY <1>1, <1>6 DEF Handling
<1>7. CASE Replying
  BY <1>1, <1>2, <1>7 DEF Replying
<1>. QED
  BY <1>4, <1>5, <1>6, <1>7 DEF CallPhase

LEMMA ServerCalls ==
  ASSUME TypeInv, len = 0, CallPhase, Server
  PROVE  len' = 0 /\ CallPhase'
<1>. USE DEF TypeInv
<1>t. << >> \in Seq(Tokens) /\ <<Ack>> \in Seq(Tokens) /\ <<Nack>> \in Seq(Tokens)
  BY TokenOf
<1>e. toClient \o << >> = toClient
  BY ConcatEmptySeq DEF TypeOK
<1>o. ASSUME NEW x \in Tokens, toClient = << >>, toClient' = toClient \o <<x>>
      PROVE  One(toClient', x)
  BY <1>o, ShapePut DEF TypeOK
<1>1. CASE ScanAck
  <2>1. toClient' = toClient /\ len' = 0
    BY <1>1, <1>t, <1>e, NothingToComplain DEF ScanAck
  <2>2. UNCHANGED <<sent, server, request, handled, client, asked, accepted>> /\ Scan("ack")
    BY <1>1 DEF ScanAck, Scan, clientVars
  <2>3. \/ toServer' = << >> /\ Resting /\ client = "idle"
        \/ One(toServer', Eof) /\ Resting /\ client = "closed"
        \/ (\E t \in Copies(asked) : One(toServer', t)) /\ Requesting /\ toClient = << >>
    BY <2>2, RuleShapes
  <2>4. server = "scan"
    BY <2>2 DEF Scan
  <2>5. CASE Resting
    BY <2>1, <2>2, <2>3, <2>4, <2>5 DEF Resting, Requesting, CallPhase, AfterAck
  <2>6. CASE Requesting
    BY <2>1, <2>2, <2>3, <2>4, <2>6 DEF Resting, Requesting, CallPhase, AfterAck
  <2>. QED
    BY <2>3, <2>5, <2>6
<1>2. CASE ScanNack
  <2>1. /\ UNCHANGED <<sent, server, request, handled, client, asked, accepted>>
        /\ Scan("nack") /\ server = "scan" /\ handle_error(LastPacket)
    BY <1>2 DEF ScanNack, Scan, clientVars
  <2>2. Replying /\ client = "reply" /\ toClient = << >> /\ toServer' = << >>
    BY <2>1, RuleShapes
  <2>3. sent \in 1 .. MaxRequests /\ sent = asked
    BY <2>2, BoundsAssumption DEF Replying, TypeOK
  <2>4. Packet(asked) \in Tokens /\ Packet(asked) \in Copies(asked)
        /\ LastPacket = <<Packet(asked)>>
    BY <2>3, TokenOf DEF Copies, LastPacket
  <2>5. toClient' = toClient \o <<Packet(asked)>> /\ len' = 0
    <3>1. LastPacket \in Seq(Tokens)
      BY <2>4
    <3>2. toClient' = toClient \o LastPacket /\ len' = 0
      BY <2>1, <3>1, NothingToComplain
    <3>. QED
      BY <2>4, <3>2
  <2>6. One(toClient', Packet(asked))
    BY <1>o, <2>2, <2>4, <2>5
  <2>. QED
    BY <2>1, <2>2, <2>4, <2>5, <2>6 DEF Replying, CallPhase
<1>3. CASE RefusePacket
  <2>1. /\ UNCHANGED <<sent, server, request, handled, client, asked, accepted>>
        /\ Scan("packet") /\ server = "scan" /\ handle_error(<<Nack>>)
    BY <1>3 DEF RefusePacket, Scan, clientVars
  <2>2. Requesting /\ toClient = << >> /\ toServer' = << >>
    BY <2>1, RuleShapes
  <2>3. toClient' = toClient \o <<Nack>> /\ len' = 0
    BY <1>t, <2>1, NothingToComplain
  <2>4. One(toClient', Nack)
    BY <1>o, <2>2, <2>3, TokenOf
  <2>. QED
    BY <2>1, <2>2, <2>3, <2>4 DEF Requesting, CallPhase
<1>4. CASE TakePacket
  <2>1. /\ UNCHANGED <<sent, handled, client, asked, accepted>>
        /\ Scan("packet") /\ server' = "handle" /\ handle_error(<<Ack>>)
        /\ request' = Head(toServer).number
    BY <1>4 DEF TakePacket, Scan, clientVars
  <2>2. /\ Requesting /\ toClient = << >> /\ toServer' = << >>
        /\ Head(toServer) \in Copies(asked)
    BY <2>1, RuleShapes
  <2>3. toClient' = toClient \o <<Ack>> /\ len' = 0
    BY <1>t, <2>1, NothingToComplain
  <2>4. One(toClient', Ack) /\ request' = asked
    BY <1>o, <2>1, <2>2, <2>3, TokenOf, KindOf
  <2>. QED
    BY <2>1, <2>2, <2>3, <2>4 DEF Requesting, Handling, CallPhase
<1>5. CASE ScanNoise
  BY <1>5, RuleShapes DEF ScanNoise
<1>6. CASE ScanEof
  <2>1. /\ UNCHANGED <<sent, handled, client, asked, accepted>>
        /\ Scan("eof") /\ server' = "closed" /\ handle_error(<< >>)
    BY <1>6 DEF ScanEof, Scan, clientVars
  <2>2. Resting /\ client = "closed" /\ toServer' = << >>
    BY <2>1, RuleShapes
  <2>3. toClient' = toClient /\ len' = 0
    BY <1>t, <1>e, <2>1, NothingToComplain
  <2>. QED
    BY <2>1, <2>2, <2>3 DEF Resting, CallPhase
<1>7. CASE Handle
  <2>1. /\ server = "handle" /\ server' = "scan" /\ handled' = handled + 1
        /\ sent' = request /\ toClient' = Append(toClient, Packet(request))
        /\ UNCHANGED <<toServer, len, request, client, asked, accepted>>
    BY <1>7 DEF Handle, clientVars
  <2>2. Handling
    BY <2>1 DEF CallPhase, Resting, Requesting, Replying
  <2>3. request \in 1 .. MaxRequests /\ request = asked
    BY <2>1, <2>2, BoundsAssumption DEF Handling, TypeOK
  <2>4. Packet(asked) \in Tokens /\ Packet(asked) \in Copies(asked)
    BY <2>3, TokenOf DEF Copies
  <2>5. toClient' = toClient \o <<Packet(asked)>>
    BY <2>1, <2>3, <2>4, Put DEF TypeOK
  <2>6. \/ client = "ack" /\ Two(toClient', Ack, Packet(asked))
        \/ client = "reply" /\ One(toClient', Packet(asked))
    BY <2>2, <2>4, <2>5, ShapePut DEF Handling, TypeOK
  <2>7. handled' = asked /\ sent' = asked /\ asked = accepted + 1 /\ toServer = << >>
    BY <2>1, <2>2 DEF Handling
  <2>. QED
    BY <2>1, <2>4, <2>6, <2>7 DEF Replying, CallPhase
<1>. QED
  BY <1>1, <1>2, <1>3, <1>4, <1>5, <1>6, <1>7 DEF Server

LEMMA ClientCalls ==
  ASSUME TypeInv, len = 0, CallPhase, ReadAck \/ ReadReply \/ Ask \/ Close
  PROVE  len' = 0 /\ CallPhase'
<1>. USE DEF TypeInv
<1>1. ASSUME NEW x \in Tokens, Send(<<x>>)
      PROVE  /\ toServer = << >> => One(toServer', x)
             /\ \A a : One(toServer, a) => Two(toServer', a, x)
  BY <1>1, ShapePut DEF Send, TypeOK
<1>2. ASSUME Read
      PROVE  /\ toClient # << >>
             /\ \A a : One(toClient, a) => Head(toClient) = a /\ toClient' = << >>
             /\ \A a, b : Two(toClient, a, b) => Head(toClient) = a /\ One(toClient', b)
  BY <1>2, ShapeTaken DEF Read, TypeOK
<1>3. CASE ReadAck
  <2>1. /\ Read /\ client = "ack"
        /\ UNCHANGED <<asked, accepted, len, sent, server, request, handled>>
    BY <1>3 DEF ReadAck, Read, serverVars
  <2>2. asked \in 1 .. MaxRequests
    BY <2>1, BoundsAssumption DEF TypeOK
  <2>3. Packet(asked) \in Tokens /\ Packet(asked) \in Copies(asked)
    BY <2>2, TokenOf DEF Copies
  <2>4. CASE Requesting
    <3>1. toServer = << >> /\ Head(toClient) = Nack /\ toClient' = << >>
      BY <1>2, <2>1, <2>4 DEF Requesting
    <3>2. Send(<<Packet(asked)>>) /\ client' = client
      BY <1>3, <3>1, KindOf DEF ReadAck
    <3>3. One(toServer', Packet(asked))
      BY <1>1, <2>3, <3>1, <3>2
    <3>. QED
      BY <2>1, <2>3, <2>4, <3>1, <3>2, <3>3 DEF Requesting, AfterAck, CallPhase
  <2>5. CASE Handling
    <3>1. Head(toClient) = Ack /\ toClient' = << >>
      BY <1>2, <2>1, <2>5 DEF Handling
    <3>2. client' = "reply" /\ toServer' = toServer
      BY <1>3, <3>1, KindOf DEF ReadAck
    <3>. QED
      BY <2>1, <2>5, <3>1, <3>2 DEF Handling, CallPhase
  <2>6. CASE Replying
    <3>1. PICK t \in Copies(asked) : Two(toClient, Ack, t) /\ toServer = << >>
      BY <2>1, <2>6 DEF Replying
    <3>2. Head(toClient) = Ack /\ One(toClient', t)
      BY <1>2, <2>1, <3>1
    <3>3. client' = "reply" /\ toServer' = toServer
      BY <1>3, <3>2, KindOf DEF ReadAck
    <3>. QED
      BY <2>1, <2>6, <3>1, <3>2, <3>3 DEF Replying, CallPhase
  <2>. QED
    BY <2>1, <2>4, <2>5, <2>6 DEF CallPhase, Resting
<1>4. CASE ReadReply
  <2>1. /\ Read /\ client = "reply"
        /\ UNCHANGED <<asked, len, sent, server, request, handled>>
    BY <1>4 DEF ReadReply, Read, serverVars
  <2>2. PICK t \in Copies(asked) : One(toClient, t) /\ toServer = << >> /\ Replying
    BY <1>2, <2>1 DEF CallPhase, Resting, Requesting, Handling, Replying
  <2>3. Head(toClient) = t /\ toClient' = << >>
    BY <1>2, <2>1, <2>2
  <2>4. t.kind = "packet" /\ t.number = asked
    BY KindOf
  <2>5. CASE t.good
    <3>1. accepted' = asked /\ client' = "idle" /\ Send(<<Ack>>)
      BY <1>4, <2>3, <2>4, <2>5 DEF ReadReply
    <3>2. One(toServer', Ack)
      BY <1>1, <2>2, <3>1, TokenOf
    <3>. QED
      BY <2>1, <2>2, <2>3, <3>1, <3>2 DEF Replying, Resting, CallPhase
  <2>6. CASE ~t.good
    <3>1. UNCHANGED <<client, accepted>> /\ Send(<<Nack>>)
      BY <1>4, <2>3, <2>4, <2>6 DEF ReadReply
    <3>2. One(toServer', Nack)
      BY <1>1, <2>2, <3>1, TokenOf
    <3>. QED
      BY <2>1, <2>2, <2>3, <3>1, <3>2 DEF Replying, CallPhase
  <2>. QED
    BY <2>5, <2>6
<1>5. CASE Ask
  <2>1. /\ client = "idle" /\ client' = "ack" /\ asked' = asked + 1
        /\ asked < MaxRequests
        /\ UNCHANGED <<toClient, accepted, len, sent, server, request, handled>>
    BY <1>5 DEF Ask, serverVars
  <2>2. Resting
    BY <2>1 DEF CallPhase, Requesting, Handling, Replying
  <2>3. asked + 1 \in 1 .. MaxRequests
    BY <2>1, BoundsAssumption DEF TypeOK
  <2>4. Packet(asked + 1) \in Tokens /\ Packet(asked + 1) \in Copies(asked + 1)
    BY <2>3, TokenOf DEF Copies
  <2>5. AfterAck(toServer', Packet(asked + 1))
    BY <1>1, <1>5, <2>1, <2>2, <2>4 DEF Ask, AfterAck, Resting
  <2>. QED
    BY <2>1, <2>2, <2>4, <2>5 DEF Resting, Requesting, CallPhase
<1>6. CASE Close
  <2>1. /\ client = "idle" /\ client' = "closed"
        /\ UNCHANGED <<toClient, asked, accepted, len, sent, server, request, handled>>
    BY <1>6 DEF Close, serverVars
  <2>2. Resting
    BY <2>1 DEF CallPhase, Requesting, Handling, Replying
  <2>3. AfterAck(toServer', Eof)
    BY <1>1, <1>6, <2>1, <2>2, TokenOf DEF Close, AfterAck, Resting
  <2>. QED
    BY <2>1, <2>2, <2>3 DEF Resting, CallPhase
<1>. QED
  BY <1>3, <1>4, <1>5, <1>6

LEMMA DamageCalls ==
  ASSUME TypeInv, len = 0, CallPhase, Damage
  PROVE  len' = 0 /\ CallPhase'
<1>. USE DEF TypeInv
<1>1. UNCHANGED <<len, sent, server, request, handled, client, asked, accepted>>
  BY DEF Damage, serverVars, clientVars
<1>2. Spoilt(asked) \in Copies(asked)
  BY DEF Copies
<1>3. CASE \E i \in DOMAIN toServer :
             /\ toServer[i].kind = "packet"
             /\ toServer' = Damaged(toServer, i)
             /\ UNCHANGED toClient
  <2>1. /\ \A t \in Copies(asked) :
             /\ One(toServer, t) => One(toServer', Spoilt(asked))
             /\ Two(toServer, Ack, t) => Two(toServer', Ack, Spoilt(asked))
        /\ ~One(toServer, Ack) /\ ~One(toServer, Nack) /\ ~One(toServer, Eof)
        /\ ~Two(toServer, Ack, Eof) /\ toServer # << >>
    BY <1>2, <1>3, ShapeDamaged DEF TypeOK
  <2>2. PICK t \in Copies(asked) : Requesting /\ AfterAck(toServer, t)
    BY <2>1 DEF CallPhase, Resting, Requesting, Handling, Replying, AfterAck
  <2>3. AfterAck(toServer', Spoilt(asked))
    BY <2>1, <2>2 DEF AfterAck
  <2>4. toClient = << >>
    BY <2>1, <2>2 DEF Requesting
  <2>. QED
    BY <1>1, <1>2, <1>3, <2>2, <2>3, <2>4 DEF Requesting, CallPhase
<1>4. CASE \E i \in DOMAIN toClient :
             /\ toClient[i].kind = "packet"
             /\ toClient' = Damaged(toClient, i)
             /\ UNCHANGED toServer
  <2>1. /\ \A t \in Copies(asked) :
             /\ One(toClient, t) => One(toClient', Spoilt(asked))
             /\ Two(toClient, Ack, t) => Two(toClient', Ack, Spoilt(asked))
        /\ ~One(toClient, Ack) /\ ~One(toClient, Nack) /\ toClient # << >>
    BY <1>2, <1>4, ShapeDamaged DEF TypeOK
  <2>2. PICK t \in Copies(asked) :
          /\ Replying /\ toServer = << >>
          /\ \/ client = "ack" /\ Two(toClient, Ack, t)
             \/ client = "reply" /\ One(toClient, t)
    BY <2>1 DEF CallPhase, Resting, Requesting, Handling, Replying
  <2>3. \/ client = "ack" /\ Two(toClient', Ack, Spoilt(asked))
        \/ client = "reply" /\ One(toClient', Spoilt(asked))
    BY <2>1, <2>2
  <2>. QED
    BY <1>1, <1>2, <1>4, <2>2, <2>3 DEF Replying, CallPhase
<1>. QED
  BY <1>3, <1>4 DEF Damage

LEMMA InitCalls == Init => CallInv
BY DEF Init, CallInv, Resting

\* A line that has brought nothing after a step had brought nothing before it.
LEMMA NoiseBefore ==
  ASSUME TypeInv, Next, noise' = 0
  PROVE  noise = 0 /\ ~BringNoise
BY DEF TypeInv, TypeOK, Next, Server, Client, ScanAck, ScanNack, RefusePacket,
       TakePacket, ScanNoise, ScanEof, Scan, Handle, ReadAck, ReadReply, Read,
       Ask, Close, Damage, BringNoise, Ended, vars, lineVars

LEMMA CallsKept == TypeInv /\ CallInv /\ [Next]_vars => CallInv'
<1>1. ASSUME CallInv, UNCHANGED vars
      PROVE  CallInv'
  BY <1>1
  DEF vars, CallInv, Resting, Requesting, Handling, Replying, AfterAck, One, Two
<1>2. ASSUME TypeInv, CallInv, Next, noise' = 0, ~UNCHANGED vars
      PROVE  len' = 0 /\ CallPhase'
  <2>1. noise = 0 /\ ~BringNoise
    BY <1>2, NoiseBefore
  <2>2. len = 0 /\ CallPhase
    BY <1>2, <2>1 DEF CallInv, CallPhase
  <2>. QED
    BY <1>2, <2>1, <2>2, ServerCalls, ClientCalls, DamageCalls DEF Next, Client, Ended
<1>. QED
  BY <1>1, <1>2 DEF CallInv, CallPhase

\* Each step of the client and the server is a step of a call, or changes
\* nothing the calls are about.
LEMMA CallStep ==
  ASSUME TypeInv, CallInv, [Next]_vars
  PROVE  [noise' = 0 => Calls!CNext]_(Calls!cvars)
<1>. SUFFICES ASSUME Next, noise' = 0, ~UNCHANGED <<asked, handled, accepted>>
              PROVE  Calls!CNext
  BY DEF vars, Calls!cvars
<1>1. noise = 0 /\ CallPhase
  BY NoiseBefore DEF CallInv, CallPhase
<1>2. CASE Ask
  <2>1. accepted = asked
    BY <1>1, <1>2 DEF Ask, CallPhase, Resting, Requesting, Handling, Replying
  <2>. QED
    BY <1>2, <2>1 DEF Ask, serverVars, Calls!CNext, Calls!CAsk
<1>3. CASE Handle
  <2>1. handled < asked
    BY <1>1, <1>3
    DEF Handle, CallPhase, Resting, Requesting, Handling, Replying, TypeInv, TypeOK
  <2>. QED
    BY <1>3, <2>1 DEF Handle, clientVars, Calls!CNext, Calls!CHandle
<1>4. CASE ReadReply
  <2>1. PICK t \in Copies(asked) : One(toClient, t) /\ Replying
    BY <1>1, <1>4, ShapeTaken
    DEF ReadReply, Read, CallPhase, Resting, Requesting, Handling, Replying
  <2>2. Head(toClient).number = asked
    BY <2>1, ShapeTaken, KindOf DEF TypeInv, TypeOK
  <2>3. accepted' = asked /\ UNCHANGED <<asked, handled>>
    BY <1>4, <2>2 DEF ReadReply, Read, serverVars
  <2>. QED
    BY <2>1, <2>3 DEF Replying, TypeInv, TypeOK, Calls!CNext, Calls!CAccept
<1>. QED
  BY <1>2, <1>3, <1>4
  DEF Next, Server, Client, ScanAck, ScanNack, RefusePacket, TakePacket, ScanNoise,
      ScanEof, Scan, ReadAck, Read, Close, Damage, BringNoise, Ended, vars,
      serverVars, clientVars

\* The packets carry calls: as long as the line brings no characters of its
\* own, each request is handled once, and the reply the client takes is the
\* reply to its request (gdb_packet_analysis, gdb_transmit_packet), whatever
\* the line damages.
THEOREM ImplementsCalls == Spec => RefinesCalls
<1>1. Init => Calls!CInit
  BY DEF Init, Calls!CInit
<1>2. Spec => [](TypeInv /\ CallInv)
  BY InitTypes, InitCalls, TypesKept, CallsKept, PTL DEF Spec
<1>3. TypeInv /\ CallInv /\ [Next]_vars => [noise' = 0 => Calls!CNext]_(Calls!cvars)
  BY CallStep
<1>. QED
  BY <1>1, <1>2, <1>3, PTL DEF Spec, RefinesCalls

-----------------------------------------------------------------------------
(* The order of the requests on a line that damages nothing *)

\* Reading a token that is not a request.
LEMMA OtherTaken ==
  ASSUME NEW q \in Seq(Tokens), q # << >>, ~IsRequest(Head(q)),
         NEW f \in Nat, NEW l \in Nat, Ordered(q, f, l)
  PROVE  Ordered(Tail(q), f, l)
<1>. DEFINE r == Tail(q)
<1>1. /\ Len(q) \in Nat \ {0} /\ Head(q) = q[1] /\ Len(r) = Len(q) - 1
      /\ \A i \in 1 .. Len(q) - 1 : r[i] = q[i + 1]
  BY Taken
<1>. HIDE DEF r
<1>2. \A i \in 1 .. Len(r) : IsRequest(r[i]) => r[i].good /\ r[i].number \in f .. l
  BY <1>1 DEF Ordered
<1>3. \A i, j \in 1 .. Len(r) :
        IsRequest(r[i]) /\ IsRequest(r[j]) /\ i < j => r[i].number <= r[j].number
  BY <1>1 DEF Ordered
<1>4. ASSUME NEW n \in f + 1 .. l
      PROVE  \E i \in 1 .. Len(r) : IsRequest(r[i]) /\ r[i].number = n
  <2>1. PICK i \in 1 .. Len(q) : IsRequest(q[i]) /\ q[i].number = n
    BY DEF Ordered
  <2>2. i - 1 \in 1 .. Len(r) /\ r[i - 1] = q[i]
    BY <1>1, <2>1
  <2>. QED
    BY <2>1, <2>2
<1>. QED
  BY <1>2, <1>3, <1>4 DEF Ordered, r

\* Reading a request: it is the last one again, or the next.
LEMMA RequestTaken ==
  ASSUME NEW q \in Seq(Tokens), q # << >>, IsRequest(Head(q)),
         NEW f \in Nat, NEW l \in Nat, Ordered(q, f, l)
  PROVE  /\ Head(q).good /\ Head(q).number \in {f, f + 1}
         /\ Ordered(Tail(q), Head(q).number, l)
<1>. DEFINE r == Tail(q)
            m == Head(q).number
<1>1. /\ Len(q) \in Nat \ {0} /\ Head(q) = q[1] /\ Len(r) = Len(q) - 1
      /\ \A i \in 1 .. Len(q) - 1 : r[i] = q[i + 1]
  BY Taken
<1>2. Head(q).good /\ m \in f .. l
  BY <1>1 DEF Ordered
<1>3. \A i \in 1 .. Len(q) : IsRequest(q[i]) => m <= q[i].number /\ q[i].number \in f .. l
  BY <1>1, <1>2 DEF Ordered
<1>4. m \in {f, f + 1}
  <2>1. CASE m = f
    BY <2>1
  <2>2. CASE m # f
    <3>1. f + 1 \in f + 1 .. l
      BY <1>2, <2>2
    <3>2. PICK i \in 1 .. Len(q) : IsRequest(q[i]) /\ q[i].number = f + 1
      BY <3>1 DEF Ordered
    <3>. QED
      BY <1>2, <1>3, <2>2, <3>2
  <2>. QED
    BY <2>1, <2>2
<1>. HIDE DEF r
<1>5. \A i \in 1 .. Len(r) : IsRequest(r[i]) => r[i].good /\ r[i].number \in m .. l
  BY <1>1, <1>2, <1>3 DEF Ordered
<1>6. \A i, j \in 1 .. Len(r) :
        IsRequest(r[i]) /\ IsRequest(r[j]) /\ i < j => r[i].number <= r[j].number
  <2>. SUFFICES ASSUME NEW i \in 1 .. Len(r), NEW j \in 1 .. Len(r),
                       IsRequest(r[i]), IsRequest(r[j]), i < j
                PROVE  r[i].number <= r[j].number
    OBVIOUS
  <2>1. /\ i + 1 \in 1 .. Len(q) /\ r[i] = q[i + 1]
        /\ j + 1 \in 1 .. Len(q) /\ r[j] = q[j + 1] /\ i + 1 < j + 1
    BY <1>1
  <2>. QED
    BY <2>1 DEF Ordered
<1>7. ASSUME NEW n \in m + 1 .. l
      PROVE  \E i \in 1 .. Len(r) : IsRequest(r[i]) /\ r[i].number = n
  <2>1. n \in f + 1 .. l
    BY <1>2
  <2>2. PICK i \in 1 .. Len(q) : IsRequest(q[i]) /\ q[i].number = n
    BY <2>1 DEF Ordered
  <2>3. i # 1
    BY <1>1, <1>2, <2>2
  <2>4. i - 1 \in 1 .. Len(r) /\ r[i - 1] = q[i]
    BY <1>1, <2>3
  <2>. QED
    BY <2>2, <2>4
<1>. QED
  BY <1>2, <1>4, <1>5, <1>6, <1>7 DEF Ordered, r

\* Sending a token that is not a request.
LEMMA OtherPut ==
  ASSUME NEW q \in Seq(Tokens), NEW x \in Tokens, ~IsRequest(x),
         NEW f \in Nat, NEW l \in Nat, Ordered(q, f, l)
  PROVE  Ordered(q \o <<x>>, f, l)
<1>. DEFINE r == q \o <<x>>
<1>1. /\ Len(q) \in Nat /\ Len(r) = Len(q) + 1 /\ r[Len(q) + 1] = x
      /\ \A i \in 1 .. Len(q) : r[i] = q[i]
  BY Put
<1>. HIDE DEF r
<1>2. \A i \in 1 .. Len(r) : IsRequest(r[i]) => i \in 1 .. Len(q) /\ r[i] = q[i]
  BY <1>1
<1>3. \A n \in f + 1 .. l : \E i \in 1 .. Len(r) : IsRequest(r[i]) /\ r[i].number = n
  BY <1>1 DEF Ordered
<1>. QED
  BY <1>2, <1>3 DEF Ordered, r

\* Sending the last request again, or the next one.
LEMMA RequestPut ==
  ASSUME NEW q \in Seq(Tokens), NEW x \in Tokens, IsRequest(x), x.good,
         NEW f \in Nat, NEW l \in Nat, Ordered(q, f, l), x.number \in {l, l + 1}
  PROVE  Ordered(q \o <<x>>, f, x.number)
<1>. DEFINE r == q \o <<x>>
            m == x.number
<1>1. /\ Len(q) \in Nat /\ Len(r) = Len(q) + 1 /\ r[Len(q) + 1] = x
      /\ \A i \in 1 .. Len(q) : r[i] = q[i]
  BY Put
<1>2. m \in Nat /\ f <= l /\ l <= m
  BY DEF Ordered
<1>. HIDE DEF r
<1>3. \A i \in 1 .. Len(r) : i = Len(q) + 1 \/ i \in 1 .. Len(q)
  BY <1>1
<1>4. \A i \in 1 .. Len(r) : IsRequest(r[i]) => r[i].good /\ r[i].number \in f .. m
  BY <1>1, <1>2, <1>3 DEF Ordered
<1>5. \A i, j \in 1 .. Len(r) :
        IsRequest(r[i]) /\ IsRequest(r[j]) /\ i < j => r[i].number <= r[j].number
  <2>. SUFFICES ASSUME NEW i \in 1 .. Len(r), NEW j \in 1 .. Len(r),
                       IsRequest(r[i]), IsRequest(r[j]), i < j
                PROVE  r[i].number <= r[j].number
    OBVIOUS
  <2>1. i \in 1 .. Len(q)
    BY <1>1
  <2>2. CASE j \in 1 .. Len(q)
    BY <1>1, <2>1, <2>2 DEF Ordered
  <2>3. CASE j = Len(q) + 1
    BY <1>1, <1>2, <1>4, <2>1, <2>3
  <2>. QED
    BY <1>3, <2>2, <2>3
<1>6. ASSUME NEW n \in f + 1 .. m
      PROVE  \E i \in 1 .. Len(r) : IsRequest(r[i]) /\ r[i].number = n
  <2>1. CASE n = m
    BY <1>1, <2>1
  <2>2. CASE n # m
    <3>1. n \in f + 1 .. l
      BY <1>2, <2>2
    <3>2. PICK i \in 1 .. Len(q) : IsRequest(q[i]) /\ q[i].number = n
      BY <3>1 DEF Ordered
    <3>3. i \in 1 .. Len(r) /\ r[i] = q[i]
      BY <1>1
    <3>. QED
      BY <3>2, <3>3
  <2>. QED
    BY <2>1, <2>2
<1>7. Ordered(r, f, m)
  <2>1. f <= m
    BY <1>2
  <2>. QED
    BY <1>4, <1>5, <1>6, <2>1 DEF Ordered
<1>. QED
  BY <1>7 DEF r

\* What the invariant says while the line has damaged nothing.
OrderPhase ==
  /\ server = "handle" => request \in {sent, sent + 1}
  /\ Ordered(toServer, Current, asked)

LEMMA InitOrder == Init => OrderInv
BY DEF Init, OrderInv, Ordered, Current

\* The scanner takes the requests in order.
LEMMA ServerOrder ==
  ASSUME TypeInv, OrderPhase, Server
  PROVE  OrderPhase'
<1>. USE DEF TypeInv
<1>n. Current \in Nat /\ asked \in Nat /\ sent \in Nat /\ request \in Nat
  BY BoundsAssumption DEF TypeOK, Current
<1>k. asked' = asked
  BY DEF Server, ScanAck, ScanNack, RefusePacket, TakePacket, ScanNoise, ScanEof,
         Scan, Handle, clientVars
<1>1. ASSUME NEW kind, Scan(kind), kind # "packet", UNCHANGED <<sent, request>>,
             server' # "handle"
      PROVE  OrderPhase'
  <2>1. /\ toServer \in Seq(Tokens) /\ toServer # << >> /\ ~IsRequest(Head(toServer))
        /\ toServer' = Tail(toServer) /\ server = "scan"
    BY <1>1, Scanned DEF IsRequest, TypeOK
  <2>2. Ordered(Tail(toServer), Current, asked)
    BY <1>n, <2>1, OtherTaken DEF OrderPhase
  <2>3. Current' = Current
    BY <1>1, <2>1 DEF Current
  <2>. QED
    BY <1>1, <1>k, <2>1, <2>2, <2>3 DEF OrderPhase
<1>2. ASSUME Scan("packet")
      PROVE  /\ Head(toServer).good /\ Head(toServer).number \in {sent, sent + 1}
             /\ Ordered(toServer', Head(toServer).number, asked)
  <2>1. /\ toServer \in Seq(Tokens) /\ toServer # << >> /\ IsRequest(Head(toServer))
        /\ toServer' = Tail(toServer) /\ Current = sent
    BY <1>2, Scanned DEF IsRequest, TypeOK, Current
  <2>. QED
    BY <1>n, <2>1, RequestTaken DEF OrderPhase
<1>3. CASE TakePacket
  <2>1. /\ Scan("packet") /\ request' = Head(toServer).number /\ server' = "handle"
        /\ sent' = sent
    BY <1>3 DEF TakePacket
  <2>. QED
    BY <1>2, <1>k, <2>1 DEF OrderPhase, Current
<1>4. CASE RefusePacket
  BY <1>2, <1>4 DEF RefusePacket
<1>5. CASE Handle
  BY <1>5, <1>k DEF Handle, OrderPhase, Current
<1>6. CASE ScanAck
  BY <1>1, <1>6 DEF ScanAck, Scan
<1>7. CASE ScanNack
  BY <1>1, <1>7 DEF ScanNack, Scan
<1>8. CASE ScanNoise
  BY <1>1, <1>8 DEF ScanNoise, Scan
<1>9. CASE ScanEof
  BY <1>1, <1>9 DEF ScanEof
<1>. QED
  BY <1>3, <1>4, <1>5, <1>6, <1>7, <1>8, <1>9 DEF Server

\* The client sends the last request again, or the next one.
LEMMA ClientOrder ==
  ASSUME TypeInv, OrderPhase, ReadAck \/ ReadReply \/ Ask \/ Close \/ BringNoise
  PROVE  OrderPhase'
<1>. USE DEF TypeInv
<1>n. Current \in Nat /\ asked \in Nat /\ toServer \in Seq(Tokens)
  BY BoundsAssumption DEF TypeOK, Current
<1>k. UNCHANGED <<server, request, sent>> /\ Current' = Current
  BY DEF ReadAck, ReadReply, Read, Ask, Close, BringNoise, serverVars, Current
<1>1. ASSUME NEW x \in Tokens, ~IsRequest(x), Send(<<x>>), asked' = asked
      PROVE  OrderPhase'
  <2>1. Ordered(toServer', Current, asked)
    BY <1>1, <1>n, OtherPut DEF Send, OrderPhase
  <2>. QED
    BY <1>1, <1>k, <2>1 DEF OrderPhase
<1>2. ASSUME NEW n \in 1 .. MaxRequests, Send(<<Packet(n)>>),
             n \in {asked, asked + 1}, asked' = n
      PROVE  OrderPhase'
  <2>1. /\ Packet(n) \in Tokens /\ Packet(n).number = n /\ Packet(n).good
        /\ IsRequest(Packet(n))
    BY TokenOf, KindOf DEF Copies, IsRequest
  <2>2. Ordered(toServer \o <<Packet(n)>>, Current, Packet(n).number)
    BY <1>2, <1>n, <2>1, RequestPut DEF OrderPhase
  <2>. QED
    BY <1>2, <1>k, <2>1, <2>2 DEF Send, OrderPhase
<1>3. ASSUME UNCHANGED <<toServer, asked>>
      PROVE  OrderPhase'
  BY <1>3, <1>k DEF OrderPhase
<1>4. /\ {Ack, Nack, Noise, Eof} \subseteq Tokens
      /\ ~IsRequest(Ack) /\ ~IsRequest(Nack) /\ ~IsRequest(Noise) /\ ~IsRequest(Eof)
  BY TokenOf, KindOf DEF IsRequest
<1>5. CASE ReadAck
  <2>1. asked \in 1 .. MaxRequests /\ asked' = asked
    BY <1>5, BoundsAssumption DEF ReadAck, TypeOK
  <2>2. UNCHANGED toServer \/ Send(<<Packet(asked)>>) \/ Send(<<Ack>>)
    BY <1>5 DEF ReadAck
  <2>. QED
    BY <1>1, <1>2, <1>3, <1>4, <2>1, <2>2
<1>6. CASE ReadReply
  <2>1. asked' = asked /\ (UNCHANGED toServer \/ Send(<<Ack>>) \/ Send(<<Nack>>))
    BY <1>6 DEF ReadReply
  <2>. QED
    BY <1>1, <1>3, <1>4, <2>1
<1>7. CASE Ask
  <2>1. /\ asked + 1 \in 1 .. MaxRequests /\ asked' = asked + 1
        /\ Send(<<Packet(asked + 1)>>)
    BY <1>7, BoundsAssumption DEF Ask, TypeOK
  <2>. QED
    BY <1>2, <2>1
<1>8. CASE Close
  BY <1>1, <1>4, <1>8 DEF Close
<1>9. CASE BringNoise
  BY <1>1, <1>4, <1>9 DEF BringNoise, clientVars
<1>. QED
  BY <1>5, <1>6, <1>7, <1>8, <1>9

\* A line that has damaged nothing after a step had damaged nothing before it.
LEMMA DamageBefore ==
  ASSUME TypeInv, Next, damage' = 0
  PROVE  damage = 0 /\ ~Damage
BY DEF TypeInv, TypeOK, Next, Server, Client, ScanAck, ScanNack, RefusePacket,
       TakePacket, ScanNoise, ScanEof, Scan, Handle, ReadAck, ReadReply, Read,
       Ask, Close, Damage, BringNoise, Ended, vars, lineVars

LEMMA OrderKept == TypeInv /\ OrderInv /\ [Next]_vars => OrderInv'
<1>1. ASSUME OrderInv, UNCHANGED vars
      PROVE  OrderInv'
  BY <1>1 DEF vars, OrderInv, Current
<1>2. ASSUME TypeInv, OrderInv, Next, damage' = 0, ~UNCHANGED vars
      PROVE  OrderPhase'
  <2>1. damage = 0 /\ ~Damage
    BY <1>2, DamageBefore
  <2>2. OrderPhase
    BY <1>2, <2>1 DEF OrderInv, OrderPhase
  <2>. QED
    BY <1>2, <2>1, <2>2, ServerOrder, ClientOrder DEF Next, Client, Ended
<1>. QED
  BY <1>1, <1>2 DEF OrderInv, OrderPhase

\* The handlers run in the order of the requests and none is left out, on a
\* line that may bring characters of its own but damages nothing: the request
\* a handler ends is the one before it again, or the next
\* (gdb_packet_analysis, with what the scanner hands it).
THEOREM InOrder == Spec => HandledInOrder
<1>1. Spec => [](TypeInv /\ OrderInv)
  BY InitTypes, InitOrder, TypesKept, OrderKept, PTL DEF Spec
<1>2. TypeInv /\ OrderInv /\ [Next]_vars
        => [damage = 0 /\ server = "handle" /\ server' = "scan"
              => request \in {sent, sent + 1}]_vars
  BY DEF OrderInv
<1>. QED
  BY <1>1, <1>2, PTL DEF Spec, HandledInOrder
===============================================================================
