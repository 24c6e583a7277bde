--------------------------- MODULE SlirpTcpProofs ---------------------------
(***************************************************************************)
(* What holds of the user-mode network's TCP for any number of sessions of *)
(* a connection, any window and any data of the host. The invariant has a  *)
(* base, which says how far the threads of a session have come, and on top *)
(* of it one part for each property; what a guest acknowledges also rests  *)
(* on what is known of a guest that writes.                                *)
(***************************************************************************)
EXTENDS SlirpTcp, TLAPS

\* The packets of a queue, without their order.
Queued(q) == {q[i] : i \in 1..Len(q)}

Isn(s) == s * Gap

Sessions ==
    [state : {"Connecting", "SynAckSent", "Established", "FinWait", "Closed"},
     sock : {"none", "open", "closed"}, ourSeq : Nat, theirSeq : Nat,
     cancelled : BOOLEAN, ack : Nat, win : Nat]

Packets ==
    [from : Session, kind : {"SynAck", "Refused", "Data", "Fin", "Ack", "Rst"},
     seq : Nat, ack : Nat]

Guests ==
    [state : {"Closed", "SynSent", "Open", "Closing"}, syn : Nat, irs : Session \cup {None},
     rcv : Nat, unread : 0..GuestWindow, got : Nat, eof : BOOLEAN, snd : Nat, una : Nat,
     fin : BOOLEAN, resent : BOOLEAN, lostData : BOOLEAN]

Hosts == [sent : Nat, eof : BOOLEAN, rst : BOOLEAN, read : Nat, got : Nat]

Hists == [erasedBy : Session \cup {None}, early : BOOLEAN, forced : BOOLEAN, granted : Nat]

Typed ==
    /\ last \in 0..MaxSessions /\ map \in Session \cup {None} /\ cpu \in Session \cup {None}
    /\ sess \in [Session -> Sessions]
    /\ conn \in [Session -> {"none", "started", "select", "erase", "publish", "done"}]
    /\ loop \in [Session -> {"none", "recv", "wait", "send", "done"}]
    /\ rxq \in Seq(Packets) /\ disposed \in {"no", "closing", "gone"}
    /\ guest \in Guests /\ writer \in BOOLEAN
    /\ host \in [Session -> Hosts] /\ hist \in [Session -> Hists]

\* A session by the threads that have it: its socket comes with the connect
\* thread, its later states with the receive thread, and only a close ends it.
SessionOK(s) ==
    /\ conn[s] = "none" <=> s > last
    /\ loop[s] # "none" => conn[s] = "done"
    /\ conn[s] \in {"none", "started", "select", "erase"} => sess[s].sock = "none"
    /\ conn[s] = "publish" \/ loop[s] # "none" => sess[s].sock # "none"
    /\ loop[s] = "none" => sess[s].state \in {"Connecting", "Closed"}
    /\ ~sess[s].cancelled /\ loop[s] # "none" =>
         sess[s].state \in {"SynAckSent", "Established", "FinWait"} /\ sess[s].sock = "open"
    /\ ~sess[s].cancelled /\ conn[s] = "publish" => sess[s].sock = "open"
    /\ sess[s].state = "FinWait" => loop[s] = "done"
    /\ loop[s] = "none" => host[s].read = 0 /\ hist[s].granted = 0
    /\ host[s].read <= host[s].sent

\* The map and the close in progress.
MapOK ==
    /\ map # None => map <= last /\ ~sess[map].cancelled
    /\ cpu # None => /\ map \in {None, cpu} /\ cpu <= last /\ disposed = "no"
                     /\ guest.fin /\ guest.state \in {"Closing", "Closed"}

\* The guest's connection.
GuestOK ==
    /\ disposed # "no" => guest.state = "Closed"
    /\ guest.state = "SynSent" =>
         /\ guest = NewGuest(guest.syn) /\ guest.syn \in 1..last
         /\ map # None => map >= guest.syn
    /\ guest.state \in {"Open", "Closing"} => guest.irs # None
    /\ guest.irs # None => guest.irs <= last /\ loop[guest.irs] # "none"
    /\ guest.state = "Open" => ~guest.fin /\ ~guest.lostData
    /\ guest.state = "Closing" => guest.fin
    /\ guest.irs = None => ~guest.eof

QueueOK ==
    \A p \in Queued(rxq) :
        p.from <= last /\ (p.kind = "SynAck" => loop[p.from] # "none")

Base == Typed /\ (\A s \in Session : SessionOK(s)) /\ MapOK /\ GuestOK /\ QueueOK

\* What brings a socket outside the map.
OrphanOK(s) ==
    /\ map # s
    /\ conn[s] \in {"started", "select"} \/ sess[s].sock = "open"
    => cpu = s \/ hist[s].early \/ hist[s].erasedBy # None

\* The sessions of the guest's connection, as long as it has not closed it.
Live(s) ==
    \/ guest.state = "SynSent" /\ guest.syn <= s /\ s <= last
    \/ guest.irs = s /\ ~guest.fin

\* Sequence numbers of a session count what its receive thread read.
SequenceOK(s) ==
    /\ loop[s] = "none" => sess[s].ourSeq = Isn(s)
    /\ loop[s] = "recv" => sess[s].ourSeq = Isn(s) + 1 + host[s].read
    /\ loop[s] \in {"wait", "send"} => sess[s].ourSeq = Isn(s) + host[s].read
    /\ \A p \in Queued(rxq) : p.from = s =>
         /\ p.kind = "SynAck" => p.seq = Isn(s)
         /\ p.kind = "Data" => p.seq < Isn(s) + 1 + host[s].read
         /\ p.kind = "Fin" => host[s].eof /\ p.seq = Isn(s) + 1 + host[s].sent

EofOK ==
    /\ \A s \in Session : Live(s) => SequenceOK(s)
    /\ guest.irs # None /\ ~guest.fin =>
         /\ guest.state = "Open" /\ ~guest.eof => guest.rcv = Isn(guest.irs) + 1 + guest.got
         /\ guest.eof => /\ host[guest.irs].eof /\ guest.got = host[guest.irs].sent
                         /\ guest.rcv = Isn(guest.irs) + 2 + guest.got

\* If the guest is the one that writes, the host sends its end of file only.
WriterOK ==
    writer =>
        /\ \A s \in Session :
             /\ host[s].sent = 0 /\ loop[s] \notin {"wait", "send"}
             /\ ~sess[s].cancelled =>
                  /\ loop[s] = "none" => sess[s].ourSeq = Isn(s)
                  /\ loop[s] = "recv" => sess[s].ourSeq = Isn(s) + 1
                  /\ sess[s].state = "FinWait" => sess[s].ourSeq = Isn(s) + 2
        /\ \A p \in Queued(rxq) : p.kind # "Data"
        /\ guest.got = 0
        /\ guest.state = "Closing" => ~guest.eof /\ guest.rcv = Isn(guest.irs) + 1

Bound == 1 + host[guest.irs].got + (IF guest.fin THEN 1 ELSE 0)

\* A session that sends nothing any more.
Silent(s) == loop[s] = "done" \/ (loop[s] = "recv" /\ (host[s].rst \/ sess[s].cancelled))

\* Before the connection is open nothing acknowledges more than the SYN.
SynAcks ==
    guest.state = "SynSent" =>
        /\ \A s \in Session : guest.syn <= s /\ s <= last => sess[s].theirSeq = 1
        /\ \A p \in Queued(rxq) : guest.syn <= p.from => p.ack <= 1

\* What the guest has sent, and the host has had of it.
Sends ==
    guest.state = "Open" =>
        /\ guest.snd \in {1, 2} /\ (guest.snd = 2 => writer)
        /\ guest.snd = 2 /\ map = guest.irs =>
             host[guest.irs].got >= 1 \/ sess[guest.irs].state = "FinWait"

\* An open session acknowledges what its host has had and the guest's FIN. The
\* FIN that answers the guest's, behind one of the host's, is never taken.
Acks ==
    guest.irs # None /\ ~guest.lostData =>
        /\ guest.una <= Bound
        /\ sess[guest.irs].theirSeq <= Bound \/ Silent(guest.irs)
        /\ guest.state \in {"Open", "Closing"} =>
             \A p \in Queued(rxq) : p.from = guest.irs /\ p.kind \in {"Data", "Fin", "Ack"} =>
                 \/ p.ack <= Bound
                 \/ guest.state = "Closing" /\ writer /\ p.seq = Isn(guest.irs) + 2

AckOK == SynAcks /\ Sends /\ Acks

\* The window a session has been granted is that of its last ACK, from the
\* connection it serves, and the right edge of the guest's never moves back.
Grants ==
    \A s \in Session : hist[s].granted # 0 =>
        /\ sess[s].ack + sess[s].win = hist[s].granted
        /\ map = s => guest.irs = s
        /\ guest.state = "SynSent" => s < guest.syn

Edge(g) == g.rcv + GuestWindow - g.unread

Edges == guest.irs # None => hist[guest.irs].granted <= Edge(guest)

Rooms ==
    \A s \in Session :
        loop[s] = "send" /\ ~hist[s].forced /\ sess[s].state # "Closed"
            => sess[s].ourSeq + 1 <= hist[s].granted

WindowOK == Grants /\ Edges /\ Rooms

-----------------------------------------------------------------------------
(* Queues, sessions and constants.                                         *)

\* The constants are numbers, and no session is numbered None.
LEMMA IsnNat ==
  /\ MaxSessions \in Nat /\ GuestWindow \in Nat /\ GuestWindow > 0 /\ FirstWindow \in Nat
  /\ \A s \in Session : Isn(s) \in Nat /\ s \in Nat /\ s > 0 /\ s # None
BY BoundAssumption DEF Isn, Session, None, FirstWindow

\* A queue after Append holds what it held and the new packet.
LEMMA QueuedAppend ==
  ASSUME NEW S, NEW q \in Seq(S), NEW p \in S
  PROVE  Append(q, p) \in Seq(S) /\ Queued(Append(q, p)) = Queued(q) \cup {p}
<1>1. /\ Append(q, p) \in Seq(S) /\ Len(Append(q, p)) = Len(q) + 1 /\ Len(q) \in Nat
      /\ \A i \in 1..Len(q) : Append(q, p)[i] = q[i]
      /\ Append(q, p)[Len(q) + 1] = p
  OBVIOUS
<1> QED
  BY <1>1 DEF Queued

\* A queue after Tail holds nothing new; its head was one of its packets.
LEMMA QueuedTail ==
  ASSUME NEW S, NEW q \in Seq(S), q # <<>>
  PROVE  /\ Tail(q) \in Seq(S) /\ Head(q) \in S /\ Head(q) \in Queued(q)
         /\ Queued(Tail(q)) \subseteq Queued(q)
<1>1. /\ Tail(q) \in Seq(S) /\ Head(q) \in S /\ Head(q) = q[1] /\ Len(q) \in Nat /\ Len(q) > 0
      /\ Len(Tail(q)) = Len(q) - 1
      /\ \A i \in 1..(Len(q) - 1) : Tail(q)[i] = q[i + 1]
  OBVIOUS
<1> QED
  BY <1>1 DEF Queued

\* An empty queue holds no packet.
LEMMA QueuedEmpty == Queued(<<>>) = {}
BY DEF Queued

\* The packets of a queue of packets.
LEMMA QueuedTyped == ASSUME NEW q \in Seq(Packets) PROVE Queued(q) \subseteq Packets
BY DEF Queued

\* A session that has just been made.
LEMMA NewSessionIs ==
  ASSUME NEW s \in Session
  PROVE  /\ NewSession(s) \in Sessions /\ NewSession(s).ourSeq = Isn(s)
         /\ NewSession(s).state = "Connecting" /\ NewSession(s).sock = "none"
         /\ NewSession(s).theirSeq = 1 /\ NewSession(s).cancelled = FALSE
BY IsnNat DEF NewSession, Sessions, Isn

\* A session that is closed: its socket too, if it has one.
LEMMA ClosedIs ==
  ASSUME NEW t \in Sessions
  PROVE  /\ Closed(t) \in Sessions /\ Closed(t).state = "Closed" /\ Closed(t).cancelled
         /\ Closed(t).sock = IF t.sock = "open" THEN "closed" ELSE t.sock
         /\ Closed(t).ourSeq = t.ourSeq /\ Closed(t).theirSeq = t.theirSeq
         /\ Closed(t).ack = t.ack /\ Closed(t).win = t.win
BY DEF Closed, Sessions

\* What the actions change of a session.
LEMMA SessionEdits ==
  ASSUME NEW t \in Sessions, NEW n \in Nat
  PROVE  /\ [t EXCEPT !.sock = "open"] \in Sessions
         /\ [t EXCEPT !.state = "SynAckSent", !.ourSeq = t.ourSeq + 1, !.ack = n] \in Sessions
         /\ [t EXCEPT !.ourSeq = t.ourSeq + 1, !.state = "FinWait"] \in Sessions
         /\ [t EXCEPT !.ourSeq = t.ourSeq + 1] \in Sessions
         /\ [t EXCEPT !.theirSeq = n] \in Sessions
<1>1. t.ourSeq + 1 \in Nat
  BY DEF Sessions
<1>2. [t EXCEPT !.sock = "open"] \in Sessions
  BY DEF Sessions
<1>3. [t EXCEPT !.theirSeq = n] \in Sessions
  BY DEF Sessions
<1>4. [t EXCEPT !.ourSeq = t.ourSeq + 1] \in Sessions
  BY <1>1 DEF Sessions
<1>5. [t EXCEPT !.ourSeq = t.ourSeq + 1, !.state = "FinWait"] \in Sessions
  BY <1>1 DEF Sessions
<1>6. [t EXCEPT !.state = "SynAckSent", !.ourSeq = t.ourSeq + 1, !.ack = n] \in Sessions
  BY <1>1 DEF Sessions
<1> QED
  BY <1>2, <1>3, <1>4, <1>5, <1>6

\* What the actions change of a host's side.
LEMMA HostEdits ==
  ASSUME NEW h \in Hosts
  PROVE  LET r == [h EXCEPT !.read = @ + 1]
             d == [h EXCEPT !.sent = @ + 1]
             e == [h EXCEPT !.eof = TRUE]
             x == [h EXCEPT !.rst = TRUE]
         IN  /\ r \in Hosts /\ r.read = h.read + 1 /\ r.sent = h.sent /\ r.eof = h.eof
             /\ r.rst = h.rst /\ r.got = h.got
             /\ d \in Hosts /\ d.read = h.read /\ d.sent = h.sent + 1 /\ d.eof = h.eof
             /\ d.rst = h.rst /\ d.got = h.got
             /\ e \in Hosts /\ e.read = h.read /\ e.sent = h.sent /\ e.eof
             /\ e.rst = h.rst /\ e.got = h.got
             /\ x \in Hosts /\ x.read = h.read /\ x.sent = h.sent /\ x.eof = h.eof
             /\ x.rst /\ x.got = h.got
<1>1. h.read + 1 \in Nat /\ h.sent + 1 \in Nat
  BY DEF Hosts
<1> QED
  BY <1>1 DEF Hosts

\* The numbers of the sessions that have been made.
LEMMA Made ==
  ASSUME Base
  PROVE  /\ last \in Nat /\ last <= MaxSessions
         /\ \A s \in Session : conn[s] # "none" <=> s <= last
         /\ \A s \in Session : /\ sess[s] \in Sessions /\ host[s] \in Hosts /\ hist[s] \in Hists
                               /\ SessionOK(s)
         /\ Queued(rxq) \subseteq Packets /\ rxq \in Seq(Packets) /\ guest \in Guests
BY IsnNat, QueuedTyped DEF Base, Typed, SessionOK

\* A packet from a session.
LEMMA PacketIs ==
  ASSUME Base, NEW s \in Session, NEW n \in Nat,
         NEW kind \in {"SynAck", "Data", "Fin", "Ack", "Rst"}
  PROVE  LET p == Packet(s, kind, n)
         IN  /\ p \in Packets /\ p.from = s /\ p.kind = kind /\ p.seq = n
             /\ p.ack = sess[s].theirSeq
BY Made DEF Packet, Packets, Sessions

\* The effect on the queue of putting a packet into it.
LEMMA Enqueued ==
  ASSUME Base, NEW p \in Packets, Enqueue(p)
  PROVE  rxq' \in Seq(Packets) /\ Queued(rxq') = Queued(rxq) \cup {p} /\ Queued(rxq)' = Queued(rxq')
BY Made, QueuedAppend DEF Enqueue, Queued

-----------------------------------------------------------------------------
(* The base of the invariant.                                              *)

\* The base holds at the start.
LEMMA InitBase == Init => Base
<1> SUFFICES ASSUME Init PROVE Base
  OBVIOUS
<1>1. \A s \in Session : NewSession(s) \in Sessions
  BY NewSessionIs
<1>2. 0 \in 0..GuestWindow /\ NewHost \in Hosts /\ NewHist \in Hists /\ 0 \in 0..MaxSessions
  BY IsnNat DEF NewHost, NewHist, Hosts, Hists, None
<1>3. ClosedGuest \in Guests
  BY <1>2 DEF ClosedGuest, NewGuest, Guests, None
<1>4. Typed
  BY <1>1, <1>2, <1>3 DEF Init, Typed, None
<1>5. ASSUME NEW s \in Session PROVE SessionOK(s)
  <2>1. /\ last = 0 /\ conn[s] = "none" /\ loop[s] = "none" /\ sess[s] = NewSession(s)
        /\ host[s].read = 0 /\ host[s].sent = 0 /\ hist[s].granted = 0
    BY DEF Init, NewHost, NewHist
  <2>2. s > last /\ sess[s].sock = "none" /\ sess[s].state = "Connecting"
    BY <2>1, NewSessionIs, IsnNat DEF Session
  <2> QED
    BY <2>1, <2>2, IsnNat DEF SessionOK
<1> QED
  BY <1>4, <1>5, QueuedEmpty DEF Init, Base, MapOK, GuestOK, QueueOK, ClosedGuest, NewGuest, None

\* A step of a connect thread.
LEMMA ConnectBase == ASSUME Base, NEW s \in Session, Connect(s) PROVE Base'
<1> USE IsnNat, Made
<1>0. Typed /\ (\A t \in Session : SessionOK(t)) /\ sess[s] \in Sessions
  BY DEF Base
<1>1. CASE ConnectDisposed(s)
  <2>1. Typed'
    BY <1>0, <1>1 DEF ConnectDisposed, ConnStep, Typed
  <2>2. \A t \in Session : SessionOK(t)'
    BY <1>0, <1>1 DEF ConnectDisposed, ConnStep, Typed, SessionOK
  <2> QED
    BY <1>1, <2>1, <2>2 DEF ConnectDisposed, ConnStep, Base, MapOK, GuestOK, QueueOK
<1>2. CASE ConnectWaits(s)
  <2>1. Typed'
    BY <1>0, <1>2 DEF ConnectWaits, ConnStep, Typed
  <2>2. \A t \in Session : SessionOK(t)'
    BY <1>0, <1>2 DEF ConnectWaits, ConnStep, Typed, SessionOK
  <2> QED
    BY <1>2, <2>1, <2>2 DEF ConnectWaits, ConnStep, Base, MapOK, GuestOK, QueueOK
<1>3. CASE ConnectFails(s)
  <2> DEFINE p == [from |-> s, kind |-> "Refused", seq |-> 0, ack |-> 1]
  <2>1. p \in Packets /\ s <= last
    BY <1>3 DEF Packets, ConnectFails, ConnStep
  <2>2. rxq' \in Seq(Packets) /\ Queued(rxq') = Queued(rxq) \cup {p}
    BY <1>3, <2>1, Enqueued DEF ConnectFails
  <2>3. Typed'
    BY <1>0, <1>3, <2>2 DEF ConnectFails, ConnStep, Typed
  <2>4. \A t \in Session : SessionOK(t)'
    BY <1>0, <1>3 DEF ConnectFails, ConnStep, Typed, SessionOK
  <2> QED
    BY <1>3, <2>1, <2>2, <2>3, <2>4 DEF ConnectFails, ConnStep, Base, MapOK, GuestOK, QueueOK
<1>4. CASE ConnectErases(s)
  <2>1. Typed'
    BY <1>0, <1>4 DEF ConnectErases, ConnStep, Typed, Hists, None
  <2>2. \A t \in Session : SessionOK(t)'
    BY <1>0, <1>4 DEF ConnectErases, ConnStep, Typed, SessionOK, Hists
  <2> QED
    BY <1>4, <2>1, <2>2 DEF ConnectErases, ConnStep, Base, MapOK, GuestOK, QueueOK
<1>5. CASE ConnectSucceeds(s)
  <2> DEFINE r == [sess[s] EXCEPT !.sock = "open"]
  <2>1. r \in Sessions /\ r.sock = "open" /\ r.state = sess[s].state /\ r.cancelled = sess[s].cancelled
    BY SessionEdits, <1>0 DEF Sessions
  <2>2. sess' = [sess EXCEPT ![s] = r] /\ conn[s] = "select" /\ conn' = [conn EXCEPT ![s] = "publish"]
        /\ UNCHANGED <<writer, last, map, loop, rxq, cpu, disposed, guest, host, hist>>
    BY <1>5 DEF ConnectSucceeds, ConnStep
  <2> HIDE DEF r
  <2>3. Typed'
    BY <1>0, <2>1, <2>2 DEF Typed
  <2>4. \A t \in Session : SessionOK(t)'
    BY <1>0, <2>1, <2>2 DEF Typed, SessionOK
  <2>5. \A t \in Session : sess'[t].cancelled = sess[t].cancelled
    BY <1>0, <2>1, <2>2 DEF Typed
  <2> QED
    BY <2>2, <2>3, <2>4, <2>5 DEF Base, MapOK, GuestOK, QueueOK, Typed
<1>6. CASE ConnectAnswers(s)
  <2> DEFINE p == Packet(s, "SynAck", sess[s].ourSeq)
             r == [sess[s] EXCEPT !.state = "SynAckSent", !.ourSeq = sess[s].ourSeq + 1,
                                  !.ack = sess[s].ourSeq + 1]
  <2>1. p \in Packets /\ p.from = s /\ p.kind = "SynAck" /\ sess[s].ourSeq + 1 \in Nat
    BY <1>0, PacketIs DEF Sessions
  <2>2. r \in Sessions /\ r.sock = sess[s].sock /\ r.state = "SynAckSent" /\ r.cancelled = sess[s].cancelled
    BY SessionEdits, <1>0, <2>1 DEF Sessions
  <2>3. /\ sess' = [sess EXCEPT ![s] = r] /\ conn[s] = "publish" /\ conn' = [conn EXCEPT ![s] = "done"]
        /\ loop' = [loop EXCEPT ![s] = "recv"] /\ Enqueue(p)
        /\ UNCHANGED <<writer, last, map, cpu, disposed, guest, host, hist>>
    BY <1>6 DEF ConnectAnswers, ConnStep
  <2>4. rxq' \in Seq(Packets) /\ Queued(rxq') = Queued(rxq) \cup {p}
    BY <2>1, <2>3, Enqueued
  <2> HIDE DEF p, r
  <2>5. Typed'
    BY <1>0, <2>2, <2>3, <2>4 DEF Typed
  <2>6. \A t \in Session : SessionOK(t)'
    BY <1>0, <2>2, <2>3 DEF Typed, SessionOK
  <2>7. \A t \in Session : sess'[t].cancelled = sess[t].cancelled /\ (loop[t] # "none" => loop'[t] # "none")
    BY <1>0, <2>2, <2>3 DEF Typed
  <2>8. QueueOK'
    <3>1. s <= last /\ loop'[s] # "none"
      BY <1>0, <2>3 DEF Typed
    <3> QED
      BY <2>1, <2>3, <2>4, <2>7, <3>1 DEF Base, QueueOK, Packets
  <2>9. GuestOK'
    BY <2>3, <2>7 DEF Base, GuestOK, Guests
  <2> QED
    BY <2>3, <2>5, <2>6, <2>7, <2>8, <2>9 DEF Base, MapOK, Typed
<1> QED
  BY <1>1, <1>2, <1>3, <1>4, <1>5, <1>6 DEF Connect

\* A step of a receive thread.
LEMMA ReceiveBase == ASSUME Base, NEW s \in Session, Receive(s) PROVE Base'
<1> USE IsnNat, Made
<1>0. Typed /\ (\A t \in Session : SessionOK(t)) /\ sess[s] \in Sessions
  BY DEF Base
<1>1. CASE LoopEnds(s)
  <2>1. Typed'
    BY <1>0, <1>1 DEF LoopEnds, LoopStep, Typed
  <2>2. \A t \in Session : SessionOK(t)'
    BY <1>0, <1>1 DEF LoopEnds, LoopStep, Typed, SessionOK
  <2>3. \A t \in Session : loop[t] # "none" => loop'[t] # "none"
    BY <1>0, <1>1 DEF LoopEnds, LoopStep, Typed
  <2> QED
    BY <1>1, <2>1, <2>2, <2>3 DEF LoopEnds, Base, MapOK, GuestOK, QueueOK, Packets, Guests
<1>2. CASE ReceiveData(s)
  <2> DEFINE h == [host[s] EXCEPT !.read = host[s].read + 1]
  <2>1. h \in Hosts /\ h.read = host[s].read + 1 /\ h.sent = host[s].sent
    BY <1>0, HostEdits
  <2>2. /\ host' = [host EXCEPT ![s] = h] /\ host[s].read < host[s].sent
        /\ loop[s] = "recv" /\ loop' = [loop EXCEPT ![s] = "wait"] /\ KeepsReceiving(s)
        /\ UNCHANGED <<writer, last, map, sess, conn, rxq, cpu, disposed, guest, hist>>
    BY <1>2 DEF ReceiveData, Receives, LoopStep
  <2> HIDE DEF h
  <2>3. Typed'
    BY <1>0, <2>1, <2>2 DEF Typed
  <2>4. ASSUME NEW t \in Session PROVE SessionOK(t)'
    <3>1. host[t].read \in Nat /\ host[t].sent \in Nat
      BY <1>0 DEF Hosts
    <3>2. CASE t = s
      BY <1>0, <2>1, <2>2, <3>1, <3>2 DEF Typed, SessionOK, KeepsReceiving
    <3>3. CASE t # s
      BY <1>0, <2>2, <3>3 DEF Typed, SessionOK
    <3> QED
      BY <3>2, <3>3
  <2>5. \A t \in Session : loop[t] # "none" => loop'[t] # "none"
    BY <1>0, <2>2 DEF Typed
  <2> QED
    BY <2>2, <2>3, <2>4, <2>5 DEF Base, MapOK, GuestOK, QueueOK, Packets, Guests
<1>3. CASE ReceiveEof(s)
  <2> DEFINE p == Packet(s, "Fin", sess[s].ourSeq)
             r == [sess[s] EXCEPT !.ourSeq = sess[s].ourSeq + 1, !.state = "FinWait"]
  <2>1. p \in Packets /\ p.from = s /\ p.kind = "Fin" /\ 0 \in Nat
    BY <1>0, PacketIs DEF Sessions
  <2>2. r \in Sessions /\ r.sock = sess[s].sock /\ r.state = "FinWait" /\ r.cancelled = sess[s].cancelled
    BY SessionEdits, <1>0, <2>1 DEF Sessions
  <2>3. /\ sess' = [sess EXCEPT ![s] = r] /\ loop[s] = "recv" /\ KeepsReceiving(s)
        /\ loop' = [loop EXCEPT ![s] = "done"] /\ Enqueue(p)
        /\ UNCHANGED <<writer, last, map, conn, cpu, disposed, guest, host, hist>>
    BY <1>3 DEF ReceiveEof, Receives, LoopStep
  <2>4. rxq' \in Seq(Packets) /\ Queued(rxq') = Queued(rxq) \cup {p}
    BY <2>1, <2>3, Enqueued
  <2> HIDE DEF p, r
  <2>5. Typed'
    BY <1>0, <2>2, <2>3, <2>4 DEF Typed
  <2>6. \A t \in Session : SessionOK(t)'
    BY <1>0, <2>2, <2>3 DEF Typed, SessionOK
  <2>7. \A t \in Session : sess'[t].cancelled = sess[t].cancelled /\ (loop[t] # "none" => loop'[t] # "none")
    BY <1>0, <2>2, <2>3 DEF Typed
  <2>8. QueueOK'
    <3>1. s <= last
      BY <1>0, <2>3 DEF Typed, SessionOK
    <3> QED
      BY <2>1, <2>3, <2>4, <2>7, <3>1 DEF Base, QueueOK, Packets
  <2>9. GuestOK'
    BY <2>3, <2>7 DEF Base, GuestOK, Guests
  <2> QED
    BY <2>3, <2>5, <2>6, <2>7, <2>8, <2>9 DEF Base, MapOK, Typed
<1>4. CASE WindowOpens(s) \/ WaitTimesOut(s)
  <2>1. PICK to \in {"done", "send"}, b \in BOOLEAN :
          /\ hist' = [hist EXCEPT ![s] = [hist[s] EXCEPT !.forced = b]]
          /\ loop[s] = "wait" /\ loop' = [loop EXCEPT ![s] = to]
          /\ UNCHANGED <<writer, last, map, sess, conn, rxq, cpu, disposed, guest, host>>
    <3>1. CASE WindowOpens(s)
      <4>1. (hist[s].forced \/ hist[s].granted = 0) \in BOOLEAN
        BY DEF Hists
      <4> QED
        BY <3>1, <4>1 DEF WindowOpens, LoopStep
    <3>2. CASE WaitTimesOut(s)
      BY <3>2 DEF WaitTimesOut, LoopStep, AfterTimeout
    <3> QED
      BY <1>4, <3>1, <3>2
  <2> DEFINE h == [hist[s] EXCEPT !.forced = b]
  <2>2. h \in Hists /\ h.granted = hist[s].granted
    BY DEF Hists
  <2>3. hist' = [hist EXCEPT ![s] = h]
    BY <2>1
  <2> HIDE DEF h
  <2>4. Typed'
    BY <1>0, <2>1, <2>2, <2>3 DEF Typed
  <2>5. \A t \in Session : SessionOK(t)'
    BY <1>0, <2>1, <2>2, <2>3 DEF Typed, SessionOK
  <2>6. \A t \in Session : loop[t] # "none" => loop'[t] # "none"
    BY <1>0, <2>1 DEF Typed
  <2> QED
    BY <2>1, <2>4, <2>5, <2>6 DEF Base, MapOK, GuestOK, QueueOK, Packets, Guests
<1>5. CASE SendSegment(s)
  <2> DEFINE p == Packet(s, "Data", sess[s].ourSeq)
             r == [sess[s] EXCEPT !.ourSeq = sess[s].ourSeq + 1]
  <2>1. p \in Packets /\ p.from = s /\ p.kind = "Data" /\ 0 \in Nat
    BY <1>0, PacketIs DEF Sessions
  <2>2. r \in Sessions /\ r.sock = sess[s].sock /\ r.state = sess[s].state /\ r.cancelled = sess[s].cancelled
    BY SessionEdits, <1>0, <2>1 DEF Sessions
  <2>3. /\ sess' = [sess EXCEPT ![s] = r] /\ loop[s] = "send"
        /\ loop' = [loop EXCEPT ![s] = "recv"] /\ Enqueue(p)
        /\ UNCHANGED <<writer, last, map, conn, cpu, disposed, guest, host, hist>>
    BY <1>5 DEF SendSegment, LoopStep
  <2>4. rxq' \in Seq(Packets) /\ Queued(rxq') = Queued(rxq) \cup {p}
    BY <2>1, <2>3, Enqueued
  <2> HIDE DEF p, r
  <2>5. Typed'
    BY <1>0, <2>2, <2>3, <2>4 DEF Typed
  <2>6. \A t \in Session : SessionOK(t)'
    BY <1>0, <2>2, <2>3 DEF Typed, SessionOK
  <2>7. \A t \in Session : sess'[t].cancelled = sess[t].cancelled /\ (loop[t] # "none" => loop'[t] # "none")
    BY <1>0, <2>2, <2>3 DEF Typed
  <2>8. QueueOK'
    <3>1. s <= last
      BY <1>0, <2>3 DEF Typed, SessionOK
    <3> QED
      BY <2>1, <2>3, <2>4, <2>7, <3>1 DEF Base, QueueOK, Packets
  <2>9. GuestOK'
    BY <2>3, <2>7 DEF Base, GuestOK, Guests
  <2> QED
    BY <2>3, <2>5, <2>6, <2>7, <2>8, <2>9 DEF Base, MapOK, Typed
<1> QED
  BY <1>1, <1>2, <1>3, <1>4, <1>5 DEF Receive

\* A step of a host.
LEMMA HostBase ==
  ASSUME Base, NEW s \in Session, HostSends(s) \/ HostCloses(s) \/ HostResets(s)
  PROVE  Base'
<1> USE IsnNat, Made
<1>1. PICK h \in Hosts :
        host' = [host EXCEPT ![s] = h] /\ h.read = host[s].read /\ h.sent >= host[s].sent
  <2>1. host[s] \in Hosts /\ host[s].sent + 1 >= host[s].sent /\ host[s].sent >= host[s].sent
    BY DEF Hosts
  <2>2. CASE HostSends(s)
    <3> DEFINE d == [host[s] EXCEPT !.sent = @ + 1]
    <3>1. d \in Hosts /\ d.read = host[s].read /\ d.sent = host[s].sent + 1
      BY <2>1, HostEdits
    <3>2. host' = [host EXCEPT ![s] = d]
      BY <2>2 DEF HostSends
    <3> HIDE DEF d
    <3> QED
      BY <2>1, <3>1, <3>2
  <2>3. CASE HostCloses(s)
    BY <2>1, <2>3, HostEdits DEF HostCloses
  <2>4. CASE HostResets(s)
    BY <2>1, <2>4, HostEdits DEF HostResets
  <2> QED
    BY <2>2, <2>3, <2>4
<1>2. UNCHANGED <<writer, last, map, sess, conn, loop, rxq, cpu, disposed, guest, hist>>
  BY DEF HostSends, HostCloses, HostResets, HostActs
<1>3. Typed'
  BY <1>1, <1>2 DEF Base, Typed
<1>4. ASSUME NEW t \in Session PROVE SessionOK(t)'
  <2>1. host'[t] = (IF t = s THEN h ELSE host[t]) /\ host[t] \in Hosts
    BY <1>1 DEF Base, Typed
  <2>2. host[t].sent \in Nat /\ host[t].read \in Nat /\ host'[t].sent \in Nat
    BY <1>1, <2>1 DEF Hosts
  <2>3. host'[t].read = host[t].read /\ host'[t].sent >= host[t].sent
    BY <1>1, <2>1, <2>2
  <2> QED
    BY <1>2, <2>2, <2>3 DEF SessionOK
<1> QED
  BY <1>2, <1>3, <1>4 DEF Base, MapOK, GuestOK, QueueOK

-----------------------------------------------------------------------------
(* What the operations of the CPU thread do to the sessions.               *)

\* Session s has been closed.
Shut(s) ==
    /\ sess'[s].state = "Closed" /\ sess'[s].cancelled
    /\ sess'[s].sock = (IF sess[s].sock = "open" THEN "closed" ELSE sess[s].sock)
    /\ hist'[s].early = (hist[s].early \/ sess[s].sock = "none")
    /\ hist'[s].erasedBy = hist[s].erasedBy /\ hist'[s].forced = hist[s].forced

\* Session s has had an ACK.
Going(s) ==
    /\ \/ sess'[s].state = sess[s].state
       \/ sess[s].state = "SynAckSent" /\ sess'[s].state = "Established"
    /\ sess'[s].state # "SynAckSent"
    /\ sess'[s].sock = sess[s].sock /\ sess'[s].cancelled = sess[s].cancelled
    /\ sess'[s].ourSeq = sess[s].ourSeq
    /\ hist'[s].early = hist[s].early /\ hist'[s].erasedBy = hist[s].erasedBy
    /\ hist'[s].forced = hist[s].forced

\* Session s knows the window of guest g.
Granted(s, g) ==
    /\ sess'[s].ack = g.rcv /\ sess'[s].win = GuestWindow - g.unread
    /\ hist'[s].granted =
         (IF g.irs = s THEN g.rcv + GuestWindow - g.unread ELSE hist[s].granted)

\* The window of session s is what it was.
SameWindow(s) ==
    /\ sess'[s].ack = sess[s].ack /\ sess'[s].win = sess[s].win
    /\ hist'[s].granted = hist[s].granted

Same(s) == sess'[s] = sess[s] /\ hist'[s] = hist[s]

SessionsTyped == sess' \in [Session -> Sessions] /\ hist' \in [Session -> Hists]

\* CloseTcpSession touches the session it closes and no other.
LEMMA CloseIs ==
  ASSUME NEW S \in [Session -> Sessions], NEW m \in Session
  PROVE  /\ CloseSession(S, m) \in [Session -> Sessions]
         /\ CloseSession(S, m)[m] = Closed(S[m])
         /\ \A s \in Session : s # m => CloseSession(S, m)[s] = S[s]
BY ClosedIs DEF CloseSession

\* The note of a close tells whether there was a socket, and nothing else.
LEMMA NoteIs ==
  ASSUME NEW H \in [Session -> Hists], NEW m \in Session
  PROVE  LET C == CloseNote(H, m)
         IN  /\ C \in [Session -> Hists]
             /\ C[m].early = (H[m].early \/ sess[m].sock = "none")
             /\ C[m].erasedBy = H[m].erasedBy /\ C[m].forced = H[m].forced
             /\ C[m].granted = H[m].granted
             /\ \A s \in Session : s # m => C[s] = H[s]
<1>1. (H[m].early \/ sess[m].sock = "none") \in BOOLEAN /\ H[m] \in Hists
  BY DEF Hists
<1> DEFINE h == [H[m] EXCEPT !.early = H[m].early \/ sess[m].sock = "none"]
<1>2. /\ h \in Hists /\ h.early = (H[m].early \/ sess[m].sock = "none")
      /\ h.erasedBy = H[m].erasedBy /\ h.forced = H[m].forced /\ h.granted = H[m].granted
  BY <1>1 DEF Hists
<1>3. CloseNote(H, m) = [H EXCEPT ![m] = h]
  BY DEF CloseNote
<1> HIDE DEF h
<1> QED
  BY <1>2, <1>3

\* The session of the map is closed and leaves the map.
LEMMA DropIs ==
  ASSUME Base, DropMapped
  PROVE  /\ map' = None /\ SessionsTyped
         /\ \A s \in Session : s # map => Same(s)
         /\ map # None => /\ Shut(map) /\ SameWindow(map)
                          /\ sess'[map].ourSeq = sess[map].ourSeq
                          /\ sess'[map].theirSeq = sess[map].theirSeq
<1>1. map \in Session \cup {None} /\ sess \in [Session -> Sessions] /\ hist \in [Session -> Hists]
  BY DEF Base, Typed
<1>2. CASE map = None
  BY <1>1, <1>2, IsnNat DEF DropMapped, SessionsTyped, Same
<1>3. CASE map # None
  <2>1. map \in Session /\ sess[map] \in Sessions
    BY <1>1, <1>3
  <2>2. map' = None /\ sess' = CloseSession(sess, map) /\ hist' = CloseNote(hist, map)
    BY <1>3 DEF DropMapped
  <2>3. SessionsTyped /\ \A s \in Session : s # map => Same(s)
    BY <1>1, <2>1, <2>2, CloseIs, NoteIs DEF SessionsTyped, Same
  <2>4. sess'[map] = Closed(sess[map])
    BY <1>1, <2>1, <2>2, CloseIs
  <2>5. /\ hist'[map].early = (hist[map].early \/ sess[map].sock = "none")
        /\ hist'[map].erasedBy = hist[map].erasedBy /\ hist'[map].forced = hist[map].forced
        /\ hist'[map].granted = hist[map].granted
    BY <1>1, <2>1, <2>2, NoteIs
  <2> QED
    BY <2>1, <2>2, <2>3, <2>4, <2>5, ClosedIs DEF Shut, SameWindow
<1> QED
  BY <1>2, <1>3

\* A SYN makes the next session; the one of the map is closed.
LEMMA SynIs ==
  ASSUME Base, HandleSyn
  PROVE  /\ last' = last + 1 /\ map' = last' /\ last' \in Session /\ SessionsTyped
         /\ conn' = [conn EXCEPT ![last'] = "started"]
         /\ \A s \in Session : s # map /\ s # last' => Same(s)
         /\ sess'[last'] = NewSession(last') /\ hist'[last'] = hist[last']
         /\ map # None => /\ Shut(map) /\ SameWindow(map) /\ map # last'
                          /\ sess'[map].ourSeq = sess[map].ourSeq
                          /\ sess'[map].theirSeq = sess[map].theirSeq
<1>1. /\ map \in Session \cup {None} /\ sess \in [Session -> Sessions]
      /\ hist \in [Session -> Hists] /\ (map # None => map <= last) /\ last \in 0..MaxSessions
  BY DEF Base, Typed, MapOK
<1>2. /\ last < MaxSessions /\ last' = last + 1 /\ map' = last'
      /\ conn' = [conn EXCEPT ![last'] = "started"]
      /\ sess' = [(IF map = None THEN sess ELSE CloseSession(sess, map)) EXCEPT ![last'] = NewSession(last')]
      /\ hist' = IF map = None THEN hist ELSE CloseNote(hist, map)
  BY DEF HandleSyn
<1>3. last' \in Session /\ NewSession(last') \in Sessions /\ (map # None => map # last')
  <2>1. last' \in Session /\ (map # None => map # last')
    BY <1>1, <1>2, IsnNat DEF Session
  <2> QED
    BY <2>1, NewSessionIs
<1>4. CASE map = None
  BY <1>1, <1>2, <1>3, <1>4, IsnNat DEF SessionsTyped, Same
<1>5. CASE map # None
  <2> DEFINE S == CloseSession(sess, map)
  <2>1. map \in Session /\ sess[map] \in Sessions
    BY <1>1, <1>5
  <2>2. /\ S \in [Session -> Sessions] /\ S[map] = Closed(sess[map])
        /\ \A s \in Session : s # map => S[s] = sess[s]
    BY <1>1, <2>1, CloseIs
  <2>3. sess' = [S EXCEPT ![last'] = NewSession(last')] /\ hist' = CloseNote(hist, map)
    BY <1>2, <1>5
  <2> HIDE DEF S
  <2>4. /\ hist' \in [Session -> Hists] /\ \A s \in Session : s # map => hist'[s] = hist[s]
        /\ hist'[map].early = (hist[map].early \/ sess[map].sock = "none")
        /\ hist'[map].erasedBy = hist[map].erasedBy /\ hist'[map].forced = hist[map].forced
        /\ hist'[map].granted = hist[map].granted
    BY <1>1, <2>1, <2>3, NoteIs
  <2>5. SessionsTyped /\ (\A s \in Session : s # map /\ s # last' => Same(s))
        /\ sess'[last'] = NewSession(last') /\ hist'[last'] = hist[last']
    BY <1>3, <1>5, <2>2, <2>3, <2>4 DEF SessionsTyped, Same
  <2>6. sess'[map] = Closed(sess[map])
    BY <1>3, <1>5, <2>1, <2>2, <2>3
  <2> QED
    BY <1>2, <1>3, <1>5, <2>1, <2>4, <2>5, <2>6, ClosedIs DEF Shut, SameWindow
<1> QED
  BY <1>4, <1>5

\* The ACK and the window of a segment of guest g.
LEMMA AckIs ==
  ASSUME Base, NEW g \in Guests
  PROVE  /\ AckedSess(g) \in [Session -> Sessions] /\ AckedHist(g) \in [Session -> Hists]
         /\ \A s \in Session : s # map => AckedSess(g)[s] = sess[s] /\ AckedHist(g)[s] = hist[s]
         /\ map # None =>
              LET t == AckedSess(g)[map]  h == AckedHist(g)[map]
              IN  /\ t.state = (IF sess[map].state = "SynAckSent" THEN "Established" ELSE sess[map].state)
                  /\ t.sock = sess[map].sock /\ t.cancelled = sess[map].cancelled
                  /\ t.ourSeq = sess[map].ourSeq /\ t.theirSeq = sess[map].theirSeq
                  /\ t.ack = g.rcv /\ t.win = GuestWindow - g.unread
                  /\ h.early = hist[map].early /\ h.erasedBy = hist[map].erasedBy
                  /\ h.forced = hist[map].forced
                  /\ h.granted = (IF g.irs = map THEN g.rcv + GuestWindow - g.unread
                                  ELSE hist[map].granted)
<1>1. map \in Session \cup {None} /\ sess \in [Session -> Sessions] /\ hist \in [Session -> Hists]
  BY DEF Base, Typed
<1>2. CASE map = None
  BY <1>1, <1>2, IsnNat DEF AckedSess, AckedHist
<1>3. CASE map # None
  <2>1. map \in Session /\ sess[map] \in Sessions /\ hist[map] \in Hists
    BY <1>1, <1>3
  <2>2. g.rcv \in Nat /\ GuestWindow - g.unread \in Nat /\ g.rcv + GuestWindow - g.unread \in Nat
    BY IsnNat DEF Guests
  <2> DEFINE t == [sess[map] EXCEPT !.ack = g.rcv, !.win = GuestWindow - g.unread,
                     !.state = IF sess[map].state = "SynAckSent" THEN "Established" ELSE sess[map].state]
             h == [hist[map] EXCEPT !.granted = g.rcv + GuestWindow - g.unread]
  <2>3. /\ t \in Sessions
        /\ t.state = (IF sess[map].state = "SynAckSent" THEN "Established" ELSE sess[map].state)
        /\ t.sock = sess[map].sock /\ t.cancelled = sess[map].cancelled
        /\ t.ourSeq = sess[map].ourSeq /\ t.theirSeq = sess[map].theirSeq
        /\ t.ack = g.rcv /\ t.win = GuestWindow - g.unread
    BY <2>1, <2>2 DEF Sessions
  <2>4. /\ h \in Hists /\ h.early = hist[map].early /\ h.erasedBy = hist[map].erasedBy
        /\ h.forced = hist[map].forced /\ h.granted = g.rcv + GuestWindow - g.unread
    BY <2>1, <2>2 DEF Hists
  <2>5. AckedSess(g) = [sess EXCEPT ![map] = t]
    BY <1>1, <1>3, <2>1 DEF AckedSess, Acked
  <2>6. AckedHist(g) = IF g.irs # map THEN hist ELSE [hist EXCEPT ![map] = h]
    BY <1>1, <1>3, <2>1 DEF AckedHist
  <2> HIDE DEF t, h
  <2>7. /\ AckedSess(g) \in [Session -> Sessions] /\ AckedSess(g)[map] = t
        /\ \A s \in Session : s # map => AckedSess(g)[s] = sess[s]
    BY <1>1, <2>1, <2>3, <2>5
  <2>8. CASE g.irs = map
    <3>1. /\ AckedHist(g) \in [Session -> Hists] /\ AckedHist(g)[map] = h
          /\ \A s \in Session : s # map => AckedHist(g)[s] = hist[s]
      BY <1>1, <2>1, <2>4, <2>6, <2>8
    <3> QED
      BY <2>3, <2>4, <2>7, <2>8, <3>1
  <2>9. CASE g.irs # map
    BY <1>1, <2>3, <2>6, <2>7, <2>9
  <2> QED
    BY <2>8, <2>9
<1> QED
  BY <1>2, <1>3

\* The same for the whole operation: only the session of the map has it.
LEMMA HandleAckIs ==
  ASSUME Base, NEW g \in Guests, HandleAck(g)
  PROVE  /\ SessionsTyped /\ \A s \in Session : s # map => Same(s)
         /\ map # None => Going(map) /\ Granted(map, g) /\ sess'[map].theirSeq = sess[map].theirSeq
<1>1. sess' = AckedSess(g) /\ hist' = AckedHist(g)
  BY DEF HandleAck
<1> QED
  BY <1>1, AckIs DEF SessionsTyped, Same, Going, Granted

\* Data of the guest: passed over, forwarded to the host, or answered by a RST.
Forwarded(g, seq) ==
    /\ map # None /\ map' = map /\ ~host[map].rst
    /\ host' \in [Session -> Hosts] /\ (\A s \in Session : s # map => host'[s] = host[s])
    /\ host'[map].got = host[map].got + 1 /\ host'[map].sent = host[map].sent
    /\ host'[map].read = host[map].read /\ host'[map].eof = host[map].eof
    /\ host'[map].rst = host[map].rst
    /\ Going(map) /\ Granted(map, g) /\ sess'[map].theirSeq = seq + 1
    /\ \E p \in Packets : /\ Enqueue(p) /\ p.from = map /\ p.kind = "Ack"
                          /\ p.seq = sess[map].ourSeq /\ p.ack = seq + 1

DataReset(g, seq) ==
    /\ map # None /\ map' = None /\ host' = host /\ host[map].rst
    /\ Shut(map) /\ Granted(map, g) /\ sess'[map].ourSeq = sess[map].ourSeq
    /\ sess'[map].theirSeq = seq + 1
    /\ \E p \in Packets : /\ Enqueue(p) /\ p.from = map /\ p.kind = "Rst"
                          /\ p.seq = sess[map].ourSeq /\ p.ack = seq + 1

Ignored(g) ==
    /\ UNCHANGED <<map, rxq, host>>
    /\ map # None => /\ Going(map) /\ Granted(map, g)
                     /\ sess'[map].theirSeq = sess[map].theirSeq
                     /\ sess'[map].state # "Established" \/ sess[map].sock # "open"

\* HandleTcp on data takes one of these three ways.
LEMMA HandleDataIs ==
  ASSUME Base, NEW g \in Guests, NEW seq \in Nat, HandleData(g, seq)
  PROVE  /\ SessionsTyped /\ \A s \in Session : s # map => Same(s)
         /\ Ignored(g) \/ Forwarded(g, seq) \/ DataReset(g, seq)
<1> DEFINE S == AckedSess(g)
           H == AckedHist(g)
           t == S[map]
           d == [t EXCEPT !.theirSeq = seq + 1]
           D == [S EXCEPT ![map] = d]
<1>1. /\ map \in Session \cup {None} /\ sess \in [Session -> Sessions]
      /\ host \in [Session -> Hosts] /\ seq + 1 \in Nat /\ rxq \in Seq(Packets)
      /\ S \in [Session -> Sessions] /\ H \in [Session -> Hists]
  BY AckIs DEF Base, Typed
<1>2. CASE map = None \/ t.state # "Established" \/ t.sock # "open"
  <2>1. HandleAck(g) /\ UNCHANGED <<map, rxq, host>>
    BY <1>2 DEF HandleData
  <2>2. sess' = S
    BY <2>1 DEF HandleAck
  <2>3. map # None => sess'[map].state # "Established" \/ sess[map].sock # "open"
    BY <1>2, <2>2, AckIs
  <2> QED
    BY <2>1, <2>3, HandleAckIs DEF Ignored
<1>3. CASE map # None /\ t.state = "Established" /\ t.sock = "open"
  <2>1. map \in Session /\ t \in Sessions /\ sess[map] \in Sessions /\ host[map] \in Hosts
    BY <1>1, <1>3
  <2>2. /\ d \in Sessions /\ d.state = t.state /\ d.sock = t.sock /\ d.cancelled = t.cancelled
        /\ d.ourSeq = t.ourSeq /\ d.theirSeq = seq + 1 /\ d.ack = t.ack /\ d.win = t.win
    BY <1>1, <2>1 DEF Sessions
  <2>3. /\ D \in [Session -> Sessions] /\ D[map] = d
        /\ \A s \in Session : s # map => D[s] = S[s]
    BY <1>1, <2>1, <2>2
  <2>4. t.ourSeq = sess[map].ourSeq /\ t.ourSeq \in Nat
    BY <1>3, <2>1, AckIs DEF Sessions
  <2>5. CASE /\ ~host[map].rst
             /\ host' = [host EXCEPT ![map].got = @ + 1]
             /\ sess' = D /\ hist' = H
             /\ Enqueue([Packet(map, "Ack", t.ourSeq) EXCEPT !.ack = seq + 1])
             /\ UNCHANGED map
    <3> DEFINE h == [host[map] EXCEPT !.got = host[map].got + 1]
               p == [Packet(map, "Ack", t.ourSeq) EXCEPT !.ack = seq + 1]
    <3>1. /\ h \in Hosts /\ h.got = host[map].got + 1 /\ h.sent = host[map].sent
          /\ h.read = host[map].read /\ h.eof = host[map].eof /\ h.rst = host[map].rst
      BY <2>1 DEF Hosts
    <3>2. host' = [host EXCEPT ![map] = h]
      BY <2>5
    <3>3. /\ p \in Packets /\ p.from = map /\ p.kind = "Ack" /\ p.seq = sess[map].ourSeq
          /\ p.ack = seq + 1
      <4>1. Packet(map, "Ack", t.ourSeq) \in Packets
        BY <2>1, <2>4, PacketIs
      <4> QED
        BY <1>1, <2>1, <2>4, <4>1 DEF Packets, Packet
    <3>4. Enqueue(p)
      BY <2>5
    <3>5. sess'[map] = d
      BY <2>3, <2>5
    <3>6. /\ d.state = (IF sess[map].state = "SynAckSent" THEN "Established" ELSE sess[map].state)
          /\ d.sock = sess[map].sock /\ d.cancelled = sess[map].cancelled
          /\ d.ourSeq = sess[map].ourSeq /\ d.ack = g.rcv /\ d.win = GuestWindow - g.unread
      BY <1>3, <2>2, AckIs
    <3>7. /\ hist'[map].early = hist[map].early /\ hist'[map].erasedBy = hist[map].erasedBy
          /\ hist'[map].forced = hist[map].forced
          /\ hist'[map].granted = (IF g.irs = map THEN g.rcv + GuestWindow - g.unread
                                   ELSE hist[map].granted)
      BY <1>3, <2>5, AckIs
    <3>8. SessionsTyped /\ \A s \in Session : s # map => Same(s)
      BY <1>1, <2>3, <2>5, AckIs DEF SessionsTyped, Same
    <3>9. /\ host' \in [Session -> Hosts] /\ host'[map] = h
          /\ \A s \in Session : s # map => host'[s] = host[s]
      BY <1>1, <2>1, <3>1, <3>2
    <3>10. Going(map) /\ Granted(map, g) /\ sess'[map].theirSeq = seq + 1
      BY <2>2, <3>5, <3>6, <3>7 DEF Going, Granted
    <3> HIDE DEF S, H, t, d, D, h, p
    <3> QED
      BY <1>3, <2>5, <3>1, <3>3, <3>4, <3>8, <3>9, <3>10 DEF Forwarded
  <2>6. CASE /\ host[map].rst
             /\ Enqueue([Packet(map, "Rst", t.ourSeq) EXCEPT !.ack = seq + 1])
             /\ map' = None /\ sess' = CloseSession(D, map)
             /\ hist' = CloseNote(H, map)
             /\ UNCHANGED host
    <3> DEFINE p == [Packet(map, "Rst", t.ourSeq) EXCEPT !.ack = seq + 1]
    <3>3. /\ p \in Packets /\ p.from = map /\ p.kind = "Rst" /\ p.seq = sess[map].ourSeq
          /\ p.ack = seq + 1
      <4>1. Packet(map, "Rst", t.ourSeq) \in Packets
        BY <2>1, <2>4, PacketIs
      <4> QED
        BY <1>1, <2>1, <2>4, <4>1 DEF Packets, Packet
    <3>4. Enqueue(p)
      BY <2>6
    <3> HIDE DEF D
    <3>5. /\ sess' \in [Session -> Sessions] /\ sess'[map] = Closed(d)
          /\ \A s \in Session : s # map => sess'[s] = S[s]
      <4> HIDE DEF S, t, d
      <4>1. /\ sess' \in [Session -> Sessions] /\ sess'[map] = Closed(D[map])
            /\ \A s \in Session : s # map => sess'[s] = D[s]
        BY <2>1, <2>3, <2>6, CloseIs
      <4> QED
        BY <2>3, <4>1
    <3>6. /\ d.sock = sess[map].sock /\ d.ourSeq = sess[map].ourSeq
          /\ d.ack = g.rcv /\ d.win = GuestWindow - g.unread
      BY <1>3, <2>2, AckIs
    <3>7. /\ hist' \in [Session -> Hists] /\ hist'[map].early = (H[map].early \/ sess[map].sock = "none")
          /\ hist'[map].erasedBy = H[map].erasedBy /\ hist'[map].forced = H[map].forced
          /\ hist'[map].granted = H[map].granted
          /\ \A s \in Session : s # map => hist'[s] = H[s]
      BY <1>1, <2>1, <2>6, NoteIs
    <3>8. /\ H[map].early = hist[map].early /\ H[map].erasedBy = hist[map].erasedBy
          /\ H[map].forced = hist[map].forced
          /\ H[map].granted = (IF g.irs = map THEN g.rcv + GuestWindow - g.unread
                               ELSE hist[map].granted)
      BY <1>3, AckIs
    <3>9. SessionsTyped /\ \A s \in Session : s # map => Same(s)
      BY <3>5, <3>7, AckIs DEF SessionsTyped, Same
    <3> HIDE DEF S, H, d
    <3>10. /\ Shut(map) /\ Granted(map, g) /\ sess'[map].ourSeq = sess[map].ourSeq
           /\ sess'[map].theirSeq = seq + 1
      BY <2>2, <3>5, <3>6, <3>7, <3>8, ClosedIs DEF Shut, Granted
    <3> HIDE DEF p
    <3> QED
      BY <1>3, <2>6, <3>3, <3>4, <3>9, <3>10 DEF DataReset
  <2>7. D = [S EXCEPT ![map].theirSeq = seq + 1]
    OBVIOUS
  <2> QED
    BY <1>3, <2>5, <2>6, <2>7 DEF HandleData
<1> QED
  BY <1>2, <1>3

\* A FIN of the guest, as far as the session of the map goes.
LEMMA GuestCloseIs ==
  ASSUME Base, NEW withData \in BOOLEAN, GuestClose(withData)
  PROVE  /\ SessionsTyped /\ (\A s \in Session : s # map => Same(s))
         /\ map = None => UNCHANGED <<sess, hist, rxq, cpu>>
         /\ map # None => /\ Going(map) /\ Granted(map, guest)
                          /\ sess'[map].theirSeq = guest.snd + 1 /\ cpu' = map
                          /\ \E p \in Packets :
                               /\ Enqueue(p) /\ p.from = map /\ p.kind = "Fin"
                               /\ p.seq = sess[map].ourSeq /\ p.ack = guest.snd + 1
<1>1. /\ map \in Session \cup {None} /\ sess \in [Session -> Sessions] /\ hist \in [Session -> Hists]
      /\ guest \in Guests /\ rxq \in Seq(Packets)
  BY DEF Base, Typed
<1>2. CASE map = None
  BY <1>1, <1>2 DEF GuestClose, SessionsTyped, Same
<1>3. CASE map # None
  <2> DEFINE S == AckedSess(guest)
             d == [S[map] EXCEPT !.theirSeq = guest.snd + 1]
             p == [Packet(map, "Fin", sess[map].ourSeq) EXCEPT !.ack = guest.snd + 1]
  <2>1. /\ map \in Session /\ sess[map] \in Sessions /\ sess[map].ourSeq \in Nat /\ guest.snd + 1 \in Nat
        /\ S \in [Session -> Sessions] /\ S[map] \in Sessions
    <3>1. map \in Session /\ sess[map] \in Sessions
      BY <1>1, <1>3
    <3>2. sess[map].ourSeq \in Nat
      BY <3>1 DEF Sessions
    <3>3. guest.snd + 1 \in Nat
      BY <1>1 DEF Guests
    <3>4. S \in [Session -> Sessions]
      BY <1>1, AckIs
    <3> HIDE DEF S
    <3> QED
      BY <3>1, <3>2, <3>3, <3>4
  <2>2. /\ sess' = [S EXCEPT ![map] = d] /\ hist' = AckedHist(guest) /\ Enqueue(p) /\ cpu' = map
    BY <1>3 DEF GuestClose, FinAck
  <2>3. /\ p \in Packets /\ p.from = map /\ p.kind = "Fin" /\ p.seq = sess[map].ourSeq
        /\ p.ack = guest.snd + 1
    <3>1. Packet(map, "Fin", sess[map].ourSeq) \in Packets
      BY <2>1, PacketIs
    <3> QED
      BY <2>1, <3>1 DEF Packets, Packet
  <2>4. /\ d \in Sessions /\ d.state = S[map].state /\ d.sock = S[map].sock
        /\ d.cancelled = S[map].cancelled /\ d.ourSeq = S[map].ourSeq
        /\ d.theirSeq = guest.snd + 1 /\ d.ack = S[map].ack /\ d.win = S[map].win
    BY <2>1 DEF Sessions
  <2>5. /\ sess' \in [Session -> Sessions] /\ sess'[map] = d
        /\ \A s \in Session : s # map => sess'[s] = S[s]
    BY <2>1, <2>2, <2>4
  <2>6. SessionsTyped /\ (\A s \in Session : s # map => Same(s))
    BY <1>1, <2>2, <2>5, AckIs DEF SessionsTyped, Same
  <2>7. Going(map) /\ Granted(map, guest) /\ sess'[map].theirSeq = guest.snd + 1
    BY <1>1, <1>3, <2>2, <2>4, <2>5, AckIs DEF Going, Granted
  <2> HIDE DEF S, d, p
  <2> QED
    BY <1>3, <2>2, <2>3, <2>6, <2>7
<1> QED
  BY <1>2, <1>3

\* The end of that close.
LEMMA FinishCloseIs ==
  ASSUME Base, FinishClose
  PROVE  /\ SessionsTyped /\ cpu \in Session /\ (\A s \in Session : s # cpu => Same(s))
         /\ Shut(cpu) /\ SameWindow(cpu) /\ sess'[cpu].theirSeq = sess[cpu].theirSeq
<1>1. /\ cpu \in Session /\ sess \in [Session -> Sessions] /\ hist \in [Session -> Hists]
      /\ sess[cpu] \in Sessions
  BY DEF Base, Typed, FinishClose
<1> DEFINE d == [sess[cpu] EXCEPT !.ourSeq = sess[cpu].ourSeq + 1]
           D == [sess EXCEPT ![cpu] = d]
<1>2. /\ d \in Sessions /\ d.sock = sess[cpu].sock /\ d.theirSeq = sess[cpu].theirSeq
      /\ d.ack = sess[cpu].ack /\ d.win = sess[cpu].win
  <2>1. d \in Sessions
    <3>1. 0 \in Nat
      OBVIOUS
    <3> QED
      BY <1>1, <3>1, SessionEdits
  <2>2. /\ d.sock = sess[cpu].sock /\ d.theirSeq = sess[cpu].theirSeq
        /\ d.ack = sess[cpu].ack /\ d.win = sess[cpu].win
    BY <1>1 DEF Sessions
  <2> QED
    BY <2>1, <2>2
<1>3. sess' = CloseSession(D, cpu) /\ hist' = CloseNote(hist, cpu)
  BY DEF FinishClose
<1>4. /\ D \in [Session -> Sessions] /\ D[cpu] = d
      /\ \A s \in Session : s # cpu => D[s] = sess[s]
  BY <1>1, <1>2
<1> HIDE DEF d, D
<1>5. /\ sess' \in [Session -> Sessions] /\ sess'[cpu] = Closed(d)
      /\ \A s \in Session : s # cpu => sess'[s] = sess[s]
  BY <1>1, <1>3, <1>4, CloseIs
<1>6. /\ hist' \in [Session -> Hists] /\ hist'[cpu].early = (hist[cpu].early \/ sess[cpu].sock = "none")
      /\ hist'[cpu].erasedBy = hist[cpu].erasedBy /\ hist'[cpu].forced = hist[cpu].forced
      /\ hist'[cpu].granted = hist[cpu].granted
      /\ \A s \in Session : s # cpu => hist'[s] = hist[s]
  BY <1>1, <1>3, NoteIs
<1> QED
  BY <1>1, <1>2, <1>5, <1>6, ClosedIs DEF SessionsTyped, Same, Shut, SameWindow

-----------------------------------------------------------------------------
(* What the guest makes of a packet.                                       *)

Opened(p) == [guest EXCEPT !.state = "Open", !.irs = p.from, !.rcv = p.seq + 1, !.una = 1]

EndedGuest == [guest EXCEPT !.state = "Closed"]

\* The guest after the SYN+ACK that opens its connection.
LEMMA OpenedIs ==
  ASSUME guest \in Guests, NEW p \in Packets
  PROVE  /\ Opened(p) \in Guests /\ Opened(p).state = "Open" /\ Opened(p).irs = p.from
         /\ Opened(p).rcv = p.seq + 1 /\ Opened(p).una = 1 /\ Opened(p).unread = guest.unread
         /\ Opened(p).got = guest.got /\ Opened(p).eof = guest.eof /\ Opened(p).snd = guest.snd
         /\ Opened(p).fin = guest.fin /\ Opened(p).lostData = guest.lostData
         /\ Opened(p).syn = guest.syn
<1>1. p.seq + 1 \in Nat /\ p.from \in Session \cup {None} /\ 1 \in Nat
  BY DEF Packets
<1> QED
  BY <1>1 DEF Opened, Guests

\* The guest after a RST.
LEMMA EndedIs ==
  ASSUME guest \in Guests
  PROVE  /\ EndedGuest \in Guests /\ EndedGuest.state = "Closed" /\ EndedGuest.irs = guest.irs
         /\ EndedGuest.rcv = guest.rcv /\ EndedGuest.una = guest.una
         /\ EndedGuest.unread = guest.unread /\ EndedGuest.got = guest.got
         /\ EndedGuest.eof = guest.eof /\ EndedGuest.snd = guest.snd
         /\ EndedGuest.fin = guest.fin /\ EndedGuest.lostData = guest.lostData
BY DEF EndedGuest, Guests

\* The guest after a packet it takes.
LEMMA AfterIs ==
  ASSUME guest \in Guests, NEW p \in Packets, Takes(p)
  PROVE  /\ After(p) \in Guests /\ After(p).irs = guest.irs /\ After(p).syn = guest.syn
         /\ After(p).snd = guest.snd /\ After(p).fin = guest.fin
         /\ After(p).lostData = guest.lostData
         /\ After(p).rcv = guest.rcv + (IF p.kind = "Ack" THEN 0 ELSE 1)
         /\ After(p).unread = guest.unread + (IF p.kind = "Data" THEN 1 ELSE 0)
         /\ After(p).got = guest.got + (IF p.kind = "Data" THEN 1 ELSE 0)
         /\ After(p).eof = (guest.eof \/ p.kind = "Fin")
         /\ After(p).una = (IF p.ack > guest.una THEN p.ack ELSE guest.una)
         /\ After(p).state = (IF guest.state = "Closing" /\ p.kind = "Fin" THEN "Closed"
                              ELSE guest.state)
<1> DEFINE rcv == guest.rcv + (IF p.kind = "Ack" THEN 0 ELSE 1)
           unread == guest.unread + (IF p.kind = "Data" THEN 1 ELSE 0)
           got == guest.got + (IF p.kind = "Data" THEN 1 ELSE 0)
           eof == guest.eof \/ p.kind = "Fin"
           una == IF p.ack > guest.una THEN p.ack ELSE guest.una
           state == IF guest.state = "Closing" /\ p.kind = "Fin" THEN "Closed" ELSE guest.state
<1>1. /\ rcv \in Nat /\ got \in Nat /\ una \in Nat /\ eof \in BOOLEAN
      /\ state \in {"Closed", "SynSent", "Open", "Closing"}
  BY DEF Guests, Packets
<1>2. unread \in 0..GuestWindow
  BY IsnNat DEF Guests, Takes
<1>3. After(p) = [guest EXCEPT !.rcv = rcv, !.unread = unread, !.got = got, !.eof = eof,
                               !.una = una, !.state = state]
  BY DEF After
<1> HIDE DEF rcv, unread, got, eof, una, state
<1>4. After(p) \in Guests
  BY <1>1, <1>2, <1>3 DEF Guests
<1>5. /\ After(p).irs = guest.irs /\ After(p).syn = guest.syn
      /\ After(p).snd = guest.snd /\ After(p).fin = guest.fin /\ After(p).lostData = guest.lostData
  BY <1>3 DEF Guests
<1>6. /\ After(p).rcv = rcv /\ After(p).unread = unread /\ After(p).got = got
      /\ After(p).eof = eof /\ After(p).una = una /\ After(p).state = state
  BY <1>3 DEF Guests
<1> QED
  BY <1>4, <1>5, <1>6 DEF rcv, unread, got, eof, una, state

\* The guest after the host's end of file.
LEMMA AfterFin ==
  ASSUME guest \in Guests, NEW p \in Packets, Takes(p), p.kind = "Fin"
  PROVE  After(p).rcv = guest.rcv + 1 /\ After(p).got = guest.got /\ After(p).eof
BY AfterIs DEF Guests

\* The guest after a bare acknowledgement.
LEMMA AfterAck ==
  ASSUME guest \in Guests, NEW p \in Packets, Takes(p), p.kind = "Ack"
  PROVE  After(p).rcv = guest.rcv /\ After(p).eof = guest.eof
<1>1. guest.rcv \in Nat /\ guest.eof \in BOOLEAN
  BY DEF Guests
<1> QED
  BY <1>1, AfterIs

\* The ways of a packet: it opens the connection, belongs to an older SYN,
\* ends the connection, is taken, or changes nothing.
Opens(p, r) ==
    /\ guest.state = "SynSent" /\ p.kind = "SynAck" /\ p.from >= guest.syn
    /\ r.g = Opened(p) /\ r.answer = "Ack"

Stale(p, r) ==
    /\ guest.state = "SynSent" /\ p.kind = "SynAck" /\ p.from < guest.syn
    /\ r.g = guest /\ r.answer = "Rst"

Ends(p, r) == r.g = EndedGuest /\ r.answer = "None"

Taken(p, r) ==
    Takes(p) /\ r.g = After(p) /\ r.answer = (IF p.kind = "Ack" THEN "None" ELSE "Ack")

Other(p, r) ==
    /\ r.g = guest /\ r.answer \in {"Ack", "None"}
    /\ r.answer = "Ack" => guest.state \in {"Open", "Closing"}

\* Every packet goes one of these ways.
LEMMA ReactionIs ==
  ASSUME guest \in Guests, NEW p \in Packets
  PROVE  LET r == Reaction(p)
         IN  /\ Opens(p, r) \/ Stale(p, r) \/ Ends(p, r) \/ Taken(p, r) \/ Other(p, r)
             /\ r.g \in Guests
<1> DEFINE r == Reaction(p)
<1>1. Opens(p, r) \/ Stale(p, r) \/ Ends(p, r) \/ Taken(p, r) \/ Other(p, r)
  BY DEF Reaction, Opens, Stale, Ends, Taken, Other, Opened, EndedGuest
<1>2. r.g \in Guests
  BY <1>1, OpenedIs, EndedIs, AfterIs DEF Opens, Stale, Ends, Taken, Other
<1> QED
  BY <1>1, <1>2

\* A guest that opens a connection, and one that has given it up.
LEMMA NewGuestIs ==
  ASSUME NEW n \in Nat
  PROVE  NewGuest(n) \in Guests /\ ClosedGuest \in Guests
<1>1. 0 \in 0..GuestWindow
  BY IsnNat
<1> QED
  BY <1>1 DEF NewGuest, ClosedGuest, Guests, None

\* A session that is left, acknowledged or closed keeps its place.
LEMMA TouchedOK ==
  ASSUME Base, NEW s \in Session, SessionsTyped, Same(s) \/ Going(s) \/ Shut(s),
         UNCHANGED <<last, conn, loop>>,
         host'[s].read = host[s].read, host'[s].sent = host[s].sent,
         hist'[s].granted = hist[s].granted \/ loop[s] # "none"
  PROVE  SessionOK(s)'
<1>1. SessionOK(s) /\ sess[s] \in Sessions /\ sess'[s] \in Sessions
  BY Made DEF SessionsTyped
<1>2. CASE Same(s)
  BY <1>1, <1>2 DEF Same, SessionOK
<1>3. CASE Going(s)
  BY <1>1, <1>3 DEF Going, SessionOK
<1>4. CASE Shut(s)
  BY <1>1, <1>4 DEF Shut, SessionOK
<1> QED
  BY <1>2, <1>3, <1>4

\* A SYN of the guest.
LEMMA SynBase == ASSUME Base, GuestConnect \/ GuestRetransmitSyn PROVE Base'
<1> USE IsnNat, Made
<1>1. /\ HandleSyn /\ cpu = None /\ disposed = "no"
      /\ UNCHANGED <<writer, loop, rxq, cpu, disposed, host>>
  BY DEF GuestConnect, GuestRetransmitSyn, CpuIdle
<1>2. /\ last' = last + 1 /\ map' = last' /\ last' \in Session /\ SessionsTyped
      /\ conn' = [conn EXCEPT ![last'] = "started"]
      /\ \A s \in Session : s # map /\ s # last' => Same(s)
      /\ sess'[last'] = NewSession(last') /\ hist'[last'] = hist[last']
      /\ map # None => Shut(map) /\ SameWindow(map) /\ map # last'
  BY <1>1, SynIs
<1>3. guest' \in Guests /\ (guest' = guest \/ guest' = NewGuest(last'))
  <2>1. CASE GuestConnect
    BY <1>2, <2>1, NewGuestIs DEF GuestConnect
  <2>2. CASE GuestRetransmitSyn
    BY <2>2 DEF GuestRetransmitSyn
  <2> QED
    BY <2>1, <2>2
<1>4. Typed'
  BY <1>1, <1>2, <1>3 DEF Base, Typed, SessionsTyped, Session
<1>5. ASSUME NEW s \in Session PROVE SessionOK(s)'
  <2>1. SessionOK(s) /\ s \in Nat /\ conn \in [Session -> {"none", "started", "select", "erase", "publish", "done"}]
    BY DEF Base, Typed
  <2>2. CASE s = last'
    <3>1. conn[s] = "none"
      BY <1>2, <2>2
    <3>2. loop[s] = "none"
      BY <2>1, <3>1 DEF SessionOK
    <3>3. /\ conn'[s] = "started" /\ loop'[s] = "none" /\ host'[s] = host[s] /\ hist'[s] = hist[s]
          /\ sess'[s].sock = "none" /\ sess'[s].state = "Connecting" /\ ~(s > last')
      <4>1. sess'[s] = NewSession(s) /\ hist'[s] = hist[s] /\ conn'[s] = "started"
        BY <1>2, <2>1, <2>2
      <4>2. sess'[s].sock = "none" /\ sess'[s].state = "Connecting"
        BY <4>1, NewSessionIs
      <4>3. ~(s > last')
        BY <2>1, <2>2
      <4> QED
        BY <1>1, <3>2, <4>1, <4>2, <4>3
    <3> QED
      BY <2>1, <3>2, <3>3 DEF SessionOK
  <2>3. CASE s # last'
    <3>1. conn'[s] = conn[s] /\ (s > last' <=> s > last)
      BY <1>2, <2>1, <2>3
    <3>2. CASE s = map
      <4>1. Shut(s) /\ hist'[s].granted = hist[s].granted
        BY <1>2, <3>2 DEF SameWindow
      <4> QED
        BY <1>1, <2>1, <3>1, <4>1 DEF Shut, SessionOK
    <3>3. CASE s # map
      <4>1. Same(s)
        BY <1>2, <2>3, <3>3
      <4> QED
        BY <1>1, <2>1, <3>1, <4>1 DEF Same, SessionOK
    <3> QED
      BY <3>2, <3>3
  <2> QED
    BY <2>2, <2>3
<1>6. MapOK'
  <2>1. last' \in Nat /\ ~sess'[last'].cancelled
    BY <1>2, NewSessionIs
  <2> QED
    BY <1>1, <1>2, <2>1 DEF MapOK
<1>7. GuestOK'
  <2>1. CASE GuestConnect
    <3>1. guest' = NewGuest(last') /\ last' \in 1..last'
      BY <1>2, <2>1 DEF GuestConnect
    <3> QED
      BY <1>1, <1>2, <3>1 DEF GuestOK, NewGuest, None
  <2>2. CASE GuestRetransmitSyn
    <3>1. /\ guest' = guest /\ guest = NewGuest(guest.syn) /\ guest.syn \in 1..last
          /\ guest.state = "SynSent"
      BY <2>2 DEF GuestRetransmitSyn, Base, GuestOK
    <3>2. guest.irs = None /\ guest.eof = FALSE /\ guest.syn \in 1..last' /\ map' >= guest.syn
      BY <1>2, <3>1 DEF NewGuest
    <3> QED
      BY <1>1, <3>1, <3>2 DEF GuestOK
  <2> QED
    BY <2>1, <2>2
<1>8. QueueOK'
  BY <1>1, <1>2 DEF Base, QueueOK, Packets
<1> QED
  BY <1>4, <1>5, <1>6, <1>7, <1>8 DEF Base

\* The steps that end the guest's connection from outside.
LEMMA DropBase == ASSUME Base, GuestAbort \/ LanceStop \/ Dispose PROVE Base'
<1> USE IsnNat, Made
<1>1. /\ DropMapped /\ guest' = ClosedGuest /\ cpu = None
      /\ rxq' = rxq \/ rxq' = <<>>
      /\ disposed' \in {"no", "closing"}
      /\ UNCHANGED <<writer, last, conn, loop, cpu, host>>
  BY DEF GuestAbort, LanceStop, Dispose, CpuIdle
<1>2. /\ map' = None /\ SessionsTyped
      /\ \A s \in Session : s # map => Same(s)
      /\ map # None => Shut(map) /\ SameWindow(map)
  BY <1>1, DropIs
<1>3. rxq' \in Seq(Packets) /\ Queued(rxq') \subseteq Queued(rxq)
  <2>1. CASE rxq' = rxq
    BY <2>1
  <2>2. CASE rxq' = <<>>
    BY <2>2, QueuedEmpty
  <2> QED
    BY <1>1, <2>1, <2>2
<1>4. Typed'
  <2>1. guest' \in Guests
    BY <1>1, NewGuestIs
  <2> QED
    BY <1>1, <1>2, <1>3, <2>1 DEF Base, Typed, SessionsTyped
<1>5. ASSUME NEW s \in Session PROVE SessionOK(s)'
  <2>1. (Same(s) \/ Shut(s)) /\ hist'[s].granted = hist[s].granted
    BY <1>2 DEF Same, SameWindow
  <2> QED
    BY <1>1, <1>2, <2>1, TouchedOK
<1>6. MapOK' /\ GuestOK'
  BY <1>1, <1>2 DEF MapOK, GuestOK, ClosedGuest, NewGuest, None
<1>7. QueueOK'
  BY <1>1, <1>3 DEF Base, QueueOK
<1> QED
  BY <1>4, <1>5, <1>6, <1>7 DEF Base

\* The end of a close, on the base.
LEMMA FinishBase == ASSUME Base, FinishClose PROVE Base'
<1> USE IsnNat, Made
<1>1. /\ SessionsTyped /\ cpu \in Session /\ (\A s \in Session : s # cpu => Same(s))
      /\ Shut(cpu) /\ SameWindow(cpu)
  BY FinishCloseIs
<1>2. map' = None /\ cpu' = None /\ UNCHANGED <<writer, last, conn, loop, rxq, disposed, guest, host>>
  BY DEF FinishClose
<1>3. Typed'
  BY <1>1, <1>2 DEF Base, Typed, SessionsTyped
<1>4. ASSUME NEW s \in Session PROVE SessionOK(s)'
  <2>1. (Same(s) \/ Shut(s)) /\ hist'[s].granted = hist[s].granted
    BY <1>1 DEF Same, SameWindow
  <2> QED
    BY <1>1, <1>2, <2>1, TouchedOK
<1> QED
  BY <1>2, <1>3, <1>4 DEF Base, MapOK, GuestOK, QueueOK

\* The destructor's return, on the base.
LEMMA ReturnsBase == ASSUME Base, DisposeReturns PROVE Base'
<1>1. Queued(rxq') = {} /\ rxq' \in Seq(Packets) /\ disposed = "closing"
  BY QueuedEmpty DEF DisposeReturns
<1>2. Typed'
  BY <1>1 DEF DisposeReturns, Base, Typed
<1> QED
  BY <1>1, <1>2 DEF DisposeReturns, Base, SessionOK, MapOK, GuestOK, QueueOK

\* The guest's read, on the base.
LEMMA ReadBase == ASSUME Base, GuestRead PROVE Base'
<1> USE IsnNat, Made
<1> DEFINE g == [guest EXCEPT !.unread = 0]
<1>1. /\ guest' = g /\ HandleAck(g) /\ guest.state = "Open" /\ disposed = "no" /\ cpu = None
      /\ UNCHANGED <<writer, last, map, conn, loop, rxq, cpu, disposed, host>>
  BY DEF GuestRead, CpuIdle
<1>2. /\ g \in Guests /\ g.state = guest.state /\ g.irs = guest.irs /\ g.fin = guest.fin
      /\ g.lostData = guest.lostData
  <2>1. 0 \in 0..GuestWindow
    OBVIOUS
  <2> QED
    BY <2>1 DEF Guests
<1> HIDE DEF g
<1>3. /\ SessionsTyped /\ \A s \in Session : s # map => Same(s)
      /\ map # None => Going(map) /\ Granted(map, g)
  BY <1>1, <1>2, HandleAckIs
<1>4. Typed'
  BY <1>1, <1>2, <1>3 DEF Base, Typed, SessionsTyped
<1>5. guest.irs # None => loop[guest.irs] # "none"
  BY DEF Base, GuestOK
<1>6. ASSUME NEW s \in Session PROVE SessionOK(s)'
  <2>1. /\ Same(s) \/ Going(s)
        /\ hist'[s].granted = hist[s].granted \/ loop[s] # "none"
    BY <1>2, <1>3, <1>5 DEF Same, Granted
  <2> QED
    BY <1>1, <1>3, <2>1, TouchedOK
<1>7. MapOK'
  BY <1>1, <1>3 DEF Base, MapOK, Going, Typed
<1>8. GuestOK' /\ QueueOK'
  BY <1>1, <1>2 DEF Base, GuestOK, QueueOK
<1> QED
  BY <1>4, <1>6, <1>7, <1>8 DEF Base

\* A segment of guest g has been taken in, the session of the map has been
\* closed, or nothing has happened to the sessions.
Answered(g) ==
    /\ map' = map /\ SessionsTyped /\ \A s \in Session : s # map => Same(s)
    /\ map # None => Going(map) /\ Granted(map, g) /\ sess'[map].theirSeq = sess[map].theirSeq

Dropped ==
    /\ map' = None /\ SessionsTyped /\ \A s \in Session : s # map => Same(s)
    /\ map # None => /\ Shut(map) /\ SameWindow(map)
                     /\ sess'[map].ourSeq = sess[map].ourSeq
                     /\ sess'[map].theirSeq = sess[map].theirSeq

Silence == UNCHANGED <<map, sess, hist>>

\* The guest takes a packet off the queue: what becomes of it and of the
\* session of the map.
LEMMA ReceiveIs ==
  ASSUME Base, GuestReceive
  PROVE  \E p \in Packets :
           /\ p \in Queued(rxq) /\ rxq' \in Seq(Packets) /\ Queued(rxq') \subseteq Queued(rxq)
           /\ guest' \in Guests /\ cpu = None /\ disposed = "no"
           /\ UNCHANGED <<writer, last, conn, loop, cpu, disposed, host>>
           /\ \/ /\ guest.state = "SynSent" /\ p.kind = "SynAck" /\ p.from >= guest.syn
                 /\ guest' = Opened(p) /\ Answered(guest')
              \/ guest.state = "SynSent" /\ guest' = guest /\ Dropped
              \/ guest' = EndedGuest /\ Silence
              \/ Takes(p) /\ guest' = After(p) /\ (Answered(guest') \/ Silence)
              \/ guest' = guest /\ Silence
              \/ guest' = guest /\ guest.state \in {"Open", "Closing"} /\ Answered(guest')
<1> DEFINE p == Head(rxq)
           r == Reaction(p)
<1>1. /\ p \in Packets /\ p \in Queued(rxq) /\ rxq' \in Seq(Packets)
      /\ Queued(rxq') \subseteq Queued(rxq) /\ guest \in Guests
  BY QueuedTail DEF Base, Typed, GuestReceive
<1>2. /\ cpu = None /\ disposed = "no" /\ guest' = r.g
      /\ UNCHANGED <<writer, last, conn, loop, cpu, disposed, host>>
      /\ \/ r.answer = "Ack" /\ HandleAck(r.g) /\ UNCHANGED map
         \/ r.answer = "Rst" /\ DropMapped
         \/ r.answer = "None" /\ Silence
  BY DEF GuestReceive, CpuIdle, Silence
<1>3. /\ Opens(p, r) \/ Stale(p, r) \/ Ends(p, r) \/ Taken(p, r) \/ Other(p, r)
      /\ guest' \in Guests
  BY <1>1, <1>2, ReactionIs
<1>4. r.answer = "Ack" => Answered(guest')
  BY <1>2, <1>3, HandleAckIs DEF Answered
<1>5. r.answer = "Rst" => Dropped
  BY <1>2, DropIs DEF Dropped
<1>6. r.answer = "None" => Silence
  BY <1>2
<1> HIDE DEF p, r
<1> QED
  BY <1>1, <1>2, <1>3, <1>4, <1>5, <1>6 DEF Opens, Stale, Ends, Taken, Other

\* A packet, on the base.
LEMMA GuestReceiveBase == ASSUME Base, GuestReceive PROVE Base'
<1> USE IsnNat, Made
<1>1. PICK p \in Packets :
        /\ p \in Queued(rxq) /\ rxq' \in Seq(Packets) /\ Queued(rxq') \subseteq Queued(rxq)
        /\ guest' \in Guests /\ cpu = None /\ disposed = "no"
        /\ UNCHANGED <<writer, last, conn, loop, cpu, disposed, host>>
        /\ \/ /\ guest.state = "SynSent" /\ p.kind = "SynAck" /\ p.from >= guest.syn
              /\ guest' = Opened(p) /\ Answered(guest')
           \/ guest.state = "SynSent" /\ guest' = guest /\ Dropped
           \/ guest' = EndedGuest /\ Silence
           \/ Takes(p) /\ guest' = After(p) /\ (Answered(guest') \/ Silence)
           \/ guest' = guest /\ Silence
           \/ guest' = guest /\ guest.state \in {"Open", "Closing"} /\ Answered(guest')
  BY ReceiveIs
<1>2. guest'.irs # None => guest'.irs <= last /\ loop[guest'.irs] # "none"
  BY <1>1, OpenedIs, EndedIs, AfterIs DEF Base, GuestOK, QueueOK
<1>3. /\ SessionsTyped /\ map' \in {map, None}
      /\ \A s \in Session : Same(s) \/ Going(s) \/ Shut(s)
      /\ \A s \in Session : hist'[s].granted = hist[s].granted \/ loop[s] # "none"
      /\ map' # None => sess'[map].cancelled = sess[map].cancelled
  <2>1. CASE Answered(guest')
    BY <1>1, <1>2, <2>1 DEF Answered, Granted, Same, Going
  <2>2. CASE Dropped
    BY <1>1, <2>2 DEF Dropped, SameWindow, Same
  <2>3. CASE Silence
    BY <1>1, <2>3 DEF Silence, Base, Typed, SessionsTyped, Same
  <2> QED
    BY <1>1, <2>1, <2>2, <2>3
<1>4. Typed'
  BY <1>1, <1>3 DEF Base, Typed, SessionsTyped
<1>5. \A s \in Session : SessionOK(s)'
  BY <1>1, <1>3, TouchedOK
<1>6. MapOK'
  BY <1>1, <1>3 DEF Base, MapOK
<1>7. GuestOK'
  <2>1. GuestOK /\ guest \in Guests
    BY DEF Base
  <2>2. guest'.state \in {"Open", "Closing"} => guest'.irs # None
    <3>1. p.from # None
      BY DEF Packets
    <3>2. guest'.state \in {"Open", "Closing"} =>
            \/ guest'.irs = p.from
            \/ guest'.irs = guest.irs /\ guest.state \in {"Open", "Closing"}
      BY <1>1, <2>1, OpenedIs, EndedIs, AfterIs DEF Takes
    <3> QED
      BY <2>1, <3>1, <3>2 DEF GuestOK
  <2>3. guest'.state = "SynSent" => guest' = guest
    BY <1>1, <2>1, OpenedIs, EndedIs, AfterIs DEF Takes
  <2>6. guest'.irs = None => ~guest'.eof
    <3>1. p.from # None
      BY DEF Packets
    <3>2. CASE guest' = guest
      BY <2>1, <3>2 DEF GuestOK
    <3>3. CASE guest' = Opened(p)
      BY <2>1, <3>1, <3>3, OpenedIs
    <3>4. CASE guest' = EndedGuest
      BY <2>1, <3>4, EndedIs DEF GuestOK
    <3>5. CASE Takes(p) /\ guest' = After(p)
      BY <2>1, <3>5, AfterIs DEF GuestOK, Takes
    <3> QED
      BY <1>1, <3>2, <3>3, <3>4, <3>5
  <2>5. guest'.state = "Closing" => guest'.fin
    <3>1. guest'.state = "Closing" => guest.state = "Closing" /\ guest'.fin = guest.fin
      BY <1>1, <2>1, OpenedIs, EndedIs, AfterIs
    <3> QED
      BY <2>1, <3>1 DEF GuestOK
  <2>4. guest'.state = "Open" => ~guest'.fin /\ ~guest'.lostData
    <3>1. CASE guest.state = "SynSent"
      <4>1. guest.fin = FALSE /\ guest.lostData = FALSE
        BY <2>1, <3>1 DEF GuestOK, NewGuest
      <4> QED
        BY <1>1, <2>1, <4>1, OpenedIs, EndedIs, AfterIs
    <3>2. CASE guest.state # "SynSent"
      BY <1>1, <2>1, <3>2, OpenedIs, EndedIs, AfterIs DEF GuestOK, Takes
    <3> QED
      BY <3>1, <3>2
  <2> QED
    BY <1>1, <1>2, <1>3, <2>1, <2>2, <2>3, <2>4, <2>5, <2>6 DEF GuestOK
<1>8. QueueOK'
  BY <1>1 DEF Base, QueueOK
<1> QED
  BY <1>4, <1>5, <1>6, <1>7, <1>8 DEF Base

\* The guest after it has sent data, and after its FIN.
Sender == [guest EXCEPT !.snd = 2, !.resent = @ \/ guest.snd = 2]

Closer(withData) ==
    [guest EXCEPT !.state = IF guest.eof THEN "Closed" ELSE "Closing",
                  !.fin = TRUE, !.lostData = withData,
                  !.snd = @ + (IF withData THEN 2 ELSE 1)]

\* Sending changes none of the numbers the guest receives by.
LEMMA SenderIs ==
  ASSUME guest \in Guests
  PROVE  /\ Sender \in Guests /\ Sender.state = guest.state /\ Sender.irs = guest.irs
         /\ Sender.rcv = guest.rcv /\ Sender.unread = guest.unread /\ Sender.got = guest.got
         /\ Sender.eof = guest.eof /\ Sender.snd = 2 /\ Sender.una = guest.una
         /\ Sender.fin = guest.fin /\ Sender.lostData = guest.lostData /\ Sender.syn = guest.syn
<1>1. (guest.resent \/ guest.snd = 2) \in BOOLEAN /\ 2 \in Nat
  BY DEF Guests
<1> QED
  BY <1>1 DEF Sender, Guests

\* Closing changes none of the numbers the guest receives by.
LEMMA CloserIs ==
  ASSUME guest \in Guests, NEW b \in BOOLEAN
  PROVE  /\ Closer(b) \in Guests /\ Closer(b).irs = guest.irs /\ Closer(b).fin
         /\ Closer(b).state = (IF guest.eof THEN "Closed" ELSE "Closing")
         /\ Closer(b).rcv = guest.rcv /\ Closer(b).unread = guest.unread
         /\ Closer(b).got = guest.got /\ Closer(b).eof = guest.eof
         /\ Closer(b).snd = guest.snd + (IF b THEN 2 ELSE 1) /\ Closer(b).una = guest.una
         /\ Closer(b).lostData = b /\ Closer(b).syn = guest.syn
<1>1. guest.snd + (IF b THEN 2 ELSE 1) \in Nat
  BY DEF Guests
<1> DEFINE snd == guest.snd + (IF b THEN 2 ELSE 1)
           state == IF guest.eof THEN "Closed" ELSE "Closing"
<1>2. Closer(b) = [guest EXCEPT !.state = state, !.fin = TRUE, !.lostData = b, !.snd = snd]
  BY DEF Closer
<1>3. state \in {"Closed", "Closing"}
  OBVIOUS
<1> HIDE DEF snd, state
<1>4. snd \in Nat
  BY <1>1 DEF snd
<1>5. /\ Closer(b) \in Guests /\ Closer(b).irs = guest.irs /\ Closer(b).fin
      /\ Closer(b).state = state
      /\ Closer(b).rcv = guest.rcv /\ Closer(b).unread = guest.unread
      /\ Closer(b).got = guest.got /\ Closer(b).eof = guest.eof
      /\ Closer(b).snd = snd /\ Closer(b).una = guest.una
      /\ Closer(b).lostData = b /\ Closer(b).syn = guest.syn
  BY <1>2, <1>3, <1>4 DEF Guests
<1> QED
  BY <1>5 DEF snd, state

\* Data of the guest, on the base.
LEMMA SendBase == ASSUME Base, NEW seq \in 1..2, GuestSend(seq) PROVE Base'
<1> USE IsnNat, Made
<1>1. /\ HandleData(guest, seq) /\ guest' = Sender /\ guest.state = "Open" /\ cpu = None
      /\ disposed = "no" /\ UNCHANGED <<writer, last, conn, loop, cpu, disposed>>
  BY DEF GuestSend, CpuIdle, Sender
<1>2. guest \in Guests /\ seq \in Nat
  OBVIOUS
<1>3. /\ SessionsTyped /\ \A s \in Session : s # map => Same(s)
      /\ Ignored(guest) \/ Forwarded(guest, seq) \/ DataReset(guest, seq)
  BY <1>1, <1>2, HandleDataIs
<1>4. guest.irs # None => loop[guest.irs] # "none"
  BY DEF Base, GuestOK
<1>5. /\ host' \in [Session -> Hosts]
      /\ \A s \in Session : host'[s].read = host[s].read /\ host'[s].sent = host[s].sent
  <2>1. CASE UNCHANGED host
    BY <2>1 DEF Base, Typed
  <2>2. CASE Forwarded(guest, seq)
    BY <2>2 DEF Forwarded
  <2> QED
    BY <1>3, <2>1, <2>2 DEF Ignored, DataReset
<1>6. rxq' \in Seq(Packets) /\ \A p \in Queued(rxq') : p \in Queued(rxq) \/ (p.from = map /\ p.kind # "SynAck")
  <2>1. CASE UNCHANGED rxq
    BY <2>1
  <2>2. CASE \E p \in Packets : Enqueue(p) /\ p.from = map /\ p.kind \in {"Ack", "Rst"}
    BY <2>2, Enqueued
  <2> QED
    BY <1>3, <2>1, <2>2 DEF Ignored, Forwarded, DataReset
<1>7. /\ map' \in {map, None}
      /\ \A s \in Session : /\ Same(s) \/ Going(s) \/ Shut(s)
                            /\ hist'[s].granted = hist[s].granted \/ loop[s] # "none"
      /\ map' # None => sess'[map].cancelled = sess[map].cancelled
  <2>1. map # None => Granted(map, guest)
    BY <1>3 DEF Ignored, Forwarded, DataReset
  <2>2. ASSUME NEW s \in Session PROVE hist'[s].granted = hist[s].granted \/ loop[s] # "none"
    BY <1>3, <1>4, <2>1 DEF Same, Granted
  <2>3. ASSUME NEW s \in Session PROVE Same(s) \/ Going(s) \/ Shut(s)
    BY <1>3 DEF Ignored, Forwarded, DataReset
  <2>4. map' \in {map, None} /\ (map' # None => sess'[map].cancelled = sess[map].cancelled)
    BY <1>3 DEF Ignored, Forwarded, DataReset, Going
  <2> QED
    BY <2>2, <2>3, <2>4
<1>8. Typed'
  BY <1>1, <1>2, <1>3, <1>5, <1>6, <1>7, SenderIs DEF Base, Typed, SessionsTyped
<1>9. \A s \in Session : SessionOK(s)'
  BY <1>1, <1>3, <1>5, <1>7, TouchedOK
<1>10. MapOK'
  BY <1>1, <1>7 DEF Base, MapOK
<1>11. GuestOK'
  BY <1>1, <1>2, SenderIs DEF Base, GuestOK
<1>12. QueueOK'
  <2>1. /\ \A p \in Queued(rxq') : p.from \in Session
        /\ QueueOK /\ (map # None => map <= last)
    BY <1>6, QueuedTyped DEF Base, MapOK, Packets
  <2> QED
    BY <1>1, <1>6, <2>1 DEF QueueOK
<1> QED
  BY <1>8, <1>9, <1>10, <1>11, <1>12 DEF Base

\* A FIN of the guest, on the base.
LEMMA CloseBase == ASSUME Base, NEW b \in BOOLEAN, GuestClose(b) PROVE Base'
<1> USE IsnNat, Made
<1>1. /\ guest' = Closer(b) /\ guest.state = "Open" /\ cpu = None /\ disposed = "no"
      /\ UNCHANGED <<writer, last, map, conn, loop, disposed, host>> /\ guest \in Guests
  BY DEF GuestClose, CpuIdle, Closer
<1>2. /\ SessionsTyped /\ (\A s \in Session : s # map => Same(s))
      /\ map = None => UNCHANGED <<sess, hist, rxq, cpu>>
      /\ map # None => /\ Going(map) /\ Granted(map, guest) /\ cpu' = map
                       /\ \E p \in Packets : Enqueue(p) /\ p.from = map /\ p.kind = "Fin"
  BY GuestCloseIs
<1>3. guest.irs # None => loop[guest.irs] # "none"
  BY DEF Base, GuestOK
<1>4. rxq' \in Seq(Packets) /\ \A p \in Queued(rxq') : p \in Queued(rxq) \/ (p.from = map /\ p.kind # "SynAck")
  <2>1. CASE map = None
    BY <1>2, <2>1
  <2>2. CASE map # None
    <3>1. PICK p \in Packets : Enqueue(p) /\ p.from = map /\ p.kind = "Fin"
      BY <1>2, <2>2
    <3> QED
      BY <3>1, Enqueued
  <2> QED
    BY <2>1, <2>2
<1>5. Typed'
  BY <1>1, <1>2, <1>4, CloserIs DEF Base, Typed, SessionsTyped
<1>6. ASSUME NEW s \in Session PROVE SessionOK(s)'
  <2>1. /\ Same(s) \/ Going(s)
        /\ hist'[s].granted = hist[s].granted \/ loop[s] # "none"
    BY <1>2, <1>3 DEF Same, Granted
  <2> QED
    BY <1>1, <1>2, <2>1, TouchedOK
<1>7. MapOK'
  <2>1. /\ guest'.fin /\ guest'.state \in {"Closing", "Closed"}
        /\ map \in Session \cup {None} /\ cpu' \in {None, map} /\ MapOK
    BY <1>1, <1>2, CloserIs DEF Base, Typed
  <2>2. map # None => sess'[map].cancelled = sess[map].cancelled
    BY <1>2 DEF Going
  <2> QED
    BY <1>1, <2>1, <2>2 DEF MapOK
<1>8. GuestOK'
  BY <1>1, CloserIs DEF Base, GuestOK
<1>9. QueueOK'
  <2>1. /\ \A p \in Queued(rxq') : p.from \in Session
        /\ QueueOK /\ (map # None => map <= last)
    BY <1>4, QueuedTyped DEF Base, MapOK, Packets
  <2> QED
    BY <1>1, <1>4, <2>1 DEF QueueOK
<1> QED
  BY <1>5, <1>6, <1>7, <1>8, <1>9 DEF Base

\* Every step keeps the base.
LEMMA NextBase == ASSUME Base, [Next]_vars PROVE Base'
<1>1. CASE UNCHANGED vars
  BY <1>1 DEF vars, Base, Typed, SessionOK, MapOK, GuestOK, QueueOK
<1>2. CASE Cpu
  BY <1>2, SynBase, DropBase, GuestReceiveBase, ReadBase, SendBase, CloseBase, FinishBase,
     ReturnsBase DEF Cpu
<1>3. CASE \E s \in Session : Connect(s) \/ Receive(s) \/ HostSends(s) \/ HostCloses(s) \/ HostResets(s)
  BY <1>3, ConnectBase, ReceiveBase, HostBase
<1> QED
  BY <1>1, <1>2, <1>3 DEF Next

-----------------------------------------------------------------------------
(* Sockets outside the map.                                                *)

\* A step of the CPU thread leaves a session where it is, closes it, or makes it.
Stays(s) ==
    /\ Same(s) \/ Going(s)
    /\ (map' = s <=> map = s) /\ (cpu = s => cpu' = s) /\ conn'[s] = conn[s]

Leaves(s) ==
    /\ Shut(s) /\ map' # s /\ conn'[s] = conn[s]
    /\ sess'[s].ourSeq = sess[s].ourSeq \/ s = cpu

Starts(s) == map' = s /\ conn[s] = "none" /\ conn'[s] = "started" /\ sess'[s] = NewSession(s)

\* Every step of the CPU thread treats each session in one of these ways, and
\* leaves the receive threads where they stand.
LEMMA CpuStep ==
  ASSUME Base, Cpu
  PROVE  /\ UNCHANGED <<loop, writer>> /\ SessionsTyped
         /\ \A s \in Session : Stays(s) \/ Leaves(s) \/ Starts(s)
<1> USE IsnNat, Made
<1>0. /\ map \in Session \cup {None} /\ sess \in [Session -> Sessions] /\ hist \in [Session -> Hists]
      /\ conn \in [Session -> {"none", "started", "select", "erase", "publish", "done"}]
  BY DEF Base, Typed
<1>1. CASE GuestConnect \/ GuestRetransmitSyn
  <2>1. HandleSyn /\ UNCHANGED <<loop, writer, cpu>>
    BY <1>1 DEF GuestConnect, GuestRetransmitSyn
  <2>2. /\ last' = last + 1 /\ map' = last' /\ last' \in Session /\ SessionsTyped
        /\ conn' = [conn EXCEPT ![last'] = "started"]
        /\ \A s \in Session : s # map /\ s # last' => Same(s)
        /\ sess'[last'] = NewSession(last')
        /\ map # None => /\ Shut(map) /\ map # last'
                         /\ sess'[map].ourSeq = sess[map].ourSeq
    BY <2>1, SynIs
  <2>3. ~(last' <= last) /\ conn[last'] = "none"
    BY <2>2
  <2> QED
    BY <1>0, <2>1, <2>2, <2>3 DEF Stays, Leaves, Starts
<1>2. CASE GuestAbort \/ LanceStop \/ Dispose
  <2>1. DropMapped /\ UNCHANGED <<loop, writer, cpu, conn>>
    BY <1>2 DEF GuestAbort, LanceStop, Dispose
  <2> QED
    BY <1>0, <2>1, DropIs DEF Stays, Leaves
<1>3. CASE GuestReceive
  <2>1. /\ UNCHANGED <<loop, writer, cpu, conn>>
        /\ Answered(guest') \/ Dropped \/ Silence
    BY <1>3, ReceiveIs
  <2>2. CASE Answered(guest')
    BY <2>1, <2>2 DEF Answered, Stays
  <2>3. CASE Dropped
    BY <1>0, <2>1, <2>3 DEF Dropped, Stays, Leaves
  <2>4. CASE Silence
    BY <1>0, <2>1, <2>4 DEF Silence, Stays, Same, SessionsTyped
  <2> QED
    BY <2>1, <2>2, <2>3, <2>4
<1>4. CASE GuestRead
  <2> DEFINE g == [guest EXCEPT !.unread = 0]
  <2>1. HandleAck(g) /\ UNCHANGED <<loop, writer, cpu, conn, map>>
    BY <1>4 DEF GuestRead
  <2>2. g \in Guests
    <3>1. 0 \in 0..GuestWindow
      OBVIOUS
    <3> QED
      BY <3>1 DEF Guests
  <2> HIDE DEF g
  <2> QED
    BY <2>1, <2>2, HandleAckIs DEF Stays
<1>5. CASE \E seq \in 1..2 : GuestSend(seq)
  <2>1. PICK seq \in 1..2 : HandleData(guest, seq) /\ UNCHANGED <<loop, writer, cpu, conn>>
    BY <1>5 DEF GuestSend
  <2>2. seq \in Nat
    OBVIOUS
  <2>3. /\ SessionsTyped /\ \A s \in Session : s # map => Same(s)
        /\ Ignored(guest) \/ Forwarded(guest, seq) \/ DataReset(guest, seq)
    BY <2>1, <2>2, HandleDataIs
  <2> QED
    BY <1>0, <2>1, <2>3 DEF Ignored, Forwarded, DataReset, Stays, Leaves
<1>6. CASE \E b \in BOOLEAN : GuestClose(b)
  <2>1. PICK b \in BOOLEAN : GuestClose(b)
    BY <1>6
  <2>2. UNCHANGED <<loop, writer, conn, map>> /\ cpu = None
    BY <2>1 DEF GuestClose, CpuIdle
  <2> QED
    BY <2>1, <2>2, GuestCloseIs DEF Stays
<1>7. CASE FinishClose
  <2>1. /\ map' = None /\ UNCHANGED <<loop, writer, conn>> /\ map \in {None, cpu}
    BY <1>7 DEF FinishClose, Base, MapOK
  <2> QED
    BY <1>7, <2>1, FinishCloseIs DEF Stays, Leaves
<1>8. CASE DisposeReturns
  BY <1>0, <1>8 DEF DisposeReturns, Stays, Same, SessionsTyped
<1> QED
  BY <1>1, <1>2, <1>3, <1>4, <1>5, <1>6, <1>7, <1>8 DEF Cpu

\* What the steps of the receive threads leave alone.
LEMMA ReceiveKeeps ==
  ASSUME Base, NEW s \in Session, Receive(s), NEW t \in Session
  PROVE  /\ UNCHANGED <<writer, last, map, conn, cpu, disposed, guest>>
         /\ sess'[t].sock = sess[t].sock /\ sess'[t].cancelled = sess[t].cancelled
         /\ sess'[t].theirSeq = sess[t].theirSeq /\ sess'[t].ack = sess[t].ack
         /\ sess'[t].win = sess[t].win
         /\ sess'[t].state = sess[t].state \/ (t = s /\ sess'[t].state = "FinWait")
         /\ hist'[t].early = hist[t].early /\ hist'[t].erasedBy = hist[t].erasedBy
         /\ hist'[t].granted = hist[t].granted
         /\ host'[t].got = host[t].got /\ host'[t].sent = host[t].sent
         /\ host'[t].eof = host[t].eof /\ host'[t].rst = host[t].rst
         /\ t # s => sess'[t] = sess[t] /\ hist'[t] = hist[t] /\ host'[t] = host[t] /\ loop'[t] = loop[t]
<1>0. /\ sess \in [Session -> Sessions] /\ hist \in [Session -> Hists] /\ host \in [Session -> Hosts]
      /\ loop \in [Session -> {"none", "recv", "wait", "send", "done"}]
      /\ sess[s] \in Sessions /\ hist[s] \in Hists /\ host[s] \in Hosts
  BY DEF Base, Typed
<1>1. CASE LoopEnds(s)
  BY <1>0, <1>1 DEF LoopEnds, LoopStep
<1>2. CASE ReceiveData(s)
  <2> DEFINE h == [host[s] EXCEPT !.read = @ + 1]
  <2>1. h \in Hosts /\ h.sent = host[s].sent /\ h.eof = host[s].eof /\ h.rst = host[s].rst
        /\ h.got = host[s].got
    BY <1>0, HostEdits
  <2>2. /\ host' = [host EXCEPT ![s] = h] /\ \E to \in {"wait"} : loop' = [loop EXCEPT ![s] = to]
        /\ UNCHANGED <<writer, last, map, sess, conn, cpu, disposed, guest, hist>>
    BY <1>2 DEF ReceiveData, Receives, LoopStep
  <2> HIDE DEF h
  <2> QED
    BY <1>0, <2>1, <2>2
<1>3. CASE ReceiveEof(s) \/ SendSegment(s)
  <2> DEFINE e == [sess[s] EXCEPT !.ourSeq = @ + 1, !.state = "FinWait"]
             d == [sess[s] EXCEPT !.ourSeq = @ + 1]
  <2>1. /\ e.sock = sess[s].sock /\ e.cancelled = sess[s].cancelled /\ e.theirSeq = sess[s].theirSeq
        /\ e.ack = sess[s].ack /\ e.win = sess[s].win /\ e.state = "FinWait"
    BY <1>0 DEF Sessions
  <2>2. /\ d.sock = sess[s].sock /\ d.cancelled = sess[s].cancelled /\ d.theirSeq = sess[s].theirSeq
        /\ d.ack = sess[s].ack /\ d.win = sess[s].win /\ d.state = sess[s].state
    BY <1>0 DEF Sessions
  <2>3. PICK r \in {e, d} : sess' = [sess EXCEPT ![s] = r]
    BY <1>3 DEF ReceiveEof, SendSegment
  <2>4. /\ \E to \in {"done", "recv"} : loop' = [loop EXCEPT ![s] = to]
        /\ UNCHANGED <<writer, last, map, conn, cpu, disposed, guest, host, hist>>
    BY <1>3 DEF ReceiveEof, Receives, SendSegment, LoopStep
  <2> HIDE DEF e, d
  <2> QED
    BY <1>0, <2>1, <2>2, <2>3, <2>4
<1>4. CASE WindowOpens(s) \/ WaitTimesOut(s)
  <2>1. PICK b : hist' = [hist EXCEPT ![s].forced = b]
    BY <1>4 DEF WindowOpens, WaitTimesOut
  <2> DEFINE h == [hist[s] EXCEPT !.forced = b]
  <2>2. hist' = [hist EXCEPT ![s] = h]
    BY <2>1
  <2>3. h.early = hist[s].early /\ h.erasedBy = hist[s].erasedBy /\ h.granted = hist[s].granted
    BY <1>0 DEF Hists
  <2>4. /\ \E to : loop' = [loop EXCEPT ![s] = to]
        /\ UNCHANGED <<writer, last, map, sess, conn, cpu, disposed, guest, host>>
    BY <1>4 DEF WindowOpens, WaitTimesOut, LoopStep
  <2> HIDE DEF h
  <2> QED
    BY <1>0, <2>2, <2>3, <2>4
<1> QED
  BY <1>1, <1>2, <1>3, <1>4 DEF Receive

\* A socket leaves the map with an explanation.
LEMMA OrphanStep ==
  ASSUME Base, [Next]_vars, \A s \in Session : OrphanOK(s)
  PROVE  \A s \in Session : OrphanOK(s)'
<1> USE IsnNat, Made
<1>0. Typed
  BY DEF Base
<1>1. CASE UNCHANGED vars
  BY <1>1 DEF vars, OrphanOK
<1>2. CASE Cpu
  <2> SUFFICES ASSUME NEW s \in Session PROVE OrphanOK(s)'
    OBVIOUS
  <2>1. OrphanOK(s) /\ SessionOK(s) /\ sess[s] \in Sessions /\ sess'[s] \in Sessions
    BY <1>2, CpuStep DEF SessionsTyped
  <2>2. Stays(s) \/ Leaves(s) \/ Starts(s)
    BY <1>2, CpuStep
  <2> QED
    BY <2>1, <2>2 DEF OrphanOK, SessionOK, Stays, Leaves, Starts, Same, Going, Shut
<1>3. ASSUME NEW s \in Session, Connect(s), NEW t \in Session PROVE OrphanOK(t)'
  <2>1. OrphanOK(t) /\ SessionOK(t) /\ cpu' = cpu
    BY <1>3 DEF Connect, ConnectDisposed, ConnectWaits, ConnectFails, ConnectErases,
       ConnectSucceeds, ConnectAnswers
  <2>2. CASE ConnectErases(s)
    <3>1. /\ map' = None /\ conn[s] = "erase" /\ conn' = [conn EXCEPT ![s] = "done"] /\ sess' = sess
          /\ hist' = IF map \in {None, s} THEN hist ELSE [hist EXCEPT ![map].erasedBy = s]
      BY <2>2 DEF ConnectErases, ConnStep
    <3>2. CASE t = map /\ t # s
      <4>1. hist'[t].erasedBy = s
        BY <1>0, <3>1, <3>2 DEF Typed, Hists
      <4> QED
        BY <4>1 DEF OrphanOK
    <3>3. CASE t # map
      <4>1. hist'[t] = hist[t] /\ (conn'[t] \in {"started", "select"} => conn'[t] = conn[t])
        BY <1>0, <3>1, <3>3 DEF Typed
      <4> QED
        BY <2>1, <3>1, <3>3, <4>1 DEF OrphanOK
    <3>4. CASE t = s
      <4>1. conn'[t] = "done" /\ sess'[t].sock = "none"
        BY <1>0, <2>1, <3>1, <3>4 DEF Typed, SessionOK
      <4> QED
        BY <4>1 DEF OrphanOK
    <3> QED
      BY <3>2, <3>3, <3>4
  <2>3. CASE ConnectSucceeds(s)
    <3>1. /\ conn[s] = "select" /\ conn' = [conn EXCEPT ![s] = "publish"]
          /\ sess' = [sess EXCEPT ![s].sock = "open"] /\ UNCHANGED <<map, hist>>
      BY <2>3 DEF ConnectSucceeds, ConnStep
    <3> QED
      BY <1>0, <2>1, <3>1 DEF Typed, OrphanOK
  <2>4. CASE ConnectDisposed(s) \/ ConnectWaits(s) \/ ConnectFails(s) \/ ConnectAnswers(s)
    <3>1. /\ UNCHANGED <<map, hist>> /\ sess'[t].sock = sess[t].sock
          /\ conn'[t] \in {"started", "select"} => conn[t] \in {"started", "select"}
      <4>1. CASE ConnectAnswers(s)
        BY <1>0, <4>1 DEF ConnectAnswers, ConnStep, Typed, Sessions
      <4>2. CASE ConnectDisposed(s) \/ ConnectWaits(s) \/ ConnectFails(s)
        BY <1>0, <4>2 DEF ConnectDisposed, ConnectWaits, ConnectFails, ConnStep, Typed
      <4> QED
        BY <2>4, <4>1, <4>2
    <3> QED
      BY <2>1, <3>1 DEF OrphanOK
  <2> QED
    BY <1>3, <2>2, <2>3, <2>4 DEF Connect
<1>4. ASSUME NEW s \in Session, Receive(s), NEW t \in Session PROVE OrphanOK(t)'
  BY <1>4, ReceiveKeeps DEF OrphanOK
<1>5. ASSUME NEW s \in Session, HostSends(s) \/ HostCloses(s) \/ HostResets(s), NEW t \in Session
      PROVE  OrphanOK(t)'
  BY <1>5 DEF HostSends, HostCloses, HostResets, HostActs, OrphanOK
<1> QED
  BY <1>1, <1>2, <1>3, <1>4, <1>5 DEF Next

-----------------------------------------------------------------------------
(* The end of file after all the data.                                     *)

\* Counting on from the number that a session's reads have come to.
LEMMA CountsOn ==
  \A i, r \in Nat : /\ (i + r) + 1 = i + 1 + r /\ i + r < i + 1 + r
                    /\ i + 1 + r = i + (r + 1) /\ (i + 1 + r) + 1 = i + 2 + r
OBVIOUS

\* What the steps of the CPU thread put into the queue, and leave of the hosts.
LEMMA CpuQueue ==
  ASSUME Base, Cpu
  PROVE  /\ \A p \in Queued(rxq') :
              \/ p \in Queued(rxq)
              \/ /\ map # None /\ p.from = map /\ p.kind \in {"Ack", "Rst", "Fin"}
                 /\ p.kind = "Fin" => guest'.fin /\ guest'.state # "SynSent"
         /\ host' \in [Session -> Hosts]
         /\ \A s \in Session : /\ host'[s].read = host[s].read /\ host'[s].sent = host[s].sent
                               /\ host'[s].eof = host[s].eof /\ host'[s].rst = host[s].rst
                               /\ host'[s].got >= host[s].got
<1> USE IsnNat, Made
<1>0. host \in [Session -> Hosts] /\ map \in Session \cup {None} /\ guest \in Guests
  BY DEF Base, Typed
<1>1. CASE UNCHANGED host /\ Queued(rxq') \subseteq Queued(rxq)
  BY <1>0, <1>1 DEF Hosts
<1>2. CASE \E seq \in 1..2 : GuestSend(seq)
  <2>1. PICK seq \in 1..2 : HandleData(guest, seq)
    BY <1>2 DEF GuestSend
  <2>2. seq \in Nat
    OBVIOUS
  <2>3. Ignored(guest) \/ Forwarded(guest, seq) \/ DataReset(guest, seq)
    BY <1>0, <2>1, <2>2, HandleDataIs
  <2>4. CASE Ignored(guest)
    BY <1>0, <2>4 DEF Ignored, Hosts
  <2>5. CASE Forwarded(guest, seq)
    <3>1. PICK p \in Packets : Enqueue(p) /\ p.from = map /\ p.kind = "Ack"
      BY <2>5 DEF Forwarded
    <3>2. Queued(rxq') = Queued(rxq) \cup {p}
      BY <3>1, Enqueued
    <3>3. ASSUME NEW s \in Session
          PROVE  /\ host'[s].read = host[s].read /\ host'[s].sent = host[s].sent
                 /\ host'[s].eof = host[s].eof /\ host'[s].rst = host[s].rst
                 /\ host'[s].got >= host[s].got
      <4>1. host[s] \in Hosts /\ host[s].got \in Nat
        BY <1>0 DEF Hosts
      <4>2. CASE s = map
        BY <2>5, <4>1, <4>2 DEF Forwarded
      <4>3. CASE s # map
        BY <2>5, <4>1, <4>3 DEF Forwarded
      <4> QED
        BY <4>2, <4>3
    <3> QED
      BY <2>5, <3>1, <3>2, <3>3 DEF Forwarded
  <2>6. CASE DataReset(guest, seq)
    <3>1. PICK p \in Packets : Enqueue(p) /\ p.from = map /\ p.kind = "Rst"
      BY <2>6 DEF DataReset
    <3>2. Queued(rxq') = Queued(rxq) \cup {p}
      BY <3>1, Enqueued
    <3> QED
      BY <1>0, <2>6, <3>1, <3>2 DEF DataReset, Hosts
  <2> QED
    BY <2>3, <2>4, <2>5, <2>6
<1>3. CASE \E b \in BOOLEAN : GuestClose(b)
  <2>1. PICK b \in BOOLEAN : GuestClose(b)
    BY <1>3
  <2>2. guest' = Closer(b) /\ UNCHANGED host
    BY <2>1 DEF GuestClose, Closer
  <2>3. guest'.fin /\ guest'.state # "SynSent"
    BY <1>0, <2>2, CloserIs
  <2>4. CASE map = None
    BY <1>0, <2>1, <2>2, <2>4, GuestCloseIs DEF Hosts
  <2>5. CASE map # None
    <3>1. PICK p \in Packets : Enqueue(p) /\ p.from = map /\ p.kind = "Fin"
      BY <2>1, <2>5, GuestCloseIs
    <3>2. Queued(rxq') = Queued(rxq) \cup {p}
      BY <3>1, Enqueued
    <3> QED
      BY <1>0, <2>2, <2>3, <2>5, <3>1, <3>2 DEF Hosts
  <2> QED
    BY <2>4, <2>5
<1>4. CASE GuestReceive
  BY <1>1, <1>4, ReceiveIs
<1>5. CASE LanceStop \/ DisposeReturns
  BY <1>1, <1>5, QueuedEmpty DEF LanceStop, DisposeReturns
<1>6. CASE GuestConnect \/ GuestRetransmitSyn \/ GuestAbort \/ GuestRead \/ FinishClose \/ Dispose
  BY <1>1, <1>6 DEF GuestConnect, GuestRetransmitSyn, GuestAbort, GuestRead, FinishClose, Dispose
<1> QED
  BY <1>2, <1>3, <1>4, <1>5, <1>6 DEF Cpu

\* A session whose numbers count does so after a step of the CPU thread.
LEMMA CpuSequence ==
  ASSUME Base, Cpu, NEW s \in Session, Live(s)', Live(s) => SequenceOK(s), Live(s) \/ Starts(s)
  PROVE  SequenceOK(s)'
<1> USE IsnNat, Made
<1>0. /\ loop' = loop /\ (Stays(s) \/ Leaves(s) \/ Starts(s)) /\ sess[s] \in Sessions
  BY CpuStep
<1>1. guest'.state = "SynSent" \/ ~guest'.fin
  BY DEF Live
<1>2. \A p \in Queued(rxq') : p.kind \in {"SynAck", "Data", "Fin"} => p \in Queued(rxq)
  BY <1>1, CpuQueue
<1>3. host'[s].read = host[s].read /\ host'[s].sent = host[s].sent /\ host'[s].eof = host[s].eof
  BY CpuQueue
<1>4. CASE Starts(s)
  <2>1. sess'[s].ourSeq = Isn(s) /\ conn[s] = "none"
    BY <1>4, NewSessionIs DEF Starts
  <2>2. loop[s] = "none" /\ ~(s <= last)
    BY <2>1 DEF SessionOK
  <2>3. \A p \in Queued(rxq) : p.from # s
    BY <2>2 DEF Base, QueueOK
  <2> QED
    BY <1>0, <1>2, <2>1, <2>2, <2>3 DEF SequenceOK
<1>5. CASE Live(s) /\ (Stays(s) \/ Leaves(s))
  <2>1. sess'[s].ourSeq = sess[s].ourSeq
    <3>1. cpu # s
      BY <1>5 DEF Live, Base, MapOK
    <3> QED
      BY <1>5, <3>1 DEF Stays, Leaves, Same, Going
  <2>2. SequenceOK(s)
    BY <1>5
  <2> QED
    BY <1>0, <1>2, <1>3, <2>1, <2>2 DEF SequenceOK
<1> QED
  BY <1>0, <1>4, <1>5

\* A session of the guest's connection was one before, unless it is new.
LEMMA LiveBefore ==
  ASSUME Base, Cpu, NEW s \in Session, Live(s)'
  PROVE  Live(s) \/ Starts(s)
<1> USE IsnNat, Made
<1>0. guest \in Guests /\ (map # None => map <= last) /\ (Stays(s) \/ Leaves(s) \/ Starts(s))
  BY CpuStep DEF Base, MapOK
<1>1. CASE GuestConnect \/ GuestRetransmitSyn
  <2>1. HandleSyn
    BY <1>1 DEF GuestConnect, GuestRetransmitSyn
  <2>2. last' = last + 1 /\ map' = last'
    BY <2>1, SynIs
  <2>3. s = last' => Starts(s)
    BY <1>0, <2>2 DEF Stays, Leaves
  <2>4. CASE GuestConnect
    <3>1. guest' = NewGuest(last')
      BY <2>2, <2>4 DEF GuestConnect
    <3>2. guest'.syn = last' /\ guest'.irs = None
      BY <3>1 DEF NewGuest
    <3> QED
      BY <2>2, <2>3, <3>2 DEF Live
  <2>5. CASE GuestRetransmitSyn
    <3>1. guest' = guest /\ guest.state = "SynSent"
      BY <2>5 DEF GuestRetransmitSyn
    <3> QED
      BY <2>2, <2>3, <3>1 DEF Live
  <2> QED
    BY <1>1, <2>4, <2>5
<1>2. CASE GuestAbort \/ LanceStop \/ Dispose
  <2>1. guest' = ClosedGuest
    BY <1>2 DEF GuestAbort, LanceStop, Dispose
  <2> QED
    BY <2>1 DEF Live, ClosedGuest, NewGuest
<1>3. CASE GuestReceive
  <2>1. PICK p \in Packets :
          /\ p \in Queued(rxq) /\ last' = last
          /\ \/ guest.state = "SynSent" /\ p.from >= guest.syn /\ guest' = Opened(p)
             \/ guest' = guest
             \/ guest' = EndedGuest
             \/ Takes(p) /\ guest' = After(p)
    BY <1>3, ReceiveIs
  <2>2. p.from <= last
    BY <2>1 DEF Base, QueueOK
  <2> QED
    BY <1>0, <2>1, <2>2, OpenedIs, EndedIs, AfterIs DEF Live, Takes
<1>4. CASE GuestRead
  <2>1. last' = last /\ guest' = [guest EXCEPT !.unread = 0] /\ guest.state = "Open"
    BY <1>4 DEF GuestRead
  <2>2. guest'.state = guest.state /\ guest'.irs = guest.irs /\ guest'.fin = guest.fin
    BY <1>0, <2>1 DEF Guests
  <2> QED
    BY <2>1, <2>2 DEF Live
<1>5. CASE \E seq \in 1..2 : GuestSend(seq)
  <2>1. last' = last /\ guest' = Sender /\ guest.state = "Open"
    BY <1>5 DEF GuestSend, Sender
  <2> QED
    BY <1>0, <2>1, SenderIs DEF Live
<1>6. CASE \E b \in BOOLEAN : GuestClose(b)
  <2>1. PICK b \in BOOLEAN : guest' = Closer(b)
    BY <1>6 DEF GuestClose, Closer
  <2> QED
    BY <1>0, <2>1, CloserIs DEF Live
<1>7. CASE FinishClose \/ DisposeReturns
  BY <1>7 DEF FinishClose, DisposeReturns, Live
<1> QED
  BY <1>1, <1>2, <1>3, <1>4, <1>5, <1>6, <1>7 DEF Cpu

\* What the guest has taken of its session.
TakenOK ==
    guest.irs # None /\ ~guest.fin =>
        /\ guest.state = "Open" /\ ~guest.eof => guest.rcv = Isn(guest.irs) + 1 + guest.got
        /\ guest.eof => /\ host[guest.irs].eof /\ guest.got = host[guest.irs].sent
                        /\ guest.rcv = Isn(guest.irs) + 2 + guest.got

\* What the guest has taken is what the host has sent, after every step of the
\* CPU thread.
LEMMA TakenCpu == ASSUME Base, EofOK, Cpu PROVE TakenOK'
<1> USE IsnNat, Made
<1>0. /\ guest \in Guests /\ TakenOK /\ GuestOK
      /\ \A s \in Session : host'[s].sent = host[s].sent /\ host'[s].eof = host[s].eof
  BY CpuQueue DEF Base, EofOK, TakenOK
<1>1. CASE guest'.irs = None \/ guest'.fin
  BY <1>1 DEF TakenOK
<1>2. CASE /\ guest'.irs = guest.irs /\ guest'.fin = guest.fin /\ guest'.eof = guest.eof
           /\ guest'.got = guest.got /\ guest'.rcv = guest.rcv
           /\ guest'.state \in {guest.state, "Closed"}
  <2>1. guest.irs # None => guest.irs \in Session
    BY DEF Guests
  <2> QED
    BY <1>0, <1>2, <2>1 DEF TakenOK
<1>3. CASE GuestConnect \/ GuestAbort \/ LanceStop \/ Dispose
  <2>1. guest' = ClosedGuest \/ \E n : guest' = NewGuest(n)
    BY <1>3 DEF GuestConnect, GuestAbort, LanceStop, Dispose
  <2>2. guest'.irs = None
    BY <2>1 DEF ClosedGuest, NewGuest
  <2> QED
    BY <1>1, <2>2
<1>4. CASE GuestRetransmitSyn \/ FinishClose \/ DisposeReturns
  BY <1>2, <1>4 DEF GuestRetransmitSyn, FinishClose, DisposeReturns
<1>5. CASE GuestRead
  BY <1>0, <1>2, <1>5 DEF GuestRead, Guests
<1>6. CASE \E seq \in 1..2 : GuestSend(seq)
  <2>1. guest' = Sender
    BY <1>6 DEF GuestSend, Sender
  <2> QED
    BY <1>0, <1>2, <2>1, SenderIs
<1>7. CASE \E b \in BOOLEAN : GuestClose(b)
  <2>1. PICK b \in BOOLEAN : guest' = Closer(b)
    BY <1>7 DEF GuestClose, Closer
  <2> QED
    BY <1>0, <1>1, <2>1, CloserIs
<1>8. CASE GuestReceive
  <2>1. PICK p \in Packets :
          /\ p \in Queued(rxq)
          /\ \/ guest.state = "SynSent" /\ p.kind = "SynAck" /\ p.from >= guest.syn /\ guest' = Opened(p)
             \/ guest' = guest
             \/ guest' = EndedGuest
             \/ Takes(p) /\ guest' = After(p)
    BY <1>8, ReceiveIs
  <2>2. CASE guest' = guest \/ guest' = EndedGuest
    BY <1>0, <1>2, <2>2, EndedIs
  <2>3. CASE guest.state = "SynSent" /\ p.kind = "SynAck" /\ p.from >= guest.syn /\ guest' = Opened(p)
    <3>1. /\ p.from \in Session /\ p.from <= last
          /\ guest.got = 0 /\ guest.eof = FALSE
      BY <1>0, <2>1, <2>3 DEF Base, QueueOK, Packets, GuestOK, NewGuest
    <3>2. p.seq = Isn(p.from)
      BY <2>1, <2>3, <3>1 DEF EofOK, Live, SequenceOK
    <3> QED
      BY <1>0, <2>3, <3>1, <3>2, OpenedIs DEF TakenOK
  <2>4. CASE Takes(p) /\ guest' = After(p) /\ guest.state = "Open"
    <3> DEFINE s == guest.irs
    <3>1. /\ s \in Session /\ p.from = s /\ p.seq = guest.rcv /\ p.kind \in {"Data", "Fin", "Ack"}
          /\ ~guest.fin /\ s # None
      BY <1>0, <2>4 DEF GuestOK, Takes, InOrder, Packets
    <3>2. /\ p.kind = "Data" => p.seq < Isn(s) + 1 + host[s].read
          /\ p.kind = "Fin" => host[s].eof /\ p.seq = Isn(s) + 1 + host[s].sent
      BY <2>1, <3>1 DEF EofOK, Live, SequenceOK
    <3>3. /\ guest.rcv \in Nat /\ guest.got \in Nat /\ host[s].sent \in Nat /\ host[s].read \in Nat
          /\ host[s].read <= host[s].sent /\ Isn(s) \in Nat /\ guest.eof \in BOOLEAN
      BY <1>0, <3>1 DEF Guests, Hosts, SessionOK
    <3>4. /\ ~guest.eof => guest.rcv = Isn(s) + 1 + guest.got
          /\ guest.eof => /\ host[s].eof /\ guest.got = host[s].sent
                          /\ guest.rcv = Isn(s) + 2 + guest.got
      BY <1>0, <2>4, <3>1 DEF TakenOK
    <3>5. /\ guest'.irs = s /\ guest'.fin = guest.fin /\ guest'.state = "Open"
          /\ guest'.rcv = guest.rcv + (IF p.kind = "Ack" THEN 0 ELSE 1)
          /\ guest'.got = guest.got + (IF p.kind = "Data" THEN 1 ELSE 0)
          /\ guest'.eof = (guest.eof \/ p.kind = "Fin")
      BY <1>0, <2>4, AfterIs
    <3>6. host'[s].sent = host[s].sent /\ host'[s].eof = host[s].eof
      BY <1>0, <3>1
    <3> HIDE DEF s
    <3>7. /\ ~guest'.eof => guest'.rcv = Isn(s) + 1 + guest'.got
          /\ guest'.eof => /\ host[s].eof /\ guest'.got = host[s].sent
                           /\ guest'.rcv = Isn(s) + 2 + guest'.got
      <4>1. CASE p.kind = "Data"
        <5>1. ~guest.eof /\ guest.rcv = Isn(s) + 1 + guest.got
          <6>1. guest.rcv < Isn(s) + 1 + host[s].read
            BY <3>1, <3>2, <4>1
          <6>2. guest.eof => guest.rcv = Isn(s) + 2 + host[s].sent
            BY <3>4
          <6>3. \A i, r, n \in Nat : r <= n => ~(i + 2 + n < i + 1 + r)
            OBVIOUS
          <6> QED
            BY <3>3, <3>4, <6>1, <6>2, <6>3
        <5>2. guest'.rcv = guest.rcv + 1 /\ guest'.got = guest.got + 1 /\ ~guest'.eof
          BY <3>5, <4>1, <5>1
        <5> QED
          BY <3>3, <5>1, <5>2
      <4>2. CASE p.kind = "Fin"
        <5>1. /\ ~guest.eof /\ guest.rcv = Isn(s) + 1 + guest.got
              /\ host[s].eof /\ guest.rcv = Isn(s) + 1 + host[s].sent
          BY <3>1, <3>2, <3>3, <3>4, <4>2
        <5>2. guest'.rcv = guest.rcv + 1 /\ guest'.got = guest.got /\ guest'.eof
          BY <1>0, <2>4, <4>2, AfterFin
        <5>3. \A i, j, k \in Nat : i + 1 + j = i + 1 + k => j = k
          OBVIOUS
        <5>4. guest.rcv + 1 = Isn(s) + 2 + guest.got
          <6>1. (Isn(s) + 1 + guest.got) + 1 = Isn(s) + 2 + guest.got
            BY <3>3, CountsOn
          <6> QED
            BY <5>1, <6>1
        <5>5. guest.got = host[s].sent
          BY <3>3, <5>1, <5>3
        <5> QED
          BY <5>1, <5>2, <5>4, <5>5
      <4>3. CASE p.kind = "Ack"
        BY <3>1, <3>2, <3>3, <3>4, <3>5, <4>3
      <4> QED
        BY <3>1, <4>1, <4>2, <4>3
    <3> QED
      BY <3>5, <3>6, <3>7 DEF TakenOK
  <2>5. CASE Takes(p) /\ guest' = After(p) /\ guest.state = "Closing"
    BY <1>0, <1>1, <2>5, AfterIs DEF GuestOK
  <2> QED
    BY <2>1, <2>2, <2>3, <2>4, <2>5 DEF Takes
<1> QED
  BY <1>3, <1>4, <1>5, <1>6, <1>7, <1>8 DEF Cpu

\* What the steps of the connect threads do.
Answering(s) ==
    /\ conn[s] = "publish" /\ loop[s] = "none" /\ loop'[s] = "recv" /\ map' = map
    /\ sess'[s].ourSeq = sess[s].ourSeq + 1 /\ sess'[s].ack = sess[s].ourSeq + 1
    /\ sess'[s].state = "SynAckSent"
    /\ \E p \in Packets : /\ Queued(rxq') = Queued(rxq) \cup {p} /\ p.from = s
                          /\ p.kind = "SynAck" /\ p.seq = sess[s].ourSeq
                          /\ p.ack = sess[s].theirSeq

Connecting(s) ==
    /\ loop' = loop /\ sess'[s].ourSeq = sess[s].ourSeq /\ sess'[s].state = sess[s].state
    /\ sess'[s].ack = sess[s].ack
    /\ \A p \in Queued(rxq') :
         p \in Queued(rxq) \/ (p.kind = "Refused" /\ p.from = s /\ p.ack = 1)

\* A connect thread answers with a SYN+ACK, or leaves its session's numbers alone.
LEMMA ConnectIs ==
  ASSUME Base, NEW s \in Session, Connect(s)
  PROVE  /\ UNCHANGED <<writer, last, cpu, disposed, guest, host>> /\ map' \in {map, None}
         /\ \A t \in Session :
              /\ sess'[t].theirSeq = sess[t].theirSeq /\ sess'[t].cancelled = sess[t].cancelled
              /\ sess'[t].win = sess[t].win
              /\ hist'[t].granted = hist[t].granted /\ hist'[t].forced = hist[t].forced
              /\ t # s => sess'[t] = sess[t] /\ loop'[t] = loop[t]
         /\ Answering(s) \/ Connecting(s)
<1>0. /\ sess \in [Session -> Sessions] /\ hist \in [Session -> Hists] /\ rxq \in Seq(Packets)
      /\ loop \in [Session -> {"none", "recv", "wait", "send", "done"}]
      /\ conn \in [Session -> {"none", "started", "select", "erase", "publish", "done"}]
      /\ sess[s] \in Sessions /\ SessionOK(s)
  BY DEF Base, Typed
<1>1. CASE ConnectDisposed(s) \/ ConnectWaits(s)
  BY <1>0, <1>1 DEF ConnectDisposed, ConnectWaits, Connecting
<1>2. CASE ConnectFails(s)
  <2> DEFINE p == [from |-> s, kind |-> "Refused", seq |-> 0, ack |-> 1]
  <2>1. p \in Packets /\ p.kind = "Refused" /\ p.from = s /\ p.ack = 1
    BY DEF Packets
  <2>2. Enqueue(p) /\ UNCHANGED <<writer, last, map, sess, loop, cpu, disposed, guest, host, hist>>
    BY <1>2 DEF ConnectFails
  <2> HIDE DEF p
  <2>3. Queued(rxq') = Queued(rxq) \cup {p}
    BY <2>1, <2>2, Enqueued
  <2> QED
    BY <1>0, <2>1, <2>2, <2>3 DEF Connecting
<1>3. CASE ConnectErases(s)
  <2>1. /\ map' = None /\ hist' = IF map \in {None, s} THEN hist ELSE [hist EXCEPT ![map].erasedBy = s]
        /\ UNCHANGED <<writer, last, sess, loop, rxq, cpu, disposed, guest, host>>
    BY <1>3 DEF ConnectErases
  <2>2. \A t \in Session : hist'[t].granted = hist[t].granted /\ hist'[t].forced = hist[t].forced
    <3>1. CASE map \in {None, s}
      BY <2>1, <3>1
    <3>2. CASE map \notin {None, s}
      <4>1. /\ map \in Session /\ hist[map] \in Hists
            /\ hist' = [hist EXCEPT ![map] = [hist[map] EXCEPT !.erasedBy = s]]
        BY <1>0, <2>1, <3>2 DEF Base, Typed
      <4> QED
        BY <1>0, <4>1 DEF Hists
    <3> QED
      BY <3>1, <3>2
  <2> QED
    BY <2>1, <2>2 DEF Connecting
<1>4. CASE ConnectSucceeds(s)
  <2> DEFINE r == [sess[s] EXCEPT !.sock = "open"]
  <2>1. /\ r.ourSeq = sess[s].ourSeq /\ r.state = sess[s].state /\ r.ack = sess[s].ack
        /\ r.theirSeq = sess[s].theirSeq /\ r.cancelled = sess[s].cancelled /\ r.win = sess[s].win
    BY <1>0 DEF Sessions
  <2>2. /\ sess' = [sess EXCEPT ![s] = r]
        /\ UNCHANGED <<writer, last, map, loop, rxq, cpu, disposed, guest, host, hist>>
    BY <1>4 DEF ConnectSucceeds
  <2> HIDE DEF r
  <2> QED
    BY <1>0, <2>1, <2>2 DEF Connecting
<1>5. CASE ConnectAnswers(s)
  <2> DEFINE p == Packet(s, "SynAck", sess[s].ourSeq)
             r == [sess[s] EXCEPT !.state = "SynAckSent", !.ourSeq = @ + 1, !.ack = sess[s].ourSeq + 1]
  <2>1. /\ p \in Packets /\ p.from = s /\ p.kind = "SynAck" /\ p.seq = sess[s].ourSeq
        /\ p.ack = sess[s].theirSeq
    BY <1>0, PacketIs DEF Sessions
  <2>2. /\ r.ourSeq = sess[s].ourSeq + 1 /\ r.state = "SynAckSent" /\ r.ack = sess[s].ourSeq + 1
        /\ r.theirSeq = sess[s].theirSeq /\ r.cancelled = sess[s].cancelled /\ r.win = sess[s].win
    BY <1>0 DEF Sessions
  <2>3. /\ sess' = [sess EXCEPT ![s] = r] /\ Enqueue(p) /\ conn[s] = "publish"
        /\ loop' = [loop EXCEPT ![s] = "recv"]
        /\ UNCHANGED <<writer, last, map, cpu, disposed, guest, host, hist>>
    BY <1>5 DEF ConnectAnswers, ConnStep
  <2> HIDE DEF p, r
  <2>4. Queued(rxq') = Queued(rxq) \cup {p}
    BY <2>1, <2>3, Enqueued
  <2>5. loop[s] = "none"
    BY <1>0, <2>3 DEF SessionOK
  <2>6. sess'[s] = r /\ loop'[s] = "recv"
    BY <1>0, <2>3
  <2>7. Answering(s)
    BY <2>1, <2>2, <2>3, <2>4, <2>5, <2>6 DEF Answering
  <2> QED
    BY <1>0, <2>2, <2>3, <2>7
<1> QED
  BY <1>1, <1>2, <1>3, <1>4, <1>5 DEF Connect

\* What the steps of the receive threads do to the numbers and the queue.
Read(s) ==
    /\ loop[s] = "recv" /\ loop'[s] = "wait" /\ host'[s].read = host[s].read + 1
    /\ host[s].read < host[s].sent /\ ~host[s].rst /\ ~sess[s].cancelled
    /\ hist' = hist /\ sess' = sess /\ rxq' = rxq

Ended(s) ==
    /\ loop[s] = "recv" /\ loop'[s] = "done" /\ host[s].eof /\ host[s].read = host[s].sent
    /\ ~host[s].rst /\ ~sess[s].cancelled
    /\ host' = host /\ hist' = hist /\ sess'[s].ourSeq = sess[s].ourSeq + 1
    /\ sess'[s].state = "FinWait"
    /\ \E p \in Packets : /\ Queued(rxq') = Queued(rxq) \cup {p} /\ p.from = s
                          /\ p.kind = "Fin" /\ p.seq = sess[s].ourSeq /\ p.ack = sess[s].theirSeq

Sent(s) ==
    /\ loop[s] = "send" /\ loop'[s] = "recv" /\ host' = host /\ hist' = hist
    /\ sess'[s].ourSeq = sess[s].ourSeq + 1 /\ sess'[s].state = sess[s].state
    /\ \E p \in Packets : /\ Queued(rxq') = Queued(rxq) \cup {p} /\ p.from = s
                          /\ p.kind = "Data" /\ p.seq = sess[s].ourSeq /\ p.ack = sess[s].theirSeq

Waited(s) ==
    /\ loop[s] = "wait" /\ loop'[s] \in {"send", "done"} /\ host' = host /\ sess' = sess /\ rxq' = rxq
    /\ \/ hist'[s].forced
       \/ /\ hist'[s].forced = hist[s].forced /\ hist[s].granted # 0
          /\ loop'[s] = "done" \/ WindowFits(sess[s])

Stopped(s) ==
    /\ loop[s] = "recv" /\ loop'[s] = "done" /\ host' = host /\ sess' = sess /\ rxq' = rxq
    /\ hist' = hist

\* A receive thread reads, ends, sends, waits or stops.
LEMMA ReceiveSteps ==
  ASSUME Base, NEW s \in Session, Receive(s)
  PROVE  Read(s) \/ Ended(s) \/ Sent(s) \/ Waited(s) \/ Stopped(s)
<1>0. /\ sess \in [Session -> Sessions] /\ hist \in [Session -> Hists] /\ rxq \in Seq(Packets)
      /\ loop \in [Session -> {"none", "recv", "wait", "send", "done"}]
      /\ host \in [Session -> Hosts] /\ host[s] \in Hosts /\ hist[s] \in Hists
      /\ sess[s] \in Sessions /\ sess[s].ourSeq \in Nat
  BY DEF Base, Typed, Sessions
<1>1. CASE LoopEnds(s)
  BY <1>0, <1>1 DEF LoopEnds, LoopStep, Stopped
<1>2. CASE ReceiveData(s)
  BY <1>0, <1>2 DEF ReceiveData, Receives, LoopStep, KeepsReceiving, Read, Hosts
<1>3. CASE ReceiveEof(s)
  <2> DEFINE p == Packet(s, "Fin", sess[s].ourSeq)
  <2>1. /\ p \in Packets /\ p.from = s /\ p.kind = "Fin" /\ p.seq = sess[s].ourSeq
        /\ p.ack = sess[s].theirSeq
    BY <1>0, PacketIs
  <2>2. Enqueue(p)
    BY <1>3 DEF ReceiveEof
  <2> HIDE DEF p
  <2>3. Queued(rxq') = Queued(rxq) \cup {p}
    BY <2>1, <2>2, Enqueued
  <2>4. sess'[s].ourSeq = sess[s].ourSeq + 1 /\ sess'[s].state = "FinWait"
    BY <1>0, <1>3 DEF ReceiveEof, Sessions
  <2>5. /\ loop[s] = "recv" /\ loop'[s] = "done" /\ host[s].eof /\ host[s].read = host[s].sent
        /\ ~host[s].rst /\ ~sess[s].cancelled /\ host' = host /\ hist' = hist
    BY <1>0, <1>3 DEF ReceiveEof, Receives, LoopStep, KeepsReceiving
  <2> QED
    BY <2>1, <2>3, <2>4, <2>5 DEF Ended
<1>4. CASE SendSegment(s)
  <2> DEFINE p == Packet(s, "Data", sess[s].ourSeq)
  <2>1. /\ p \in Packets /\ p.from = s /\ p.kind = "Data" /\ p.seq = sess[s].ourSeq
        /\ p.ack = sess[s].theirSeq
    BY <1>0, PacketIs
  <2>2. Enqueue(p)
    BY <1>4 DEF SendSegment
  <2> HIDE DEF p
  <2>3. Queued(rxq') = Queued(rxq) \cup {p}
    BY <2>1, <2>2, Enqueued
  <2>4. sess'[s].ourSeq = sess[s].ourSeq + 1 /\ sess'[s].state = sess[s].state
    BY <1>0, <1>4 DEF SendSegment, Sessions
  <2>5. loop[s] = "send" /\ loop'[s] = "recv" /\ host' = host /\ hist' = hist
    BY <1>0, <1>4 DEF SendSegment, LoopStep
  <2> QED
    BY <2>1, <2>3, <2>4, <2>5 DEF Sent
<1>5. CASE WindowOpens(s)
  <2>1. /\ loop[s] = "wait" /\ loop'[s] = (IF Stopping(s) THEN "done" ELSE "send")
        /\ Stopping(s) \/ WindowFits(sess[s])
        /\ UNCHANGED <<sess, rxq, host>>
    BY <1>0, <1>5 DEF WindowOpens, LoopStep
  <2>2. hist'[s].forced = (hist[s].forced \/ hist[s].granted = 0)
    BY <1>0, <1>5 DEF WindowOpens, Hists
  <2>3. hist[s].forced \in BOOLEAN
    BY <1>0 DEF Hists
  <2> QED
    BY <2>1, <2>2, <2>3 DEF Waited
<1>6. CASE WaitTimesOut(s)
  BY <1>0, <1>6 DEF WaitTimesOut, LoopStep, AfterTimeout, Waited, Hists
<1> QED
  BY <1>1, <1>2, <1>3, <1>4, <1>5, <1>6 DEF Receive

\* What the steps of a host do: it sends before its end of file only.
LEMMA HostIs ==
  ASSUME Base, NEW s \in Session, HostSends(s) \/ HostCloses(s) \/ HostResets(s)
  PROVE  /\ UNCHANGED <<writer, last, map, sess, conn, loop, rxq, cpu, disposed, guest, hist>>
         /\ \A t \in Session :
              /\ host'[t].read = host[t].read /\ host'[t].got = host[t].got
              /\ host[t].eof => host'[t].eof /\ host'[t].sent = host[t].sent
              /\ host[t].rst => host'[t].rst
              /\ host'[t].sent >= host[t].sent
              /\ writer => host'[t].sent = host[t].sent
<1>0. host \in [Session -> Hosts] /\ host[s] \in Hosts
  BY DEF Base, Typed
<1>1. /\ UNCHANGED <<writer, last, map, sess, conn, loop, rxq, cpu, disposed, guest, hist>>
      /\ ~host[s].eof /\ ~host[s].rst
  BY DEF HostSends, HostCloses, HostResets, HostActs, HostOpen
<1>2. PICK h \in Hosts :
        /\ host' = [host EXCEPT ![s] = h] /\ h.read = host[s].read /\ h.got = host[s].got
        /\ h.sent >= host[s].sent /\ (writer => h.sent = host[s].sent)
  <2>1. CASE HostSends(s)
    <3> DEFINE d == [host[s] EXCEPT !.sent = @ + 1]
    <3>1. d \in Hosts /\ d.read = host[s].read /\ d.sent = host[s].sent + 1 /\ d.got = host[s].got
      BY <1>0, HostEdits
    <3>2. /\ host' = [host EXCEPT ![s] = d] /\ ~writer /\ host[s].sent \in Nat
          /\ \A n \in Nat : n + 1 >= n /\ n >= n
      BY <1>0, <2>1 DEF HostSends, Hosts
    <3> HIDE DEF d
    <3> QED
      BY <3>1, <3>2
  <2>2. CASE HostCloses(s)
    <3> DEFINE d == [host[s] EXCEPT !.eof = TRUE]
    <3>1. d \in Hosts /\ d.read = host[s].read /\ d.sent = host[s].sent /\ d.got = host[s].got
      BY <1>0, HostEdits
    <3>2. /\ host' = [host EXCEPT ![s] = d] /\ host[s].sent \in Nat
          /\ \A n \in Nat : n + 1 >= n /\ n >= n
      BY <1>0, <2>2 DEF HostCloses, Hosts
    <3> HIDE DEF d
    <3> QED
      BY <3>1, <3>2
  <2>3. CASE HostResets(s)
    <3> DEFINE d == [host[s] EXCEPT !.rst = TRUE]
    <3>1. d \in Hosts /\ d.read = host[s].read /\ d.sent = host[s].sent /\ d.got = host[s].got
      BY <1>0, HostEdits
    <3>2. /\ host' = [host EXCEPT ![s] = d] /\ host[s].sent \in Nat
          /\ \A n \in Nat : n + 1 >= n /\ n >= n
      BY <1>0, <2>3 DEF HostResets, Hosts
    <3> HIDE DEF d
    <3> QED
      BY <3>1, <3>2
  <2> QED
    BY <2>1, <2>2, <2>3
<1>3. ASSUME NEW t \in Session
      PROVE  /\ host'[t].read = host[t].read /\ host'[t].got = host[t].got
             /\ host[t].eof => host'[t].eof /\ host'[t].sent = host[t].sent
             /\ host[t].rst => host'[t].rst
             /\ host'[t].sent >= host[t].sent
             /\ writer => host'[t].sent = host[t].sent
  <2>1. host[t].sent \in Nat
    BY <1>0 DEF Hosts
  <2> QED
    BY <1>0, <1>1, <1>2, <2>1
<1> QED
  BY <1>1, <1>3

\* The numbers of a session after a step of the threads and of the host.
LEMMA ThreadSequence ==
  ASSUME Base, NEW s \in Session, NEW t \in Session, SequenceOK(t),
         \/ Connect(s) \/ Receive(s) \/ HostSends(s) \/ HostCloses(s) \/ HostResets(s)
  PROVE  SequenceOK(t)'
<1>0. /\ SessionOK(t) /\ sess[t] \in Sessions /\ sess[t].ourSeq \in Nat /\ host[t] \in Hosts
      /\ host[t].read \in Nat /\ host[t].sent \in Nat /\ Isn(t) \in Nat
  BY IsnNat, Made DEF Sessions, Hosts
<1>1. CASE Connect(s)
  <2>1. host' = host /\ (t # s => sess'[t] = sess[t] /\ loop'[t] = loop[t])
    BY <1>1, ConnectIs
  <2>2. CASE Connecting(s)
    <3>1. /\ sess'[t].ourSeq = sess[t].ourSeq /\ loop'[t] = loop[t]
          /\ \A p \in Queued(rxq') : p \in Queued(rxq) \/ p.kind = "Refused"
      BY <2>1, <2>2 DEF Connecting
    <3> QED
      BY <2>1, <3>1 DEF SequenceOK
  <2>3. CASE Answering(s)
    <3>1. PICK p \in Packets : /\ Queued(rxq') = Queued(rxq) \cup {p} /\ p.from = s
                               /\ p.kind = "SynAck" /\ p.seq = sess[s].ourSeq
      BY <2>3 DEF Answering
    <3>2. CASE t = s
      <4>1. /\ loop[s] = "none" /\ loop'[s] = "recv" /\ sess'[s].ourSeq = sess[s].ourSeq + 1
            /\ sess[s].ourSeq = Isn(s) /\ host[s].read = 0
        BY <1>0, <2>3, <3>2 DEF Answering, SequenceOK, SessionOK
      <4> QED
        BY <1>0, <2>1, <3>1, <3>2, <4>1 DEF SequenceOK
    <3>3. CASE t # s
      BY <2>1, <3>1, <3>3 DEF SequenceOK
    <3> QED
      BY <3>2, <3>3
  <2> QED
    BY <1>1, <2>2, <2>3, ConnectIs
<1>2. CASE Receive(s)
  <2>1. t # s => sess'[t] = sess[t] /\ host'[t] = host[t] /\ loop'[t] = loop[t]
    BY <1>2, ReceiveKeeps
  <2>2. host'[t].sent = host[t].sent /\ host'[t].eof = host[t].eof
    BY <1>2, ReceiveKeeps
  <2>3. \A p \in Queued(rxq') : p \in Queued(rxq) \/ p.from = s
    BY <1>2, ReceiveSteps DEF Read, Ended, Sent, Waited, Stopped
  <2>4. CASE t # s
    BY <2>1, <2>3, <2>4 DEF SequenceOK
  <2>5. CASE t = s /\ Read(s)
    <3>1. /\ loop[t] = "recv" /\ loop'[t] = "wait" /\ host'[t].read = host[t].read + 1
          /\ sess' = sess /\ rxq' = rxq
      BY <2>5 DEF Read
    <3>2. sess'[t].ourSeq = Isn(t) + host'[t].read
      <4>1. sess[t].ourSeq = Isn(t) + 1 + host[t].read
        BY <3>1 DEF SequenceOK
      <4>2. Isn(t) + 1 + host[t].read = Isn(t) + (host[t].read + 1)
        BY <1>0, CountsOn
      <4> QED
        BY <3>1, <4>1, <4>2
    <3>3. \A p \in Queued(rxq) : p.seq \in Nat
      BY Made DEF Packets
    <3>4. \A n \in Nat : n < Isn(t) + 1 + host[t].read => n < Isn(t) + 1 + (host[t].read + 1)
      BY <1>0
    <3> QED
      BY <2>2, <3>1, <3>2, <3>3, <3>4 DEF SequenceOK
  <2>6. CASE t = s /\ Ended(s)
    <3>1. PICK p \in Packets : /\ Queued(rxq') = Queued(rxq) \cup {p} /\ p.from = s
                               /\ p.kind = "Fin" /\ p.seq = sess[s].ourSeq
      BY <2>6 DEF Ended
    <3>2. /\ loop[t] = "recv" /\ loop'[t] = "done" /\ host' = host
          /\ host[t].eof /\ host[t].read = host[t].sent
      BY <2>6 DEF Ended
    <3>3. p.seq = Isn(t) + 1 + host[t].sent
      BY <2>6, <3>1, <3>2 DEF SequenceOK
    <3> QED
      BY <3>1, <3>2, <3>3 DEF SequenceOK
  <2>7. CASE t = s /\ Sent(s)
    <3>1. PICK p \in Packets : /\ Queued(rxq') = Queued(rxq) \cup {p} /\ p.from = s
                               /\ p.kind = "Data" /\ p.seq = sess[s].ourSeq
      BY <2>7 DEF Sent
    <3>2. /\ loop[t] = "send" /\ loop'[t] = "recv" /\ host' = host
          /\ sess'[t].ourSeq = sess[t].ourSeq + 1
      BY <2>7 DEF Sent
    <3>3. sess[t].ourSeq = Isn(t) + host[t].read
      BY <3>2 DEF SequenceOK
    <3>4. sess'[t].ourSeq = Isn(t) + 1 + host[t].read
      BY <1>0, <3>2, <3>3, CountsOn
    <3>5. p.seq < Isn(t) + 1 + host[t].read
      <4>1. p.seq = Isn(t) + host[t].read
        BY <2>7, <3>1, <3>3
      <4> QED
        BY <1>0, <4>1, CountsOn
    <3>6. \A q \in Queued(rxq') : q \in Queued(rxq) \/ (q = p /\ p.kind = "Data")
      BY <3>1
    <3> QED
      BY <3>2, <3>4, <3>5, <3>6 DEF SequenceOK
  <2>8. CASE t = s /\ (Waited(s) \/ Stopped(s))
    <3>1. /\ sess' = sess /\ host' = host /\ rxq' = rxq
          /\ \/ loop[s] = "wait" /\ loop'[s] \in {"send", "done"}
             \/ loop'[s] = "done"
      BY <2>8 DEF Waited, Stopped
    <3> QED
      BY <2>8, <3>1 DEF SequenceOK
  <2> QED
    BY <1>2, <2>4, <2>5, <2>6, <2>7, <2>8, ReceiveSteps
<1>3. CASE HostSends(s) \/ HostCloses(s) \/ HostResets(s)
  BY <1>3, HostIs DEF SequenceOK
<1> QED
  BY <1>1, <1>2, <1>3

\* Every step keeps the numbers of the sessions and the guest's count.
LEMMA EofStep == ASSUME Base, EofOK, [Next]_vars PROVE EofOK'
<1> USE IsnNat, Made
<1>1. CASE UNCHANGED vars
  BY <1>1 DEF vars, EofOK, Live, SequenceOK
<1>2. CASE Cpu
  <2>1. \A s \in Session : Live(s)' => SequenceOK(s)'
    BY <1>2, LiveBefore, CpuSequence DEF EofOK
  <2> QED
    BY <1>2, <2>1, TakenCpu DEF EofOK, TakenOK
<1>3. ASSUME NEW s \in Session,
             Connect(s) \/ Receive(s) \/ HostSends(s) \/ HostCloses(s) \/ HostResets(s)
      PROVE  EofOK'
  <2>1. guest' = guest /\ last' = last
    BY <1>3, ConnectIs, ReceiveKeeps, HostIs
  <2>2. \A t \in Session : Live(t)' => SequenceOK(t)'
    BY <1>3, <2>1, ThreadSequence DEF EofOK, Live
  <2>3. \A t \in Session : host[t].eof => host'[t].eof /\ host'[t].sent = host[t].sent
    BY <1>3, ConnectIs, ReceiveKeeps, HostIs
  <2>4. guest.irs # None => guest.irs \in Session
    BY DEF Guests
  <2> QED
    BY <2>1, <2>2, <2>3, <2>4 DEF EofOK
<1> QED
  BY <1>1, <1>2, <1>3 DEF Next

-----------------------------------------------------------------------------
(* A guest that writes.                                                    *)

\* Every step keeps the sessions of a guest that writes without data.
LEMMA WriterStep == ASSUME Base, EofOK, WriterOK, [Next]_vars PROVE WriterOK'
<1> USE IsnNat, Made
<1>1. CASE UNCHANGED vars
  BY <1>1 DEF vars, WriterOK
<1>2. CASE ~writer'
  BY <1>2 DEF WriterOK
<1>3. CASE Cpu /\ writer'
  <2>0. /\ writer /\ loop' = loop /\ guest \in Guests /\ GuestOK
        /\ \A s \in Session : Stays(s) \/ Leaves(s) \/ Starts(s)
    BY <1>3, CpuStep DEF Base
  <2>1. ASSUME NEW s \in Session
        PROVE  /\ host'[s].sent = 0 /\ loop'[s] \notin {"wait", "send"}
               /\ ~sess'[s].cancelled =>
                    /\ loop'[s] = "none" => sess'[s].ourSeq = Isn(s)
                    /\ loop'[s] = "recv" => sess'[s].ourSeq = Isn(s) + 1
                    /\ sess'[s].state = "FinWait" => sess'[s].ourSeq = Isn(s) + 2
    <3>1. host'[s].sent = 0 /\ loop'[s] \notin {"wait", "send"}
      BY <1>3, <2>0, CpuQueue DEF WriterOK
    <3>2. CASE Stays(s)
      BY <2>0, <3>1, <3>2 DEF WriterOK, Stays, Same, Going
    <3>3. CASE Leaves(s)
      BY <3>1, <3>3 DEF Leaves, Shut
    <3>4. CASE Starts(s)
      <4>1. loop[s] = "none"
        BY <3>4 DEF Starts, SessionOK
      <4> QED
        BY <2>0, <3>1, <3>4, <4>1, NewSessionIs DEF Starts
    <3> QED
      BY <2>0, <3>2, <3>3, <3>4
  <2>2. \A p \in Queued(rxq') : p.kind # "Data"
    BY <1>3, <2>0, CpuQueue DEF WriterOK
  <2>3. guest'.got = 0 /\ (guest'.state = "Closing" => ~guest'.eof /\ guest'.rcv = Isn(guest'.irs) + 1)
    <3>0. guest.got = 0 /\ (guest.state = "Closing" => ~guest.eof /\ guest.rcv = Isn(guest.irs) + 1)
      BY <2>0 DEF WriterOK
    <3>1. CASE /\ guest'.got = guest.got
               /\ \/ guest'.state # "Closing"
                  \/ /\ guest.state = "Closing" /\ guest'.eof = guest.eof
                     /\ guest'.rcv = guest.rcv /\ guest'.irs = guest.irs
      BY <3>0, <3>1
    <3>2. CASE GuestConnect \/ GuestAbort \/ LanceStop \/ Dispose
      <4>1. guest' = ClosedGuest \/ \E n : guest' = NewGuest(n)
        BY <3>2 DEF GuestConnect, GuestAbort, LanceStop, Dispose
      <4> QED
        BY <4>1 DEF ClosedGuest, NewGuest
    <3>3. CASE GuestRetransmitSyn \/ FinishClose \/ DisposeReturns
      BY <3>0, <3>3 DEF GuestRetransmitSyn, FinishClose, DisposeReturns
    <3>4. CASE GuestRead
      BY <2>0, <3>1, <3>4 DEF GuestRead, Guests
    <3>5. CASE \E seq \in 1..2 : GuestSend(seq)
      <4>1. guest' = Sender /\ guest.state = "Open"
        BY <3>5 DEF GuestSend, Sender
      <4> QED
        BY <2>0, <3>1, <4>1, SenderIs
    <3>6. CASE \E b \in BOOLEAN : GuestClose(b)
      <4>1. PICK b \in BOOLEAN : guest' = Closer(b) /\ guest.state = "Open"
        BY <3>6 DEF GuestClose, Closer
      <4>2. guest.irs # None /\ ~guest.fin
        BY <2>0, <4>1 DEF GuestOK
      <4>3. guest.irs \in Session
        BY <2>0, <4>2 DEF Guests
      <4>4. ~guest.eof => guest.rcv = Isn(guest.irs) + 1
        <5>1. ~guest.eof => guest.rcv = Isn(guest.irs) + 1 + guest.got
          BY <4>1, <4>2 DEF EofOK
        <5>2. Isn(guest.irs) + 1 + 0 = Isn(guest.irs) + 1
          BY <4>3
        <5> QED
          BY <3>0, <5>1, <5>2
      <4> QED
        BY <2>0, <3>0, <4>1, <4>4, CloserIs
    <3>7. CASE GuestReceive
      <4>1. PICK p \in Packets :
              /\ p \in Queued(rxq)
              /\ \/ guest.state = "SynSent" /\ guest' = Opened(p)
                 \/ guest' = guest
                 \/ guest' = EndedGuest
                 \/ Takes(p) /\ guest' = After(p)
        BY <3>7, ReceiveIs
      <4>2. p.kind # "Data"
        BY <2>0, <4>1 DEF WriterOK
      <4>3. CASE guest.state = "SynSent" /\ guest' = Opened(p)
        BY <2>0, <3>0, <4>3, OpenedIs
      <4>4. CASE guest' = guest
        BY <3>0, <4>4
      <4>5. CASE guest' = EndedGuest
        BY <2>0, <3>0, <4>5, EndedIs
      <4>6. CASE Takes(p) /\ guest' = After(p)
        <5>1. guest'.got = guest.got /\ guest'.irs = guest.irs
          BY <2>0, <4>2, <4>6, AfterIs DEF Guests
        <5>2. guest'.state = "Closing" => guest.state = "Closing" /\ p.kind = "Ack"
          BY <2>0, <4>2, <4>6, AfterIs DEF Takes
        <5>3. p.kind = "Ack" => guest'.rcv = guest.rcv /\ guest'.eof = guest.eof
          BY <2>0, <4>6, AfterAck
        <5> QED
          BY <3>1, <5>1, <5>2, <5>3
      <4> QED
        BY <4>1, <4>3, <4>4, <4>5, <4>6
    <3> QED
      BY <1>3, <3>2, <3>3, <3>4, <3>5, <3>6, <3>7 DEF Cpu
  <2> QED
    BY <2>1, <2>2, <2>3 DEF WriterOK
<1>4. ASSUME writer', NEW s \in Session,
             Connect(s) \/ Receive(s) \/ HostSends(s) \/ HostCloses(s) \/ HostResets(s)
      PROVE  WriterOK'
  <2>0. writer /\ guest' = guest /\ \A t \in Session : host'[t].sent = host[t].sent
    BY <1>4, ConnectIs, ReceiveKeeps, HostIs
  <2>1. CASE Connect(s)
    <3>1. ASSUME NEW t \in Session
          PROVE  /\ loop'[t] \notin {"wait", "send"}
                 /\ ~sess'[t].cancelled =>
                      /\ loop'[t] = "none" => sess'[t].ourSeq = Isn(t)
                      /\ loop'[t] = "recv" => sess'[t].ourSeq = Isn(t) + 1
                      /\ sess'[t].state = "FinWait" => sess'[t].ourSeq = Isn(t) + 2
      <4>1. /\ sess'[t].cancelled = sess[t].cancelled
            /\ t # s => sess'[t] = sess[t] /\ loop'[t] = loop[t]
            /\ Answering(s) \/ Connecting(s)
        BY <2>1, ConnectIs
      <4>2. /\ loop[t] \notin {"wait", "send"}
            /\ ~sess[t].cancelled =>
                 /\ loop[t] = "none" => sess[t].ourSeq = Isn(t)
                 /\ loop[t] = "recv" => sess[t].ourSeq = Isn(t) + 1
                 /\ sess[t].state = "FinWait" => sess[t].ourSeq = Isn(t) + 2
        BY <2>0 DEF WriterOK
      <4>3. CASE t # s
        BY <4>1, <4>2, <4>3
      <4>4. CASE t = s /\ Connecting(s)
        BY <4>1, <4>2, <4>4 DEF Connecting
      <4>5. CASE t = s /\ Answering(s)
        <5>1. loop[t] = "none" /\ loop'[t] = "recv" /\ sess'[t].ourSeq = sess[t].ourSeq + 1
              /\ sess'[t].state = "SynAckSent"
          BY <4>5 DEF Answering
        <5> QED
          BY <4>1, <4>2, <5>1
      <4> QED
        BY <4>1, <4>3, <4>4, <4>5
    <3>2. \A p \in Queued(rxq') : p.kind # "Data"
      <4>1. \A p \in Queued(rxq) : p.kind # "Data"
        BY <2>0 DEF WriterOK
      <4>2. CASE Connecting(s)
        BY <4>1, <4>2 DEF Connecting
      <4>3. CASE Answering(s)
        BY <4>1, <4>3 DEF Answering
      <4> QED
        BY <2>1, <4>2, <4>3, ConnectIs
    <3> QED
      BY <2>0, <3>1, <3>2 DEF WriterOK
  <2>2. CASE Receive(s)
    <3>0. /\ loop[s] \notin {"wait", "send"} /\ host[s].sent = 0 /\ host[s].read \in Nat
      BY <2>0 DEF WriterOK, Hosts
    <3>1. Ended(s) \/ Stopped(s)
      BY <2>2, <3>0, ReceiveSteps DEF Read, Sent, Waited
    <3>2. ASSUME NEW t \in Session
          PROVE  /\ loop'[t] \notin {"wait", "send"}
                 /\ ~sess'[t].cancelled =>
                      /\ loop'[t] = "none" => sess'[t].ourSeq = Isn(t)
                      /\ loop'[t] = "recv" => sess'[t].ourSeq = Isn(t) + 1
                      /\ sess'[t].state = "FinWait" => sess'[t].ourSeq = Isn(t) + 2
      <4>1. /\ sess'[t].cancelled = sess[t].cancelled
            /\ t # s => sess'[t] = sess[t] /\ loop'[t] = loop[t]
        BY <2>2, ReceiveKeeps
      <4>2. /\ loop[t] \notin {"wait", "send"}
            /\ ~sess[t].cancelled =>
                 /\ loop[t] = "none" => sess[t].ourSeq = Isn(t)
                 /\ loop[t] = "recv" => sess[t].ourSeq = Isn(t) + 1
                 /\ sess[t].state = "FinWait" => sess[t].ourSeq = Isn(t) + 2
        BY <2>0 DEF WriterOK
      <4>3. CASE t # s
        BY <4>1, <4>2, <4>3
      <4>4. CASE t = s /\ Stopped(s)
        BY <4>1, <4>2, <4>4 DEF Stopped
      <4>5. CASE t = s /\ Ended(s)
        <5>1. loop[t] = "recv" /\ loop'[t] = "done" /\ sess'[t].ourSeq = sess[t].ourSeq + 1
          BY <4>5 DEF Ended
        <5>2. Isn(t) + 1 + 1 = Isn(t) + 2
          OBVIOUS
        <5> QED
          BY <4>1, <4>2, <5>1, <5>2
      <4> QED
        BY <3>1, <4>3, <4>4, <4>5
    <3>3. \A p \in Queued(rxq') : p.kind # "Data"
      BY <2>0, <3>1 DEF WriterOK, Ended, Stopped
    <3> QED
      BY <2>0, <3>2, <3>3 DEF WriterOK
  <2>3. CASE HostSends(s) \/ HostCloses(s) \/ HostResets(s)
    BY <2>0, <2>3, HostIs DEF WriterOK
  <2> QED
    BY <1>4, <2>1, <2>2, <2>3
<1> QED
  BY <1>1, <1>2, <1>3, <1>4 DEF Next

-----------------------------------------------------------------------------
(* What the guest holds as acknowledged.                                   *)

\* What may be acknowledged is a number.
LEMMA BoundIs ==
  ASSUME Base, guest.irs # None
  PROVE  Bound \in Nat /\ Bound >= 1 /\ guest.irs \in Session /\ host[guest.irs].got \in Nat
<1>1. guest.irs \in Session
  BY Made DEF Guests
<1>2. host[guest.irs].got \in Nat
  BY <1>1, Made DEF Hosts
<1> QED
  BY <1>1, <1>2 DEF Bound

\* A step of the threads or of a host: no ACK but those of the sessions.
LEMMA AckThreads ==
  ASSUME Base, AckOK, NEW s \in Session,
         Connect(s) \/ Receive(s) \/ HostSends(s) \/ HostCloses(s) \/ HostResets(s)
  PROVE  AckOK'
<1> USE IsnNat, Made
<1>1. /\ UNCHANGED <<writer, last, guest>> /\ map' \in {map, None}
      /\ \A t \in Session : /\ sess'[t].theirSeq = sess[t].theirSeq /\ host'[t].got = host[t].got
                            /\ sess'[t].cancelled = sess[t].cancelled
                            /\ host[t].rst => host'[t].rst
  BY ConnectIs, ReceiveKeeps, HostIs
<1>2. guest.irs # None =>
        guest.irs \in Session /\ Bound' = Bound /\ loop[guest.irs] # "none" /\ Bound >= 1
  BY <1>1, BoundIs DEF Bound, Base, GuestOK
<1>3. guest.irs # None /\ Silent(guest.irs) => Silent(guest.irs)'
  <2> SUFFICES ASSUME guest.irs # None, Silent(guest.irs) PROVE Silent(guest.irs)'
    OBVIOUS
  <2> DEFINE t == guest.irs
  <2>1. t \in Session /\ loop[t] # "none" /\ guest' = guest
    BY <1>1, <1>2
  <2>2. t # s => loop'[t] = loop[t]
    BY <2>1, ConnectIs, ReceiveKeeps, HostIs
  <2>3. loop'[t] = loop[t] \/ loop'[t] = "done"
    <3>1. CASE Connect(s)
      BY <2>1, <2>2, <3>1, ConnectIs DEF Answering, Connecting
    <3>2. CASE Receive(s) /\ t = s
      BY <3>2, ReceiveSteps DEF Silent, Read, Ended, Sent, Waited, Stopped
    <3>3. CASE HostSends(s) \/ HostCloses(s) \/ HostResets(s)
      BY <3>3, HostIs
    <3> QED
      BY <2>2, <3>1, <3>2, <3>3
  <2> QED
    BY <1>1, <2>1, <2>3 DEF Silent
<1>4. guest.irs # None /\ sess[guest.irs].state = "FinWait" => sess'[guest.irs].state = "FinWait"
  <2>1. CASE Connect(s)
    <3>1. sess[s].state = "FinWait" => loop[s] = "done"
      BY DEF SessionOK
    <3> QED
      BY <1>2, <2>1, <3>1, ConnectIs DEF Answering, Connecting
  <2> QED
    BY <1>2, <2>1, ReceiveKeeps, HostIs
<1>5. \A p \in Queued(rxq') :
        \/ p \in Queued(rxq)
        \/ p.kind = "Refused" /\ p.ack = 1
        \/ /\ p.from = s /\ p.ack = sess[s].theirSeq /\ s <= last
           /\ p.kind = "SynAck" \/ ~Silent(s)
  <2>1. CASE Connecting(s)
    BY <2>1 DEF Connecting
  <2>2. CASE Answering(s)
    <3>1. PICK p \in Packets : /\ Queued(rxq') = Queued(rxq) \cup {p} /\ p.from = s
                               /\ p.kind = "SynAck" /\ p.ack = sess[s].theirSeq
      BY <2>2 DEF Answering
    <3>2. conn[s] # "none"
      BY <2>2 DEF Answering
    <3> QED
      BY <3>1, <3>2
  <2>3. CASE Ended(s) \/ Sent(s)
    <3>1. PICK p \in Packets : /\ Queued(rxq') = Queued(rxq) \cup {p} /\ p.from = s
                               /\ p.ack = sess[s].theirSeq
      BY <2>3 DEF Ended, Sent
    <3>2. ~Silent(s) /\ loop[s] # "none"
      BY <2>3 DEF Ended, Sent, Silent
    <3>3. s <= last
      BY <3>2 DEF SessionOK
    <3> QED
      BY <3>1, <3>2, <3>3
  <2>4. CASE Read(s) \/ Waited(s) \/ Stopped(s)
    BY <2>4 DEF Read, Waited, Stopped
  <2>5. CASE HostSends(s) \/ HostCloses(s) \/ HostResets(s)
    BY <2>5, HostIs
  <2> QED
    BY <2>1, <2>2, <2>3, <2>4, <2>5, ConnectIs, ReceiveSteps
<1>6. SynAcks'
  BY <1>1, <1>5 DEF AckOK, SynAcks
<1>7. Sends'
  <2>1. guest.state = "Open" => guest.irs # None
    BY DEF Base, GuestOK
  <2> QED
    BY <1>1, <1>2, <1>4, <2>1 DEF AckOK, Sends
<1>8. Acks'
  <2> SUFFICES ASSUME guest.irs # None, ~guest.lostData
               PROVE  /\ guest.una <= Bound
                      /\ sess'[guest.irs].theirSeq <= Bound \/ Silent(guest.irs)'
                      /\ guest.state \in {"Open", "Closing"} =>
                           \A p \in Queued(rxq') :
                             p.from = guest.irs /\ p.kind \in {"Data", "Fin", "Ack"} =>
                               \/ p.ack <= Bound
                               \/ guest.state = "Closing" /\ writer /\ p.seq = Isn(guest.irs) + 2
    BY <1>1, <1>2 DEF Acks
  <2>1. Acks
    BY DEF AckOK
  <2> QED
    BY <1>1, <1>2, <1>3, <1>5, <2>1 DEF Acks
<1> QED
  BY <1>6, <1>7, <1>8 DEF AckOK

\* A SYN: the new session has acknowledged the SYN alone.
LEMMA AckSyn == ASSUME Base, AckOK, GuestConnect \/ GuestRetransmitSyn PROVE AckOK'
<1> USE IsnNat, Made
<1>1. HandleSyn /\ rxq' = rxq /\ host' = host
  BY DEF GuestConnect, GuestRetransmitSyn
<1>2. /\ last' = last + 1 /\ last' \in Session /\ sess'[last'].theirSeq = 1
      /\ \A s \in Session : s # last' => sess'[s].theirSeq = sess[s].theirSeq
  BY <1>1, SynIs, NewSessionIs DEF Same
<1>3. \A p \in Queued(rxq) : p.from <= last /\ p.from \in Nat
  BY DEF Base, QueueOK, Packets
<1>4. CASE GuestConnect
  <2>1. guest' = NewGuest(last')
    BY <1>2, <1>4 DEF GuestConnect
  <2>2. guest'.state = "SynSent" /\ guest'.syn = last' /\ guest'.irs = None
    BY <2>1 DEF NewGuest
  <2>3. \A s \in Session : last' <= s /\ s <= last' => s = last'
    BY <1>2
  <2>4. \A p \in Queued(rxq) : ~(last' <= p.from)
    BY <1>2, <1>3
  <2> QED
    BY <1>1, <1>2, <2>2, <2>3, <2>4 DEF AckOK, SynAcks, Sends, Acks
<1>5. CASE GuestRetransmitSyn
  <2>1. guest' = guest /\ guest.state = "SynSent" /\ guest.irs = None
    BY <1>5 DEF GuestRetransmitSyn, Base, GuestOK, NewGuest
  <2>2. \A s \in Session : s <= last' => s = last' \/ s <= last
    BY <1>2
  <2>3. SynAcks'
    BY <1>1, <1>2, <2>1, <2>2 DEF AckOK, SynAcks
  <2> QED
    BY <2>1, <2>3 DEF AckOK, Sends, Acks
<1> QED
  BY <1>4, <1>5

\* A guest without a connection holds nothing to be acknowledged.
LEMMA AckEnds ==
  ASSUME Base, AckOK, GuestAbort \/ LanceStop \/ Dispose
  PROVE  AckOK'
<1>1. guest' = ClosedGuest
  BY DEF GuestAbort, LanceStop, Dispose
<1>2. guest'.state = "Closed" /\ guest'.irs = None
  BY <1>1 DEF ClosedGuest, NewGuest
<1> QED
  BY <1>2 DEF AckOK, SynAcks, Sends, Acks

\* Nothing is sent and the guest's own numbers stay: what was acknowledged is.
LEMMA AckQuiet ==
  ASSUME Base, AckOK, Queued(rxq') \subseteq Queued(rxq), UNCHANGED <<loop, host, writer, last>>,
         guest'.irs = guest.irs, guest'.una = guest.una, guest'.fin = guest.fin,
         guest'.lostData = guest.lostData, guest'.snd = guest.snd, guest'.syn = guest.syn,
         guest'.state \in {guest.state, "Closed"},
         map' \in {map, None},
         \A s \in Session :
            /\ sess'[s].theirSeq = sess[s].theirSeq
            /\ sess[s].cancelled => sess'[s].cancelled
            /\ map' = s /\ sess[s].state = "FinWait" => sess'[s].state = "FinWait"
  PROVE  AckOK'
<1> USE IsnNat, Made
<1>1. guest.irs # None => guest.irs \in Session /\ Bound' = Bound
  BY BoundIs DEF Bound
<1>2. guest.irs # None /\ Silent(guest.irs) => Silent(guest.irs)'
  BY <1>1 DEF Silent
<1>3. SynAcks'
  BY DEF AckOK, SynAcks
<1>4. Sends'
  <2>1. guest.state = "Open" => guest.irs # None
    BY DEF Base, GuestOK
  <2> QED
    BY <1>1, <2>1 DEF AckOK, Sends
<1>5. Acks'
  <2> SUFFICES ASSUME guest.irs # None, ~guest.lostData
               PROVE  /\ guest.una <= Bound
                      /\ sess'[guest.irs].theirSeq <= Bound \/ Silent(guest.irs)'
                      /\ guest'.state \in {"Open", "Closing"} =>
                           \A p \in Queued(rxq') :
                             p.from = guest.irs /\ p.kind \in {"Data", "Fin", "Ack"} =>
                               \/ p.ack <= Bound
                               \/ guest'.state = "Closing" /\ writer /\ p.seq = Isn(guest.irs) + 2
    BY <1>1 DEF Acks
  <2>1. Acks
    BY DEF AckOK
  <2> QED
    BY <1>1, <1>2, <2>1 DEF Acks
<1> QED
  BY <1>3, <1>4, <1>5 DEF AckOK

\* The end of a close, and the destructor's return.
LEMMA AckFinish == ASSUME Base, AckOK, FinishClose \/ DisposeReturns PROVE AckOK'
<1>1. CASE FinishClose
  <2>1. /\ map' = None /\ UNCHANGED <<loop, rxq, host, writer, last, guest>>
        /\ Queued(rxq') \subseteq Queued(rxq)
    BY <1>1 DEF FinishClose
  <2>2. \A s \in Session : /\ sess'[s].theirSeq = sess[s].theirSeq
                           /\ sess[s].cancelled => sess'[s].cancelled
                           /\ None = s => FALSE
    BY <1>1, FinishCloseIs, IsnNat DEF Same, Shut
  <2> QED
    BY <2>1, <2>2, AckQuiet
<1>2. CASE DisposeReturns
  <2>1. /\ UNCHANGED <<map, sess, loop, host, writer, last, guest>>
        /\ Queued(rxq') \subseteq Queued(rxq)
    BY <1>2, QueuedEmpty DEF DisposeReturns
  <2> QED
    BY <2>1, AckQuiet
<1> QED
  BY <1>1, <1>2

\* The guest's read.
LEMMA AckRead == ASSUME Base, AckOK, GuestRead PROVE AckOK'
<1> DEFINE g == [guest EXCEPT !.unread = 0]
<1>1. /\ guest' = g /\ HandleAck(g) /\ UNCHANGED <<writer, last, map, loop, rxq, host>>
  BY DEF GuestRead
<1>2. /\ g \in Guests /\ g.state = guest.state /\ g.irs = guest.irs /\ g.fin = guest.fin
      /\ g.lostData = guest.lostData /\ g.una = guest.una /\ g.snd = guest.snd /\ g.syn = guest.syn
  <2>1. 0 \in 0..GuestWindow /\ guest \in Guests
    BY IsnNat, Made
  <2> QED
    BY <2>1 DEF Guests
<1> HIDE DEF g
<1>3. \A s \in Session : /\ sess'[s].theirSeq = sess[s].theirSeq
                         /\ sess'[s].cancelled = sess[s].cancelled
                         /\ sess[s].state = "FinWait" => sess'[s].state = "FinWait"
  BY <1>1, <1>2, HandleAckIs, IsnNat DEF Same, Going
<1>4. Queued(rxq') \subseteq Queued(rxq)
  BY <1>1
<1> QED
  BY <1>1, <1>2, <1>3, <1>4, AckQuiet

\* A packet.
LEMMA AckReceive == ASSUME Base, WriterOK, AckOK, GuestReceive PROVE AckOK'
<1> USE IsnNat, Made
<1>1. PICK p \in Packets :
        /\ p \in Queued(rxq) /\ rxq' \in Seq(Packets) /\ Queued(rxq') \subseteq Queued(rxq)
        /\ guest' \in Guests /\ cpu = None /\ disposed = "no"
        /\ UNCHANGED <<writer, last, conn, loop, cpu, disposed, host>>
        /\ \/ /\ guest.state = "SynSent" /\ p.kind = "SynAck" /\ p.from >= guest.syn
              /\ guest' = Opened(p) /\ Answered(guest')
           \/ guest.state = "SynSent" /\ guest' = guest /\ Dropped
           \/ guest' = EndedGuest /\ Silence
           \/ Takes(p) /\ guest' = After(p) /\ (Answered(guest') \/ Silence)
           \/ guest' = guest /\ Silence
           \/ guest' = guest /\ guest.state \in {"Open", "Closing"} /\ Answered(guest')
  BY ReceiveIs
<1>2. /\ map' \in {map, None}
      /\ \A s \in Session :
            /\ sess'[s].theirSeq = sess[s].theirSeq
            /\ sess[s].cancelled => sess'[s].cancelled
            /\ map' = s /\ sess[s].state = "FinWait" => sess'[s].state = "FinWait"
  <2>1. CASE Answered(guest')
    BY <2>1 DEF Answered, Same, Going
  <2>2. CASE Dropped
    BY <2>2 DEF Dropped, Same, Shut
  <2>3. CASE Silence
    BY <2>3 DEF Silence
  <2> QED
    BY <1>1, <2>1, <2>2, <2>3
<1>3. CASE guest' = guest
  BY <1>1, <1>2, <1>3, AckQuiet
<1>4. CASE guest' = EndedGuest
  <2>1. /\ guest'.irs = guest.irs /\ guest'.una = guest.una /\ guest'.fin = guest.fin
        /\ guest'.lostData = guest.lostData /\ guest'.snd = guest.snd /\ guest'.syn = guest.syn
        /\ guest'.state = "Closed"
    BY <1>4, EndedIs DEF EndedGuest, Guests
  <2> QED
    BY <1>1, <1>2, <2>1, AckQuiet
<1>5. CASE guest.state = "SynSent" /\ p.kind = "SynAck" /\ p.from >= guest.syn /\ guest' = Opened(p)
  <2>1. /\ guest.fin = FALSE /\ guest.lostData = FALSE /\ guest.snd = 1 /\ guest = NewGuest(guest.syn)
    BY <1>5 DEF Base, GuestOK, NewGuest
  <2>2. /\ guest'.state = "Open" /\ guest'.irs = p.from /\ guest'.una = 1 /\ guest'.snd = 1
        /\ ~guest'.fin /\ ~guest'.lostData /\ p.from \in Session /\ p.from <= last
    BY <1>1, <1>5, <2>1, OpenedIs DEF Packets, Base, QueueOK
  <2>3. host[p.from].got \in Nat /\ Bound' = 1 + host[p.from].got + 0
    BY <1>1, <2>2 DEF Bound, Hosts
  <2>4. 1 <= Bound' /\ Bound' \in Nat
    BY <2>3
  <2>5. guest.syn <= p.from /\ guest.syn \in Nat
    BY <1>5, <2>2 DEF Guests
  <2>6. sess'[p.from].theirSeq = 1
    BY <1>2, <1>5, <2>2, <2>5 DEF AckOK, SynAcks
  <2>7. \A q \in Queued(rxq') : q.from = p.from => q.ack <= Bound'
    <3>1. \A q \in Queued(rxq') : q.from = p.from => q.ack <= 1 /\ q.ack \in Nat
      BY <1>1, <1>5, <2>5 DEF AckOK, SynAcks, Packets
    <3> QED
      BY <2>4, <3>1
  <2>8. SynAcks' /\ Sends'
    BY <2>2 DEF SynAcks, Sends
  <2>9. Acks'
    BY <2>2, <2>4, <2>6, <2>7 DEF Acks
  <2> QED
    BY <2>8, <2>9 DEF AckOK
<1>6. CASE Takes(p) /\ guest' = After(p)
  <2>1. /\ guest'.irs = guest.irs /\ guest'.fin = guest.fin /\ guest'.lostData = guest.lostData
        /\ guest'.snd = guest.snd
        /\ guest'.una = (IF p.ack > guest.una THEN p.ack ELSE guest.una)
        /\ guest'.state \in {guest.state, "Closed"} /\ guest.state \in {"Open", "Closing"}
        /\ p.from = guest.irs /\ p.kind \in {"Data", "Fin", "Ack"} /\ p.seq = guest.rcv
    BY <1>6, AfterIs DEF Takes, InOrder
  <2>2. /\ guest.irs # None /\ guest.irs \in Session /\ Bound' = Bound /\ Bound \in Nat
        /\ guest.una \in Nat /\ p.ack \in Nat
    BY <1>1, <2>1, BoundIs DEF Base, GuestOK, Bound, Guests, Packets
  <2>3. ~guest.lostData => p.ack <= Bound
    <3> SUFFICES ASSUME ~guest.lostData PROVE p.ack <= Bound
      OBVIOUS
    <3>1. p.ack <= Bound \/ (guest.state = "Closing" /\ writer /\ p.seq = Isn(guest.irs) + 2)
      BY <1>1, <2>1, <2>2 DEF AckOK, Acks
    <3>2. guest.state = "Closing" /\ writer => p.seq = Isn(guest.irs) + 1
      BY <2>1 DEF WriterOK
    <3>3. Isn(guest.irs) + 1 # Isn(guest.irs) + 2
      BY <2>2
    <3> QED
      BY <3>1, <3>2, <3>3
  <2>4. ~guest.lostData => guest'.una <= Bound
    <3>1. ~guest.lostData => guest.una <= Bound
      BY <2>2 DEF AckOK, Acks
    <3> QED
      BY <2>1, <2>3, <3>1
  <2>5. Silent(guest.irs) => Silent(guest.irs)'
    <3>1. sess[guest.irs].cancelled => sess'[guest.irs].cancelled
      BY <1>2, <2>2
    <3> QED
      BY <1>1, <2>1, <3>1 DEF Silent
  <2>6. SynAcks'
    BY <2>1 DEF SynAcks
  <2>7. Sends'
    BY <1>1, <1>2, <2>1, <2>2 DEF AckOK, Sends
  <2>8. Acks'
    <3> SUFFICES ASSUME ~guest.lostData
                 PROVE  /\ guest'.una <= Bound
                        /\ sess'[guest.irs].theirSeq <= Bound \/ Silent(guest.irs)'
                        /\ guest'.state \in {"Open", "Closing"} =>
                             \A q \in Queued(rxq') :
                               q.from = guest.irs /\ q.kind \in {"Data", "Fin", "Ack"} =>
                                 \/ q.ack <= Bound
                                 \/ guest'.state = "Closing" /\ writer /\ q.seq = Isn(guest.irs) + 2
      BY <1>1, <2>1, <2>2 DEF Acks
    <3>1. Acks
      BY DEF AckOK
    <3> QED
      BY <1>1, <1>2, <2>1, <2>2, <2>4, <2>5, <3>1 DEF Acks
  <2> QED
    BY <2>6, <2>7, <2>8 DEF AckOK
<1> QED
  BY <1>1, <1>3, <1>4, <1>5, <1>6

\* Data of the guest is acknowledged when the host has it, or the session has
\* ended and will acknowledge nothing any more.
LEMMA AckSend ==
  ASSUME Base, Base', WriterOK, AckOK, NEW seq \in 1..2, GuestSend(seq)
  PROVE  AckOK'
<1> USE IsnNat, Made
<1> DEFINE t == guest.irs
<1>1. /\ HandleData(guest, 1) /\ guest' = Sender /\ guest.state = "Open" /\ writer /\ seq = 1
      /\ UNCHANGED <<writer, last, conn, loop, cpu, disposed>>
  BY DEF GuestSend, Sender
<1>2. /\ guest \in Guests /\ t # None /\ t \in Session /\ ~guest.fin /\ ~guest.lostData
      /\ loop[t] \in {"recv", "done"}
  <2>1. guest \in Guests /\ t # None /\ t \in Session /\ ~guest.fin /\ ~guest.lostData
    BY <1>1 DEF Base, GuestOK, Guests
  <2>2. loop[t] # "none" /\ loop[t] \in {"none", "recv", "wait", "send", "done"}
    BY <2>1 DEF Base, GuestOK, Typed
  <2>3. loop[t] \notin {"wait", "send"}
    BY <1>1, <2>1 DEF WriterOK
  <2> QED
    BY <2>1, <2>2, <2>3
<1>3. /\ guest'.state = "Open" /\ guest'.irs = t /\ guest'.snd = 2 /\ guest'.una = guest.una
      /\ ~guest'.fin /\ ~guest'.lostData
  BY <1>1, <1>2, SenderIs
<1>4. /\ SessionsTyped /\ (\A s \in Session : s # map => Same(s))
      /\ Ignored(guest) \/ Forwarded(guest, 1) \/ DataReset(guest, 1)
  BY <1>1, <1>2, HandleDataIs
<1>5. /\ host[t].got \in Nat /\ host'[t].got \in Nat /\ host'[t].got >= host[t].got
      /\ Bound = 1 + host[t].got + 0 /\ Bound' = 1 + host'[t].got + 0
  <2>1. Cpu
    BY DEF Cpu
  <2>2. host' \in [Session -> Hosts] /\ host'[t].got >= host[t].got
    BY <1>2, <2>1, CpuQueue
  <2> QED
    BY <1>2, <1>3, <2>2 DEF Bound, Hosts
<1>6. Bound \in Nat /\ Bound' \in Nat /\ Bound <= Bound'
  <2>1. \A m, n \in Nat : n >= m => /\ 1 + m + 0 \in Nat /\ 1 + n + 0 \in Nat
                                   /\ 1 + m + 0 <= 1 + n + 0
    OBVIOUS
  <2> QED
    BY <1>5, <2>1
<1>7. /\ guest.una <= Bound /\ guest.una \in Nat
      /\ sess[t].theirSeq <= Bound \/ Silent(t)
      /\ sess[t].theirSeq \in Nat
      /\ \A p \in Queued(rxq) : p.from = t /\ p.kind \in {"Data", "Fin", "Ack"} =>
            p.ack <= Bound /\ p.ack \in Nat
  <2>1. sess[t].theirSeq \in Nat /\ guest.una \in Nat /\ \A p \in Queued(rxq) : p.ack \in Nat
    BY <1>2 DEF Sessions, Guests, Packets
  <2> QED
    BY <1>1, <1>2, <2>1 DEF AckOK, Acks
<1> SUFFICES /\ map' = t => host'[t].got >= 1 \/ sess'[t].state = "FinWait"
             /\ sess'[t].theirSeq <= Bound' \/ Silent(t)'
             /\ \A p \in Queued(rxq') : p.from = t /\ p.kind \in {"Data", "Fin", "Ack"} =>
                  p.ack <= Bound'
  <2>1. guest'.una <= Bound'
    BY <1>3, <1>6, <1>7
  <2> QED
    BY <1>1, <1>3, <2>1 DEF AckOK, SynAcks, Sends, Acks
<1>8. \A p \in Queued(rxq) : p.from = t /\ p.kind \in {"Data", "Fin", "Ack"} => p.ack <= Bound'
  BY <1>6, <1>7
<1>9. sess'[t].theirSeq = sess[t].theirSeq /\ sess'[t].cancelled = sess[t].cancelled /\ host' = host
        => sess'[t].theirSeq <= Bound' \/ Silent(t)'
  BY <1>1, <1>2, <1>3, <1>6, <1>7 DEF Silent
<1>10. CASE Ignored(guest)
  <2>1. /\ sess'[t].theirSeq = sess[t].theirSeq /\ sess'[t].cancelled = sess[t].cancelled
        /\ host' = host /\ map' = map /\ rxq' = rxq
    BY <1>2, <1>4, <1>10 DEF Ignored, Same, Going
  <2>2. map = t => sess'[t].state = "FinWait"
    <3> SUFFICES ASSUME map = t PROVE sess'[t].state = "FinWait"
      OBVIOUS
    <3>1. ~sess'[t].cancelled /\ loop'[t] # "none" /\ SessionOK(t)'
      <4>1. SessionOK(t)'
        BY <1>2, <1>3 DEF Base
      <4> QED
        BY <1>1, <1>2, <2>1, <4>1 DEF Base, MapOK
    <3>2. sess'[t].state \in {"SynAckSent", "Established", "FinWait"} /\ sess'[t].sock = "open"
      BY <1>3, <3>1 DEF SessionOK
    <3>3. sess'[t].state # "SynAckSent" /\ sess'[t].sock = sess[t].sock
      BY <1>2, <1>10 DEF Ignored, Going
    <3> QED
      BY <1>2, <1>10, <3>2, <3>3 DEF Ignored
  <2> QED
    BY <1>8, <1>9, <2>1, <2>2
<1>11. CASE Forwarded(guest, 1)
  <2>1. PICK p \in Packets : Enqueue(p) /\ p.from = map /\ p.kind = "Ack" /\ p.ack = 1 + 1
    BY <1>11 DEF Forwarded
  <2>2. Queued(rxq') = Queued(rxq) \cup {p}
    BY <2>1, Enqueued
  <2>3. CASE map = t
    <3>1. host'[t].got = host[t].got + 1 /\ sess'[t].theirSeq = 1 + 1
      BY <1>11, <2>3 DEF Forwarded
    <3>2. host'[t].got >= 1 /\ 1 + 1 <= Bound'
      BY <1>5, <3>1
    <3> QED
      BY <1>8, <2>1, <2>2, <3>1, <3>2
  <2>4. CASE map # t
    <3>1. sess'[t] = sess[t] /\ host'[t] = host[t] /\ map' # t
      BY <1>2, <1>4, <1>11, <2>4 DEF Same, Forwarded
    <3>2. sess'[t].theirSeq <= Bound' \/ Silent(t)'
      BY <1>1, <1>2, <1>3, <1>6, <1>7, <3>1 DEF Silent
    <3> QED
      BY <1>8, <2>1, <2>2, <2>4, <3>1, <3>2
  <2> QED
    BY <2>3, <2>4
<1>12. CASE DataReset(guest, 1)
  <2>1. PICK p \in Packets : Enqueue(p) /\ p.kind = "Rst"
    BY <1>12 DEF DataReset
  <2>2. Queued(rxq') = Queued(rxq) \cup {p} /\ map' # t
    BY <1>2, <1>12, <2>1, Enqueued DEF DataReset
  <2>3. CASE map = t
    <3>1. sess'[t].cancelled
      BY <1>12, <2>3 DEF DataReset, Shut
    <3>2. Silent(t)'
      BY <1>1, <1>2, <1>3, <3>1 DEF Silent
    <3> QED
      BY <1>8, <2>1, <2>2, <3>2
  <2>4. CASE map # t
    <3>1. sess'[t] = sess[t] /\ host' = host
      BY <1>2, <1>4, <1>12, <2>4 DEF Same, DataReset
    <3> QED
      BY <1>8, <1>9, <2>1, <2>2, <3>1
  <2> QED
    BY <2>3, <2>4
<1> QED
  BY <1>4, <1>10, <1>11, <1>12

\* A FIN of the guest counts once the host has had all the data before it, or
\* the answer is one the guest does not take.
LEMMA AckClose ==
  ASSUME Base, WriterOK, AckOK, NEW b \in BOOLEAN, GuestClose(b)
  PROVE  AckOK'
<1> USE IsnNat, Made
<1> DEFINE t == guest.irs
<1>1. /\ guest' = Closer(b) /\ guest.state = "Open"
      /\ UNCHANGED <<writer, last, map, conn, loop, disposed, host>> /\ guest \in Guests
  BY DEF GuestClose, Closer
<1>2. /\ t # None /\ t \in Session /\ ~guest.fin /\ ~guest.lostData /\ loop[t] # "none"
  BY <1>1 DEF Base, GuestOK, Guests
<1>3. /\ guest'.state = (IF guest.eof THEN "Closed" ELSE "Closing") /\ guest'.irs = t
      /\ guest'.una = guest.una /\ guest'.fin /\ guest'.lostData = b
  BY <1>1, CloserIs
<1>4. SynAcks' /\ Sends'
  BY <1>3 DEF SynAcks, Sends
<1>5. CASE b
  BY <1>3, <1>4, <1>5 DEF AckOK, Acks
<1>6. CASE ~b
  <2>1. /\ host[t].got \in Nat /\ Bound = 1 + host[t].got + 0 /\ Bound' = 1 + host[t].got + 1
    BY <1>1, <1>2, <1>3 DEF Bound, Hosts
  <2>2. Bound \in Nat /\ Bound' = Bound + 1 /\ Bound <= Bound'
    BY <2>1
  <2>3. /\ guest.una <= Bound /\ guest.una \in Nat
        /\ sess[t].theirSeq <= Bound \/ Silent(t)
        /\ sess[t].theirSeq \in Nat
        /\ \A p \in Queued(rxq) : p.from = t /\ p.kind \in {"Data", "Fin", "Ack"} =>
              p.ack <= Bound /\ p.ack \in Nat
    <3>1. sess[t].theirSeq \in Nat /\ guest.una \in Nat /\ \A p \in Queued(rxq) : p.ack \in Nat
      BY <1>2 DEF Sessions, Guests, Packets
    <3> QED
      BY <1>1, <1>2, <3>1 DEF AckOK, Acks
  <2>4. guest'.una <= Bound'
    BY <1>3, <2>2, <2>3
  <2>5. \A p \in Queued(rxq) : p.from = t /\ p.kind \in {"Data", "Fin", "Ack"} => p.ack <= Bound'
    BY <2>2, <2>3
  <2>6. /\ (\A s \in Session : s # map => Same(s))
        /\ map = None => UNCHANGED <<sess, hist, rxq, cpu>>
        /\ map # None => /\ Going(map) /\ sess'[map].theirSeq = guest.snd + 1
                         /\ \E p \in Packets :
                              /\ Enqueue(p) /\ p.from = map /\ p.kind = "Fin"
                              /\ p.seq = sess[map].ourSeq /\ p.ack = guest.snd + 1
    BY GuestCloseIs
  <2>7. CASE map # t
    <3>1. sess'[t] = sess[t]
      BY <1>2, <2>6, <2>7 DEF Same
    <3>2. \A p \in Queued(rxq') : p \in Queued(rxq) \/ p.from # t
      <4>1. CASE map = None
        BY <2>6, <4>1
      <4>2. CASE map # None
        BY <2>6, <2>7, <4>2, Enqueued
      <4> QED
        BY <4>1, <4>2
    <3>3. sess'[t].theirSeq <= Bound' \/ Silent(t)'
      BY <1>1, <1>2, <1>3, <2>2, <2>3, <3>1 DEF Silent
    <3> QED
      BY <1>3, <1>4, <2>4, <2>5, <3>2, <3>3 DEF AckOK, Acks
  <2>8. CASE map = t
    <3>1. PICK p \in Packets : /\ Enqueue(p) /\ p.from = t /\ p.kind = "Fin"
                               /\ p.seq = sess[t].ourSeq /\ p.ack = guest.snd + 1
      BY <1>2, <2>6, <2>8
    <3>2. Queued(rxq') = Queued(rxq) \cup {p}
      BY <3>1, Enqueued
    <3>3. ~sess[t].cancelled /\ SessionOK(t)
      BY <1>2, <2>8 DEF Base, MapOK
    <3>4. \/ guest.snd + 1 <= Bound'
          \/ /\ writer /\ sess[t].state = "FinWait" /\ loop[t] = "done"
             /\ sess[t].ourSeq = Isn(t) + 2
      <4>1. guest.snd \in {1, 2} /\ (guest.snd = 2 => writer)
            /\ (guest.snd = 2 => host[t].got >= 1 \/ sess[t].state = "FinWait")
        BY <1>1, <2>8 DEF AckOK, Sends
      <4>2. CASE guest.snd = 1 \/ host[t].got >= 1
        BY <2>1, <4>1, <4>2
      <4>3. CASE writer /\ sess[t].state = "FinWait"
        <5>1. loop[t] = "done"
          BY <3>3, <4>3 DEF SessionOK
        <5>2. sess[t].ourSeq = Isn(t) + 2
          BY <1>2, <3>3, <4>3 DEF WriterOK
        <5> QED
          BY <4>3, <5>1, <5>2
      <4> QED
        BY <4>1, <4>2, <4>3
    <3>5. sess'[t].theirSeq = guest.snd + 1
      BY <1>2, <2>6, <2>8
    <3>6. sess'[t].theirSeq <= Bound' \/ Silent(t)'
      BY <1>1, <1>3, <3>4, <3>5 DEF Silent
    <3>7. guest'.state \in {"Open", "Closing"} =>
            \A q \in Queued(rxq') : q.from = t /\ q.kind \in {"Data", "Fin", "Ack"} =>
               \/ q.ack <= Bound'
               \/ guest'.state = "Closing" /\ writer' /\ q.seq = Isn(t) + 2
      BY <1>1, <1>3, <2>5, <3>1, <3>2, <3>4
    <3> QED
      BY <1>3, <1>4, <2>4, <3>6, <3>7 DEF AckOK, Acks
  <2> QED
    BY <2>7, <2>8
<1> QED
  BY <1>5, <1>6

\* Every step keeps what is acknowledged within what the host has had.
LEMMA AckStep == ASSUME Base, Base', WriterOK, AckOK, [Next]_vars PROVE AckOK'
<1>1. CASE UNCHANGED vars
  BY <1>1 DEF vars, AckOK, SynAcks, Sends, Acks, Bound, Silent
<1>2. CASE Cpu
  BY <1>2, AckSyn, AckEnds, AckReceive, AckRead, AckSend, AckClose, AckFinish DEF Cpu
<1>3. CASE \E s \in Session : Connect(s) \/ Receive(s) \/ HostSends(s) \/ HostCloses(s) \/ HostResets(s)
  BY <1>3, AckThreads
<1> QED
  BY <1>1, <1>2, <1>3 DEF Next

-----------------------------------------------------------------------------
(* The window.                                                             *)

\* The right edge of a guest's window is a number.
LEMMA EdgeIs ==
  ASSUME NEW g \in Guests
  PROVE  Edge(g) \in Nat /\ Edge(g) = g.rcv + (GuestWindow - g.unread)
BY IsnNat DEF Edge, Guests

\* A session that keeps its window, or has that of the guest.
Kept(s) ==
    /\ sess'[s].ourSeq = sess[s].ourSeq \/ sess'[s].state = "Closed"
    /\ sess[s].state = "Closed" => sess'[s].state = "Closed"
    /\ hist'[s].forced = hist[s].forced
    /\ \/ SameWindow(s)
       \/ /\ s = map /\ guest.state \in {"Open", "Closing"}
          /\ sess'[s].ack = guest'.rcv /\ sess'[s].win = GuestWindow - guest'.unread
          /\ hist'[s].granted = (IF guest'.irs = s THEN Edge(guest') ELSE hist[s].granted)

\* The ways in which a step of the CPU thread keeps a session's window.
LEMMA KeptWays ==
  ASSUME NEW s \in Session, Base
  PROVE  /\ Same(s) => Kept(s)
         /\ Shut(s) /\ SameWindow(s) => Kept(s)
         /\ \A g \in Guests :
              /\ s = map /\ guest.state \in {"Open", "Closing"} /\ Granted(s, g)
              /\ g.rcv = guest'.rcv /\ g.unread = guest'.unread /\ g.irs = guest'.irs
              /\ Going(s) \/ Shut(s)
              => Kept(s)
<1>1. Same(s) => Kept(s)
  BY DEF Same, Kept, SameWindow
<1>2. Shut(s) /\ SameWindow(s) => Kept(s)
  BY DEF Shut, Kept
<1>3. ASSUME NEW g \in Guests,
             s = map, guest.state \in {"Open", "Closing"}, Granted(s, g),
             g.rcv = guest'.rcv, g.unread = guest'.unread, g.irs = guest'.irs,
             Going(s) \/ Shut(s)
      PROVE  Kept(s)
  <2>1. /\ sess'[s].ack = guest'.rcv /\ sess'[s].win = GuestWindow - guest'.unread
        /\ hist'[s].granted = (IF guest'.irs = s THEN Edge(guest') ELSE hist[s].granted)
    BY <1>3 DEF Granted, Edge
  <2>2. CASE Going(s)
    BY <1>3, <2>1, <2>2 DEF Going, Kept
  <2>3. CASE Shut(s)
    BY <1>3, <2>1, <2>3 DEF Shut, Kept
  <2> QED
    BY <1>3, <2>2, <2>3
<1> QED
  BY <1>1, <1>2, <1>3

\* If every session is kept, no edge moves back and no room is lost.
LEMMA WindowKept ==
  ASSUME Base, WindowOK, SessionsTyped, guest' \in Guests, guest'.irs = guest.irs,
         Edge(guest') >= Edge(guest), guest'.state = "SynSent" => guest' = guest,
         map' \in {map, None}, loop' = loop, \A s \in Session : Kept(s)
  PROVE  WindowOK'
<1> USE IsnNat, Made
<1>1. Edge(guest) \in Nat /\ Edge(guest') \in Nat /\ Edge(guest') = guest'.rcv + (GuestWindow - guest'.unread)
  BY EdgeIs
<1>2. \A s \in Session : /\ hist[s].granted \in Nat /\ hist'[s].granted \in Nat
                         /\ sess[s].ourSeq \in Nat
  BY DEF SessionsTyped, Hists, Sessions
<1>3. Grants /\ Edges /\ Rooms
  BY DEF WindowOK
<1>4. \A s \in Session : SameWindow(s) \/ hist'[s].granted = hist[s].granted
                         \/ (guest.irs = s /\ hist'[s].granted = Edge(guest'))
  BY DEF Kept
<1>5. ASSUME NEW s \in Session, hist'[s].granted # 0
      PROVE  /\ sess'[s].ack + sess'[s].win = hist'[s].granted
             /\ map' = s => guest'.irs = s
             /\ guest'.state = "SynSent" => s < guest'.syn
  <2>1. CASE SameWindow(s)
    BY <1>3, <1>5, <2>1 DEF SameWindow, Grants
  <2>2. CASE ~SameWindow(s)
    <3>1. /\ s = map /\ guest.state \in {"Open", "Closing"}
          /\ sess'[s].ack = guest'.rcv /\ sess'[s].win = GuestWindow - guest'.unread
          /\ hist'[s].granted = (IF guest'.irs = s THEN Edge(guest') ELSE hist[s].granted)
      BY <2>2 DEF Kept
    <3>2. guest.irs = s
      BY <1>3, <1>5, <3>1 DEF Grants
    <3> QED
      BY <1>1, <3>1, <3>2
  <2> QED
    BY <2>1, <2>2
<1>6. Edges'
  <2> SUFFICES ASSUME guest.irs # None PROVE hist'[guest.irs].granted <= Edge(guest')
    BY DEF Edges, Edge
  <2>1. guest.irs \in Session /\ hist[guest.irs].granted <= Edge(guest)
    BY <1>3 DEF Edges, Guests
  <2>2. hist'[guest.irs].granted = hist[guest.irs].granted \/ hist'[guest.irs].granted = Edge(guest')
    BY <1>4, <2>1 DEF SameWindow
  <2> QED
    BY <1>1, <1>2, <2>1, <2>2
<1>7. ASSUME NEW s \in Session, loop'[s] = "send", ~hist'[s].forced, sess'[s].state # "Closed"
      PROVE  sess'[s].ourSeq + 1 <= hist'[s].granted
  <2>1. sess'[s].ourSeq = sess[s].ourSeq /\ sess[s].ourSeq + 1 <= hist[s].granted
    BY <1>3, <1>7 DEF Kept, Rooms
  <2>2. hist'[s].granted = hist[s].granted \/ (guest.irs = s /\ hist'[s].granted = Edge(guest'))
    BY <1>4 DEF SameWindow
  <2>3. guest.irs = s => hist[s].granted <= Edge(guest)
    BY <1>3 DEF Edges
  <2> QED
    BY <1>1, <1>2, <2>1, <2>2, <2>3
<1> QED
  BY <1>5, <1>6, <1>7 DEF WindowOK, Grants, Rooms

\* A SYN: the new session has been granted nothing yet, the old one leaves the map.
LEMMA WindowSyn == ASSUME Base, WindowOK, GuestConnect \/ GuestRetransmitSyn PROVE WindowOK'
<1> USE IsnNat, Made
<1>1. HandleSyn /\ loop' = loop
  BY DEF GuestConnect, GuestRetransmitSyn
<1>2. /\ last' = last + 1 /\ map' = last' /\ last' \in Session
      /\ \A s \in Session : s # last' => Kept(s) /\ SameWindow(s)
      /\ hist'[last'] = hist[last']
  BY <1>1, SynIs, KeptWays DEF Same, SameWindow
<1>3. loop[last'] = "none" /\ hist'[last'].granted = 0
  <2>1. conn[last'] = "none"
    BY <1>2
  <2> QED
    BY <1>2, <2>1 DEF SessionOK
<1>4. Grants /\ Rooms
  BY DEF WindowOK
<1>5. guest'.irs = None /\ \A s \in Session : hist[s].granted # 0 /\ s # last' => s < guest'.syn
  <2>1. CASE GuestConnect
    <3>1. guest' = NewGuest(last')
      BY <1>2, <2>1 DEF GuestConnect
    <3>2. guest'.irs = None /\ guest'.syn = last'
      BY <3>1 DEF NewGuest
    <3>3. \A s \in Session : hist[s].granted # 0 => s <= last
      BY DEF SessionOK
    <3> QED
      BY <1>2, <3>2, <3>3
  <2>2. CASE GuestRetransmitSyn
    <3>1. guest' = guest /\ guest.state = "SynSent" /\ guest.irs = None
      BY <2>2 DEF GuestRetransmitSyn, Base, GuestOK, NewGuest
    <3> QED
      BY <1>4, <3>1 DEF Grants
  <2> QED
    BY <2>1, <2>2
<1>6. Grants'
  <2> SUFFICES ASSUME NEW s \in Session, hist'[s].granted # 0
               PROVE  /\ sess'[s].ack + sess'[s].win = hist'[s].granted
                      /\ map' = s => guest'.irs = s
                      /\ guest'.state = "SynSent" => s < guest'.syn
    BY DEF Grants
  <2>1. s # last'
    BY <1>3
  <2>2. SameWindow(s) /\ map' # s
    BY <1>2, <2>1
  <2> QED
    BY <1>4, <1>5, <2>1, <2>2 DEF Grants, SameWindow
<1>7. Rooms'
  <2> SUFFICES ASSUME NEW s \in Session, loop'[s] = "send", ~hist'[s].forced, sess'[s].state # "Closed"
               PROVE  sess'[s].ourSeq + 1 <= hist'[s].granted
    BY DEF Rooms
  <2>1. s # last'
    BY <1>1, <1>3
  <2> QED
    BY <1>1, <1>2, <1>4, <2>1 DEF Rooms, Kept, SameWindow
<1>8. Edges'
  BY <1>5 DEF Edges
<1> QED
  BY <1>6, <1>7, <1>8 DEF WindowOK

\* A guest that gives its connection up grants nothing any more.
LEMMA WindowEnds == ASSUME Base, WindowOK, GuestAbort \/ LanceStop \/ Dispose PROVE WindowOK'
<1>1. DropMapped /\ loop' = loop /\ guest' = ClosedGuest
  BY DEF GuestAbort, LanceStop, Dispose
<1>2. map' = None /\ \A s \in Session : Kept(s) /\ SameWindow(s)
  <2>1. ASSUME NEW s \in Session PROVE Kept(s) /\ SameWindow(s)
    <3>1. s # None
      BY IsnNat
    <3>2. CASE s = map
      BY <1>1, <3>1, <3>2, DropIs, KeptWays
    <3>3. CASE s # map
      <4>1. Same(s)
        BY <1>1, <3>3, DropIs
      <4> QED
        BY <4>1, KeptWays DEF Same, SameWindow
    <3> QED
      BY <3>2, <3>3
  <2> QED
    BY <1>1, <2>1, DropIs
<1>3. guest'.irs = None /\ guest'.state = "Closed"
  BY <1>1 DEF ClosedGuest, NewGuest
<1>4. Grants /\ Rooms /\ \A s \in Session : s # None
  BY IsnNat DEF WindowOK
<1>5. Grants' /\ Edges'
  BY <1>2, <1>3, <1>4 DEF Grants, Edges, SameWindow
<1>6. Rooms'
  BY <1>1, <1>2, <1>4 DEF Rooms, Kept, SameWindow
<1> QED
  BY <1>5, <1>6 DEF WindowOK

\* The session of the map has had a segment of a guest with an open connection.
LEMMA KeptByAck ==
  ASSUME Base, NEW g \in Guests, guest.state \in {"Open", "Closing"},
         g.rcv = guest'.rcv, g.unread = guest'.unread, g.irs = guest'.irs,
         \A s \in Session : s # map => Same(s),
         map # None => Granted(map, g) /\ (Going(map) \/ Shut(map))
  PROVE  \A s \in Session : Kept(s)
<1> SUFFICES ASSUME NEW s \in Session PROVE Kept(s)
  OBVIOUS
<1>1. CASE s # map
  BY <1>1, KeptWays
<1>2. CASE s = map
  <2>1. s # None
    BY IsnNat
  <2> QED
    BY <1>2, <2>1, KeptWays
<1> QED
  BY <1>1, <1>2

\* The SYN+ACK that opens the connection: its session is granted the window, and
\* no session is granted any that is not its own.
LEMMA WindowOpened ==
  ASSUME Base, WindowOK, NEW p \in Packets, p \in Queued(rxq),
         guest.state = "SynSent", p.kind = "SynAck", p.from >= guest.syn,
         guest' = Opened(p), Answered(guest'), loop' = loop
  PROVE  WindowOK'
<1> USE IsnNat, Made
<1>1. Grants /\ Rooms
  BY DEF WindowOK
<1>2. /\ p.from \in Session /\ guest.syn \in Nat /\ guest.irs = None
      /\ (map # None => map \in Session /\ map >= guest.syn)
  BY DEF Packets, Base, Typed, GuestOK, NewGuest, Guests
<1>3. /\ guest' \in Guests /\ guest'.state = "Open" /\ guest'.irs = p.from
  BY OpenedIs
<1>4. \A s \in Session : hist[s].granted # 0 => s < guest.syn /\ s # p.from /\ s # map
  BY <1>1, <1>2 DEF Grants
<1>5. \A s \in Session : s # map => Same(s)
  BY DEF Answered
<1>6. map' = map /\ (map # None => Going(map) /\ Granted(map, guest'))
  BY DEF Answered
<1>7. Edge(guest') \in Nat /\ Edge(guest') = guest'.rcv + (GuestWindow - guest'.unread)
  BY <1>3, EdgeIs
<1>8. map # None =>
        /\ hist'[map].granted = (IF guest'.irs = map THEN Edge(guest') ELSE 0)
        /\ sess'[map].ack = guest'.rcv /\ sess'[map].win = GuestWindow - guest'.unread
        /\ sess'[map].ourSeq = sess[map].ourSeq
  <2> SUFFICES ASSUME map # None
               PROVE  /\ hist'[map].granted = (IF guest'.irs = map THEN Edge(guest') ELSE 0)
                      /\ sess'[map].ack = guest'.rcv /\ sess'[map].win = GuestWindow - guest'.unread
                      /\ sess'[map].ourSeq = sess[map].ourSeq
    OBVIOUS
  <2>1. hist[map].granted = 0
    BY <1>2, <1>4, Made DEF Hists
  <2>2. Going(map) /\ Granted(map, guest')
    BY <1>6
  <2>3. sess'[map].ourSeq = sess[map].ourSeq
    BY <2>2 DEF Going
  <2>4. hist'[map].granted = (IF guest'.irs = map THEN guest'.rcv + GuestWindow - guest'.unread
                              ELSE hist[map].granted)
        /\ sess'[map].ack = guest'.rcv /\ sess'[map].win = GuestWindow - guest'.unread
    BY <2>2 DEF Granted
  <2>5. Edge(guest') = guest'.rcv + GuestWindow - guest'.unread
    BY DEF Edge
  <2> QED
    BY <2>1, <2>3, <2>4, <2>5
<1>9. ASSUME NEW s \in Session, hist'[s].granted # 0
      PROVE  /\ sess'[s].ack + sess'[s].win = hist'[s].granted
             /\ map' = s => guest'.irs = s
  <2>1. CASE s = map
    BY <1>6, <1>7, <1>8, <1>9, <2>1
  <2>2. CASE s # map
    <3>1. hist[s].granted # 0 /\ sess'[s] = sess[s] /\ hist'[s] = hist[s]
      BY <1>5, <1>9, <2>2 DEF Same
    <3>2. sess[s].ack + sess[s].win = hist[s].granted
      BY <1>1, <3>1 DEF Grants
    <3> QED
      BY <1>6, <2>2, <3>1, <3>2
  <2> QED
    BY <2>1, <2>2
<1>10. hist'[p.from].granted <= Edge(guest')
  <2>1. CASE p.from = map
    BY <1>2, <1>3, <1>7, <1>8, <2>1
  <2>2. CASE p.from # map
    <3>1. hist'[p.from].granted = 0
      BY <1>2, <1>4, <1>5, <2>2 DEF Same
    <3> QED
      BY <1>7, <3>1
  <2> QED
    BY <2>1, <2>2
<1>11. ASSUME NEW s \in Session, loop'[s] = "send", ~hist'[s].forced, sess'[s].state # "Closed"
       PROVE  sess'[s].ourSeq + 1 <= hist'[s].granted
  <2>1. s # map
    <3>1. SUFFICES ASSUME s = map PROVE FALSE
      OBVIOUS
    <3>2. map # None /\ Going(map)
      <4>1. s # None
        BY IsnNat
      <4> QED
        BY <1>6, <3>1, <4>1
    <3>3. ~hist[s].forced /\ sess[s].state # "Closed" /\ loop[s] = "send"
      BY <1>11, <3>1, <3>2 DEF Going
    <3>4. sess[s].ourSeq + 1 <= hist[s].granted /\ sess[s].ourSeq \in Nat
      BY <1>1, <3>3 DEF Rooms, Sessions
    <3>5. hist[s].granted = 0
      BY <1>4, <3>1
    <3> QED
      BY <3>4, <3>5
  <2>2. sess'[s] = sess[s] /\ hist'[s] = hist[s]
    BY <1>5, <2>1 DEF Same
  <2> QED
    BY <1>1, <1>11, <2>2 DEF Rooms
<1> QED
  BY <1>3, <1>9, <1>10, <1>11 DEF WindowOK, Grants, Edges, Rooms, Edge

\* Any packet.
LEMMA WindowReceive == ASSUME Base, WindowOK, GuestReceive PROVE WindowOK'
<1> USE IsnNat, Made
<1>1. PICK p \in Packets :
        /\ p \in Queued(rxq) /\ rxq' \in Seq(Packets) /\ Queued(rxq') \subseteq Queued(rxq)
        /\ guest' \in Guests /\ cpu = None /\ disposed = "no"
        /\ UNCHANGED <<writer, last, conn, loop, cpu, disposed, host>>
        /\ \/ /\ guest.state = "SynSent" /\ p.kind = "SynAck" /\ p.from >= guest.syn
              /\ guest' = Opened(p) /\ Answered(guest')
           \/ guest.state = "SynSent" /\ guest' = guest /\ Dropped
           \/ guest' = EndedGuest /\ Silence
           \/ Takes(p) /\ guest' = After(p) /\ (Answered(guest') \/ Silence)
           \/ guest' = guest /\ Silence
           \/ guest' = guest /\ guest.state \in {"Open", "Closing"} /\ Answered(guest')
  BY ReceiveIs
<1>2. /\ Edge(guest) \in Nat /\ Edge(guest) = guest.rcv + (GuestWindow - guest.unread)
      /\ Edge(guest') \in Nat /\ Edge(guest') = guest'.rcv + (GuestWindow - guest'.unread)
  BY <1>1, EdgeIs
<1>3. Silence => SessionsTyped /\ map' = map /\ \A s \in Session : Kept(s)
  <2> SUFFICES ASSUME Silence PROVE SessionsTyped /\ map' = map /\ \A s \in Session : Kept(s)
    OBVIOUS
  <2>1. \A s \in Session : Same(s)
    BY DEF Silence, Same
  <2> QED
    BY <2>1, KeptWays DEF Silence, SessionsTyped, Base, Typed
<1>4. guest.state \in {"Open", "Closing"} /\ guest'.irs = guest.irs /\ Answered(guest') =>
         SessionsTyped /\ map' = map /\ \A s \in Session : Kept(s)
  <2> SUFFICES ASSUME guest.state \in {"Open", "Closing"}, Answered(guest')
               PROVE  SessionsTyped /\ map' = map /\ \A s \in Session : Kept(s)
    OBVIOUS
  <2>1. \A s \in Session : Kept(s)
    BY <1>1, KeptByAck DEF Answered
  <2> QED
    BY <2>1 DEF Answered
<1>5. CASE guest.state = "SynSent" /\ p.kind = "SynAck" /\ p.from >= guest.syn
           /\ guest' = Opened(p) /\ Answered(guest')
  BY <1>1, <1>5, WindowOpened
<1>6. CASE guest.state = "SynSent" /\ guest' = guest /\ Dropped
  <2>1. \A s \in Session : Kept(s)
    <3> SUFFICES ASSUME NEW s \in Session PROVE Kept(s)
      OBVIOUS
    <3>1. Same(s) \/ (Shut(s) /\ SameWindow(s))
      BY <1>6 DEF Dropped
    <3> QED
      BY <3>1, KeptWays
  <2> QED
    BY <1>1, <1>2, <1>6, <2>1, WindowKept DEF Dropped
<1>7. CASE guest' = EndedGuest /\ Silence
  <2>1. /\ guest'.irs = guest.irs /\ guest'.rcv = guest.rcv /\ guest'.unread = guest.unread
        /\ guest'.state = "Closed"
    BY <1>7, EndedIs
  <2> QED
    BY <1>1, <1>2, <1>3, <1>7, <2>1, WindowKept
<1>8. CASE Takes(p) /\ guest' = After(p) /\ (Answered(guest') \/ Silence)
  <2>1. /\ guest'.irs = guest.irs /\ guest.state \in {"Open", "Closing"}
        /\ guest'.state \in {guest.state, "Closed"}
    BY <1>8, AfterIs DEF Takes
  <2>2. /\ guest'.rcv = guest.rcv + (IF p.kind = "Ack" THEN 0 ELSE 1)
        /\ guest'.unread = guest.unread + (IF p.kind = "Data" THEN 1 ELSE 0)
    BY <1>8, AfterIs
  <2>3. guest.rcv \in Nat /\ guest.unread \in Nat /\ GuestWindow \in Nat
    BY DEF Guests
  <2>4. \/ guest'.rcv = guest.rcv /\ guest'.unread = guest.unread
        \/ guest'.rcv = guest.rcv + 1 /\ guest'.unread \in {guest.unread, guest.unread + 1}
    BY <2>2, <2>3
  <2>5. guest'.rcv \in Nat /\ guest'.unread \in Nat
    BY <1>1 DEF Guests
  <2>6. Edge(guest') >= Edge(guest)
    <3> DEFINE r == guest.rcv  u == guest.unread
    <3>1. r \in Nat /\ u \in Nat
      BY <2>3
    <3>2. CASE guest'.rcv = r /\ guest'.unread = u
      <4>1. Edge(guest') = Edge(guest)
        BY <1>2, <3>2
      <4> QED
        BY <1>2, <4>1
    <3>3. CASE guest'.rcv = r + 1 /\ guest'.unread \in {u, u + 1}
      <4>1. Edge(guest) = r + (GuestWindow - u)
        BY <1>2
      <4>2. Edge(guest') = (r + 1) + (GuestWindow - u) \/ Edge(guest') = (r + 1) + (GuestWindow - (u + 1))
        BY <1>2, <3>3
      <4> HIDE DEF r, u
      <4> QED
        BY <2>3, <3>1, <4>1, <4>2
    <3> QED
      BY <2>4, <3>2, <3>3
  <2> QED
    BY <1>1, <1>3, <1>4, <1>8, <2>1, <2>6, WindowKept
<1>9. CASE guest' = guest /\ Silence
  BY <1>1, <1>2, <1>3, <1>9, WindowKept
<1>10. CASE guest' = guest /\ guest.state \in {"Open", "Closing"} /\ Answered(guest')
  BY <1>1, <1>2, <1>4, <1>10, WindowKept
<1> QED
  BY <1>1, <1>5, <1>6, <1>7, <1>8, <1>9, <1>10

\* The guest's read moves the edge forward.
LEMMA WindowRead == ASSUME Base, WindowOK, GuestRead PROVE WindowOK'
<1> USE IsnNat, Made
<1> DEFINE g == [guest EXCEPT !.unread = 0]
<1>1. /\ guest' = g /\ HandleAck(g) /\ UNCHANGED <<map, loop>> /\ guest.state = "Open"
  BY DEF GuestRead
<1>2. /\ g \in Guests /\ g.state = guest.state /\ g.irs = guest.irs /\ g.rcv = guest.rcv
      /\ g.unread = 0
  <2>1. 0 \in 0..GuestWindow
    OBVIOUS
  <2> QED
    BY <2>1 DEF Guests
<1> HIDE DEF g
<1>3. SessionsTyped /\ \A s \in Session : Kept(s)
  <2>1. /\ SessionsTyped /\ (\A s \in Session : s # map => Same(s))
        /\ (map # None => Going(map) /\ Granted(map, g))
    BY <1>1, <1>2, HandleAckIs
  <2> QED
    BY <1>1, <1>2, <2>1, KeptByAck
<1>4. Edge(guest') >= Edge(guest)
  <2>1. /\ Edge(guest) = guest.rcv + (GuestWindow - guest.unread)
        /\ Edge(g) = guest.rcv + (GuestWindow - 0)
    BY <1>2, EdgeIs
  <2>2. guest.rcv \in Nat /\ guest.unread \in Nat /\ GuestWindow \in Nat
    BY DEF Guests
  <2> QED
    BY <1>1, <2>1, <2>2
<1> QED
  BY <1>1, <1>2, <1>3, <1>4, WindowKept

\* What a close leaves alone.
LEMMA CloseKeeps ==
  ASSUME Base, NEW b \in BOOLEAN, GuestClose(b)
  PROVE  /\ guest' = Closer(b) /\ guest.state = "Open"
         /\ UNCHANGED <<writer, last, map, conn, loop, disposed, host>>
BY DEF GuestClose, CpuIdle, Closer

\* The guest sends, or closes: its own numbers stay.
LEMMA WindowSend ==
  ASSUME Base, WindowOK, (\E seq \in 1..2 : GuestSend(seq)) \/ (\E b \in BOOLEAN : GuestClose(b))
  PROVE  WindowOK'
<1> USE IsnNat, Made
<1>1. /\ guest' \in Guests /\ guest'.irs = guest.irs /\ guest'.rcv = guest.rcv
      /\ guest'.unread = guest.unread /\ guest'.state # "SynSent" /\ guest.state = "Open"
      /\ loop' = loop
  <2>1. CASE \E seq \in 1..2 : GuestSend(seq)
    <3>1. guest' = Sender /\ guest.state = "Open" /\ loop' = loop
      BY <2>1 DEF GuestSend, Sender
    <3> QED
      BY <3>1, SenderIs
  <2>2. CASE \E b \in BOOLEAN : GuestClose(b)
    <3>1. PICK b \in BOOLEAN : GuestClose(b)
      BY <2>2
    <3>2. guest' = Closer(b) /\ guest.state = "Open" /\ loop' = loop
      BY <3>1, CloseKeeps
    <3> QED
      BY <3>2, CloserIs
  <2> QED
    BY <2>1, <2>2
<1>2. /\ SessionsTyped /\ (\A s \in Session : s # map => Same(s)) /\ map' \in {map, None}
      /\ (map # None => (Going(map) \/ Shut(map)) /\ Granted(map, guest))
  <2>1. ASSUME NEW seq \in 1..2, GuestSend(seq)
        PROVE  /\ SessionsTyped /\ (\A s \in Session : s # map => Same(s)) /\ map' \in {map, None}
               /\ (map # None => (Going(map) \/ Shut(map)) /\ Granted(map, guest))
    <3>1. HandleData(guest, seq) /\ seq \in Nat
      BY <2>1 DEF GuestSend
    <3>2. /\ SessionsTyped /\ (\A s \in Session : s # map => Same(s))
          /\ Ignored(guest) \/ Forwarded(guest, seq) \/ DataReset(guest, seq)
      BY <3>1, HandleDataIs
    <3>3. Ignored(guest) =>
            map' \in {map, None} /\ (map # None => (Going(map) \/ Shut(map)) /\ Granted(map, guest))
      BY DEF Ignored
    <3>4. Forwarded(guest, seq) =>
            map' \in {map, None} /\ (map # None => (Going(map) \/ Shut(map)) /\ Granted(map, guest))
      BY DEF Forwarded
    <3>5. DataReset(guest, seq) =>
            map' \in {map, None} /\ (map # None => (Going(map) \/ Shut(map)) /\ Granted(map, guest))
      BY DEF DataReset
    <3> QED
      BY <3>2, <3>3, <3>4, <3>5
  <2>2. ASSUME NEW b \in BOOLEAN, GuestClose(b)
        PROVE  /\ SessionsTyped /\ (\A s \in Session : s # map => Same(s)) /\ map' \in {map, None}
               /\ (map # None => (Going(map) \/ Shut(map)) /\ Granted(map, guest))
    <3>1. map' = map
      BY <2>2, CloseKeeps
    <3> QED
      BY <2>2, <3>1, GuestCloseIs
  <2> QED
    BY <2>1, <2>2
<1>3. \A s \in Session : Kept(s)
  BY <1>1, <1>2, KeptByAck
<1>4. Edge(guest') >= Edge(guest)
  <2>1. Edge(guest') = Edge(guest) /\ Edge(guest) \in Nat
    BY <1>1, EdgeIs
  <2> QED
    BY <2>1
<1> QED
  BY <1>1, <1>2, <1>3, <1>4, WindowKept

\* The end of a close, and the destructor's return.
LEMMA WindowFinish == ASSUME Base, WindowOK, FinishClose \/ DisposeReturns PROVE WindowOK'
<1> USE IsnNat, Made
<1>1. /\ guest' = guest /\ loop' = loop /\ map' \in {map, None}
  BY DEF FinishClose, DisposeReturns
<1>2. SessionsTyped /\ \A s \in Session : Kept(s)
  <2>1. CASE FinishClose
    <3>1. /\ SessionsTyped /\ (\A s \in Session : s # cpu => Same(s))
          /\ Shut(cpu) /\ SameWindow(cpu)
      BY <2>1, FinishCloseIs
    <3> QED
      BY <3>1, KeptWays
  <2>2. CASE DisposeReturns
    <3>1. \A s \in Session : Same(s)
      BY <2>2 DEF DisposeReturns, Same
    <3>2. SessionsTyped
      BY <2>2 DEF DisposeReturns, SessionsTyped, Base, Typed
    <3> QED
      BY <3>1, <3>2, KeptWays
  <2> QED
    BY <2>1, <2>2
<1>3. Edge(guest') >= Edge(guest)
  <2>1. Edge(guest') = Edge(guest) /\ Edge(guest) \in Nat
    BY <1>1, EdgeIs
  <2> QED
    BY <2>1
<1> QED
  BY <1>1, <1>2, <1>3, WindowKept

\* The threads: none grants a window, and a segment that was found to fit still
\* fits, as only the receive thread itself moves the number it starts at.
LEMMA WindowThreads ==
  ASSUME Base, WindowOK, NEW s \in Session,
         Connect(s) \/ Receive(s) \/ HostSends(s) \/ HostCloses(s) \/ HostResets(s)
  PROVE  WindowOK'
<1> USE IsnNat, Made
<1>0. Grants /\ Edges /\ Rooms
  BY DEF WindowOK
<1>1. CASE HostSends(s) \/ HostCloses(s) \/ HostResets(s)
  <2>1. UNCHANGED <<map, sess, loop, guest, hist>>
    BY <1>1, HostIs
  <2> QED
    BY <1>0, <2>1 DEF WindowOK, Grants, Edges, Rooms
<1>2. CASE Connect(s) \/ Receive(s)
  <2>1. /\ guest' = guest /\ map' \in {map, None}
        /\ \A t \in Session : sess'[t].win = sess[t].win /\ hist'[t].granted = hist[t].granted
        /\ \A t \in Session : t # s => sess'[t] = sess[t] /\ loop'[t] = loop[t]
                                       /\ hist'[t].forced = hist[t].forced
    BY <1>2, ConnectIs, ReceiveKeeps
  <2>2. hist[s].granted # 0 => sess'[s].ack = sess[s].ack
    <3>1. CASE Receive(s)
      BY <3>1, ReceiveKeeps
    <3>2. CASE Connect(s)
      <4>1. Answering(s) \/ Connecting(s)
        BY <3>2, ConnectIs
      <4>2. Answering(s) => hist[s].granted = 0
        BY DEF Answering, SessionOK
      <4> QED
        BY <4>1, <4>2 DEF Connecting
    <3> QED
      BY <1>2, <3>1, <3>2
  <2>3. Grants'
    <3> SUFFICES ASSUME NEW t \in Session, hist'[t].granted # 0
                 PROVE  /\ sess'[t].ack + sess'[t].win = hist'[t].granted
                        /\ map' = t => guest'.irs = t
                        /\ guest'.state = "SynSent" => t < guest'.syn
      BY DEF Grants
    <3>1. sess'[t].ack = sess[t].ack /\ sess'[t].win = sess[t].win /\ hist'[t].granted = hist[t].granted
      BY <2>1, <2>2
    <3> QED
      BY <1>0, <2>1, <3>1 DEF Grants
  <2>4. Edges'
    <3>1. guest.irs # None => guest.irs \in Session
      BY DEF Guests
    <3> QED
      BY <1>0, <2>1, <3>1 DEF Edges
  <2>5. ASSUME loop'[s] = "send", ~hist'[s].forced, sess'[s].state # "Closed"
        PROVE  sess'[s].ourSeq + 1 <= hist'[s].granted
    <3>1. CASE Connect(s)
      <4>1. Connecting(s) /\ hist'[s].forced = hist[s].forced
        BY <2>5, <3>1, ConnectIs DEF Answering
      <4> QED
        BY <1>0, <2>1, <2>5, <4>1 DEF Connecting, Rooms
    <3>2. CASE Receive(s)
      <4>1. Waited(s)
        BY <2>5, <3>2, ReceiveSteps DEF Read, Ended, Sent, Stopped
      <4>2. sess' = sess /\ hist[s].granted # 0 /\ WindowFits(sess[s])
        BY <2>5, <4>1 DEF Waited
      <4>3. sess[s].ack + sess[s].win = hist[s].granted
        BY <1>0, <4>2 DEF Grants
      <4>4. sess[s].ourSeq \in Nat /\ sess[s].ack \in Nat /\ sess[s].win \in Nat
        BY DEF Sessions
      <4>5. sess[s].ourSeq - sess[s].ack + 1 <= sess[s].win
        BY <4>2 DEF WindowFits
      <4>6. sess[s].ourSeq + 1 <= sess[s].ack + sess[s].win
        <5> DEFINE o == sess[s].ourSeq  a == sess[s].ack  w == sess[s].win
        <5>1. o \in Nat /\ a \in Nat /\ w \in Nat /\ o - a + 1 <= w
          BY <4>4, <4>5
        <5> HIDE DEF o, a, w
        <5>2. o + 1 <= a + w
          BY <5>1
        <5> QED
          BY <5>2 DEF o, a, w
      <4> QED
        BY <2>1, <4>2, <4>3, <4>6
    <3> QED
      BY <1>2, <3>1, <3>2
  <2>6. Rooms'
    <3> SUFFICES ASSUME NEW t \in Session, loop'[t] = "send", ~hist'[t].forced,
                        sess'[t].state # "Closed"
                 PROVE  sess'[t].ourSeq + 1 <= hist'[t].granted
      BY DEF Rooms
    <3>1. CASE t = s
      BY <2>5, <3>1
    <3>2. CASE t # s
      BY <1>0, <2>1, <3>2 DEF Rooms
    <3> QED
      BY <3>1, <3>2
  <2> QED
    BY <2>3, <2>4, <2>6 DEF WindowOK
<1> QED
  BY <1>1, <1>2

\* Every step keeps the windows.
LEMMA WindowStep == ASSUME Base, WindowOK, [Next]_vars PROVE WindowOK'
<1>1. CASE UNCHANGED vars
  BY <1>1 DEF vars, WindowOK, Grants, Edges, Rooms, Edge
<1>2. CASE Cpu
  BY <1>2, WindowSyn, WindowEnds, WindowReceive, WindowRead, WindowSend, WindowFinish DEF Cpu
<1>3. CASE \E s \in Session : Connect(s) \/ Receive(s) \/ HostSends(s) \/ HostCloses(s) \/ HostResets(s)
  BY <1>3, WindowThreads
<1> QED
  BY <1>1, <1>2, <1>3 DEF Next

-----------------------------------------------------------------------------
(* The theorems.                                                           *)

IInv ==
    /\ Base /\ \A s \in Session : OrphanOK(s)
    /\ EofOK /\ WriterOK /\ AckOK /\ WindowOK

\* The invariant holds at the start.
LEMMA InitInv == Init => IInv
<1> SUFFICES ASSUME Init PROVE IInv
  OBVIOUS
<1> USE IsnNat
<1>1. Base
  BY InitBase
<1>2. /\ guest.state = "Closed" /\ guest.irs = None /\ guest.got = 0 /\ map = None /\ last = 0
      /\ Queued(rxq) = {}
  BY QueuedEmpty DEF Init, ClosedGuest, NewGuest
<1>3. ASSUME NEW s \in Session
      PROVE  /\ conn[s] = "none" /\ loop[s] = "none" /\ sess[s] = NewSession(s)
             /\ sess[s].sock = "none" /\ sess[s].ourSeq = Isn(s)
             /\ sess[s].state = "Connecting" /\ host[s].sent = 0 /\ hist[s].granted = 0
  BY NewSessionIs DEF Init, NewHost, NewHist
<1>4. \A s \in Session : OrphanOK(s)
  BY <1>3 DEF OrphanOK
<1>5. EofOK
  BY <1>2 DEF EofOK, Live
<1>6. WriterOK
  BY <1>2, <1>3 DEF WriterOK
<1>7. AckOK
  BY <1>2 DEF AckOK, SynAcks, Sends, Acks
<1>8. WindowOK
  BY <1>2, <1>3 DEF WindowOK, Grants, Edges, Rooms
<1> QED
  BY <1>1, <1>4, <1>5, <1>6, <1>7, <1>8 DEF IInv

\* Every step keeps the invariant.
LEMMA NextInv == IInv /\ [Next]_vars => IInv'
<1> SUFFICES ASSUME IInv, [Next]_vars PROVE IInv'
  OBVIOUS
<1>1. Base /\ EofOK /\ WriterOK /\ AckOK /\ WindowOK /\ \A s \in Session : OrphanOK(s)
  BY DEF IInv
<1>2. Base'
  BY <1>1, NextBase
<1>3. \A s \in Session : OrphanOK(s)'
  BY <1>1, OrphanStep
<1>4. EofOK' /\ WriterOK' /\ AckOK' /\ WindowOK'
  BY <1>1, <1>2, EofStep, WriterStep, AckStep, WindowStep
<1> QED
  BY <1>2, <1>3, <1>4 DEF IInv

\* The invariant holds throughout.
LEMMA Invariant == Spec => []IInv
BY InitInv, NextInv, PTL DEF Spec

\* The objects keep their types, and each state of a session belongs to where
\* its threads are: the socket and the later states come with them, and a
\* session that is not in the map has been cancelled or erased.
THEOREM TypeCorrect == Spec => []Base
BY Invariant, PTL DEF IInv

\* ReceiveLoop and HandleTcp give a guest that has not closed the connection
\* the host's end of file only behind all of the host's data, for any number
\* of sessions of one key, any window and any amount of data.
THEOREM EndOfFileIsLast == Spec => []EofAfterAllData
<1>1. IInv => EofAfterAllData
  <2> SUFFICES ASSUME IInv, guest.eof, ~guest.fin PROVE guest.got = host[guest.irs].sent
    BY DEF EofAfterAllData
  <2>1. guest.irs # None
    BY DEF IInv, Base, GuestOK
  <2> QED
    BY <2>1 DEF IInv, EofOK
<1> QED
  BY <1>1, Invariant, PTL

\* CloseTcpSession and the threads leave an open socket outside the map only
\* for a session that was closed before its connect thread had the socket, or
\* whose key the failed thread of another session erased.
THEOREM OrphansAreExplained == Spec => []OrphansExplained
<1>1. IInv => OrphansExplained
  BY DEF IInv, OrphanOK, OrphansExplained
<1> QED
  BY <1>1, Invariant, PTL

\* What HandleTcp acknowledges of the guest's data it has given to the host's
\* socket before, the data of the segment of a FIN excepted.
THEOREM AcknowledgedIsForwarded == Spec => []AcknowledgedWasForwarded
<1>1. IInv => AcknowledgedWasForwarded
  BY DEF IInv, AckOK, Acks, Bound, AcknowledgedWasForwarded
<1> QED
  BY <1>1, Invariant, PTL

\* ReceiveLoop sends no segment beyond the right edge the guest has granted the
\* session, once there is one and unless 30 s have gone by: what it compared
\* with the window before it let go of the mutex is still so when it sends.
THEOREM WindowIsRespected == Spec => WindowRespected
<1>1. IInv => \A s \in Session :
          loop[s] = "send" /\ loop'[s] = "recv" /\ ~hist[s].forced /\ sess[s].state # "Closed"
              => sess[s].ourSeq + 1 <= hist[s].granted
  BY DEF IInv, WindowOK, Rooms
<1> QED
  BY <1>1, Invariant, PTL DEF WindowRespected
=============================================================================
