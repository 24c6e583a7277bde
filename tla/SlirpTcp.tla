------------------------------ MODULE SlirpTcp ------------------------------
(***************************************************************************)
(* TCP of the user-mode network (IO/SlirpNetworkHandler): one connection   *)
(* of the guest, named by its ports and address, and the sessions it goes  *)
(* through as the guest opens it again and again.                          *)
(*                                                                         *)
(* Three kinds of threads share a session. The CPU thread runs HandleTcp   *)
(* for every frame the guest sends; a detached thread connects to the      *)
(* host; another one receives from it. Only the map of the sessions and    *)
(* the flow control are under a mutex: a session is closed while its       *)
(* threads run, and lives on as long as they hold it.                      *)
(*                                                                         *)
(* The guest's TCP and the host's are external. Sequence numbers count     *)
(* segments; a session s starts at s * Gap, as the tick count that starts  *)
(* them grows.                                                             *)
(***************************************************************************)
EXTENDS Integers, Sequences, Functions, FiniteSetsExt

CONSTANTS
    MaxSessions,   \* bound: SYNs the guest sends
    HostData,      \* bound: segments the hosts send in all
    GuestWindow,   \* segments the guest has room for
    Gap            \* distance of the first sequence numbers of two sessions

ASSUME BoundAssumption ==
    /\ MaxSessions \in Nat \ {0} /\ HostData \in Nat /\ GuestWindow \in Nat \ {0}
    /\ Gap \in Nat /\ Gap > HostData + 3

Session == 1..MaxSessions

None == 0

VARIABLES
    last,      \* the sessions created so far are 1..last
    map,       \* m_tcpSessions at the connection's key, or None
    sess,      \* the TcpSession objects
    conn,      \* the connect threads: where each stands
    loop,      \* the receive threads: where each stands
    rxq,       \* m_rxQueue
    cpu,       \* the session whose guest FIN the CPU thread is answering, or None
    disposed,  \* m_disposed and the destructor: "no", "closing", "gone"
    guest,     \* the guest's TCP
    writer,    \* which side sends data: the guest, or the host; it never changes
    host,      \* the host's side of each session's socket
    hist       \* what happened to each session, for the properties only

vars == <<last, map, sess, conn, loop, rxq, cpu, disposed, guest, writer, host, hist>>

\* The window a session assumes until the guest has acknowledged something.
FirstWindow == HostData + GuestWindow

NewSession(s) ==
    [state |-> "Connecting", sock |-> "none", ourSeq |-> s * Gap, theirSeq |-> 1,
     cancelled |-> FALSE, ack |-> 0, win |-> FirstWindow]

NewHost == [sent |-> 0, eof |-> FALSE, rst |-> FALSE, read |-> 0, got |-> 0]

NewHist == [erasedBy |-> None, early |-> FALSE, forced |-> FALSE, granted |-> 0]

\* A guest that opens the connection; the first session of its SYN is s.
NewGuest(s) ==
    [state |-> "SynSent", syn |-> s, irs |-> None, rcv |-> 0, unread |-> 0, got |-> 0,
     eof |-> FALSE, snd |-> 1, una |-> 0, fin |-> FALSE, resent |-> FALSE,
     lostData |-> FALSE]

ClosedGuest == [NewGuest(None) EXCEPT !.state = "Closed"]

Init ==
    /\ last = 0 /\ map = None /\ rxq = <<>> /\ cpu = None /\ disposed = "no"
    /\ sess = [s \in Session |-> NewSession(s)]
    /\ conn = [s \in Session |-> "none"]
    /\ loop = [s \in Session |-> "none"]
    /\ guest = ClosedGuest /\ writer \in BOOLEAN
    /\ host = [s \in Session |-> NewHost]
    /\ hist = [s \in Session |-> NewHist]

\* BuildTcpPacket; the sequence number and the ACK are those of the session.
Packet(s, kind, seq) == [from |-> s, kind |-> kind, seq |-> seq, ack |-> sess[s].theirSeq]

Enqueue(p) == rxq' = Append(rxq, p)

-----------------------------------------------------------------------------
(* Closing sessions.                                                       *)

\* CloseTcpSession.
Closed(t) ==
    [t EXCEPT !.state = "Closed", !.cancelled = TRUE,
              !.sock = IF @ = "open" THEN "closed" ELSE @]

\* The sessions after closing s, and the note that s had no socket yet.
CloseSession(S, s) == [S EXCEPT ![s] = Closed(@)]

CloseNote(H, s) == [H EXCEPT ![s].early = @ \/ sess[s].sock = "none"]

\* Mutant: the session is erased and not closed.
DropUnclosed == map' = None /\ UNCHANGED <<sess, hist>>

\* CloseTcpSession and erase, for the session in the map, if there is one.
DropMapped ==
    /\ map' = None
    /\ IF map = None THEN UNCHANGED <<sess, hist>>
       ELSE sess' = CloseSession(sess, map) /\ hist' = CloseNote(hist, map)

-----------------------------------------------------------------------------
(* The CPU thread: HandleTcp and the guest behind it.                      *)

CpuIdle == cpu = None /\ disposed = "no"

\* A SYN: the old session of the key is closed and a new one inserted.
HandleSyn ==
    LET s == last + 1
        S == IF map = None THEN sess ELSE CloseSession(sess, map)
    IN  /\ last < MaxSessions
        /\ last' = s /\ map' = s
        /\ sess' = [S EXCEPT ![s] = NewSession(s)]
        /\ hist' = IF map = None THEN hist ELSE CloseNote(hist, map)
        /\ conn' = [conn EXCEPT ![s] = "started"]

GuestConnect ==
    /\ CpuIdle /\ guest.state = "Closed"
    /\ guest' = NewGuest(last + 1)
    /\ HandleSyn
    /\ UNCHANGED <<writer, loop, rxq, cpu, disposed, host>>

\* The guest's retransmission timer sends the SYN once more.
GuestRetransmitSyn ==
    /\ CpuIdle /\ guest.state = "SynSent"
    /\ HandleSyn
    /\ UNCHANGED <<writer, loop, rxq, cpu, disposed, guest, host>>

\* The guest gives the connection up: a RST.
GuestAbort ==
    /\ CpuIdle /\ guest.state # "Closed"
    /\ guest' = ClosedGuest
    /\ DropMapped
    /\ UNCHANGED <<writer, last, conn, loop, rxq, cpu, disposed, host>>

\* What an ACK does to session s: the window, and the end of the handshake.
Acked(S, s, ack, win) ==
    [S EXCEPT ![s].ack = ack, ![s].win = win,
              ![s].state = IF @ = "SynAckSent" THEN "Established" ELSE @]

\* HandleTcp on the ACK and the window of any segment of guest g: sessions and
\* notes after it.
AckedSess(g) ==
    IF map = None THEN sess ELSE Acked(sess, map, g.rcv, GuestWindow - g.unread)

AckedHist(g) ==
    IF map = None \/ g.irs # map THEN hist
    ELSE [hist EXCEPT ![map].granted = g.rcv + GuestWindow - g.unread]

HandleAck(g) == sess' = AckedSess(g) /\ hist' = AckedHist(g)

InOrder(p) == p.from = guest.irs /\ p.seq = guest.rcv

Takes(p) ==
    /\ guest.state \in {"Open", "Closing"} /\ InOrder(p)
    /\ p.kind \in {"Data", "Fin", "Ack"}
    /\ p.kind = "Data" => guest.unread < GuestWindow

After(p) ==
    [guest EXCEPT
        !.rcv = @ + (IF p.kind = "Ack" THEN 0 ELSE 1),
        !.unread = @ + (IF p.kind = "Data" THEN 1 ELSE 0),
        !.got = @ + (IF p.kind = "Data" THEN 1 ELSE 0),
        !.eof = @ \/ p.kind = "Fin",
        !.una = IF p.ack > @ THEN p.ack ELSE @,
        !.state = IF @ = "Closing" /\ p.kind = "Fin" THEN "Closed" ELSE @]

\* What the guest makes of packet p: its own state after it, and its answer. A
\* SYN+ACK that belongs to an older SYN is answered by a RST.
Reaction(p) ==
    CASE guest.state = "SynSent" /\ p.kind = "SynAck" /\ p.from >= guest.syn ->
            [g |-> [guest EXCEPT !.state = "Open", !.irs = p.from, !.rcv = p.seq + 1, !.una = 1],
             answer |-> "Ack"]
      [] guest.state = "SynSent" /\ p.kind = "SynAck" /\ p.from < guest.syn ->
            [g |-> guest, answer |-> "Rst"]
      [] \/ guest.state = "SynSent" /\ p.kind = "Refused" /\ p.from >= guest.syn
         \/ guest.state \in {"Open", "Closing"} /\ InOrder(p) /\ p.kind = "Rst" ->
            [g |-> [guest EXCEPT !.state = "Closed"], answer |-> "None"]
      [] Takes(p) -> [g |-> After(p), answer |-> IF p.kind = "Ack" THEN "None" ELSE "Ack"]
      [] OTHER ->
            [g |-> guest,
             answer |-> IF guest.state \in {"Open", "Closing"} /\ p.kind \in {"SynAck", "Data", "Fin"}
                          THEN "Ack" ELSE "None"]

\* The guest takes a packet off the queue and answers it.
GuestReceive ==
    /\ CpuIdle /\ rxq # <<>>
    /\ rxq' = Tail(rxq)
    /\ LET r == Reaction(Head(rxq))
       IN  /\ guest' = r.g
           /\ \/ r.answer = "Ack" /\ HandleAck(r.g) /\ UNCHANGED map
              \/ r.answer = "Rst" /\ DropMapped
              \/ r.answer = "None" /\ UNCHANGED <<map, sess, hist>>
    /\ UNCHANGED <<writer, last, conn, loop, cpu, disposed, host>>

\* The guest's application reads, which opens the window again.
GuestRead ==
    /\ CpuIdle /\ guest.state = "Open" /\ guest.unread > 0
    /\ guest' = [guest EXCEPT !.unread = 0]
    /\ HandleAck(guest')
    /\ UNCHANGED <<writer, last, map, conn, loop, rxq, cpu, disposed, host>>

\* Data of the guest reaches an established session's socket, and is
\* acknowledged; a host that has reset the connection fails the send, and the
\* guest is sent a RST.
HandleData(g, seq) ==
    LET S == AckedSess(g)
        t == S[map]
        D == [S EXCEPT ![map].theirSeq = seq + 1]
    IN  IF map = None \/ t.state # "Established" \/ t.sock # "open"
        THEN HandleAck(g) /\ UNCHANGED <<map, rxq, host>>
        ELSE \/ /\ ~host[map].rst
                /\ host' = [host EXCEPT ![map].got = @ + 1]
                /\ sess' = D /\ hist' = AckedHist(g)
                /\ Enqueue([Packet(map, "Ack", t.ourSeq) EXCEPT !.ack = seq + 1])
                /\ UNCHANGED map
             \/ /\ host[map].rst
                /\ Enqueue([Packet(map, "Rst", t.ourSeq) EXCEPT !.ack = seq + 1])
                /\ map' = None /\ sess' = CloseSession(D, map)
                /\ hist' = CloseNote(AckedHist(g), map)
                /\ UNCHANGED host

\* The guest sends one segment of data, and retransmits it while it is not
\* acknowledged.
GuestSend(seq) ==
    /\ CpuIdle /\ guest.state = "Open" /\ writer
    /\ \/ guest.snd = 1 /\ seq = 1
       \/ guest.una = 1 /\ guest.snd = 2 /\ seq = 1 /\ ~guest.resent
    /\ guest' = [guest EXCEPT !.snd = 2, !.resent = @ \/ guest.snd = 2]
    /\ HandleData(guest, seq)
    /\ UNCHANGED <<writer, last, conn, loop, cpu, disposed>>

\* Mutant: the answer to a FIN acknowledges more than came before it.
FinAckPlus(seq) == seq + 2

FinAck(seq) == seq + 1

\* A FIN of the guest, first part: it is acknowledged by a FIN of ours. The
\* segment may carry data, which the handler does not look at.
GuestClose(withData) ==
    /\ CpuIdle /\ guest.state = "Open" /\ (withData => writer /\ guest.snd = 1)
    /\ guest' = [guest EXCEPT !.state = IF guest.eof THEN "Closed" ELSE "Closing",
                              !.fin = TRUE, !.lostData = withData,
                              !.snd = @ + (IF withData THEN 2 ELSE 1)]
    /\ IF map = None THEN UNCHANGED <<sess, hist, rxq, cpu>>
       ELSE LET ack == FinAck(guest.snd)
            IN  /\ sess' = [AckedSess(guest) EXCEPT ![map].theirSeq = ack]
                /\ hist' = AckedHist(guest)
                /\ Enqueue([Packet(map, "Fin", sess[map].ourSeq) EXCEPT !.ack = ack])
                /\ cpu' = map
    /\ UNCHANGED <<writer, last, map, conn, loop, disposed, host>>

\* Second part: the session leaves the map and is closed.
FinishClose ==
    /\ cpu # None
    /\ map' = None /\ cpu' = None
    /\ sess' = CloseSession([sess EXCEPT ![cpu].ourSeq = @ + 1], cpu)
    /\ hist' = CloseNote(hist, cpu)
    /\ UNCHANGED <<writer, last, conn, loop, rxq, disposed, guest, host>>

\* Reset: the guest stops its LANCE.
LanceStop ==
    /\ CpuIdle
    /\ rxq' = <<>> /\ DropMapped
    /\ guest' = ClosedGuest
    /\ UNCHANGED <<writer, last, conn, loop, cpu, disposed, host>>

\* The destructor: m_disposed, the sessions closed, and half a second of
\* sleep. The machine, guest and all, is going away.
Dispose ==
    /\ CpuIdle
    /\ disposed' = "closing" /\ DropMapped
    /\ guest' = ClosedGuest
    /\ UNCHANGED <<writer, last, conn, loop, rxq, cpu, host>>

DisposeReturns ==
    /\ disposed = "closing" /\ disposed' = "gone"
    /\ rxq' = <<>>
    /\ UNCHANGED <<writer, last, map, sess, conn, loop, cpu, guest, host, hist>>

-----------------------------------------------------------------------------
(* The connect thread of session s.                                        *)

ConnStep(s, from, to) == conn[s] = from /\ conn' = [conn EXCEPT ![s] = to]

ConnectDisposed(s) ==
    /\ ConnStep(s, "started", "done") /\ disposed # "no"
    /\ UNCHANGED <<writer, last, map, sess, loop, rxq, cpu, disposed, guest, host, hist>>

\* The thread waits for the host, for up to 10 s, and asks for m_disposed no more.
ConnectWaits(s) ==
    /\ ConnStep(s, "started", "select") /\ disposed = "no"
    /\ UNCHANGED <<writer, last, map, sess, loop, rxq, cpu, disposed, guest, host, hist>>

\* select fails, or there is no socket: a RST for the guest.
ConnectFails(s) ==
    /\ ConnStep(s, "select", "erase")
    /\ Enqueue([from |-> s, kind |-> "Refused", seq |-> 0, ack |-> 1])
    /\ UNCHANGED <<writer, last, map, sess, loop, cpu, disposed, guest, host, hist>>

\* The failed thread erases the key, whichever session is there by now.
ConnectErases(s) ==
    /\ ConnStep(s, "erase", "done")
    /\ map' = None
    /\ hist' = IF map \in {None, s} THEN hist ELSE [hist EXCEPT ![map].erasedBy = s]
    /\ UNCHANGED <<writer, last, sess, loop, rxq, cpu, disposed, guest, host>>

\* select succeeds, and the socket goes into the session.
ConnectSucceeds(s) ==
    /\ ConnStep(s, "select", "publish")
    /\ sess' = [sess EXCEPT ![s].sock = "open"]
    /\ UNCHANGED <<writer, last, map, loop, rxq, cpu, disposed, guest, host, hist>>

\* The session is published, the SYN+ACK sent, and the receive loop started.
ConnectAnswers(s) ==
    /\ ConnStep(s, "publish", "done")
    /\ sess' = [sess EXCEPT ![s].state = "SynAckSent", ![s].ourSeq = @ + 1,
                            ![s].ack = sess[s].ourSeq + 1]
    /\ Enqueue(Packet(s, "SynAck", sess[s].ourSeq))
    /\ loop' = [loop EXCEPT ![s] = "recv"]
    /\ UNCHANGED <<writer, last, map, cpu, disposed, guest, host, hist>>

Connect(s) ==
    \/ ConnectDisposed(s) \/ ConnectWaits(s)    \/ ConnectFails(s)
    \/ ConnectErases(s)   \/ ConnectSucceeds(s) \/ ConnectAnswers(s)

-----------------------------------------------------------------------------
(* The receive thread of session s.                                        *)

LoopStep(s, from, to) == loop[s] = from /\ loop' = [loop EXCEPT ![s] = to]

\* Mutant: the loop asks for the state alone.
KeepsReceivingByState(s) ==
    disposed = "no" /\ sess[s].state \in {"SynAckSent", "Established"}

KeepsReceiving(s) ==
    /\ disposed = "no" /\ ~sess[s].cancelled
    /\ sess[s].state \in {"SynAckSent", "Established"}

\* The loop's condition fails, or recv does since the socket was closed or the
\* host reset it: the loop ends without a word to the guest.
LoopEnds(s) ==
    /\ LoopStep(s, "recv", "done")
    /\ ~KeepsReceiving(s) \/ sess[s].sock = "closed" \/ host[s].rst
    /\ UNCHANGED <<writer, last, map, sess, conn, rxq, cpu, disposed, guest, host, hist>>

\* The condition holds and recv returns; its time-outs only bring the loop back
\* to its condition.
Receives(s, to) ==
    /\ LoopStep(s, "recv", to) /\ KeepsReceiving(s)
    /\ sess[s].sock = "open" /\ ~host[s].rst

ReceiveData(s) ==
    /\ Receives(s, "wait") /\ host[s].read < host[s].sent
    /\ host' = [host EXCEPT ![s].read = @ + 1]
    /\ UNCHANGED <<writer, last, map, sess, conn, rxq, cpu, disposed, guest, hist>>

ReceiveEof(s) ==
    /\ Receives(s, "done") /\ host[s].eof /\ host[s].read = host[s].sent
    /\ Enqueue(Packet(s, "Fin", sess[s].ourSeq))
    /\ sess' = [sess EXCEPT ![s].ourSeq = @ + 1, ![s].state = "FinWait"]
    /\ UNCHANGED <<writer, last, map, conn, cpu, disposed, guest, host, hist>>

\* Mutant: only the segment itself is compared with the window.
SegmentFits(t) == 1 <= t.win

\* The difference is unsigned: an ACK beyond OurSeq leaves no room.
WindowFits(t) == t.ourSeq >= t.ack /\ t.ourSeq - t.ack + 1 <= t.win

Stopping(s) == disposed # "no" \/ sess[s].cancelled

\* The wait ends because the window has room or the session ended. Until the
\* guest has acknowledged anything the window is only assumed.
WindowOpens(s) ==
    /\ LoopStep(s, "wait", IF Stopping(s) THEN "done" ELSE "send")
    /\ Stopping(s) \/ WindowFits(sess[s])
    /\ hist' = [hist EXCEPT ![s].forced = @ \/ hist[s].granted = 0]
    /\ UNCHANGED <<writer, last, map, sess, conn, rxq, cpu, disposed, guest, host>>

\* Mutant: the segment that found no room is dropped.
DroppedAfterTimeout == "recv"

\* After 30 s the segment is sent all the same.
AfterTimeout == "send"

WaitTimesOut(s) ==
    /\ LoopStep(s, "wait", AfterTimeout)
    /\ ~Stopping(s) /\ ~WindowFits(sess[s])
    /\ hist' = [hist EXCEPT ![s].forced = TRUE]
    /\ UNCHANGED <<writer, last, map, sess, conn, rxq, cpu, disposed, guest, host>>

SendSegment(s) ==
    /\ LoopStep(s, "send", "recv")
    /\ Enqueue(Packet(s, "Data", sess[s].ourSeq))
    /\ sess' = [sess EXCEPT ![s].ourSeq = @ + 1]
    /\ UNCHANGED <<writer, last, map, conn, cpu, disposed, guest, host, hist>>

Receive(s) ==
    \/ LoopEnds(s)    \/ ReceiveData(s)  \/ ReceiveEof(s)
    \/ WindowOpens(s) \/ WaitTimesOut(s) \/ SendSegment(s)

-----------------------------------------------------------------------------
(* The host's side of a connected socket.                                  *)

HostOpen(s) == disposed = "no" /\ sess[s].sock = "open" /\ ~host[s].eof /\ ~host[s].rst

HostActs(s) == UNCHANGED <<writer, last, map, sess, conn, loop, rxq, cpu, disposed, guest, hist>>

SegmentsSent == SumFunctionOnSet([s \in Session |-> host[s].sent], Session)

HostSends(s) ==
    /\ HostOpen(s) /\ ~writer /\ SegmentsSent < HostData
    /\ host' = [host EXCEPT ![s].sent = @ + 1] /\ HostActs(s)

HostCloses(s) == HostOpen(s) /\ host' = [host EXCEPT ![s].eof = TRUE] /\ HostActs(s)

HostResets(s) == HostOpen(s) /\ host' = [host EXCEPT ![s].rst = TRUE] /\ HostActs(s)

-----------------------------------------------------------------------------
Cpu ==
    \/ GuestConnect \/ GuestRetransmitSyn \/ GuestAbort \/ GuestReceive \/ GuestRead
    \/ \E seq \in 1..2 : GuestSend(seq)
    \/ \E withData \in BOOLEAN : GuestClose(withData)
    \/ FinishClose \/ LanceStop \/ Dispose \/ DisposeReturns

Next ==
    \/ Cpu
    \/ \E s \in Session : Connect(s) \/ Receive(s) \/ HostSends(s) \/ HostCloses(s) \/ HostResets(s)

\* Every thread of the process runs again and again; what the guest, the user
\* and the host do is not promised.
Fairness ==
    /\ WF_vars(FinishClose)
    /\ \A s \in Session : WF_vars(Connect(s)) /\ WF_vars(Receive(s))

Spec == Init /\ [][Next]_vars /\ Fairness

-----------------------------------------------------------------------------
(* Properties.                                                             *)

\* The host's end of file reaches a guest that has not closed itself only after
\* every segment the host sent: a segment lost on the way leaves a gap that
\* holds the FIN back, whatever the window, the resets and the other sessions
\* of the same key did.
EofAfterAllData ==
    guest.eof /\ ~guest.fin => guest.got = host[guest.irs].sent

\* A segment is put on the wire only if the guest has granted the room for it,
\* except once the session has sent ahead of the first ACK or after 30 s.
WindowRespected ==
    [][\A s \in Session :
          loop[s] = "send" /\ loop'[s] = "recv" /\ ~hist[s].forced /\ sess[s].state # "Closed"
              => sess[s].ourSeq + 1 <= hist[s].granted]_vars

\* A socket outside the map is never closed and its host never told. That
\* happens to a session closed before its connect thread had the socket, and to
\* one whose key a failed thread of an older session erased, and in no other way.
OrphansExplained ==
    \A s \in Session :
        sess[s].sock = "open" /\ map # s
            => cpu = s \/ hist[s].early \/ hist[s].erasedBy # None

\* Data the guest holds as acknowledged was given to the host's socket, unless
\* the last of it came in the segment of the FIN.
AcknowledgedWasForwarded ==
    guest.irs # None /\ ~guest.lostData
        => guest.una <= 1 + host[guest.irs].got + (IF guest.fin THEN 1 ELSE 0)

\* The threads of a cancelled session end, also when it was cancelled while
\* its connect thread was still to set the state and start the loop, and when
\* the wake-up of the window wait is lost.
CancelledEnds ==
    \A s \in Session :
        sess[s].cancelled ~> conn[s] \in {"none", "done"} /\ loop[s] \in {"none", "done"}

\* The destructor returns when the detached threads have ended.
DestructorOutlivesThreads ==
    disposed = "gone" =>
        \A s \in Session : conn[s] \in {"none", "done"} /\ loop[s] \in {"none", "done"}
=============================================================================
