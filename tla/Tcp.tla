-------------------------------- MODULE Tcp --------------------------------
(***************************************************************************)
(* One TCP connection between two hosts that both run this code, from the  *)
(* SYN to the last acknowledgement: src/src/sys/net/tcp.c, tcp_input.c and *)
(* tcp_output.c, over a network that loses, repeats and reorders segments. *)
(*                                                                         *)
(* A protocol control block is a record.  Every entry point of the code    *)
(* (a system call, a segment from the network, one of the two timers) runs *)
(* to its end before another one begins, so each is one action.  What it   *)
(* sends is collected in the field out while the functions it calls are    *)
(* applied, and goes to the network with the step.                         *)
(*                                                                         *)
(* Bytes are numbered in the order in which the application wrote them.    *)
(* Time is not modelled: a timeout may expire at any call of the slow      *)
(* timer, so the round trip estimation that sets it is left out.           *)
(***************************************************************************)
EXTENDS TcpReceive

CONSTANTS
  Ends,          \* the two hosts
  Client,        \* the one that connects; the other listens
  ISS,           \* initial sequence number of each end
  TCP_MSS,       \* largest segment
  TCP_WND,       \* receive window
  TCP_SND_BUF,   \* bytes an end may have queued
  TCP_SND_QUEUELEN,  \* segments an end may have queued
  TCP_MAXRTX, TCP_SYNMAXRTX,  \* retransmissions before the connection is given up
  DupThresh,     \* duplicate acknowledgements that cause a retransmission (3 in the code)
  CwndSpace,     \* the congestion window wraps here (2^16 in the code)
  WriteSizes,    \* lengths of an application's writes and reads
  NoDelay,       \* whether its sockets may ask for no delay
  Scenarios,     \* what happens: see Init
  Accepts        \* what the listener's accept callback may answer

ASSUME TcpAssumption ==
  /\ Client \in Ends /\ Cardinality(Ends) = 2
  /\ ISS \in [Ends -> 0..SeqSpace - 1]
  /\ \A c \in Scenarios, e \in Ends : 2 * (c.bytes[e] + 2) < SeqSpace
  /\ Accepts \subseteq BOOLEAN /\ NoDelay \subseteq BOOLEAN

VARIABLES
  pcb,   \* protocol control block of each end
  app,   \* the application at each end
  net,   \* the segments that are under way, each with the end it goes to
  faults \* how often the network and the clock will still misbehave

vars == <<pcb, app, net, faults>>

Peer(e) == CHOOSE f \in Ends : f # e

Unstarted == {"CLOSED", "LISTEN"}
Synchronized == {"ESTABLISHED", "FIN_WAIT_1", "FIN_WAIT_2", "CLOSE_WAIT", "CLOSING", "LAST_ACK"}

\* tcp_new.
NewPcb(iss) ==
  [state |-> "CLOSED", out |-> {},
   rcv_nxt |-> 0, rcv_wnd |-> TCP_WND, ooseq |-> <<>>, recv |-> <<>>, trap |-> FALSE,
   acknow |-> FALSE, ackdelay |-> FALSE, gotfin |-> FALSE,
   snd_nxt |-> iss, snd_max |-> iss, lastack |-> iss, snd_lbb |-> iss,
   snd_wnd |-> 0, snd_wl1 |-> 0, snd_wl2 |-> iss,
   snd_buf |-> TCP_SND_BUF, snd_queuelen |-> 0, unsent |-> <<>>, unacked |-> <<>>,
   cwnd |-> 1, ssthresh |-> 0, dupacks |-> 0, infr |-> FALSE, nrtx |-> 0]

\* The block is freed, once what it still had to send is on its way.
Gone(p) == [NewPcb(0) EXCEPT !.out = p.out]

-----------------------------------------------------------------------------
(* tcp_output.c                                                            *)

\* Wrong: all of the window is advertised, whatever the application has not read.
AdvertisedFull(p) == TCP_WND

\* Window to advertise, with the silly window avoidance.
AdvertisedWnd(p) == IF p.rcv_wnd < TCP_MSS THEN 0 ELSE p.rcv_wnd

\* tcp_output_segment, tcp_send_ack.
Wire(p, s) ==
  [seq |-> s.seq, data |-> s.data, ack |-> p.rcv_nxt, wnd |-> AdvertisedWnd(p),
   flags |-> s.flags \cup IF p.state = "SYN_SENT" THEN {} ELSE {"ACK"}]

PureAck(p) == Wire(p, [seq |-> p.snd_nxt, data |-> <<>>, flags |-> {"ACK"}])

\* How many of the unsent segments fit into the window.
Sendable(p) ==
  PrefixLen(p.unsent, {i \in DOMAIN p.unsent :
    (p.unsent[i].seq - p.lastack + Len(p.unsent[i].data)) % SeqSpace
      <= Min({p.snd_wnd, p.cwnd})})

\* The first n of them are sent, with an acknowledgement.
SendFirst(p, n) ==
  LET sent  == SubSeq(p.unsent, 1, n)
      acked == p.state # "SYN_SENT"
      nxt   == Plus(sent[n].seq, TCP_TCPLEN(sent[n]))
  IN  IF n = 0 THEN p
      ELSE [p EXCEPT !.unsent   = SubSeq(@, n + 1, Len(@)),
                     !.unacked  = @ \o sent,
                     !.snd_nxt  = nxt,
                     !.snd_max  = IF TCP_SEQ_LT(@, nxt) THEN nxt ELSE @,
                     !.acknow   = @ /\ ~acked,
                     !.ackdelay = @ /\ ~acked,
                     !.out      = @ \cup {Wire(p, sent[i]) : i \in 1..n}]

\* An acknowledgement of its own, if none of them carried it.
SendAck(p) ==
  IF p.acknow THEN [p EXCEPT !.acknow = FALSE, !.ackdelay = FALSE, !.out = @ \cup {PureAck(p)}]
  ELSE p

tcp_output(p) == SendAck(SendFirst(p, Sendable(p)))

\* tcp_rexmit: everything unacknowledged is unsent again.
tcp_rexmit(p) ==
  tcp_output([p EXCEPT !.unsent  = p.unacked \o @,
                       !.unacked = <<>>,
                       !.snd_nxt = p.unacked[1].seq,
                       !.nrtx    = @ + 1])

\* tcp_enqueue, first half: bytes that fit go into the last unsent segment.
\* (Its buffer has room for a full segment: TCP_MIN_SEGLEN is TCP_MSS.)
Room(p, data, flags) ==
  IF flags # {} \/ p.unsent = <<>> THEN 0
  ELSE Min({TCP_MSS - Len(Last(p.unsent).data), Len(data)})

Fill(p, data, flags) ==
  LET n == Room(p, data, flags)
  IN  IF n = 0 THEN p
      ELSE [p EXCEPT !.unsent[Len(p.unsent)].data = @ \o SubSeq(data, 1, n)]

\* Second half: the rest becomes new segments at the end of the queue.
Segments(rest, base, flags) ==
  LET n == IF rest = <<>> /\ flags # {} THEN 1 ELSE (Len(rest) + TCP_MSS - 1) \div TCP_MSS
  IN  [i \in 1..n |-> [seq   |-> Plus(base, (i - 1) * TCP_MSS),
                       data  |-> SubSeq(rest, (i - 1) * TCP_MSS + 1,
                                        Min({i * TCP_MSS, Len(rest)})),
                       flags |-> flags]]

NewSegments(p, data, flags) ==
  Segments(SubSeq(data, Room(p, data, flags) + 1, Len(data)),
           Plus(p.snd_lbb, Room(p, data, flags)), flags)

EnqueueFails(p, data, flags) ==
  \/ Len(data) > p.snd_buf
  \/ p.snd_queuelen >= TCP_SND_QUEUELEN
  \/ p.snd_queuelen + Len(NewSegments(p, data, flags)) > TCP_SND_QUEUELEN

\* What is left behind when the queue is found too long.
EnqueueFailed(p, data, flags) ==
  IF Len(data) > p.snd_buf \/ p.snd_queuelen >= TCP_SND_QUEUELEN
  THEN p ELSE Fill(p, data, flags)

tcp_enqueue(p, data, flags) ==
  LET new == NewSegments(p, data, flags)
      len == Len(data) + IF flags \cap {"SYN", "FIN"} # {} THEN 1 ELSE 0
  IN  [Fill(p, data, flags) EXCEPT !.unsent       = @ \o new,
                                   !.snd_lbb      = Plus(@, len),
                                   !.snd_buf      = (@ - len) % 65536,
                                   !.snd_queuelen = @ + Len(new)]

-----------------------------------------------------------------------------
(* tcp_receive: the acknowledgement.                                       *)

\* cwnd grows by n, unless it would wrap.
Grow(p, n) == IF (p.cwnd + n) % CwndSpace > p.cwnd THEN (p.cwnd + n) % CwndSpace ELSE p.cwnd

UpdateWindow(p, s) ==
  IF \/ TCP_SEQ_LT(p.snd_wl1, s.seq)
     \/ p.snd_wl1 = s.seq /\ TCP_SEQ_LT(p.snd_wl2, s.ack)
     \/ p.snd_wl2 = s.ack /\ s.wnd > p.snd_wnd
  THEN [p EXCEPT !.snd_wnd = s.wnd, !.snd_wl1 = s.seq, !.snd_wl2 = s.ack]
  ELSE p

\* Fast retransmission, of the block r that tcp_rexmit has left.
FastRecovery(r) ==
  LET ss == Max({Diff(r.snd_max, r.lastack) \div 2, 2 * TCP_MSS})
  IN  [r EXCEPT !.ssthresh = ss, !.cwnd = ss + 3 * TCP_MSS, !.infr = TRUE]

Duplicates(d) ==
  IF ~ (d.dupacks >= DupThresh /\ d.unacked # <<>> /\ d.state = "ESTABLISHED") THEN d
  ELSE IF d.infr THEN [d EXCEPT !.cwnd = Grow(d, TCP_MSS)]
  ELSE FastRecovery(tcp_rexmit(d))

\* Nothing new is acknowledged.  p is the block before the window update.
DuplicateAck(p, u) ==
  IF Plus(u.snd_wl1, u.snd_wnd) # Plus(p.snd_wl1, p.snd_wnd) THEN u
  ELSE Duplicates([u EXCEPT !.dupacks = Min({@ + 1, DupThresh})])

\* Wrong: the unsent list is not looked at.
NewAckSentOnly(p, ack) ==
  LET m == PrefixLen(p.unacked, {i \in DOMAIN p.unacked :
             TCP_SEQ_LEQ(Plus(p.unacked[i].seq, TCP_TCPLEN(p.unacked[i])), ack)})
  IN  [p EXCEPT !.infr = FALSE, !.nrtx = 0, !.dupacks = 0, !.lastack = ack,
                !.snd_buf = (@ + Diff(ack, p.lastack)) % 65536, !.cwnd = Grow(p, TCP_MSS),
                !.unacked = SubSeq(@, m + 1, Len(@)), !.snd_queuelen = @ - m]

\* Segments that end at or before the acknowledgement leave both queues: after
\* a retransmission the unsent ones may have been sent before.
NewAck(p, ack) ==
  LET Old(q) == PrefixLen(q, {i \in DOMAIN q :
                  TCP_SEQ_LEQ(Plus(q[i].seq, TCP_TCPLEN(q[i])), ack)})
      m == Old(p.unacked)
      n == Old(p.unsent)
      c == [p EXCEPT !.cwnd = IF p.infr THEN p.ssthresh ELSE @]
  IN  [c EXCEPT !.infr    = FALSE,
                !.nrtx    = 0,
                !.dupacks = 0,
                !.lastack = ack,
                !.snd_buf = (@ + Diff(ack, p.lastack)) % 65536,
                !.cwnd    = IF c.cwnd < c.ssthresh THEN Grow(c, TCP_MSS)
                            ELSE Grow(c, (TCP_MSS * TCP_MSS) \div c.cwnd),
                !.unacked = SubSeq(@, m + 1, Len(@)),
                !.unsent  = SubSeq(@, n + 1, Len(@)),
                !.snd_nxt = IF n > 0 /\ n < Len(p.unsent) THEN p.unsent[n+1].seq
                            ELSE IF n > 1 THEN p.unsent[n].seq ELSE @,
                !.snd_queuelen = @ - (m + n)]

ReceiveAck(p, s) ==
  IF "ACK" \notin s.flags THEN p
  ELSE IF p.lastack = s.ack THEN DuplicateAck(p, UpdateWindow(p, s))
  ELSE IF TCP_SEQ_LT(p.lastack, s.ack) /\ TCP_SEQ_LEQ(s.ack, p.snd_max)
  THEN NewAck(UpdateWindow(p, s), s.ack)
  ELSE UpdateWindow(p, s)

tcp_receive(p, s) == ReceiveData(ReceiveAck(p, s), s)

-----------------------------------------------------------------------------
(* Applications.                                                           *)

\* The application reads n bytes: tcp_recved.
tcp_recved(p, n) == Min({p.rcv_wnd + n, TCP_WND})

\* Put a control block and an application in place and send what is to be
\* sent; rest is what the network holds beside it.
Commit(e, p, a, rest) ==
  /\ pcb' = [pcb EXCEPT ![e] = [p EXCEPT !.out = {}, !.recv = <<>>]]
  /\ app' = [app EXCEPT ![e] = a]
  /\ net' = rest \cup {[to |-> Peer(e), seg |-> s] : s \in p.out}

\* A connection that has just been set up, as the handshake leaves it.
Established(e) ==
  LET p   == NewPcb(Plus(ISS[e], IF e = Client THEN 0 ELSE 1))
      nxt == Plus(ISS[Peer(e)], IF e = Client THEN 1 ELSE 0)
  IN  [p EXCEPT !.state = "ESTABLISHED", !.rcv_nxt = nxt, !.cwnd = TCP_MSS,
                !.snd_wnd = TCP_WND, !.snd_wl2 = IF e = Client THEN @ ELSE Plus(ISS[e], 1),
                !.snd_wl1 = IF e = Client THEN (nxt - 2) % SeqSpace ELSE nxt,
                !.snd_buf = IF e = Client THEN @ - 1 ELSE @,
                !.ssthresh = IF e = Client THEN TCP_MSS * 10 ELSE TCP_WND]

\* A scenario says whether the connection is already set up, how many bytes
\* each application writes, which of them close the connection, how many
\* faults there are, and which segments of an earlier connection between the
\* same ports are still under way.
Init ==
  \E c \in Scenarios :
    /\ pcb = [e \in Ends |->
                IF c.established THEN Established(e)
                ELSE [NewPcb(ISS[e]) EXCEPT !.state = IF e = Client THEN @ ELSE "LISTEN"]]
    /\ app = [e \in Ends |-> [open |-> c.established, todo |-> c.bytes[e], closes |-> e \in c.closers,
                               sent |-> 0, rcvd |-> <<>>, unread |-> 0, eof |-> FALSE]]
    /\ net = c.stray /\ faults = c.faults

\* tcp_connect.
Connect(e) ==
  LET iss == ISS[e]
      p   == [NewPcb(iss) EXCEPT !.state = "SYN_SENT",
                                 !.lastack = (iss - 1) % SeqSpace, !.snd_lbb = (iss - 1) % SeqSpace,
                                 !.snd_wnd = TCP_WND, !.ssthresh = TCP_MSS * 10]
  IN  /\ e = Client /\ ~app[e].open /\ pcb[e] = NewPcb(iss)
      /\ Commit(e, tcp_output(tcp_enqueue(p, <<>>, {"SYN"})), [app[e] EXCEPT !.open = TRUE], net)

\* tcp_write, as tcpsock_sendmsg calls it: a connected socket whose peer has
\* not closed.  Nagle's algorithm holds the data back while any is
\* unacknowledged, unless the socket asks for no delay.
Write(e, n, nodelay) ==
  LET p    == pcb[e]
      a    == app[e]
      data == [i \in 1..n |-> a.sent + i]
      q    == tcp_enqueue(p, data, {})
  IN  /\ p.state \in {"ESTABLISHED", "CLOSE_WAIT"} /\ a.open /\ ~a.eof
      /\ n <= p.snd_buf /\ n <= a.todo
      /\ IF EnqueueFails(p, data, {})
         THEN Commit(e, EnqueueFailed(p, data, {}), a, net)
         ELSE Commit(e, IF nodelay \/ q.unacked = <<>> THEN tcp_output(q) ELSE q,
                        [a EXCEPT !.sent = @ + n, !.todo = @ - n], net)

\* tcpsock_recvmsg takes bytes that are waiting in the socket.
Read(e, n) ==
  LET p == pcb[e] IN
  /\ n <= app[e].unread /\ app[e].open /\ p.state \notin Unstarted
  /\ Commit(e, [p EXCEPT !.rcv_wnd = tcp_recved(p, n), !.ackdelay = TRUE],
               [app[e] EXCEPT !.unread = @ - n], net)

\* The reset an end sends for a connection it does not know or gives up.
Rst(seqno, ackno) ==
  [seq |-> seqno, data |-> <<>>, ack |-> ackno, wnd |-> 0, flags |-> {"RST", "ACK"}]

\* tcp_pcb_remove: the queues are freed, an acknowledgement that is due is sent.
tcp_pcb_remove(p) ==
  LET q == [p EXCEPT !.unsent = <<>>, !.unacked = <<>>, !.ooseq = <<>>, !.acknow = TRUE]
  IN  Gone(IF p.ackdelay /\ p.state # "TIME_WAIT" THEN tcp_output(q) ELSE p)

\* tcp_abort.
tcp_abort(p) ==
  LET q == tcp_pcb_remove(p) IN [q EXCEPT !.out = @ \cup {Rst(p.snd_nxt, p.rcv_nxt)}]

\* tcpsock_close: the callbacks are taken away, then tcp_close, and
\* tcp_abort if the FIN cannot be queued.
Close(e) ==
  LET p   == pcb[e]
      a   == [app[e] EXCEPT !.open = FALSE, !.unread = 0]
      fin(s) == [tcp_enqueue(p, <<>>, {"FIN"}) EXCEPT !.state = s]
  IN  /\ app[e].open /\ app[e].closes /\ app[e].todo = 0
      /\ \/ /\ p.state = "SYN_SENT"
            /\ Commit(e, tcp_pcb_remove(p), a, net)
         \/ /\ p.state \in {"ESTABLISHED", "CLOSE_WAIT"}
            /\ Commit(e, IF EnqueueFails(p, <<>>, {"FIN"}) THEN tcp_abort(p)
                         ELSE tcp_output(fin(IF p.state = "CLOSE_WAIT" THEN "LAST_ACK"
                                             ELSE "FIN_WAIT_1")), a, net)
         \/ /\ p.state = "CLOSED"
            /\ Commit(e, p, a, net)

-----------------------------------------------------------------------------
(* tcp_input                                                               *)

\* The second half of tcp_input: the data goes to the application, which
\* takes it at once if a reader is waiting, or is dropped if the socket was
\* closed; the end of the stream is announced; output follows.
Deliver(e, p, reader, rest) ==
  LET a    == app[e]
      n    == Len(p.recv)
      read == IF a.open /\ reader /\ n > 0
              THEN [p EXCEPT !.rcv_wnd = tcp_recved(p, a.unread + n)] ELSE p
  IN  Commit(e, tcp_output(read),
             IF ~a.open THEN a
             ELSE [a EXCEPT !.rcvd   = @ \o p.recv,
                            !.unread = IF reader /\ n > 0 THEN 0 ELSE @ + n,
                            !.eof    = @ \/ p.gotfin], rest)

\* TIME-WAIT: nothing goes to the application any more.
Linger(e, p, rest) ==
  Commit(e, tcp_output([p EXCEPT !.state = "TIME_WAIT", !.acknow = TRUE, !.unsent = <<>>,
                                 !.unacked = <<>>, !.ooseq = <<>>]), app[e], rest)

\* A segment for an end without a connection is answered with a reset, unless
\* it is one.
InputUnknown(e, s, rest) ==
  /\ pcb[e].state = "CLOSED"
  /\ Commit(e, [pcb[e] EXCEPT !.out = IF "RST" \in s.flags THEN {}
                                      ELSE {Rst(s.ack, Plus(s.seq, TCP_TCPLEN(s)))}],
            app[e], rest)

InputReset(e, s, rest) ==
  LET p == pcb[e] IN
  /\ "RST" \in s.flags /\ p.state \notin Unstarted
  /\ IF IF p.state = "SYN_SENT" THEN s.ack = p.snd_nxt
        ELSE /\ TCP_SEQ_GEQ(s.seq, p.rcv_nxt)
             /\ TCP_SEQ_LEQ(s.seq, Plus(p.rcv_nxt, p.rcv_wnd))
     THEN Commit(e, Gone(p), app[e], rest)
     ELSE Deliver(e, p, FALSE, rest)

\* The listener serves one connection: its block becomes the connection's, and
\* a segment that comes after the connection is gone finds no listener.
InputListen(e, s, rest) ==
  LET p == [NewPcb(ISS[e]) EXCEPT !.state = "SYN_RCVD", !.rcv_nxt = Plus(s.seq, 1),
                                  !.snd_wnd = s.wnd, !.ssthresh = s.wnd,
                                  !.snd_wl1 = (s.seq - 1) % SeqSpace]
  IN  /\ pcb[e].state = "LISTEN"
      /\ \/ /\ "RST" \in s.flags
            /\ Commit(e, pcb[e], app[e], rest)
         \/ /\ {"RST", "ACK"} \cap s.flags = {"ACK"}
            /\ Commit(e, [pcb[e] EXCEPT !.out = {Rst(Plus(s.ack, 1), Plus(s.seq, TCP_TCPLEN(s)))}],
                      app[e], rest)
         \/ /\ {"RST", "ACK", "SYN"} \cap s.flags = {"SYN"}
            /\ Commit(e, tcp_output(tcp_enqueue(p, <<>>, {"SYN", "ACK"})), app[e], rest)

InputSynSent(e, s, rest) ==
  LET p == pcb[e] IN
  /\ p.state = "SYN_SENT" /\ "RST" \notin s.flags
  /\ IF {"ACK", "SYN"} \cap s.flags # {} /\ p.unacked # <<>> /\ s.ack = Plus(p.unacked[1].seq, 1)
     THEN Deliver(e, [p EXCEPT !.state = "ESTABLISHED", !.rcv_nxt = Plus(s.seq, 1),
                               !.lastack = s.ack, !.snd_wnd = s.wnd,
                               !.snd_wl1 = (s.seq - 1) % SeqSpace, !.cwnd = TCP_MSS,
                               !.snd_queuelen = @ - 1, !.unacked = Tail(@),
                               !.ackdelay = TRUE], FALSE, rest)
     ELSE Deliver(e, p, FALSE, rest)

InputSynRcvd(e, s, accept, reader, rest) ==
  LET p  == pcb[e]
      ok == /\ "ACK" \in s.flags
            /\ TCP_SEQ_LT(p.lastack, s.ack) /\ TCP_SEQ_LEQ(s.ack, p.snd_nxt)
  IN  /\ p.state = "SYN_RCVD" /\ "RST" \notin s.flags
      /\ \/ ~ok /\ Deliver(e, p, FALSE, rest)
         \/ ok /\ ~accept /\ Commit(e, tcp_abort(p), app[e], rest)
         \/ /\ ok /\ accept
            /\ \E r \in {tcp_receive([p EXCEPT !.state = "ESTABLISHED"], s)} :
                 Commit(e, tcp_output([r EXCEPT !.cwnd = TCP_MSS,
                                                !.rcv_wnd = IF reader THEN tcp_recved(r, Len(r.recv)) ELSE @]),
                        [app[e] EXCEPT !.open = TRUE, !.rcvd = r.recv, !.eof = r.gotfin,
                                       !.unread = IF reader THEN 0 ELSE Len(r.recv)], rest)

\* The states that send or receive data, and what a FIN and an acknowledgement
\* of snd_nxt make of them.
After(state, fin, done) ==
  CASE state \in {"ESTABLISHED", "CLOSE_WAIT"} -> IF fin THEN "CLOSE_WAIT" ELSE state
    [] state = "FIN_WAIT_1" -> IF fin /\ done THEN "TIME_WAIT" ELSE IF fin THEN "CLOSING"
                               ELSE IF done THEN "FIN_WAIT_2" ELSE state
    [] state = "FIN_WAIT_2" -> IF fin THEN "TIME_WAIT" ELSE state
    [] state = "CLOSING"    -> IF done THEN "TIME_WAIT" ELSE state
    [] state = "LAST_ACK"   -> IF done THEN "CLOSED" ELSE state

InputData(e, s, reader, rest) ==
  /\ pcb[e].state \in Synchronized /\ "RST" \notin s.flags /\ ~pcb[e].trap
  /\ \E r \in {tcp_receive(pcb[e], s)} :
     \E st \in {After(r.state, "FIN" \in s.flags, "ACK" \in s.flags /\ s.ack = r.snd_nxt)} :
       \/ st = "TIME_WAIT" /\ Linger(e, r, rest)
       \/ st = "CLOSED" /\ Commit(e, tcp_pcb_remove(r), app[e], rest)
       \/ /\ st \notin {"TIME_WAIT", "CLOSED"}
          /\ Deliver(e, [r EXCEPT !.state = st,
                                  !.acknow = @ \/ ("FIN" \in s.flags
                                                   /\ r.state \in {"ESTABLISHED", "CLOSE_WAIT", "FIN_WAIT_1"})],
                     reader, rest)

InputTimeWait(e, s, rest) ==
  LET p   == pcb[e]
      end == Plus(s.seq, TCP_TCPLEN(s))
  IN  /\ p.state = "TIME_WAIT" /\ "RST" \notin s.flags
      /\ Commit(e, tcp_output([p EXCEPT !.rcv_nxt = IF TCP_SEQ_GT(end, @) THEN end ELSE @,
                                        !.acknow = @ \/ TCP_TCPLEN(s) > 0]), app[e], rest)

tcp_input(e, s, rest) ==
  \/ InputUnknown(e, s, rest) \/ InputReset(e, s, rest) \/ InputListen(e, s, rest) \/ InputSynSent(e, s, rest)
  \/ InputTimeWait(e, s, rest)
  \/ \E reader \in BOOLEAN :
       \/ InputData(e, s, reader, rest)
       \/ \E accept \in Accepts : InputSynRcvd(e, s, accept, reader, rest)

-----------------------------------------------------------------------------
(* Timers                                                                  *)

\* What the retransmission timer of tcp_slowtmr does to the windows.
SlowStart(r) ==
  LET eff == Min({r.cwnd, r.snd_wnd}) \div 2
  IN  [r EXCEPT !.ssthresh = IF eff < TCP_MSS THEN 2 * TCP_MSS ELSE eff, !.cwnd = TCP_MSS]

Expire(p) == SlowStart(tcp_rexmit(p))

\* tcp_slowtmr for one connection: rto says that the retransmission timeout has
\* passed, stale that nothing came for so long that the reassembly queue
\* is dropped, idle that the connection has been in FIN-WAIT-2, SYN-RCVD
\* or TIME-WAIT for its full time.
SlowTmr(e, rto, stale, idle) ==
  LET p    == pcb[e]
      over == /\ p.state # "TIME_WAIT"
              /\ p.nrtx = TCP_MAXRTX \/ (p.state = "SYN_SENT" /\ p.nrtx = TCP_SYNMAXRTX)
      r    == IF rto /\ ~over THEN Expire(p) ELSE p
  IN  /\ p.state \notin Unstarted
      /\ rto => p.unacked # <<>>
      /\ stale => p.ooseq # <<>>
      /\ idle => p.state \in {"FIN_WAIT_2", "SYN_RCVD", "TIME_WAIT"}
      /\ rto \/ stale \/ idle \/ over
      /\ IF over \/ idle
         THEN Commit(e, Gone(r), app[e], net)
         ELSE Commit(e, [r EXCEPT !.ooseq = IF stale THEN <<>> ELSE @], app[e], net)

\* tcp_fasttmr: delayed acknowledgements.
FastTmr(e) ==
  LET q == tcp_output([pcb[e] EXCEPT !.acknow = TRUE]) IN
  /\ pcb[e].ackdelay /\ pcb[e].state # "TIME_WAIT"
  /\ Commit(e, [q EXCEPT !.acknow = FALSE, !.ackdelay = FALSE], app[e], net)

-----------------------------------------------------------------------------
(* The network delivers segments in any order.  Losing one, delivering one *)
(* and keeping a copy, and a timeout are faults, which are counted.        *)

Fault == faults > 0 /\ faults' = faults - 1

Lose(m) == net' = net \ {m} /\ UNCHANGED <<pcb, app>> /\ Fault

Arrive(e, m) ==
  /\ m.to = e
  /\ \/ tcp_input(e, m.seg, net \ {m}) /\ UNCHANGED faults
     \/ tcp_input(e, m.seg, net) /\ Fault

Next ==
  \/ \E m \in net : Lose(m) \/ \E e \in Ends : Arrive(e, m)
  \/ \E e \in Ends :
       \/ \E rto, stale, idle \in BOOLEAN : SlowTmr(e, rto, stale, idle) /\ Fault
       \/ /\ \/ Connect(e) \/ Close(e) \/ FastTmr(e)
             \/ \E n \in WriteSizes, nodelay \in NoDelay : Write(e, n, nodelay)
             \/ \E n \in WriteSizes : Read(e, n)
          /\ UNCHANGED faults

Spec == Init /\ [][Next]_vars

-----------------------------------------------------------------------------
(* Properties                                                              *)

\* Sequence number of the first byte of e's stream.
Base(e) == Plus(ISS[e], IF e = Client THEN 0 ELSE 1)

\* Position of a sequence number in e's stream.
Pos(e, seq) == Diff(seq, Base(e))

Queued(p) == p.unacked \o p.unsent

\* What an end has queued is exactly what it wrote and the other end has not
\* acknowledged, in order and without gaps, whatever retransmissions, late
\* acknowledgements and appended bytes have done to the two queues; and the
\* counts of free buffer space and of queued segments agree with it.
SendQueueExact ==
  \A e \in Ends :
    LET p == pcb[e]
        q == Queued(p)
        End(i) == Plus(q[i].seq, TCP_TCPLEN(q[i]))
    IN  p.state \in Synchronized =>
          /\ \A i \in 1..Len(q) - 1 : End(i) = q[i+1].seq
          /\ \A i \in 1..Len(q), j \in 1..TCP_MSS :
               j <= Len(q[i].data) => q[i].data[j] = Pos(e, q[i].seq) + j
          /\ IF q = <<>> THEN p.lastack = p.snd_lbb
             ELSE /\ End(Len(q)) = p.snd_lbb
                  /\ TCP_SEQ_LEQ(q[1].seq, p.lastack) /\ TCP_SEQ_LT(p.lastack, End(1))
          /\ p.snd_queuelen = Len(q)
          /\ (p.snd_buf + Diff(p.snd_lbb, p.lastack)) % 65536
               = TCP_SND_BUF - IF e = Client THEN 1 ELSE 0

\* What an application receives is a beginning of what the other one wrote,
\* and it is told of the end of the stream after the last byte and not before;
\* what waits to be reassembled is in order, apart and ahead of that.
StreamIntact ==
  \A e \in Ends :
    LET n == Len(app[e].rcvd) IN
    /\ pcb[e].state \in Synchronized => InOrderDisjoint(pcb[e]) /\ ~pcb[e].trap
    /\ app[e].rcvd = [i \in 1..n |-> i]
    /\ n <= app[Peer(e)].sent
    /\ app[e].eof => n = app[Peer(e)].sent /\ ~app[Peer(e)].open

\* A byte leaves the sender's queues only after the application at the other
\* end was given it.
AckedDelivered ==
  \A e \in Ends :
    app[Peer(e)].open /\ pcb[e].state \in Synchronized /\ pcb[Peer(e)].state # "CLOSED" =>
      Pos(e, pcb[e].lastack) <= Len(app[Peer(e)].rcvd) + IF app[Peer(e)].eof THEN 1 ELSE 0

\* No data under way reaches beyond the window of the end it goes to.
WindowRespected ==
  \A m \in net :
    LET p == pcb[m.to] IN
    p.state \in Synchronized /\ m.seg.data # <<>> =>
      TCP_SEQ_LEQ(Plus(m.seg.seq, Len(m.seg.data)), Plus(p.rcv_nxt, p.rcv_wnd))

\* TF_CLOSED, "Connection was sucessfully closed": a connection that leaves
\* LAST-ACK because of an acknowledgement has everything acknowledged that the
\* application wrote, and the FIN.
ClosedSuccessfully ==
  [][\A e \in Ends : \A m \in net :
       /\ pcb[e].state = "LAST_ACK" /\ pcb'[e].state = "CLOSED"
       /\ Arrive(e, m) /\ "RST" \notin m.seg.flags
       => m.seg.ack = pcb[e].snd_lbb]_vars

=============================================================================
