------------------------------ MODULE TcpPeer ------------------------------
(***************************************************************************)
(* The receiving half of TCP against a peer that runs other code: a peer   *)
(* may pack the bytes it sends again differently, so a segment is any      *)
(* range of the stream inside the window, and the network delivers them in *)
(* any order.  (An end that runs this code never does that: it sends the   *)
(* segments it has queued.)                                                *)
(***************************************************************************)
EXTENDS TcpReceive

CONSTANTS
  StreamLen,   \* bytes the peer sends; the FIN follows the last one
  TCP_WND      \* receive window

VARIABLES
  pcb,   \* the receive variables of the control block
  rcvd   \* what the application was given

vars == <<pcb, rcvd>>

Init ==
  /\ pcb = [rcv_nxt |-> 0, rcv_wnd |-> TCP_WND, ooseq |-> <<>>, recv |-> <<>>,
            acknow |-> FALSE, ackdelay |-> FALSE, gotfin |-> FALSE, trap |-> FALSE]
  /\ rcvd = <<>>

\* The bytes i + 1 .. j of the stream, with the FIN if they are its end.
Segment(i, j, fin) ==
  [seq |-> i, data |-> [k \in 1..j - i |-> i + k], flags |-> IF fin THEN {"FIN"} ELSE {}]

\* A segment is received, and its data is taken by the application at once.
Receive(s) ==
  LET p == ReceiveData(pcb, s) IN
  /\ ~pcb.trap
  /\ rcvd' = rcvd \o p.recv
  /\ pcb'  = [p EXCEPT !.recv = <<>>, !.acknow = FALSE, !.ackdelay = FALSE,
                       !.rcv_wnd = Min({@ + Len(p.recv), TCP_WND})]

Next ==
  \E i, j \in 0..StreamLen : \E fin \in BOOLEAN :
    /\ i <= j /\ (i < j \/ fin) /\ (fin => j = StreamLen)
    /\ j <= Len(rcvd) + TCP_WND
    /\ Receive(Segment(i, j, fin))

Spec == Init /\ [][Next]_vars

-----------------------------------------------------------------------------
(* The application is given the bytes of the stream in sequence, each of   *)
(* them once, and the next byte expected is the one after them: "Function  *)
(* to be called when (in-sequence) data has arrived".                      *)
InSequenceData ==
  /\ rcvd = [i \in 1..Len(rcvd) |-> i]
  /\ pcb.rcv_nxt = Len(rcvd) + IF pcb.gotfin THEN 1 ELSE 0
  /\ ~pcb.trap

=============================================================================
