----------------------------- MODULE TcpReceive -----------------------------
(***************************************************************************)
(* The receiving half of TCP: tcp_receive in src/src/sys/net/tcp_input.c   *)
(* from the point where a segment that carries sequence space is looked    *)
(* at, with the sequence arithmetic of src/src/include/net/tcp.h.          *)
(*                                                                         *)
(* A segment is a record with a sequence number seq, its bytes data, and   *)
(* its flags; a protocol control block is a record that has at least the   *)
(* fields rcv_nxt, rcv_wnd, ooseq, acknow, ackdelay, gotfin, recv (the     *)
(* bytes handed up while one segment is processed) and trap (a buffer was  *)
(* chained to a null pointer).  The handlers are functions from control    *)
(* blocks to control blocks; the modules that use them make them steps.    *)
(***************************************************************************)
EXTENDS Integers, Sequences, SequencesExt, FiniteSets, FiniteSetsExt

CONSTANT SeqSpace   \* sequence numbers are words: 0 .. SeqSpace - 1

ASSUME SeqSpaceAssumption == SeqSpace \in Nat /\ SeqSpace > 1 /\ SeqSpace % 2 = 0

-----------------------------------------------------------------------------
(* Sequence arithmetic.                                                    *)

Plus(a, n) == (a + n) % SeqSpace

\* (int) (a - b)
Diff(a, b) ==
  LET d == (a - b) % SeqSpace IN IF d < SeqSpace \div 2 THEN d ELSE d - SeqSpace

TCP_SEQ_LT(a, b)  == Diff(a, b) < 0
TCP_SEQ_LEQ(a, b) == Diff(a, b) <= 0
TCP_SEQ_GT(a, b)  == Diff(a, b) > 0
TCP_SEQ_GEQ(a, b) == Diff(a, b) >= 0

\* What the flags of a segment take of the sequence space.
Ctrl(s) == IF s.flags \cap {"SYN", "FIN"} # {} THEN 1 ELSE 0

TCP_TCPLEN(s) == Len(s.data) + Ctrl(s)

\* Cut the end of a segment: seg->len = n; pbuf_realloc(seg->p, n).
Cut(s, n) == [s EXCEPT !.data = SubSeq(@, 1, n)]

\* The length of the longest prefix of q whose positions are all in ok.
PrefixLen(q, ok) == Max({k \in 0..Len(q) : 1..k \subseteq ok})

Monus(m, n) == IF m < n THEN 0 ELSE m - n

-----------------------------------------------------------------------------
(* A segment whose first bytes were received before loses them.            *)
TrimFront(p, s) ==
  IF /\ TCP_SEQ_LT(s.seq, p.rcv_nxt)
     /\ TCP_SEQ_LT(p.rcv_nxt, Plus(s.seq, TCP_TCPLEN(s)))
  THEN [s EXCEPT !.seq = p.rcv_nxt,
                 !.data = SubSeq(@, Diff(p.rcv_nxt, s.seq) + 1, Len(@))]
  ELSE s

\* Wrong: the segments that have come into sequence are counted as received
\* and not chained.
InSequenceUnchained(p, s) ==
  LET q   == p.ooseq
      nxt == Plus(p.rcv_nxt, TCP_TCPLEN(s))
      k   == PrefixLen(q, {i \in DOMAIN q : q[i].seq =
               IF i = 1 THEN nxt ELSE Plus(q[i-1].seq, TCP_TCPLEN(q[i-1]))})
      end == IF k = 0 THEN nxt ELSE Plus(q[k].seq, TCP_TCPLEN(q[k]))
  IN  [p EXCEPT !.rcv_nxt = end, !.rcv_wnd = Monus(@, Diff(end, p.rcv_nxt)),
                !.ooseq = SubSeq(@, k + 1, Len(@)), !.recv = s.data,
                !.gotfin = @ \/ "FIN" \in s.flags, !.acknow = TRUE]

(* The next segment in sequence.  Its end is cut where the reassembly      *)
(* queue begins, its flags are not; then the segments of the queue that    *)
(* have come into sequence are chained to it.                              *)
InSequence(p, s) ==
  LET q     == p.ooseq
      len   == IF q # <<>> /\ TCP_SEQ_LEQ(q[1].seq, Plus(s.seq, Len(s.data)))
               THEN Diff(q[1].seq, s.seq) ELSE Len(s.data)
      nxt   == Plus(p.rcv_nxt, len + Ctrl(s))
      k     == PrefixLen(q, {i \in DOMAIN q : q[i].seq =
                 IF i = 1 THEN nxt ELSE Plus(q[i-1].seq, TCP_TCPLEN(q[i-1]))})
      end   == IF k = 0 THEN nxt ELSE Plus(q[k].seq, TCP_TCPLEN(q[k]))
      first == Cut(s, len).data
      more  == FlattenSeq([i \in 1..k |-> q[i].data])
  IN  [p EXCEPT !.rcv_nxt  = end,
                !.rcv_wnd  = Monus(@, Diff(end, p.rcv_nxt)),
                !.ooseq    = SubSeq(@, k + 1, Len(@)),
                !.recv     = first \o more,
                !.trap     = @ \/ (first = <<>> /\ more # <<>>),
                !.gotfin   = @ \/ "FIN" \in s.flags
                               \/ \E i \in 1..k : "FIN" \in q[i].flags,
                !.acknow   = @ \/ k > 0 \/ p.ackdelay,
                !.ackdelay = TRUE]

\* Wrong: the segment is put into its place also when it is there already.
InsertAgain(q, s) ==
  LET i == Cardinality({j \in DOMAIN q : TCP_SEQ_LT(q[j].seq, s.seq)})
  IN  Append(SubSeq(q, 1, i), s) \o SubSeq(q, i + 1, Len(q))

(* A segment that is ahead goes to the reassembly queue, which is ordered  *)
(* by sequence number.  One that begins where a queued one begins replaces *)
(* it when it is longer; any other is cut where the next one begins and    *)
(* cuts the one before it.                                                 *)
Insert(q, s) ==
  LET i    == Cardinality({j \in DOMAIN q : TCP_SEQ_LT(q[j].seq, s.seq)})
      same == i < Len(q) /\ q[i+1].seq = s.seq
      mine == IF i < Len(q) /\ TCP_SEQ_GT(Plus(s.seq, Len(s.data)), q[i+1].seq)
              THEN Cut(s, Diff(q[i+1].seq, s.seq)) ELSE s
      prev == IF TCP_SEQ_GT(Plus(q[i].seq, Len(q[i].data)), s.seq)
              THEN Cut(q[i], Diff(s.seq, q[i].seq)) ELSE q[i]
      low  == IF i = 0 THEN <<>> ELSE Append(SubSeq(q, 1, i - 1), prev)
  IN  IF same
      THEN IF Len(s.data) > Len(q[i+1].data) THEN [q EXCEPT ![i+1] = s] ELSE q
      ELSE Append(low, mine) \o SubSeq(q, i + 1, Len(q))

\* Wrong: the FIN of a segment that is ahead ends the stream at once.
OutOfSequenceFin(p, s) ==
  [p EXCEPT !.acknow = TRUE, !.gotfin = @ \/ "FIN" \in s.flags,
            !.ooseq  = Insert(@, [seq |-> s.seq, data |-> s.data, flags |-> s.flags])]

OutOfSequence(p, s) ==
  [p EXCEPT !.acknow = TRUE,
            !.ooseq  = Insert(@, [seq |-> s.seq, data |-> s.data, flags |-> s.flags])]

(* The data part of tcp_receive, for a segment t whose front is trimmed.    *)
ReceiveTrimmed(p, t) ==
  IF ~ ( /\ TCP_SEQ_GEQ(t.seq, p.rcv_nxt)
         /\ TCP_SEQ_LT(t.seq, Plus(p.rcv_nxt, p.rcv_wnd)) )
  THEN [p EXCEPT !.acknow = @ \/ TCP_SEQ_LT(t.seq, p.rcv_nxt)]
  ELSE IF t.seq = p.rcv_nxt THEN InSequence(p, t) ELSE OutOfSequence(p, t)

ReceiveData(p, s) ==
  IF TCP_TCPLEN(s) = 0
  THEN [p EXCEPT !.acknow = @ \/ TCP_SEQ_GT(p.rcv_nxt, s.seq)
                              \/ TCP_SEQ_GEQ(s.seq, Plus(p.rcv_nxt, p.rcv_wnd))]
  ELSE ReceiveTrimmed(p, TrimFront(p, s))

-----------------------------------------------------------------------------
(* What a reassembly queue has to be for the data taken from it to be the  *)
(* stream: the segments are ordered, do not overlap and lie beyond what    *)
(* was received.                                                           *)
InOrderDisjoint(p) ==
  /\ \A i \in 1..Len(p.ooseq) - 1 :
       TCP_SEQ_LEQ(Plus(p.ooseq[i].seq, TCP_TCPLEN(p.ooseq[i])), p.ooseq[i+1].seq)
  /\ p.ooseq # <<>> => TCP_SEQ_LT(p.rcv_nxt, p.ooseq[1].seq)

=============================================================================
