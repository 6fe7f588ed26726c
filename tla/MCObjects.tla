----------------------------- MODULE MCObjects -----------------------------
(* Small instances of Objects for TLC: which waits threads make.           *)
EXTENDS Objects

CONSTANTS t1, t2, t3, e, v, s, m, f

Req(objs, all, timed, alertable) ==
  [objs |-> objs, all |-> all, timed |-> timed, alertable |-> alertable]
One(o) == Req(<<o>>, FALSE, FALSE, FALSE)

\* Waits for one, any and all of the objects.  Signals and timeouts end waits
\* for events only: nothing is acquired there that could be lost.
MixedRequests ==
  {One(m), One(f), One(t1), Req(<<s, m>>, FALSE, FALSE, FALSE),
   Req(<<e>>, FALSE, FALSE, TRUE), Req(<<e, v>>, TRUE, TRUE, FALSE)}

\* Threads compete for one mutex with timeouts.
TimedRequests == {Req(<<m>>, FALSE, TRUE, FALSE)}

\* Only the exit of t1 is waited for; the other threads are interchangeable.
Symmetry == Permutations(Threads \ {t1})
=============================================================================
