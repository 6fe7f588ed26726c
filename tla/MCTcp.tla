------------------------------- MODULE MCTcp -------------------------------
(* Instances of Tcp: a client cl and a server sv, initial sequence numbers   *)
(* that make the client's wrap at once, and the scenarios.                 *)
EXTENDS Tcp, TLC

CONSTANTS cl, sv

MCISS == (cl :> SeqSpace - 1) @@ (sv :> 5)

Scenario(est, n, m, closers, k, stray) ==
  [established |-> est, bytes |-> (cl :> n) @@ (sv :> m), closers |-> closers, faults |-> k,
   stray |-> stray]

\* Left over from an earlier connection: an acknowledgement and a reset.
Old(flags) ==
  [to |-> sv, seg |-> [seq |-> 20, data |-> <<>>, ack |-> 20, wnd |-> 2, flags |-> flags]]

MCScenarios ==
  { Scenario(FALSE, 0, 0, {cl, sv}, 2, {}),
    Scenario(FALSE, 0, 0, {cl}, 1, {Old({"ACK"}), Old({"RST", "ACK"})}),
    Scenario(TRUE, 3, 0, {}, 2, {}),
    Scenario(TRUE, 1, 1, {}, 2, {}),
    Scenario(TRUE, 1, 0, {cl, sv}, 2, {}) }

\* Both close while the server's last byte and its FIN wait for the window;
\* nothing is lost.
ClosingScenario == { Scenario(TRUE, 0, 3, {cl, sv}, 0, {}) }
=============================================================================
