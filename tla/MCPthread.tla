----------------------------- MODULE MCPthread -----------------------------
(* Instances of Pthread: three threads and the programs they run.          *)
EXTENDS Pthread, TLC

CONSTANTS ta, tb, tc

Scenario(kind, a, b, c, k) ==
  [kind |-> kind, prog |-> (ta :> a) @@ (tb :> b) @@ (tc :> c), height |-> 3, late |-> k]

Twice == <<"lock", "unlock", "lock", "unlock">>
Nested == <<"lock", "lock", "unlock", "unlock">>
Consume == <<"lock", "take", "unlock">>
ConsumeTimed == <<"lock", "timedtake", "unlock">>
Rounds == <<"barrier", "barrier", "barrier">>

MCScenarios ==
  { Scenario("normal", Twice, <<"timedlock", "unlock">> \o Twice,
             <<"trylock", "unlock", "lock", "unlock">>, 2),
    Scenario("errorcheck", Nested, <<"timedlock", "unlock">> \o Twice, <<"trylock", "unlock">> \o Twice, 1),
    Scenario("csect", Nested, Twice, <<"unlock">> \o Nested, 0),
    Scenario("normal", Consume, ConsumeTimed,
             <<"lock", "put", "signal", "unlock", "lock", "put", "unlock", "signal">>, 1),
    Scenario("normal", Consume, Consume,
             <<"lock", "put", "put", "broadcast", "unlock">>, 0),
    Scenario("normal", Consume, ConsumeTimed,
             <<"lock", "put", "put", "unlock", "broadcast">>, 1),
    Scenario("normal", Rounds, Rounds, Rounds, 0),
    [Scenario("normal", <<"barrier">>, <<>>, <<>>, 0) EXCEPT !.height = 1] }

=============================================================================
