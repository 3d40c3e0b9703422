------------------------------ MODULE MCGateway ------------------------------
(* Values of the constants of Gateway for TLC.                             *)
EXTENDS Gateway

MCDefault == <<"d">>
MCNpc == {<<"a">>, <<"d">>}
MCPart == {Blank, Malformed} \cup
          {[name |-> n, key |-> k] : n \in {<<"a">>, <<>>}, k \in {<<"k">>, <<"l">>, <<>>}} \cup
          {[name |-> <<"d">>, key |-> <<"k">>]}

\* A player id that contains what separates it from the npc id.
MCPlayer == {<<"p", ":", "d">>}

=============================================================================
