------------------------- MODULE MCBlueGreenRouting -------------------------
(* Small instances of BlueGreenRouting for TLC. *)
EXTENDS BlueGreenRouting

MCEndpoint == [r \in Roles |-> IF r = "SOURCE" THEN "blue" ELSE "green"]
MCReaderEndpoint == [r \in Roles |-> IF r = "SOURCE" THEN "blue-ro" ELSE "green-ro"]
MCInstances ==
    [r \in Roles |-> IF r = "SOURCE" THEN [writer |-> "b1", readers |-> <<"b2">>]
                     ELSE [writer |-> "g1", readers |-> <<"g2">>]]
MCRequested == {"b1", "g1"}

=============================================================================
