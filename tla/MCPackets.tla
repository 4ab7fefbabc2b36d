------------------------------- MODULE MCPackets -------------------------------
(***************************************************************************)
(* A small instance of Packets: a byte has two bits and a uint16_t four.   *)
(***************************************************************************)
EXTENDS Packets

MCPorts == {0, 6, 14, 15}

MCMatchIds == {0, 6, 9, 14, 15}

MCTimes == {0, 1, 170, 254, 255}

MCIntents == 0 .. 4

MCNames == {<<>>, <<0>>, <<2, 1>>, <<3, 3>>, <<1, 1, 1, 1, 1, 1>>}

Player(id, name, port) == [playerId |-> id, name |-> name, addr |-> 16 * port, port |-> port]

MCConns ==
    {<<Player(0, n, p), Player(1, m, 14)>> : n, m \in {n \in MCNames : Len(n) < 6}, p \in MCPorts}
===============================================================================
