----------------------------- MODULE MCZrqScan -----------------------------
(***************************************************************************)
(* ZrqScan on packets that cut every sequence it knows at every place:     *)
(* single bytes, as typed, and the pieces a program's output comes in.     *)
(***************************************************************************)
EXTENDS ZrqScan

MCByte == {"r", "z", "CR", "NL", "*", "ZDLE", "B", "0"}

MCTyped == {<<c>> : c \in {"r", "*", "ZDLE", "0"}}

MCPrinted == {<<"r", "z">>, <<"r", "z", "CR">>, <<"r", "z", "CR", "NL">>, <<"*", "*">>, <<"*", "ZDLE">>,
              <<"*", "*", "ZDLE", "B">>, <<"B", "0", "0">>,
              <<"*", "ZDLE", "B", "0", "0", "r">>, <<"r", "z", "NL", "*", "ZDLE", "B">>}

MCPackets == MCTyped \union MCPrinted
=============================================================================
