----------------------------- MODULE MCZfinScan -----------------------------
(***************************************************************************)
(* ZfinScan on a string with the shape of the real one: a star that occurs *)
(* once, then letters that repeat.                                         *)
(***************************************************************************)
EXTENDS ZfinScan

MCByte == {"*", "0", "d", "O"}
MCZFIN == <<"*", "0", "0", "d">>
=============================================================================
