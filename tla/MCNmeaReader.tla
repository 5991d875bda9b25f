--------------------------- MODULE MCNmeaReader ----------------------------
(* Line ends and headers for the configurations of NmeaReader.tla.         *)
EXTENDS NmeaReader

CRLF == <<"cr", "lf">>
LF   == <<"lf">>

Times == [i \in 1 .. MaxLines |-> <<"field", "last", "none">>[((i - 1) % 3) + 1]]
=============================================================================
