----------------------------- MODULE MCPortList -----------------------------
(***************************************************************************)
(* An instance of PortList for TLC: COM10 begins with COM1, and there is   *)
(* room for two of the three ports.                                        *)
(***************************************************************************)
EXTENDS PortList

CONSTANTS COM1, COM10, COM2

ComPorts == {COM1, COM10, COM2}
ComBegins == {<<n, n>> : n \in ComPorts} \cup {<<COM10, COM1>>}

=============================================================================
