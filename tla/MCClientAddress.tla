--------------------------- MODULE MCClientAddress ----------------------------
(* Small instances of the client address.                                  *)
EXTENDS ClientAddress

CONSTANTS p1, p2

\* No list, one machine, both by their IPs, both by a CIDR block.
Lists == {{}, {{p1}}, {{p1}, {p2}}, {{p1, p2}}}
===============================================================================
