--------------------------- MODULE MCSrtpSessions ---------------------------
EXTENDS SrtpSessions

\* The byte order of a little-endian machine on two values that are each other's
\* octets in reverse.
Swap == (1 :> 2) @@ (2 :> 1)
=============================================================================
