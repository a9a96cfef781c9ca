-------------------------- MODULE MCSerialTransport --------------------------
(* Two sender threads; a small frame, one that fills most of a burst and   *)
(* one larger than the burst limit, so that every branch of doWrite()      *)
(* happens.  The limit is scaled from 64 bytes to 4.                       *)
EXTENDS SerialTransport, TLC

CONSTANTS core, io, small, big, huge

MCThreads == {core, io}
MCPackets == {small, big, huge}
MCSize == (small :> 2) @@ (big :> 3) @@ (huge :> 6)
=============================================================================
