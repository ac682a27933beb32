-------------------------------- MODULE MCPipe --------------------------------
(* A pipe of two bytes whose counters wrap at 4, so that calls of three    *)
(* bytes block half way and the writes make the counters wrap.             *)
EXTENDS Pipe
=============================================================================
