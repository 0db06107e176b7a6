---------------------------- MODULE MCCPUContext ----------------------------
(* CPUContext for TLC: the numbers of streams a caller may pass, a negative *)
(* one among them.                                                          *)
EXTENDS CPUContext

MCStreams == {-1, 0, 1, 3}

=============================================================================
