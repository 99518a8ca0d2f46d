------------------------ MODULE MCNativeDiagnostics -------------------------
(* A ring of one slot, so that two events go round it.                     *)
EXTENDS NativeDiagnostics

MCSamplings == {<< 1, 0 >>}

=============================================================================
