---------------------------- MODULE ApiProcessMC ----------------------------
(* Small instances of ApiProcess for TLC.                                  *)
EXTENDS ApiProcess

ExactIds == {<<c, c>> : c \in Consumer}

=============================================================================
