----------------------------- MODULE MCImuLink -----------------------------
(* A negative speed outside the range of the register, and its largest one. *)
EXTENDS ImuLink

MCSpeed == {-3, 2}
MCOneSpeed == {2}
=============================================================================
