---------------------------- MODULE MCMotorDriver ----------------------------
(* A motor with a short way and a loop that may take two or three ms.      *)
EXTENDS MotorDriver

\* Half ms: both truncations towards zero, the start and the ends.
MCRequests == {-5, -4, 0, 3, 8}
MCLowest == -3
=============================================================================
