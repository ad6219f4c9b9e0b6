------------------------------ MODULE MCHx711 -------------------------------
(* Values for the constants of Hx711: readings of 4 bits, a long of 8. *)
EXTENDS Hx711

MCRawValues == {1, 6, 14}
MCGains == {64}
=============================================================================
