---------------------------- MODULE MCSerialLink ----------------------------
(* The serial port with lines up to, at and beyond a MAX_LINE of three.    *)
EXTENDS SerialLink

\* One that vanishes (4) and one that leaves its last character (5).
MCLines == <<1, 4, 5>>
MCCommands == <<2, 1>>
=============================================================================
