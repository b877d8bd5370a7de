---------------------------- MODULE MCMultipart ----------------------------
(* Multipart for TLC: packets of three bytes, so parts of two, and a limit *)
(* that is a whole number of parts.                                        *)
EXTENDS Multipart

SizesToNine == 1 .. 9
=============================================================================
