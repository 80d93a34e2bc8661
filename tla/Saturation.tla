------------------------------- MODULE Saturation -------------------------------
(* Arithmetic on unsigned integers the way the code writes it: min, max and   *)
(* saturating_sub.                                                            *)
EXTENDS Naturals

Least(a, b) == IF a <= b THEN a ELSE b
Most(a, b) == IF a <= b THEN b ELSE a
SaturatingSub(a, b) == IF b <= a THEN a - b ELSE 0
=============================================================================
