----------------------------- MODULE MCPrograms -----------------------------
(***************************************************************************)
(* The smaller programs for TLC: three lines of one or two bytes typed, a  *)
(* buffer of two bytes and a pipe of three, one message heard, three runs  *)
(* of the semaphore programs, two browsers, screens and pictures up to     *)
(* 4 x 4 with ints of seven bits.  A picture 43 wide has a row of 129      *)
(* bytes, which wraps to 4.                                                *)
(***************************************************************************)
EXTENDS Programs

CONSTANTS b1, b2
MCBrowsers == {b1, b2}
MCSides == {-3, 0, 1, 3, 4, 43}
MCScreenSides == {1, 3, 4}
=============================================================================
