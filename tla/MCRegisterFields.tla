-------------------------- MODULE MCRegisterFields --------------------------
(***************************************************************************)
(* Inputs for TLC: every other bit, all bits, and single bits at the ends  *)
(* of the fields that hold addresses.                                      *)
(***************************************************************************)
EXTENDS RegisterFields

MCReadWord == {Bit, {i \in Bit : i % 2 = 0}, {i \in Bit : i % 2 = 1}}

MCGivenAddress == {{}, {1}, {12}, {21}, {30}, {47}, 12 .. 47, Bit}
=============================================================================
