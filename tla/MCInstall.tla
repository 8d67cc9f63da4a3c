----------------------------- MODULE MCInstall -----------------------------
(***************************************************************************)
(* An EEPROM of two chips with two pages each, and files of every length,  *)
(* a full EEPROM included, that differ in every byte.                      *)
(***************************************************************************)
EXTENDS Install

MCByte     == 0 .. 2
MCContents == {[i \in 0 .. Size - 1 |-> 0]}
MCFiles    == {[i \in 1 .. n |-> 1 + ((i + k) % 2)] : n \in {1, 3, 4, 5, 7, 8}, k \in {0, 1}}

ASSUME MCFilesFit == FilesFit

=============================================================================
