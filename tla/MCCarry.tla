------------------------------ MODULE MCCarry ------------------------------
(***************************************************************************)
(* Small instances of Carry for TLC.                                       *)
(***************************************************************************)
EXTENDS Carry

CONSTANT x1

MCSubjects == {1}
MCRecords == {1, 2}
MCValues == {10, 20}
MCReaders == {x1}

=============================================================================
