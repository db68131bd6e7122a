------------------------------ MODULE MCLoader ------------------------------
(***************************************************************************)
(* S-record files for the model checker: every kind of record the          *)
(* bootloader tells apart, records that overlap, and a file without bytes.  *)
(***************************************************************************)
EXTENDS Loader

Rec(type, addr, data) == [type |-> type, addr |-> addr, data |-> data]

SmallFiles == {
  <<Rec(0, 0, <<>>), Rec(1, 6, <<18, 171>>), Rec(9, 6, <<>>)>>,
  <<Rec(2, 7, <<1, 2>>), Rec(3, 8, <<240>>), Rec(8, 7, <<>>)>>,
  <<Rec(7, 16, <<>>)>>}
=============================================================================
