-------------------------- MODULE MCGattPending --------------------------
(* One list for GattPending: the attributes are alike.                     *)
EXTENDS GattPending

OneList == {<<1, 2>>}
=============================================================================
