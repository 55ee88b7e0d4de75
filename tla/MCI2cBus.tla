------------------------------ MODULE MCI2cBus ------------------------------
(* Two shapes: the commands of the first fill the last command word, those *)
(* of the second do not.                                                  *)
EXTENDS I2cBus

TwoShapes == {<<2, 0>>, <<1, 2>>}
=============================================================================
