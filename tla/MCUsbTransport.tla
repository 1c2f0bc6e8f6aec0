--------------------------- MODULE MCUsbTransport ---------------------------
(* Instances of UsbTransport for TLC.                                      *)
EXTENDS UsbTransport

SmallPayloads == {0, 1, 3}
SmallParams == {0, 1}
OneCommand == {<<0>>}
SmallOuts == {<<1>>, <<0, 3>>}
NoAsk == {}
AskThree == {3}
=============================================================================
