---------------------------- MODULE MCEosRemote ----------------------------
(* One other thread; one or two white balance modes. *)
EXTENDS EosRemote, TLC

CONSTANTS Poller
MCPollers == {Poller}
MCKinds == {"EOS", "ML_BMP", "ML", "NONE"}
OneMode == {1}
MCModes == {1, 2}
=============================================================================
