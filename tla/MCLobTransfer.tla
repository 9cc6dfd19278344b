---------------------------- MODULE MCLobTransfer ---------------------------
(* One LOB for TLC: see the .cfg file.                                       *)
EXTENDS LobTransfer
=============================================================================
