---------------------------- MODULE MCBridgeLink ----------------------------
(* Small instances of BridgeLink. *)
EXTENDS BridgeLink

EveryForm    == {"command", "malformed", "unreadable"}
CommandOnly  == {"command"}

=============================================================================
