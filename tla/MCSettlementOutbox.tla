------------------------- MODULE MCSettlementOutbox -------------------------
(* Small instances of SettlementOutbox: a request on a master or on a second *)
(* node, next to outages, crashes and shutdowns; the cfg files differ in     *)
(* which of them happen.                                                     *)
EXTENDS SettlementOutbox
=============================================================================
