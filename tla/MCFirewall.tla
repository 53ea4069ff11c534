----------------------------- MODULE MCFirewall -----------------------------
(***************************************************************************)
(* An instance of Firewall for TLC: one request of each script.  The login *)
(* and the order pass the gateway's authentication, the placeholder does   *)
(* not.                                                                    *)
(***************************************************************************)
EXTENDS Firewall

DemoPlan == Stuffing(1, 2) \o Abuse(1, TRUE) \o <<BrowseOrders>>
=============================================================================
