------------------------------ MODULE MCIpogMaps ------------------------------
(* The instance of the IPOG job with its coverage maps for model checking. *)
EXTENDS MCIpog, IpogMaps
===============================================================================
