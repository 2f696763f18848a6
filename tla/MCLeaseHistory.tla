---------------------------- MODULE MCLeaseHistory ----------------------------
(* Small instances of LeaseHistory for TLC.                                    *)
EXTENDS MCLeaseServer, LeaseHistory
===============================================================================
