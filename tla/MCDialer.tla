------------------------------ MODULE MCDialer ------------------------------
(* Small instances of Dialer.  Two streams make a partly registered session *)
(* possible; three session numbers let two old sessions linger at the      *)
(* server while a third is being set up.                                    *)
EXTENDS Dialer

ThreeSessions == 1 .. 3
=============================================================================
