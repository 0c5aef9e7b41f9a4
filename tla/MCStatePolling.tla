--------------------------- MODULE MCStatePolling ---------------------------
(***************************************************************************)
(* An instance of StatePolling for TLC.                                    *)
(***************************************************************************)
EXTENDS StatePolling

OneMarket == <<"m1">>
=============================================================================
