--------------------------- MODULE MCHostedUpload ---------------------------
(* Two files, of which the first may get a copy in each account, for TLC.    *)
EXTENDS HostedUpload, TLC

CONSTANTS i1, i2, a1, a2

MCRoutes == (i1 :> {{a1, a2}}) @@ (i2 :> {{}, {a2}})
=============================================================================
