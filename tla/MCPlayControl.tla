---------------------------- MODULE MCPlayControl ----------------------------
(* PlayControl with two of the three qualities: the one mQuality begins    *)
(* with and the one the daemon does.                                       *)
EXTENDS PlayControl

MCChoices == {Quality_FullHD, Quality_DVD}

=============================================================================
