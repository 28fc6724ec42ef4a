-------------------------- MODULE MCFrameTransfer --------------------------
(* FrameTransfer with a screen of 4 bytes and packets that carry 2 or 3 of *)
(* them: two packets, the last one full or not.                            *)
EXTENDS FrameTransfer

MCPacketSizes  == {10, 11}
MCScreens      == {<<1, 1>>}
MCStrayNumbers == {-1, 1, 2}
MCStrayDims    == {<<0, 0>>, <<4, 3>>}

\* For the run that looks for one torn picture: one packet size, stray packets of one kind.
MCPacketSize  == {11}
MCStrayNumber == {2}
MCStrayDim    == {<<0, 0>>}

\* Bounds: what the daemon does after the phone crashed is not followed, and send threads
\* of earlier pairs are for the smaller packets only.
UntilCrash  == phone = "reads"
OthersSmall == others => packet_size = 10
=============================================================================
