----------------------------- MODULE MCMetadata -----------------------------
(* Metadata with words of six bits and small structures for TLC.           *)
EXTENDS Metadata

MCTypes == {"unknown", "imu", "user"}
MCCounts == 0 .. 3
MCImuWords == {0, 4, 5, 8, 11, 44, 63}
=============================================================================
