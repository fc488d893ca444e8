----------------------------- MODULE MCMicrophone -----------------------------
(* Instances of Microphone, in units of 160 bytes: a buffer of             *)
(* DMA_BUF_SIZE frames has 12, 50 ms have 5 at 8 kHz, 10 at 16 kHz.        *)
EXTENDS Microphone

NarrowAndWideBand ==
  [c \in {"CVSD", "MSBC"} |-> IF c = "CVSD" THEN 5 ELSE 10]
=============================================================================
