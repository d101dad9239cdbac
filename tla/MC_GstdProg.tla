---------------------------- MODULE MC_GstdProg -----------------------------
(* gstd's create_program over a two-byte guest memory, so that a payload  *)
(* can be longer than MaxPayload and pointers can alias or differ.         *)
EXTENDS GstdProg

CONSTANTS a, b

MCBadUtf8 == {b}
MCPayload == <<a>>
MCArgs32 == {-1, 0, 1}
MCArgs64 == {-1, 3}
MCExitCodes == {-1}

=============================================================================
