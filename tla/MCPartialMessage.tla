-------------------------- MODULE MCPartialMessage --------------------------
(***************************************************************************)
(* The lengths around every limit, with and without a key.                 *)
(***************************************************************************)
EXTENDS PartialMessage

AllLengths == (0..11) \cup {124, 125, 126, 127, 128, 255, 256, 65534, 65535, 65536, 65537,
                            2147483000}
AllKeys == {<<>>, <<1, 2, 4, 8>>, <<255, 0, 170, 93>>}
=============================================================================
