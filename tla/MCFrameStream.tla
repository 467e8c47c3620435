--------------------------- MODULE MCFrameStream ---------------------------
(***************************************************************************)
(* Messages whose headers have two, four, six and eight bytes, in orders   *)
(* that put every cut of a piece into every part of a message.             *)
(***************************************************************************)
EXTENDS FrameStream

M(n, key) == [payload |-> [i \in 1..n |-> (3 * i) % 256], key |-> key]
Plain(n) == M(n, <<>>)
Masked(n) == M(n, <<7, 11, 13, 17>>)

AllInputs ==
    { <<Plain(3), Masked(5), Plain(0), Masked(2)>>,
      <<Masked(0), Plain(1), Plain(1), Masked(9)>>,
      <<Plain(2), Plain(126), Masked(1)>>,
      <<Masked(127), Plain(0)>> }
=============================================================================
