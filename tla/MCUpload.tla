------------------------------ MODULE MCUpload ------------------------------
(***************************************************************************)
(* Uploads of all files of at most three pieces, in parts with one to      *)
(* three headers, alone or before a second part.                           *)
(***************************************************************************)
EXTENDS Upload

MCPayloads == BoundedSeq(Lines \cup Bytes, 3)

SecondPart == <<"delim", "header", "header", "blank", "crlf">>
MCTails    == {<<>>, SecondPart}
=============================================================================
