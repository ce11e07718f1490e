-------------------------------- MODULE MCBuffer --------------------------------
(* Chunks of bytes for TLC. *)
EXTENDS Buffer

\* Nothing, one byte, two bytes.
SmallChunks == {<<>>, <<"x">>, <<"x", "y">>}

===============================================================================
