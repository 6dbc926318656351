-------------------------------- MODULE MCBoard -------------------------------
(* Board for TLC.                                                          *)
EXTENDS Board

\* A CPU without a table, and one with a frequency below and above each boost.
MCFreqFile == {<<>>, <<6, 11, 13>>}
\* What lies before an empty array.
MCGarbage   == {-1}
\* "Permission denied" and "No such file or directory".
MCErrorText == {<<0, 0>>, <<0, 0, 0, 0, 0>>}

\* The greys around the start of the squeezed range and its end.
MCGrey == {159, 160, 255}
MCHue  == {}

\* A key of 1024 bits with the exponent 65537, in bytes.
MCActual == [modulus |-> 128, exponent |-> 3]
===============================================================================
