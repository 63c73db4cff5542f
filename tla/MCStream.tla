------------------------------ MODULE MCStream ------------------------------
(* Instances of Stream: INT_MAX is 15, so that 5 * frameCount fits (1,     *)
(* 2), becomes negative (4) or small (7); an input whose data stream comes *)
(* before a media stream, and streams of both kinds that appear later.     *)
EXTENDS Stream

MCCounts == {-1, 0, 1, 2, 4, 7}
MCSegments == {0, 1, 2}
MCInputs == {<<"media">>, <<"data", "media">>, <<>>}
MCLate == <<"media", "data">>
=============================================================================
