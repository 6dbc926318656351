------------------------------ MODULE MCAudioHal ------------------------------
(* AudioHal for TLC: a playback, a capture and a control thread.           *)
EXTENDS AudioHal

CONSTANTS t1, t2, t3
MCThreads3 == {t1, t2, t3}

\* A plain device change, an SCO link beside the speaker, and the ignored
\* routing=0.
MCOutRoutes == {{"speaker"}, {"headset"}, {"speaker", "sco_carkit"}, {}}
MCInRoutes  == {{"mic"}, {"sco"}}
MCOrientations == {"landscape", "reverse"}
\* The rate of an SCO link: resampled over any other input.
MCInRates == {8000}
===============================================================================
