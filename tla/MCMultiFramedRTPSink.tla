----------------------- MODULE MCMultiFramedRTPSink -----------------------
EXTENDS MultiFramedRTPSink

Format(special, specific, fragmentsAfterStart, othersAfterLast, canFollow) ==
  [special |-> special, specific |-> specific, fragmentsAfterStart |-> fragmentsAfterStart,
   othersAfterLast |-> othersAfterLast, canFollow |-> canFollow]

MCFormats ==
  { Format(0, 0, FALSE, FALSE, {TRUE}),    \* the class's own answers
    Format(1, 0, FALSE, FALSE, {FALSE}),   \* AC3: one frame in a packet
    Format(1, 0, TRUE, FALSE, BOOLEAN),    \* MPEG1or2Video, MPEG4ESVideo
    Format(1, 1, FALSE, FALSE, {TRUE}) }   \* Vorbis
=============================================================================
