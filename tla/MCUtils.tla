-------------------------------- MODULE MCUtils --------------------------------
(* Utils with five bytes of memory, and formats of up to four characters.   *)
EXTENDS Utils

CONSTANTS c1, c2, null

MCCallers    == {c1, c2}
MCBytes      == {0, 1, 200}
MCDelimiters == {{}, {1}, {1, 200}}
MCCodes      == {Percent, LetterC, LetterD, LetterS, 120}
MCFormats    == UNION {[1 .. n -> MCCodes] : n \in 0 .. 4}
MCNumbers    == {MinInt, -1, 7, 10}
MCStrings    == {<<>>, <<120, 121>>}
MCArguments  == {<<>>, <<1>>, <<2>>, <<2, 1, 1>>}
MCVectors    == UNION {[1 .. n -> MCArguments] : n \in 0 .. 4}
MCRoom       == {1, 2, 3, 6}
==============================================================================
