---------------------------- MODULE MCCompressor ----------------------------
EXTENDS Compressor

Elems == {"n1", "n2", "w1", "w2", "r1", "r2", "r3", "r4"}
MCIds == Elems \cup {"n9"}
MCEmpty == {"n1"}

\* r2 and r3 need each other, w2 a node that is not in the file; r4 and
\* r1 come before everything they need.
MCNeeds == [e \in Elems |->
              CASE e \in {"n1", "n2"} -> <<>>
                [] e = "w1" -> <<"n1", "n2">>
                [] e = "w2" -> <<"n1", "n9">>
                [] e = "r1" -> <<"w1", "n2">>
                [] e = "r2" -> <<"r3", "n2">>
                [] e = "r3" -> <<"w1", "r2">>
                [] e = "r4" -> <<"r1", "n1">>]

MCBlobs == <<<<"r4", "r1", "n1">>, <<"w1", "r2">>, <<"n2", "w2">>, <<"r3">>>>
=============================================================================
