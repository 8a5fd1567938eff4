--------------------------- MODULE MCViewerLoader ---------------------------
EXTENDS ViewerLoader

\* One area that is seen is empty, and one the loader is led to astray is; a
\* search of an area after it takes two batches, so that a move may come in the
\* middle of the first of them.
MCBare == {<<1, 0>>, <<2, 1>>}
MCBatches == [a \in Areas |-> IF a[1] >= 2 THEN 1 ELSE 0]
=============================================================================
