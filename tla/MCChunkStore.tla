------------------------------ MODULE MCChunkStore ------------------------------
EXTENDS ChunkStore

CONSTANTS w1, w2, a, b

\* Two devices have numbered their chunks alike; a third upload overlaps in its
\* second chunk only.
Clashing ==
  {[ids |-> <<1, 2>>, bytes |-> <<a, b>>], [ids |-> <<1, 2>>, bytes |-> <<b, a>>],
   [ids |-> <<3, 2>>, bytes |-> <<b, b>>], [ids |-> <<4>>, bytes |-> <<a>>]}
===============================================================================
