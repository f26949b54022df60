--------------------------- MODULE MCReadAssembly ---------------------------
EXTENDS ReadAssembly
\* An empty payload, one that shares a head buffer with others, one whose frame
\* just fills a head buffer of 6 bytes, one that is large and within a limit of
\* 5, and one that is large and beyond it.
MCPayloads == { << >>, <<1>>, <<2, 1, 3>>, <<3, 1, 2, 0, 1>>, <<1, 2, 3, 1, 2, 3>> }
\* A hash that the order of the bytes matters to.
MCSum32(payload) ==
  MapThenSumSet(LAMBDA i : i * payload[i], DOMAIN payload) % (2 * VintBase)
=============================================================================
