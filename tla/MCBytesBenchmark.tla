--------------------------- MODULE MCBytesBenchmark ---------------------------
\* The three tiers of enterprise_bytes_talker.cpp, and profiles that are none of
\* them: one that is cut to 3 chunks of 256 bytes, an odd size in one chunk, and one
\* with more chunks than bytes.  All start their last chunk at a multiple of 256.
EXTENDS BytesBenchmark

MCProfiles == {<<3145728, 1>>, <<1048576, 64>>, <<2048, 1>>, <<770, 3>>, <<1000, 1>>, <<2, 257>>}
===============================================================================
