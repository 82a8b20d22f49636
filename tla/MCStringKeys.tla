---------------------------- MODULE MCStringKeys ----------------------------
\* Small instances of StringKeys.
EXTENDS StringKeys

\* Keys of one length.
MC_Same == BoundedSeq({1, 2, 3}, 2) \ BoundedSeq({1, 2, 3}, 1)

\* Keys of two lengths.
MC_Mixed == BoundedSeq({1, 2}, 2) \ {<<>>}
=============================================================================
