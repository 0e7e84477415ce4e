---------------------------- MODULE MCMessageCodec ----------------------------
(* Model-checking instance of MessageCodec: short byte strings, two        *)
(* metadata keys of different lengths, and corrupt key lengths on both     *)
(* sides of the 2^32 wrap.                                                 *)
EXTENDS MessageCodec

MCServicePaths == {<<97>>}
MCServiceMethods == {<<109, 110>>}
MCMetaKeys == {<<107>>, <<108, 108>>}
MCMetaValues == {<<>>, <<118>>}
MCPayloads == {<<>>, <<112, 113, 114, 115, 116, 117>>}
\* 2^32 - 1, which wraps n + sl, and 1000, which does not.
MCBadKeyLens == {[hi |-> 65535, lo |-> 65535], U32(1000)}
=============================================================================
