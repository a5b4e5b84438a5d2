-------------------------- MODULE MCNdjsonFlatten --------------------------
(* Small instances of NdjsonFlatten: all streams of up to MaxLines lines.   *)
EXTENDS NdjsonFlatten

CONSTANT MaxLines     (* bound: the lines of a stream *)

LOCAL Line0(kind, records) == [kind |-> kind, records |-> records]

MCLines ==
  {Line0(kind, <<>>) : kind \in {"blank", "invalid", "unreadable"}}
  \cup {Line0("json", records) :
         records \in {<<"row", "row">>, <<"failed", "row">>, <<"badRow">>, <<>>}}

MCInputs == UNION {[1 .. n -> MCLines] : n \in 0 .. MaxLines}

============================================================================
