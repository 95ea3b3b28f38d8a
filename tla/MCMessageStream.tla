--------------------------- MODULE MCMessageStream ---------------------------
(* MessageStream with requests of one key, whose name stands for info_hash or  *)
(* left, and characters of one and of two bytes.                               *)
EXTENDS MessageStream

MCRequest == {[dict |-> <<<<Key(104), StrOf(<<200, 101>>)>>>>],
              [dict |-> <<<<Key(108), IntOf(10)>>>>],
              [dict |-> <<<<Key(108), IntOf(WrappedInt)>>>>]}
MCPeerId == <<233>>
=============================================================================
