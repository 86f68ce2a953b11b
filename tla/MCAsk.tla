-------------------------------- MODULE MCAsk ---------------------------------
(* A prompt may have any number of tokens: tokenizers merge across the text  *)
(* boundaries, so a longer text need not have more.                          *)
EXTENDS Ask

MCPrompts == [0..MaxChunks -> 0..MaxTokens]

=============================================================================
