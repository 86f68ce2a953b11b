---------------------------- MODULE MCLlamaModels -----------------------------
(* An embedder and two generators.                                          *)
EXTENDS LlamaModels

CONSTANTS embedder, generator1, generator2

MCEmbedders == {embedder}
MCGenerators == {generator1, generator2}

=============================================================================
