SPECIFICATION ModelsSpec
CONSTANTS
    Nobody = Nobody
    embedder = embedder
    generator1 = generator1
    generator2 = generator2
    Embedders <- MCEmbedders
    Generators <- MCGenerators
INVARIANTS BackendOutlivesModels BackendFollowsTheCount NothingLeaks
