------------------------------ MODULE LlamaModels ------------------------------
(***************************************************************************)
(* The life of the embedders and generators that share llama.cpp's         *)
(* process-wide backend: LlamaBackendGuard (src/src/llama_backend.hpp),    *)
(* and the constructors and destructors of LlamaEmbedder::Impl and         *)
(* LlamaGenerator::Impl, which hold a guard, a model and a context.        *)
(*                                                                         *)
(* Each object is built, used and destroyed by a thread of its own: what   *)
(* one thread does with several objects is an interleaving of theirs.      *)
(***************************************************************************)
EXTENDS Integers, FiniteSets

CONSTANTS
    Embedders,  \* the LlamaEmbedder objects
    Generators, \* the LlamaGenerator objects
    Nobody      \* holds the mutex when no object does

Objects == Embedders \cup Generators

ASSUME ModelsAssumption ==
    /\ IsFiniteSet(Objects)
    /\ Nobody \notin Objects

VARIABLES
    stage,      \* where each object is in its life
    mutex,      \* shared().mutex: the object whose guard has locked it, or Nobody
    references, \* shared().references
    backend,    \* llama_backend_init calls that no llama_backend_free has undone
    models,     \* the objects whose model is loaded
    contexts    \* the objects whose context exists

modelsVars == <<stage, mutex, references, backend, models, contexts>>

At(o, s) == stage[o] = s
Goto(o, s) == stage' = [stage EXCEPT ![o] = s]

------------------------------------------------------------------------------
ModelsInit ==
    /\ stage = [o \in Objects |-> "absent"]
    /\ mutex = Nobody
    /\ references = 0
    /\ backend = 0
    /\ models = {}
    /\ contexts = {}

\* Mutant of Lock: the mutex is not waited for.
LockAnyway(o, from, to) ==
    /\ At(o, from)
    /\ mutex' = o
    /\ Goto(o, to)
    /\ UNCHANGED <<references, backend, models, contexts>>

\* std::lock_guard, when an object that is at from gets the mutex.
Lock(o, from, to) ==
    /\ At(o, from) /\ mutex = Nobody
    /\ mutex' = o
    /\ Goto(o, to)
    /\ UNCHANGED <<references, backend, models, contexts>>

(* LlamaBackendGuard(), the first member that an Impl constructs.          *)

EnterGuard(o) == Lock(o, "absent", "entering")

\* The first guard initialises the backend.
InitBackend(o) ==
    /\ At(o, "entering")
    /\ backend' = IF references = 0 THEN backend + 1 ELSE backend
    /\ Goto(o, "counting")
    /\ UNCHANGED <<mutex, references, models, contexts>>

CountGuard(o) ==
    /\ At(o, "counting")
    /\ references' = references + 1
    /\ mutex' = Nobody
    /\ Goto(o, "guarded")
    /\ UNCHANGED <<backend, models, contexts>>

(* The body of the constructor.                                            *)

\* LlamaGenerator::Impl refuses its options or finds no model file, or either
\* one cannot load the model: it throws, and only the guard is destroyed.
LoadModelFails(o) ==
    /\ At(o, "guarded")
    /\ Goto(o, "unguarded")
    /\ UNCHANGED <<mutex, references, backend, models, contexts>>

LoadModel(o) ==
    /\ At(o, "guarded")
    /\ models' = models \cup {o}
    /\ Goto(o, "loaded")
    /\ UNCHANGED <<mutex, references, backend, contexts>>

CreateContext(o) ==
    /\ At(o, "loaded")
    /\ contexts' = contexts \cup {o}
    /\ Goto(o, IF o \in Embedders THEN "checking" ELSE "ready")
    /\ UNCHANGED <<mutex, references, backend, models>>

\* Mutant of CreateContextFails: the model is left to a destructor that an
\* object whose constructor throws does not run.
LeaveModel(o) ==
    /\ At(o, "loaded")
    /\ Goto(o, "unguarded")
    /\ UNCHANGED <<mutex, references, backend, models, contexts>>

\* No context: the model is freed before the throw destroys the guard.
CreateContextFails(o) ==
    /\ At(o, "loaded")
    /\ models' = models \ {o}
    /\ Goto(o, "unguarded")
    /\ UNCHANGED <<mutex, references, backend, contexts>>

\* An embedder's model has dimensions, and a pooling type.
AcceptModel(o) ==
    /\ At(o, "checking")
    /\ Goto(o, "ready")
    /\ UNCHANGED <<mutex, references, backend, models, contexts>>

\* It has not: the context is freed, the model is, and the constructor throws.
RejectModel(o) ==
    /\ At(o, "checking")
    /\ contexts' = contexts \ {o}
    /\ models' = models \ {o}
    /\ Goto(o, "unguarded")
    /\ UNCHANGED <<mutex, references, backend>>

(* ~Impl(), then ~LlamaBackendGuard(), whose member is destroyed last.     *)

FreeContext(o) ==
    /\ At(o, "ready")
    /\ contexts' = contexts \ {o}
    /\ Goto(o, "contextFreed")
    /\ UNCHANGED <<mutex, references, backend, models>>

FreeModel(o) ==
    /\ At(o, "contextFreed")
    /\ models' = models \ {o}
    /\ Goto(o, "unguarded")
    /\ UNCHANGED <<mutex, references, backend, contexts>>

LeaveGuard(o) == Lock(o, "unguarded", "leaving")

\* Mutant of UncountGuard: the backend is freed while one guard is left.
FreeEarly(o) ==
    /\ At(o, "leaving")
    /\ references' = references - 1
    /\ backend' = IF references' <= 1 THEN backend - 1 ELSE backend
    /\ mutex' = Nobody
    /\ Goto(o, "absent")
    /\ UNCHANGED <<models, contexts>>

\* The last guard frees the backend.
UncountGuard(o) ==
    /\ At(o, "leaving")
    /\ references' = references - 1
    /\ backend' = IF references' = 0 THEN backend - 1 ELSE backend
    /\ mutex' = Nobody
    /\ Goto(o, "absent")
    /\ UNCHANGED <<models, contexts>>

Construct(o) ==
    \/ EnterGuard(o) \/ InitBackend(o) \/ CountGuard(o)
    \/ LoadModelFails(o) \/ LoadModel(o) \/ CreateContext(o) \/ CreateContextFails(o)
    \/ AcceptModel(o) \/ RejectModel(o)

Destroy(o) == FreeContext(o) \/ FreeModel(o) \/ LeaveGuard(o) \/ UncountGuard(o)

ModelsNext == \E o \in Objects : Construct(o) \/ Destroy(o)

ModelsSpec == ModelsInit /\ [][ModelsNext]_modelsVars

------------------------------------------------------------------------------
(* Properties                                                              *)

Stage == {"absent", "entering", "counting", "guarded", "loaded", "checking", "ready",
          "contextFreed", "unguarded", "leaving"}

\* Every variable keeps its type.
ModelsTypeOK ==
    /\ stage \in [Objects -> Stage]
    /\ mutex \in Objects \cup {Nobody}
    /\ references \in 0..Cardinality(Objects)
    /\ backend \in Nat
    /\ models \subseteq Objects
    /\ contexts \subseteq Objects

\* The objects whose guard has been counted, and not yet uncounted.
Guarded == {o \in Objects : stage[o] \notin {"absent", "entering", "counting"}}

\* "The backend must outlive every model and context built on top of it": while
\* any object holds one, the backend is initialised, whatever the others do.
BackendOutlivesModels == models \cup contexts # {} => backend > 0

\* Between two critical sections the count is that of the live guards, and the
\* backend has been initialised exactly once if there is one, else not at all.
BackendFollowsTheCount ==
    mutex = Nobody => /\ references = Cardinality(Guarded)
                      /\ backend = IF references > 0 THEN 1 ELSE 0

\* An object that is gone, or never came to be, has left neither a model nor a
\* context behind, and no context outlives the model it was made from.
NothingLeaks ==
    /\ \A o \in models : stage[o] \in {"loaded", "checking", "ready", "contextFreed"}
    /\ contexts \subseteq models
=============================================================================
