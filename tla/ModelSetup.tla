------------------------------ MODULE ModelSetup ------------------------------
\* How a command comes to an embedder: internal/lifecycle looks for Ollama, starts
\* it and pulls the model; internal/embed chooses among the models it lists. The
\* callers are the setup command, init, and whoever calls EnsureReady; they may
\* run at the same time. The server and its models are outside: it may stop, and
\* its user may remove or add models.
EXTENDS Naturals, Sequences, SequencesExt, FiniteSets, FiniteSetsExt

CONSTANTS Command,    \* what runs: a subset of {"setup", "init", "ensure"}
          Tags,       \* tags of models
          MaxUpsets   \* bound on what happens to the server from outside

ASSUME SetupAssumption == Command \subseteq {"setup", "init", "ensure"} /\ MaxUpsets \in Nat

VARIABLES server,   \* "absent", "stopped", "starting", "running"
          models,   \* what it lists, in order
          command,  \* where each caller is
          env,      \* AMANMCP_EMBEDDER
          upsets,
          doubts    \* what happened that may leave a caller with less than it thinks

setupVars == <<server, models, command, env, upsets, doubts>>

Model(base, tag) == [base |-> base, tag |-> tag]
DefaultModel   == Model("qwen", "small")
FallbackModels == <<Model("nomic", "")>>
AnyModel       == {"qwen", "nomic", "llama"} \X Tags
None           == Model("none", "")

\* HasModel: any tag of the name will do.
HasModel(model) == \E i \in DOMAIN models : models[i].base = model.base

\* The first model listed of a name.
FirstOf(listed, base) ==
    LET of == {i \in DOMAIN listed : listed[i].base = base}
    IN  IF of = {} THEN None ELSE listed[Min(of)]

\* findAvailableModel: the model itself, then one of its name; the fallbacks likewise.
FindAvailableModel(listed, wanted) ==
    LET names == <<wanted>> \o FallbackModels
        there == {i \in DOMAIN names : FirstOf(listed, names[i].base) /= None}
    IN  IF there = {} THEN None
        ELSE IF Contains(listed, names[Min(there)]) THEN names[Min(there)] ELSE FirstOf(listed, names[Min(there)].base)

\* newOllamaWithFallback: the environment's model, else the configuration's if it
\* has a tag, else the default; a name without a tag is ignored.
ConfiguredModel(override, config) ==
    IF override /= None THEN override ELSE IF config /= None /\ config.tag /= "" THEN config ELSE DefaultModel

\* NewEmbedder and ParseProvider: the environment first, then the configuration;
\* any other name means ollama.
Provider(override, config) ==
    IF override \in {"ollama", "mlx", "static"} THEN override ELSE IF config \in {"mlx", "static"} THEN config ELSE "ollama"

-----------------------------------------------------------------------------

SetupInit ==
    /\ server \in {"absent", "stopped", "running"}
    /\ models \in {<<>>} \cup {<<Model(m[1], m[2])>> : m \in AnyModel}
                   \cup {<<Model("qwen", "large"), DefaultModel>>, <<Model("llama", "small"), Model("nomic", "large")>>}
    /\ command = [c \in Command |-> "begin"]
    /\ env \in {"", "static", "mlx"}
    /\ upsets = 0 /\ doubts = IF env = "" THEN {} ELSE {"env"}

Goto(c, at) == command' = [command EXCEPT ![c] = at]

\* A caller fails; a user of init may choose to go on offline.
GiveUp(c) == Goto(c, "failed") \/ (c = "init" /\ Goto(c, "offline"))

\* Status, where the server answers: whether it runs, and lists no such model.
Running     == server = "running"
LacksModel  == Running /\ ~HasModel(DefaultModel)

\* Where a caller whose server runs goes: setup tries an embedder first, init
\* believes the status.
Finish(c) == IF c = "setup" THEN "verify" ELSE "ready"
AfterStatus(c) == IF LacksModel THEN "pull" ELSE Finish(c)

\* runSetup, ensureEmbedderReady and EnsureReady begin.
Look(c) ==
    /\ command[c] = "begin"
    /\ IF server = "absent"
       THEN GiveUp(c)
       ELSE Goto(c, IF ~Running THEN "start" ELSE IF c = "ensure" THEN "model" ELSE AfterStatus(c))
    /\ UNCHANGED <<server, models, env, upsets, doubts>>

\* ... and a status that fails: it is passed over, whatever the server does.
LookInVain(c) ==
    /\ command[c] \in {"begin", "again"} /\ c /= "ensure" /\ Running
    /\ Goto(c, Finish(c))
    /\ doubts' = doubts \cup {"status"}
    /\ UNCHANGED <<server, models, env, upsets>>

\* Start: through the system or the program itself; it may not come up.
StartOllama(c) ==
    /\ command[c] = "start"
    /\ \/ /\ server' = IF server = "stopped" THEN "starting" ELSE server
          /\ Goto(c, "wait")
       \/ /\ server = "stopped"
          /\ GiveUp(c)
          /\ UNCHANGED server
    /\ UNCHANGED <<models, env, upsets, doubts>>

\* WaitForReady: polled until it answers, or for so long.
WaitForReady(c) ==
    /\ command[c] = "wait"
    /\ \/ Running /\ Goto(c, IF c = "ensure" THEN "model" ELSE "again")
       \/ ~Running /\ GiveUp(c)
    /\ UNCHANGED <<server, models, env, upsets, doubts>>

\* The status is asked for again once the server is up.
AskAgain(c) ==
    /\ command[c] = "again"
    /\ Goto(c, AfterStatus(c))
    /\ UNCHANGED <<server, models, env, upsets, doubts>>

\* EnsureReady asks for the model itself, and fails where it gets no answer.
AskForModel(c) ==
    /\ command[c] = "model"
    /\ Goto(c, IF ~Running THEN "failed" ELSE IF HasModel(DefaultModel) THEN "ready" ELSE "pull")
    /\ UNCHANGED <<server, models, env, upsets, doubts>>

\* PullModel: a model that is there by now is not pulled; the stream is read to
\* its end, and what it says is not looked at.
Pull(c) ==
    /\ command[c] = "pull"
    /\ \/ /\ Running /\ ~LacksModel /\ Goto(c, Finish(c))
          /\ UNCHANGED <<models, doubts>>
       \/ /\ LacksModel /\ Goto(c, Finish(c))
          /\ \/ models' = Append(models, DefaultModel) /\ UNCHANGED doubts
             \/ doubts' = doubts \cup {"pull"} /\ UNCHANGED models
       \/ /\ GiveUp(c)
          /\ UNCHANGED <<models, doubts>>
    /\ UNCHANGED <<server, env, upsets>>

\* NewEmbedder, which setup ends with: a model is found and asked for a vector.
Verify(c) ==
    /\ command[c] = "verify" /\ Provider(env, "ollama") = "ollama"
    /\ LET found == FindAvailableModel(models, ConfiguredModel(None, None))
       IN  \/ Running /\ found /= None /\ Goto(c, "ready")
           \/ Goto(c, "failed")
    /\ UNCHANGED <<server, models, env, upsets, doubts>>

\* ... where the environment names another provider: static vectors always work,
\* the MLX server may be healthy or not.
VerifyOther(c) ==
    /\ command[c] = "verify" /\ Provider(env, "ollama") /= "ollama"
    /\ Goto(c, "ready") \/ (env = "mlx" /\ Goto(c, "failed"))
    /\ UNCHANGED <<server, models, env, upsets, doubts>>

\* The server comes up, or does not; it stops, a model is removed or added.
ServerAnswers ==
    /\ server = "starting"
    /\ server' \in {"running", "stopped"}
    /\ UNCHANGED <<models, command, env, upsets, doubts>>

Upset ==
    /\ upsets < MaxUpsets /\ upsets' = upsets + 1
    /\ \/ /\ server = "running" /\ server' = "stopped"
          /\ UNCHANGED models
       \/ /\ models /= <<>> /\ models' = Tail(models)
          /\ UNCHANGED server
       \/ /\ \E m \in AnyModel : ~Contains(models, Model(m[1], m[2])) /\ models' = <<Model(m[1], m[2])>> \o models
          /\ UNCHANGED server
    /\ doubts' = IF server' = server /\ Len(models') > Len(models) THEN doubts ELSE doubts \cup {"upset"}
    /\ UNCHANGED <<command, env>>

SetupNext ==
    \/ \E c \in Command : \/ Look(c) \/ LookInVain(c) \/ StartOllama(c) \/ WaitForReady(c) \/ AskAgain(c)
                         \/ AskForModel(c) \/ Pull(c) \/ Verify(c) \/ VerifyOther(c)
    \/ ServerAnswers \/ Upset

SetupSpec == SetupInit /\ [][SetupNext]_setupVars

-----------------------------------------------------------------------------

\* Whoever is told that the embedder is ready can make one, and of the model asked
\* for where that is installed, else of one of its name (setup.go:58-210,
\* init.go:635-712, ollama.go:507-592): unless the server stopped, a model went, a
\* status failed, a pull ended early, or the environment names another provider.
ReadyMeansUsable ==
    \A c \in Command : command[c] = "ready" /\ doubts = {} =>
        /\ Running
        /\ LET found == FindAvailableModel(models, DefaultModel)
           IN  found.base = DefaultModel.base /\ (Contains(models, DefaultModel) => found = DefaultModel)
=============================================================================
