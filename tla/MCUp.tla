-------------------------------- MODULE MCUp --------------------------------
(* What an up rests on and leads to, one part at a time: the values of the     *)
(* provider's options with the graph they are resolved over, the features of  *)
(* the image, the dev container with its setup, and the tasks of a platform   *)
(* workspace.  The parts that are not looked at take no steps.                *)
EXTENDS OptionsResolver, Features, DevContainer, PlatformTasks, TLC

CONSTANTS u1, u2, n1, n2, n3, n4

VARIABLE part   \* the part that is looked at

upVars == <<part, resolverVars, graphVars, featureVars, devVars, taskVars>>

Opt(from, deps, global, own) ==
    [source |-> from, deps |-> deps, alias |-> FALSE, required |-> FALSE, global |-> global,
     local |-> own, cached |-> FALSE, valid |-> {}, sub |-> FALSE]

\* An option with sub options, an alias of it, a cached command with both as parents and
\* a local option.
MCStatic ==
    [top |-> [Opt("none", <<>>, TRUE, FALSE) EXCEPT !.required = TRUE, !.sub = TRUE, !.valid = {u1, u2}],
     alias |-> [Opt("default", <<"top">>, TRUE, FALSE) EXCEPT !.alias = TRUE],
     below |-> [Opt("command", <<"alias", "top">>, FALSE, FALSE) EXCEPT !.cached = TRUE],
     mine |-> Opt("default", <<"below">>, FALSE, TRUE)]
MCSubOptions ==
    (u1 :> [sub |-> Opt("default", <<"alias">>, TRUE, FALSE)]) @@
    (u2 :> [sub |-> [Opt("default", <<"top">>, TRUE, FALSE) EXCEPT !.valid = {u1}]])

\* Options of the container's setup: everything once, and a clone inside of it.
Everything ==
    [mounts |-> Mounts, git |-> TRUE, pull |-> FALSE,
     env |-> "e1", keys |-> 2, hooks |-> HookNames, ide |-> "extensions", timeout |-> TRUE]
Pulled ==
    [mounts |-> Mounts, git |-> TRUE, pull |-> TRUE,
     env |-> "e2", keys |-> 1, hooks |-> {"postCreate", "postStart"}, ide |-> "browser",
     timeout |-> FALSE]
Infos == {Everything, Pulled}

Config(k, d) == [kind |-> k, features |-> FALSE, driver |-> d, image |-> "none", dockerless |-> TRUE]

\* Every kind of devcontainer.json, every kind of driver.
AllConfigs ==
    {Config("dockerfile", "docker"), Config("container", "docker"), Config("compose", "docker"),
     Config("dockerfile", "reprovision"), Config("unknown", "docker"),
     [Config("image", "custom") EXCEPT !.features = TRUE],
     [Config("unknown", "docker") EXCEPT !.image = "fallback"],
     [Config("dockerfile", "custom") EXCEPT !.dockerless = FALSE]}

\* overrideFeatureInstallOrder: not given, one feature, two of them.
SomeOverrides == {<<>>, <<n2>>, <<n3, n1>>}

ContainerUnused == DevInit /\ config = (CHOOSE k \in Configs : TRUE)

FeaturesUnused == FeaturesInit /\ configID = [f \in FeatureIds |-> f]

\* The graph of four options, inserted one after the other.
Inserted ==
    /\ graph = AppendChild(AppendChild(AppendChild(AppendChild(
                  [NewGraph EXCEPT !.nodes = Nodes \cup {Root}], Root, n1), Root, n2), Root, n3), Root, n4)
    /\ removing = <<>> /\ visited = {} /\ handed = Root /\ graphError = FALSE
    /\ graphSteps = Cardinality(Nodes)

PartInit ==
    /\ ResolverInit /\ TasksInit
    /\ IF part = "graph" THEN Inserted ELSE GraphInit
    /\ IF part = "container" THEN DevInit ELSE ContainerUnused
    /\ IF part = "features" THEN FeaturesInit ELSE FeaturesUnused

UpInit ==
    part \in {"options", "graph", "features", "container", "tasks"} /\ PartInit

UpNext ==
    /\ part' = part
    /\ \/ /\ part = "options" /\ ResolverNext
          /\ UNCHANGED <<graphVars, featureVars, devVars, taskVars>>
       \/ /\ part = "graph" /\ GraphNext
          /\ UNCHANGED <<resolverVars, featureVars, devVars, taskVars>>
       \/ /\ part = "features" /\ FeaturesNext
          /\ UNCHANGED <<resolverVars, graphVars, devVars, taskVars>>
       \/ /\ part = "container" /\ DevNext
          /\ UNCHANGED <<resolverVars, graphVars, featureVars, taskVars>>
       \/ /\ part = "tasks" /\ TasksNext
          /\ UNCHANGED <<resolverVars, graphVars, featureVars, devVars>>

UpSpec == UpInit /\ [][UpNext]_upVars
=============================================================================
