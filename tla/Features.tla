------------------------------ MODULE Features ------------------------------
(***************************************************************************)
(* The features of a dev container (pkg/devcontainer/feature): each one is *)
(* fetched into a folder below the temporary folder of the machine, which  *)
(* later builds find again, then the features are put in the order of      *)
(* their installsAfter and of overrideFeatureInstallOrder and copied into  *)
(* the build context.  Builds follow one another; any of them may fail or  *)
(* be killed.                                                              *)
(***************************************************************************)
EXTENDS OptionGraph

CONSTANTS OciFeatures,    \* fetched from a registry
          UrlFeatures,    \* a tarball behind a url
          LocalFeatures,  \* a folder of the repository
          Overrides,      \* the values of overrideFeatureInstallOrder
          MaxInstallsAfter,  \* bounds the pairs of installsAfter
          MaxBuilds

FeatureIds == OciFeatures \cup UrlFeatures \cup LocalFeatures

ASSUME FeaturesAssumption ==
    /\ FeatureIds \subseteq Nodes /\ IsFiniteSet(FeatureIds)
    /\ OciFeatures \cap UrlFeatures = {}
    /\ Overrides \subseteq Seq(Nodes)
    /\ MaxBuilds \in Nat /\ MaxInstallsAfter \in Nat

VARIABLES extracted,   \* the cached folder of each feature: "none", "empty" (without
                       \* devcontainer-feature.json), "partial" (with files missing), "whole"
          build,       \* the running build
          configID,    \* NormalizeFeatureID: the id without its version
          buildContext,\* the numbered feature folders in the build context
          torn,        \* features whose extraction was killed
          builds

featureVars == <<extracted, build, configID, buildContext, torn, builds>>

NoBuild == [pc |-> "idle", todo |-> <<>>, sets |-> <<>>, force |-> FALSE,
            after |-> <<>>, override |-> <<>>]

ConfigIDs == {configID[f] : f \in FeatureIds}

FeaturesInit ==
    /\ extracted = [f \in FeatureIds |-> IF f \in LocalFeatures THEN "whole" ELSE "none"]
    /\ build = NoBuild
    \* the features differ, or two of them are versions of the same one
    /\ configID \in {[f \in FeatureIds |-> f]} \cup
           {[f \in FeatureIds |-> IF f = g THEN h ELSE f] : g \in OciFeatures, h \in FeatureIds \ LocalFeatures}
    /\ buildContext = <<>> /\ torn = {} /\ builds = 0

\* fetchFeatures ranges over a Go map, the features of devcontainer.json: any order.
FetchFeatures ==
    /\ build.pc \in {"idle", "built", "cyclic"} /\ builds < MaxBuilds
    /\ \E selected \in (SUBSET FeatureIds) \ {{}}, force \in BOOLEAN :
          \E order \in SetToSeqs(selected) :
             build' = [NoBuild EXCEPT !.pc = "process", !.todo = order, !.force = force]
    /\ builds' = builds + 1
    /\ UNCHANGED <<extracted, configID, buildContext, torn>>

BuildAt(pc) == build.pc = pc
Feature == Head(build.todo)
BuildFails == build' = NoBuild

\* ProcessFeatureID: a cached folder is used as it is.  A registry feature without
\* its json is removed and fetched again, a url feature only if the build is forced.
ProcessFeatureID ==
    /\ BuildAt("process") /\ build.todo # <<>>
    /\ LET f == Feature
           cached == \/ f \in LocalFeatures
                     \/ f \in OciFeatures /\ extracted[f] \in {"partial", "whole"}
                     \/ f \in UrlFeatures /\ extracted[f] # "none" /\ ~build.force
       IN /\ build' = [build EXCEPT !.pc = IF cached THEN "parse" ELSE "download"]
          /\ extracted' = IF f \in OciFeatures /\ extracted[f] = "empty"
                          THEN [extracted EXCEPT ![f] = "none"] ELSE extracted
    /\ UNCHANGED <<configID, buildContext, torn, builds>>

\* The tarball; a broken download is an error, and the next one writes it anew.
DownloadFeature ==
    /\ BuildAt("download")
    /\ build' = [build EXCEPT !.pc = "extract"] \/ BuildFails
    /\ UNCHANGED <<extracted, configID, buildContext, torn, builds>>

\* The files appear one after the other, the json before or after the others.  A
\* forced build extracts over the old files.
ExtractFeature ==
    /\ BuildAt("extract")
    /\ \/ /\ extracted[Feature] \in {"none", "empty"}
          /\ \E s \in {"empty", "partial"} :
                extracted[Feature] # s /\ extracted' = [extracted EXCEPT ![Feature] = s]
          /\ UNCHANGED build
       \/ /\ extracted[Feature] # "none"
          /\ extracted' = [extracted EXCEPT ![Feature] = "whole"]
          /\ build' = [build EXCEPT !.pc = "parse"]
    /\ torn' = IF extracted'[Feature] = "whole" THEN torn \ {Feature} ELSE torn
    /\ UNCHANGED <<configID, buildContext, builds>>

\* An error of the extraction removes the folder.
ExtractFails ==
    /\ BuildAt("extract")
    /\ BuildFails
    /\ extracted' = [extracted EXCEPT ![Feature] = "none"]
    /\ torn' = torn \ {Feature}
    /\ UNCHANGED <<configID, buildContext, builds>>

\* ParseDevContainerFeature needs the json.
ParseFeature ==
    /\ BuildAt("parse")
    /\ IF extracted[Feature] = "empty" THEN BuildFails
       ELSE build' = [build EXCEPT !.pc = "process", !.todo = Tail(@), !.sets = Append(@, Feature)]
    /\ UNCHANGED <<extracted, configID, buildContext, torn, builds>>

-----------------------------------------------------------------------------
\* InsertNodeAt on a node that exists adds an edge, which must not close a cycle.
InsertFeature(g, parent, n) ==
    IF g.failed \/ (n \in g.nodes /\ n \in ChildSet(g, parent)) THEN g
    ELSE IF n \notin g.nodes THEN AppendChild([g EXCEPT !.nodes = @ \cup {n}], parent, n)
    ELSE IF parent \in Below(g, n) THEN [g EXCEPT !.failed = TRUE]
    ELSE AppendChild(g, parent, n)

\* Mutant: the edge points the other way.
InstallsAfterReversed(g, id, other) == InsertFeature(InsertFeature(g, Root, other), other, id)

InstallsAfter(g, id, other) == InsertFeature(g, id, other)

\* The graph of computeAutomaticFeatureOrder: features in the order they were
\* fetched, each with the selected features it is installed after.
FeatureGraph(ids, after) ==
    FoldLeft(LAMBDA g, id :
                FoldLeft(LAMBDA h, other : InstallsAfter(h, id, other),
                         InsertFeature(g, Root, id), SetToSeq(after[id] \cap ToSet(ids))),
             NewGraph, ids)

\* computeFeatureOrder: the override moves features to the front.
ComputeFeatureOrder(automatic, override) ==
    LET known == SelectSeq(override, LAMBDA id : id \in ToSet(automatic))
        RemoveDuplicates(s) == FoldLeft(LAMBDA t, x : IF x \in ToSet(t) THEN t ELSE Append(t, x), <<>>, s)
        first == RemoveDuplicates(known)
    IN first \o SelectSeq(automatic, LAMBDA id : id \notin ToSet(first))

\* What the json files may say.  An entry is looked up as it is spelled, so one that is
\* not a normalized id (with a version, or without the registry) counts as no entry.
InstallsAfterOfAll ==
    {after \in [ConfigIDs -> SUBSET ConfigIDs] :
        Cardinality({pair \in ConfigIDs \X ConfigIDs : pair[2] \in after[pair[1]]}) <= MaxInstallsAfter}

\* The installsAfter of the features are what their json says now.
ComputeOrder ==
    /\ BuildAt("process") /\ build.todo = <<>>
    /\ \E after \in InstallsAfterOfAll, override \in Overrides :
          LET ids == [i \in DOMAIN build.sets |-> configID[build.sets[i]]]
              g == FeatureGraph(ids, after)
          IN build' = [build EXCEPT !.pc = IF g.failed THEN "cyclic" ELSE "copy",
                                    !.after = after, !.override = override,
                                    !.todo = IF g.failed THEN <<>>
                                             ELSE ComputeFeatureOrder(Peel(g), override)]
    /\ UNCHANGED <<extracted, configID, buildContext, torn, builds>>

\* copyFeaturesToDestination starts with an empty folder; it may fail half way.
CopyFeatures ==
    /\ BuildAt("copy")
    /\ \/ buildContext' = build.todo /\ build' = [build EXCEPT !.pc = "built"]
       \/ \E n \in 0..Len(build.todo) - 1 : buildContext' = SubSeq(build.todo, 1, n) /\ BuildFails
    /\ UNCHANGED <<extracted, configID, torn, builds>>

KillBuild ==
    /\ build.pc \notin {"idle", "built", "cyclic"}
    /\ torn' = IF BuildAt("extract") /\ extracted[Feature] # "none" THEN torn \cup {Feature} ELSE torn
    /\ BuildFails
    /\ UNCHANGED <<extracted, configID, buildContext, builds>>

FeaturesNext ==
    \/ FetchFeatures \/ ProcessFeatureID \/ DownloadFeature \/ ExtractFeature \/ ExtractFails \/ ParseFeature
    \/ ComputeOrder \/ CopyFeatures \/ KillBuild

FeaturesSpec == FeaturesInit /\ [][FeaturesNext]_featureVars

-----------------------------------------------------------------------------
FeaturesBuilt == build.pc = "built"

\* What is installed is complete, although a folder of the cache is taken as it is,
\* whatever failed in earlier builds: only a killed extraction leaves one that is not.
FeaturesWhole == FeaturesBuilt => \A f \in ToSet(build.sets) \ torn : extracted[f] = "whole"

\* A build that succeeds has complete features and installs each of them once: the
\* overridden ones first and in the order given, every other one after all it installs
\* after, whatever the order they were fetched in.  It has no cycle, and a build that
\* finds one has one.
FeaturesInstalled ==
    LET selected == {configID[f] : f \in ToSet(build.sets)}
        Reach[n \in 0..Cardinality(selected)] ==
            [x \in selected |-> IF n = 0 THEN build.after[x] \cap selected
                                ELSE Reach[n - 1][x] \cup UNION {Reach[n - 1][y] : y \in Reach[n - 1][x]}]
        cyclic == \E x \in selected : x \in Reach[Cardinality(selected)][x]
        Before(s, x, y) == \E i, j \in DOMAIN s : i < j /\ s[i] = x /\ s[j] = y
        forced == ToSet(build.override) \cap selected
    IN /\ FeaturesWhole
       /\ build.pc = "cyclic" => cyclic
       /\ FeaturesBuilt =>
            /\ ~cyclic /\ buildContext = build.todo
            /\ Len(build.todo) = Cardinality(selected) /\ ToSet(build.todo) = selected
            /\ \A x \in forced : \A y \in selected \ {x} :
                  y \notin forced \/ Before(build.override, x, y) => Before(build.todo, x, y)
            /\ \A x \in selected \ forced : \A y \in build.after[x] \cap selected : Before(build.todo, y, x)
=============================================================================
