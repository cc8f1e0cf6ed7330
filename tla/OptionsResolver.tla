--------------------------- MODULE OptionsResolver ---------------------------
(***************************************************************************)
(* The resolution of provider options (pkg/options).  The values are kept  *)
(* twice: in config.yaml for the provider and in workspace.json for what a *)
(* workspace has of its own.  A resolution copies the saved values, visits *)
(* the options parents first and saves the result; `devpod provider use`   *)
(* resolves the global options and the sub options a command lists, an up  *)
(* the local ones.  The order in which independent options are visited     *)
(* comes out of Go's map iteration: any order that puts parents first.     *)
(* The graph itself is OptionGraph.                                        *)
(***************************************************************************)
EXTENDS Integers, Sequences, FiniteSets

CONSTANTS
    Static,        \* the definitions in provider.yaml: a function of option names
    SubOptions,    \* what the sub options command of an option lists, by the option's value
    UserValues,    \* what a user may pass or answer
    Empty,         \* the value ""
    MaxResolves,   \* bound on the number of resolutions
    MaxExpiries,   \* bound on the cached values that run out
    MaxGiven       \* bound on the options passed at once

ASSUME OptionsResolverAssumption ==
    /\ MaxResolves \in Nat /\ MaxExpiries \in Nat /\ MaxGiven \in Nat
    /\ Empty \in UserValues
    /\ DOMAIN SubOptions \subseteq UserValues
    /\ \A v \in DOMAIN SubOptions : DOMAIN SubOptions[v] \cap DOMAIN Static = {}

VARIABLES
    saved,       \* "provider" and "workspace" |-> the option values on disk, and
                 \* "dynamic" |-> the definitions of the sub options, in config.yaml
    session,     \* the resolution under way
    resolves, expiries

resolverVars == <<saved, session, resolves, expiries>>

Names == DOMAIN Static \cup UNION {DOMAIN SubOptions[v] : v \in DOMAIN SubOptions}
NoValues == [o \in {} |-> Empty]
Drop(f, S) == [o \in DOMAIN f \ S |-> f[o]]
Put(f, o, v) == [p \in DOMAIN f \cup {o} |-> IF p = o THEN v ELSE f[p]]
Over(f, g) == [o \in DOMAIN f \cup DOMAIN g |-> IF o \in DOMAIN g THEN g[o] ELSE f[o]]

-----------------------------------------------------------------------------
\* A default or a command is a text with variables: its result tells the values of
\* the options it names apart, and a lone variable ("alias") is that value itself.
ValueOf(vals, o) == IF o \in DOMAIN vals THEN vals[o].value ELSE Empty
ResolveDefaultValue(d, o, vals) ==
    LET seen == [i \in DOMAIN d.deps |-> ValueOf(vals, d.deps[i])]
    IN IF d.alias THEN seen[1] ELSE <<o, seen>>

\* validateUserValue: a pattern, an enum or a type.
Valid(d, v) == d.valid = {} \/ v \in d.valid

\* addDependencies, for the options that are new in the graph: their parents are the
\* nodes their variables name, and their children those their saved value lists.
AddDependencies(parents, defs, vals, new) ==
    [o \in DOMAIN defs |->
        (IF o \in DOMAIN parents THEN parents[o] ELSE {}) \cup
        {p \in DOMAIN defs \ {o} :
            \/ o \in new /\ \E i \in DOMAIN defs[o].deps : defs[o].deps[i] = p
            \/ p \in new \cap DOMAIN vals /\ o \in vals[p].children}]

\* ... unless one is global and its parent is not, or its parent is local and it is
\* not, or there is a cycle.
Accepted(parents, defs) ==
    /\ \A o \in DOMAIN parents : \A p \in parents[o] :
          (defs[o].global => defs[p].global) /\ (defs[p].local => defs[o].local)
    /\ \A S \in SUBSET DOMAIN parents : (\A o \in S : parents[o] \cap S # {}) => S = {}

\* RemoveSubGraph: the options and all that depends on them.
SubGraph(parents, S) ==
    LET all == S \cup DOMAIN parents
        Closed(T) == S \subseteq T /\ \A o \in DOMAIN parents : parents[o] \cap T # {} => o \in T
    IN {o \in all : \A T \in SUBSET all : Closed(T) => o \in T}

-----------------------------------------------------------------------------
ResolverInit ==
    /\ saved = [provider |-> NoValues, workspace |-> NoValues, dynamic |-> NoValues]
    /\ session = [active |-> FALSE]
    /\ resolves = 0 /\ expiries = 0

\* Resolve builds the graph; the user options are validated when they are reached.
Resolve(kind, given, skip, subs, defs, vals) ==
    LET parents == AddDependencies(NoValues, defs, vals, DOMAIN defs)
    IN /\ ~session.active /\ resolves < MaxResolves
       /\ Accepted(parents, defs)
       /\ session' = [active |-> TRUE, kind |-> kind, given |-> given, skip |-> skip, subs |-> subs,
                      asked |-> {}, vals |-> vals, defs |-> defs, done |-> {}, parents |-> parents]
       /\ resolves' = resolves + 1
       /\ UNCHANGED <<saved, expiries>>

\* setOptions of `provider use`, `set-options` and the like: what the user gave before
\* holds unless the provider is configured anew.  A dry run asks for nothing.
SetOptions(given, reconfigure, dry, subs) ==
    LET old == {o \in DOMAIN saved.provider : saved.provider[o].user}
        before == IF reconfigure THEN NoValues ELSE [o \in old |-> saved.provider[o].value]
    IN Resolve("provider", Over(before, given), dry, subs, Static, saved.provider)

\* CombineOptions: what a workspace has of its own wins.
CombineOptions == Over(saved.provider, saved.workspace)

\* ResolveAndSaveOptionsWorkspace, and ...Proxy with the sub options.
ResolveWorkspace(given, subs) ==
    Resolve("workspace", given, FALSE, subs, Over(saved.dynamic, Static), CombineOptions)

\* The value is there and need not be computed again.
Settled(o, d, vals) ==
    /\ o \in DOMAIN vals /\ Valid(d, vals[o].value)
    /\ vals[o].user \/ ~d.cached \/ vals[o].fresh

\* An option of the other kind of resolution, unless it is required.
Skipped(d) == ~d.required /\ IF session.kind = "provider" THEN d.local ELSE d.global

Children(o, vals) == IF o \in DOMAIN vals THEN vals[o].children ELSE {}

Computed(o, d, vals) ==
    [value |-> IF d.source = "none" THEN Empty ELSE ResolveDefaultValue(d, o, vals),
     user |-> FALSE, fresh |-> d.source = "command", children |-> Children(o, vals)]

\* Mutant: the children keep what they have.
RecomputeNoChildren(o, vals, new) == new

\* "check if value has changed": the children are computed again.
RecomputeChildren(o, vals, new) ==
    IF ValueOf(vals, o) = ValueOf(new, o) THEN new
    ELSE Drop(new, {c \in DOMAIN session.parents \cap DOMAIN new :
                       o \in session.parents[c] /\ ~new[c].user})

\* resolveOption, with the answer of the user should it ask: the new values, and
\* whether the children leave the graph.
resolveOption(o, answer) ==
    LET d == session.defs[o]
        known == o \in DOMAIN session.given
        vals == IF o \in DOMAIN session.vals /\ ~Valid(d, session.vals[o].value)
                THEN Drop(session.vals, {o}) ELSE session.vals
        new == IF known THEN [value |-> session.given[o], user |-> TRUE, fresh |-> FALSE,
                              children |-> Children(o, vals)]
               ELSE Computed(o, d, vals)
        missing == ~known /\ d.required /\ new.value = Empty
    IN IF ~known /\ (Settled(o, d, vals) \/ Skipped(d))
       THEN [vals |-> vals, prune |-> FALSE, asked |-> FALSE]
       ELSE IF missing /\ session.skip
       THEN [vals |-> Drop(vals, {o}), prune |-> TRUE, asked |-> FALSE]
       ELSE [prune |-> FALSE, asked |-> missing,
             vals |-> RecomputeChildren(o, vals,
                         Put(vals, o, IF missing THEN [value |-> answer, user |-> TRUE, fresh |-> FALSE,
                                                       children |-> {}]
                                      ELSE new))]

\* getChangedOptions: the sub options that came, went, or whose value no longer fits.
Changed(old, new, vals) ==
    {o \in DOMAIN old \cup DOMAIN new :
        \/ o \notin DOMAIN old \cap DOMAIN new \cap DOMAIN vals
        \/ ~Valid(new[o], vals[o].value)
        \/ ~vals[o].user /\ old[o].deps # new[o].deps}

\* refreshSubOptions, after its option is resolved.
refreshSubOptions(s, o) ==
    LET listed == IF s.vals[o].value \in DOMAIN SubOptions THEN SubOptions[s.vals[o].value] ELSE NoValues
        old == [c \in Children(o, s.vals) \cap DOMAIN s.defs |-> s.defs[c]]
        changed == Changed(old, listed, s.vals)
        gone == SubGraph(s.parents, changed \cap DOMAIN s.defs)
        vals == [Drop(s.vals, changed) EXCEPT ![o].children = DOMAIN listed]
        defs == Over(Drop(s.defs, gone), listed)
        stay == [c \in DOMAIN s.parents \ gone |-> s.parents[c] \ gone]
    IN [s EXCEPT !.vals = vals, !.defs = defs,
                 !.done = @ \ gone,
                 !.given = Drop(@, {c \in DOMAIN listed \cap DOMAIN @ : ~Valid(listed[c], @[c])}),
                 !.parents = AddDependencies(stay, defs, vals, DOMAIN listed)]

\* NextFromTop: an option whose parents are resolved.
Ready(o) ==
    /\ o \in DOMAIN session.defs \ session.done
    /\ session.parents[o] \cap DOMAIN session.defs \subseteq session.done

\* deleteChildrenOf, should a required value be missing: from three children on its loop,
\* whose slice the removals shift, may leave some.
Pruned(o) ==
    LET children == {c \in DOMAIN session.parents : o \in session.parents[c]}
    IN {SubGraph(session.parents, children \ left) :
           left \in IF Cardinality(children) > 2 THEN (SUBSET children) \ {children} ELSE {{}}}

\* One round of resolveOptions.
ResolveNext(o, answer) ==
    /\ session.active /\ Ready(o)
    /\ o \in DOMAIN session.given => Valid(session.defs[o], session.given[o])
    /\ LET r == resolveOption(o, answer)
       IN \E pruned \in IF r.prune THEN Pruned(o) ELSE {{}} :
            LET s == [session EXCEPT !.vals = r.vals, !.done = @ \cup {o},
                                     !.asked = IF r.asked THEN @ \cup {o} ELSE @,
                                     !.defs = Drop(@, pruned), !.parents = Drop(@, pruned)]
            IN session' = IF session.defs[o].sub /\ session.subs /\ o \in DOMAIN r.vals
                          THEN refreshSubOptions(s, o) ELSE s
    /\ Accepted(session'.parents, session'.defs)
    /\ UNCHANGED <<saved, resolves, expiries>>

\* "Find out new dynamic options": those that are the children of others.
NewDynamic(s) ==
    Drop(s.defs, {o \in DOMAIN s.defs :
        o \in DOMAIN Static \/ ~\E p \in DOMAIN s.vals : o \in s.vals[p].children})

\* "Remove options that are not there anymore".
Returned(s) == Drop(s.vals, DOMAIN s.vals \ (DOMAIN Static \cup DOMAIN NewDynamic(s)))

\* filterResolvedOptions: what a workspace keeps.
Filtered(s) ==
    Drop(Returned(s), {o \in DOMAIN Returned(s) :
        /\ o \notin DOMAIN s.given /\ o \notin DOMAIN saved.workspace
        /\ o \in DOMAIN saved.provider
        /\ o \in DOMAIN Static /\ Static[o].global})

\* A dry run is not saved.
EndResolve ==
    /\ session.active /\ ~\E o \in DOMAIN session.defs : Ready(o)
    /\ saved' = IF session.kind = "workspace" THEN [saved EXCEPT !.workspace = Filtered(session)]
                ELSE IF session.skip THEN saved
                ELSE [saved EXCEPT !.provider = Returned(session), !.dynamic = NewDynamic(session)]
    /\ session' = [active |-> FALSE]
    /\ UNCHANGED <<resolves, expiries>>

\* A command fails, a value is invalid, a required one is missing and nobody is asked.
ResolveFails ==
    /\ session.active
    /\ session' = [active |-> FALSE]
    /\ UNCHANGED <<saved, resolves, expiries>>

\* The cache duration of a command's value runs out.
CacheExpires(kind, o) ==
    /\ ~session.active /\ expiries < MaxExpiries
    /\ o \in DOMAIN saved[kind] /\ saved[kind][o].fresh
    /\ saved' = [saved EXCEPT ![kind][o].fresh = FALSE]
    /\ expiries' = expiries + 1
    /\ UNCHANGED <<session, resolves>>

Givens == UNION {[S -> UserValues] : S \in {T \in SUBSET Names : Cardinality(T) <= MaxGiven}}

ResolverNext ==
    \/ \E given \in Givens, reconfigure, dry, subs \in BOOLEAN :
          (dry => subs) /\ SetOptions(given, reconfigure, dry, subs)
    \/ \E given \in Givens, subs \in BOOLEAN : ResolveWorkspace(given, subs)
    \/ \E o \in Names, answer \in UserValues \ {Empty} : ResolveNext(o, answer)
    \/ EndResolve \/ ResolveFails
    \/ \E kind \in {"provider", "workspace"}, o \in Names : CacheExpires(kind, o)

ResolverSpec == ResolverInit /\ [][ResolverNext]_resolverVars

-----------------------------------------------------------------------------
\* The values of a default or a command can be told from the provider's own options.
Determined(o, vals) ==
    LET d == Static[o]
    IN /\ d.source # "none" /\ ~d.local /\ ~vals[o].user
       /\ \A i \in DOMAIN d.deps : d.deps[i] \in DOMAIN Static \ {o} /\ ValueOf(vals, d.deps[i]) # Empty

\* "Parents will be resolved first" (resolver.go:119): a value that is removed because a
\* parent has changed is computed again before the session ends, so a provider that was
\* configured has a value for each of its options that is not local.
SavedIsComplete ==
    \A o \in DOMAIN Static :
        saved.provider # NoValues /\ ~Static[o].local => o \in DOMAIN saved.provider

\* What a provider saves is complete and consistent: over any sequence of resolutions a
\* value that was computed from others ("check if value has changed ... recompute
\* children", resolve.go:155) is what those others give now, unless one of them is empty
\* (resolve.go:156 takes a value that was removed for an empty one) or a sub option.
SavedIsConsistent ==
    /\ SavedIsComplete
    /\ \A o \in DOMAIN saved.provider \cap DOMAIN Static :
          Determined(o, saved.provider) =>
              saved.provider[o].value = ResolveDefaultValue(Static[o], o, saved.provider)
=============================================================================
