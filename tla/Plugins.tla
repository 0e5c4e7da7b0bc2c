------------------------------- MODULE Plugins -------------------------------
(***************************************************************************)
(* Which plugins the operator installs (controllers/grafana/pluginsHelper.go, *)
(* api/integreatly/v1alpha1/pluginsList.go): the plugins the dashboards ask   *)
(* for, at most one version of each, compared with what is installed and with *)
(* what could not be installed before.  A plugin list is a sequence of        *)
(* [name, version].                                                         *)
(***************************************************************************)
EXTENDS Filters, Integers, FiniteSets

CONSTANTS Unparsable   \* the versions that are no semantic versions

HasSomeVersionOf(list, p) == \E i \in DOMAIN list : list[i].name = p.name
HasExactVersionOf(list, p) == \E i \in DOMAIN list : list[i] = p
HasNewerVersionOf(list, p) == \E i \in DOMAIN list : list[i].name = p.name /\ list[i].version > p.version

\* Named for the number of different versions, it counts the entries.
VersionsOf(list, p) == Cardinality({ i \in DOMAIN list : list[i].name = p.name })

\* One version that cannot be parsed, and no list is filtered at all.
PickLatestVersions(requested) ==
    LET plugins == { requested[i] : i \in DOMAIN requested } IN
    IF \E p \in plugins : p.version \in Unparsable THEN requested
    ELSE Among(requested, { p \in plugins : ~HasNewerVersionOf(requested, p) })

\* The decision about one request, given those taken before it.
Keeps(filtered, installed, failed, p) ==
    /\ ~HasSomeVersionOf(filtered, p) /\ ~HasExactVersionOf(failed, p)
    /\ HasExactVersionOf(installed, p)

Changes_AnyVersion(filtered, installed, failed, requested, p) ==  \* mutant: nothing is looked up in filtered
    /\ ~HasExactVersionOf(failed, p) /\ ~HasExactVersionOf(installed, p)
    /\ HasSomeVersionOf(installed, p) => VersionsOf(requested, p) = 1
Changes(filtered, installed, failed, requested, p) ==
    /\ ~HasSomeVersionOf(filtered, p) /\ ~HasExactVersionOf(failed, p)
    /\ ~HasExactVersionOf(installed, p)
    /\ HasSomeVersionOf(installed, p) => VersionsOf(requested, p) = 1

Filtered(installed, failed, requested) ==
    LET upTo[k \in 0..Len(requested)] ==
            IF k = 0 THEN [list |-> <<>>, updated |-> FALSE]
            ELSE LET before == upTo[k-1]
                     p == requested[k]
                     changes == Changes(before.list, installed, failed, requested, p)
                 IN  [list |-> IF changes \/ Keeps(before.list, installed, failed, p)
                               THEN Append(before.list, p) ELSE before.list,
                      updated |-> before.updated \/ changes]
    IN  upTo[Len(requested)]

\* What to install, and whether that is a change: also when something installed
\* is no longer asked for.
FilterPlugins(installed, failed, requested) ==
    LET latest == PickLatestVersions(requested)
        result == Filtered(installed, failed, latest)
        obsolete == \E i \in DOMAIN installed : ~HasSomeVersionOf(latest, installed[i])
    IN  [list |-> result.list, updated |-> result.updated \/ obsolete]

OneVersionEach(list) == \A i, k \in DOMAIN list : list[i].name = list[k].name => i = k
=============================================================================
