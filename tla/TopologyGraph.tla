--------------------------- MODULE TopologyGraph ---------------------------
(***************************************************************************)
(* The topology page of the web console: what the user has expanded        *)
(* (GraphStorageManager.filters), the last answer of the server, and the   *)
(* picture that is kept up to date by applying differences between one     *)
(* answer and the next.                                                    *)
(*                                                                         *)
(* A click changes the filters and loads an URL that carries the action    *)
(* and the filters.  Revalidation (the auto refresh timer or button, or    *)
(* any form submitted on the page) loads that URL again, so the filters it *)
(* sends are those of the last click; a load under way is aborted for it.  *)
(* TopologyActionDeduplicator, which the loader calls before it awaits the *)
(* answer, turns the action of a second load of the same URL into a        *)
(* refresh.  The infrastructure changes by itself between two answers.     *)
(***************************************************************************)
EXTENDS Naturals, FiniteSets, Sequences

CONSTANTS
    Node,        \* nodes of the infrastructure
    Edge,        \* pairs of nodes that may be connected
    Kind,        \* Kind[n]: its NodeType
    Parent,      \* Parent[n]: immediate_parent_id, Root at the top
    Root,
    Keys,        \* Node as a sequence, in the order of the keys of an answer
    NodeLimit,   \* MAX_NODES_COUNT_THRESHOLD
    MaxChanges   \* bound: changes of the infrastructure

ASSUME TopologyAssumption ==
    /\ Edge \subseteq Node \X Node
    /\ Parent \in [Node -> Node \cup {Root}]
    /\ Root \notin Node
    /\ Keys \in Seq(Node)
    /\ \A n \in Node : \E i \in DOMAIN Keys : Keys[i] = n
    /\ \A i, j \in DOMAIN Keys : Keys[i] = Keys[j] => i = j
    /\ NodeLimit \in Nat
    /\ MaxChanges \in Nat

VARIABLES
    alive,        \* nodes that exist and are active on the server
    filters,      \* nodes expanded by the user, all the filter lists together
    url,          \* what the fetcher loads: [type, node, filters]
    loading,      \* fetcher.state # 'idle'
    lastAction,   \* TopologyActionDeduplicator.previousAction
    action,       \* the deduplicated action of the load under way
    data,         \* the last answer that was accepted: [nodes, edges]
    exceeded,     \* nodeCountLimitExceeded: a notice covers the picture
    drawn,        \* nodes in the picture
    combos,       \* expanded nodes whose children are drawn in a combo
    links,        \* connections in the picture
    changes,
    awaited       \* history: the node whose expansion is loading, or Root

picture == <<drawn, combos, links>>
page == <<filters, url, loading, lastAction, action, data, exceeded, picture>>
vars == <<alive, page, changes, awaited>>

-----------------------------------------------------------------------------
(* The hierarchy *)

Expandable == {"cloud_provider", "cloud_region", "kubernetes_cluster", "host", "pod",
               "container"}

\* Bug: whatever expands is given a combo.
ExpandsAsComboAll(n) == Kind[n] \in Expandable

\* itemExpandsAsCombo
ExpandsAsCombo(n) == Kind[n] \in {"kubernetes_cluster", "host", "pod", "container"}

\* The kinds of children that removeNodeFromFilters visits.  A host does not
\* take its pods along.
Cascade ==
    {<<"cloud_provider", "cloud_region">>, <<"cloud_provider", "kubernetes_cluster">>,
     <<"cloud_region", "host">>, <<"kubernetes_cluster", "host">>,
     <<"host", "container">>, <<"pod", "container">>}

ChildrenIn(n, nodes) == {m \in nodes : Parent[m] = n}

\* removeNodeFromFilters: what goes with n when `nodes` is the current data,
\* the least set of filters that has n and, below each of its members, the
\* children visited.
Collapsed(n, f, nodes) ==
    LET closed(X) ==
          /\ n \in f => n \in X
          /\ \A m \in f \cap nodes :
                Parent[m] \in X /\ <<Kind[Parent[m]], Kind[m]>> \in Cascade => m \in X
    IN {m \in f : \A X \in SUBSET f : closed(X) => m \in X}

-----------------------------------------------------------------------------
(* The server *)

\* getGraph and graphToSummaries for the cloud view: the top of the hierarchy
\* and the children of the nodes filtered upon.  A region must still belong to
\* a provider filtered upon for its hosts to be returned, and a host must be
\* active for its containers, though not for its processes.
AnswerNodes(f) ==
    {n \in alive :
        LET p == Parent[n] IN
        \/ p = Root
        \/ /\ p \in f
           /\ Kind[n] = "host" /\ Kind[p] = "cloud_region" => Parent[p] \in f
           /\ Kind[n] = "container" => p \in alive}

-----------------------------------------------------------------------------
(* updateGraph *)

\* convertApiNodesDiffToModelNodesDiff goes through the nodes added and then
\* through those removed, in the order of the keys, and notes the parent of
\* each.  A node that is removed and not in the picture is passed over; the
\* pseudo nodes, which are passed over unless at the top, are all at the top.
Steps == 2 * Len(Keys)
NodeAt(i) == Keys[IF i <= Len(Keys) THEN i ELSE i - Len(Keys)]
Noted(i, add, remove) == NodeAt(i) \in (IF i <= Len(Keys) THEN add ELSE remove \cap drawn)

\* Step i meets its parent for the first time: the parents are updated in the
\* order in which they were met.
Meets(i, add, remove) ==
    /\ Noted(i, add, remove)
    /\ \A j \in 1..(i - 1) : Noted(j, add, remove) => Parent[NodeAt(j)] # Parent[NodeAt(i)]

\* Bug: the combo stays when its last child goes.
RemainingCombosKept(p, g, left) == g.combos

\* The combo of p goes when only its centre is left in it.
RemainingCombos(p, g, left) ==
    IF left # g.drawn /\ ChildrenIn(p, left) = {} THEN g.combos \ {p} ELSE g.combos

\* processRootUpdate and processNodeUpdate for parent p of picture g.  Nodes
\* whose parent is not in the picture are dropped, and so are those that
\* belong in a combo that does not exist, unless p is the node being expanded.
ProcessUpdate(g, p, add, remove, expanded) ==
    LET left  == g.drawn \ ChildrenIn(p, remove)
        some  == ChildrenIn(p, add) # {}
        kept  == RemainingCombos(p, g, left)
        combo == p # Root /\ ExpandsAsCombo(p)
        made  == IF some /\ combo /\ p \in left /\ p = expanded THEN kept \cup {p} ELSE kept
        fits  == p = Root \/ (p \in left /\ (combo => p \in made))
    IN [drawn  |-> IF fits THEN left \cup ChildrenIn(p, add) ELSE left,
        combos |-> made]

\* The picture while the groups of nodes are processed, parent after parent.
Pictures(add, remove, expanded) ==
    LET after[i \in 0..Steps] ==
          IF i = 0 THEN [drawn |-> drawn, combos |-> combos]
          ELSE IF Meets(i, add, remove)
               THEN ProcessUpdate(after[i - 1], Parent[NodeAt(i)], add, remove, expanded)
               ELSE after[i - 1]
    IN after

\* The picture after the difference between two answers has been applied.
\* Connections are removed first and added last, between nodes in the picture.
UpdateGraph(old, new, act) ==
    LET expanded == IF act.type = "expandNode" THEN act.node ELSE Root
        g == Pictures(new.nodes \ old.nodes, old.nodes \ new.nodes, expanded)[Steps]
        anchored(es) == {e \in es : e[1] \in g.drawn /\ e[2] \in g.drawn}
    IN /\ drawn' = g.drawn
       /\ combos' = g.combos
       /\ links' = anchored(links \cap new.edges) \cup anchored(new.edges \ old.edges)

-----------------------------------------------------------------------------
(* The page *)

Refresh == [type |-> "refresh", node |-> Root]
ActionOf(u) == [type |-> u.type, node |-> u.node]
NoData == [nodes |-> {}, edges |-> {}]

FirstLoad == [type |-> "refresh", node |-> Root, filters |-> {}]

\* The page has been mounted and its first load is on its way.
Init ==
    /\ alive = Node
    /\ filters = {}
    /\ url = FirstLoad
    /\ loading = TRUE
    /\ lastAction = Refresh
    /\ action = Refresh
    /\ data = NoData
    /\ exceeded = FALSE
    /\ drawn = {} /\ combos = {} /\ links = {}
    /\ changes = 0
    /\ awaited = Root

\* Bug: an expansion right after a collapse of the same node counts as repeated.
RepeatedNode(act) == act.type # "refresh" /\ act.node = lastAction.node

\* getDeduplicatedAction
Repeated(act) == act.type # "refresh" /\ act = lastAction

\* fetcher.load, or the router, calls the loader; it asks for the action and
\* then awaits the answer.
Load(u) ==
    /\ url' = u
    /\ loading' = TRUE
    /\ action' = IF Repeated(ActionOf(u)) THEN Refresh ELSE ActionOf(u)
    /\ lastAction' = ActionOf(u)

\* onExpandCollapseClick and getDataUpdates.
Click(n) ==
    /\ n \in drawn /\ Kind[n] \in Expandable
    /\ ~exceeded
    /\ ~loading
    /\ LET expand == n \notin filters
           f == IF expand THEN filters \cup {n}
                ELSE filters \ Collapsed(n, filters, data.nodes)
           u == [type |-> IF expand THEN "expandNode" ELSE "collapseNode",
                 node |-> n, filters |-> f]
       IN /\ filters' = f
          /\ Load(u)
          /\ awaited' = IF expand /\ ActionOf(u) # lastAction THEN n ELSE Root
    /\ UNCHANGED <<alive, data, exceeded, picture, changes>>

\* AutoRefresh, or the revalidation after a form of the page was submitted,
\* also while a load is under way: that one is aborted.
Revalidate ==
    /\ Load(url)
    /\ awaited' = Root
    /\ UNCHANGED <<alive, filters, data, exceeded, picture, changes>>

\* Bug: nodes that are gone stay in the filters.
FiltersUnchanged(new) == filters

\* updateFiltersFromApiData
FiltersFromApiData(new) ==
    filters \ UNION {Collapsed(n, filters, new.nodes) : n \in data.nodes \ new.nodes}

\* The loader's answer arrives and the effects of the page run.  Connections
\* are read in a transaction of their own, which may fail.
Answer ==
    /\ loading
    /\ loading' = FALSE
    /\ \E es \in SUBSET Edge :
        LET new == [nodes |-> AnswerNodes(url.filters), edges |-> es] IN
        IF Cardinality(new.nodes) < NodeLimit
        THEN /\ data' = new
             /\ filters' = FiltersFromApiData(new)
             /\ exceeded' = FALSE
             /\ UpdateGraph(data, new, action)
        ELSE /\ exceeded' = TRUE
             /\ UNCHANGED <<filters, data, picture>>
    /\ awaited' = Root
    /\ UNCHANGED <<alive, url, lastAction, action, changes>>

\* The user leaves the page, or a failed load has put the error page in its
\* place, and comes back.
Remount ==
    /\ filters' = {}
    /\ url' = FirstLoad
    /\ loading' = TRUE
    /\ lastAction' = Refresh
    /\ action' = Refresh
    /\ data' = NoData
    /\ exceeded' = FALSE
    /\ drawn' = {} /\ combos' = {} /\ links' = {}
    /\ awaited' = Root
    /\ UNCHANGED <<alive, changes>>

\* Nodes appear or disappear.
Change(n) ==
    /\ changes < MaxChanges
    /\ changes' = changes + 1
    /\ alive' = IF n \in alive THEN alive \ {n} ELSE alive \cup {n}
    /\ UNCHANGED <<page, awaited>>

Next ==
    \/ \E n \in Node : Click(n) \/ Change(n)
    \/ Revalidate
    \/ Answer
    \/ Remount

Spec == Init /\ [][Next]_vars

-----------------------------------------------------------------------------
(* Properties *)

ActionType == {"refresh", "expandNode", "collapseNode"}

\* Every variable has its type; providers and regions have no combo.
TypeOK ==
    /\ alive \subseteq Node
    /\ filters \subseteq Node
    /\ url \in [type : ActionType, node : Node \cup {Root}, filters : SUBSET Node]
    /\ loading \in BOOLEAN
    /\ lastAction \in [type : ActionType, node : Node \cup {Root}]
    /\ action \in [type : ActionType, node : Node \cup {Root}]
    /\ data \in [nodes : SUBSET Node, edges : SUBSET Edge]
    /\ exceeded \in BOOLEAN
    /\ drawn \subseteq Node /\ links \subseteq Edge
    /\ combos \subseteq {n \in Node : Kind[n] \notin {"cloud_provider", "cloud_region"}}
    /\ changes \in 0..MaxChanges
    /\ awaited \in Node \cup {Root}

\* The picture shows nothing the last answer did not contain: no node that is
\* gone, no connection that is gone or has lost an end, no combo around nothing,
\* whatever the order in which updateGraph meets parents and children.
NoGhosts ==
    /\ drawn \subseteq data.nodes
    /\ \A e \in links : e \in data.edges /\ e[1] \in drawn /\ e[2] \in drawn
    /\ \A n \in combos : ChildrenIn(n, drawn) # {}

\* A node the last answer does not have is not filtered upon ("if so, we remove
\* it from the filters"), although the filters are changed at the click and the
\* answer comes later, or not at all.
FiltersFollowData == filters \subseteq data.nodes

\* Expanding works: once the answer to the expansion of a node in the picture
\* has come, the children it brought are in the picture, whatever the refreshes
\* before the click and the changes since.  Two expansions are excepted, as the
\* deduplicator takes them for a refresh: one that repeats the action of the
\* load before, and one whose load a revalidation has started anew.
ExpandDraws ==
    [][\A n \in Node :
          (/\ awaited = n /\ loading /\ ~loading' /\ ~exceeded'
           /\ n \in drawn /\ n \in data'.nodes
           /\ ChildrenIn(n, data.nodes) = {})
          => ChildrenIn(n, data'.nodes) \subseteq drawn']_vars
=============================================================================
