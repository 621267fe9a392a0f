------------------------------ MODULE Summarise -------------------------------
(***************************************************************************)
(* The groups of nodes whose writes are summarised (config.rs): how a file *)
(* is loaded (the old rules become groups, nodes that two groups share are *)
(* taken from the later one), what validate refuses, how the web requests  *)
(* change groups (web/mod.rs), and which writes are summarised in the end  *)
(* (relay/ignore.rs).                                                      *)
(*                                                                         *)
(* A node may be written in several ways (texts).  A client is known by its*)
(* address and by its application URI, and a group may name it by either.  *)
(***************************************************************************)
EXTENDS Integers, Sequences, FiniteSets, SequencesExt, FiniteSetsExt

CONSTANTS
    Texts,        \* node ids as text
    ParseNode,    \* parse_node: the node of a text
    Clients,      \* clients: what a group may call each of them
    GroupNames,   \* names of groups
    MaxNodes,     \* MAX_SUMMARISED_NODES
    MaxGroups,    \* MAX_SUMMARISE_GROUPS
    MaxGroupEdits \* bound of the model: changes of the groups

ASSUME SummariseAssumption ==
    MaxNodes \in Nat /\ MaxGroups \in Nat /\ MaxGroupEdits \in Nat

VARIABLES
    groups,     \* TargetConfig.summarise
    loadedFrom, \* what the file says (groups and old rules), until a change
    phase,      \* "file", "loaded", or "refused" where the gateway does not start
    groupEdits, \* history: changes made
    claimed,    \* history: the last change says that these writes are recorded again
    picked      \* a group that a user or an assistant has seen at its position, to change it

sumVars == <<groups, loadedFrom, phase, groupEdits, claimed, picked>>

EveryClient == "every client"
ClientKeys == UNION Clients \cup {EveryClient}
Nodes == {ParseNode[t] : t \in Texts}
Parsed(texts) == {ParseNode[t] : t \in texts}
Group(name, client, nodes) == [name |-> name, client |-> client, nodes |-> nodes]
Rules == [node : Texts, client : ClientKeys]

\* a file has up to two groups, named by their position, and up to one old rule
SomeGroup == [client : ClientKeys, nodes : SUBSET Texts]
NamedGroups(gs) == [i \in DOMAIN gs |-> Group(<<"first", "second">>[i], gs[i].client, gs[i].nodes)]

Files ==
    [groups : {NamedGroups(gs) : gs \in BoundedSeq(SomeGroup, 2)}, rules : BoundedSeq(Rules, 1)]

NoFile == [groups |-> <<>>, rules |-> <<>>]

NotPicked == [index |-> 0]
NewPlace == [index |-> 0, check |-> FALSE]

SumInit ==
    /\ loadedFrom = NoFile
    /\ groups = <<>> /\ phase = "file" /\ groupEdits = 0 /\ claimed = {} /\ picked = NotPicked
-------------------------------------------------------------------------------
\* SummariseList::matches, after SummariseList::set: a write of a node by a client
Applies(g, client) == g.client = EveryClient \/ g.client \in client
Matches(gs, node, client) ==
    \E i \in DOMAIN gs : Applies(gs[i], client) /\ node \in Parsed(gs[i].nodes)

\* Mutant: a group for every client overlaps no other.
SameClientOnly(g, h) == g.client = h.client

\* groups_overlap: do two groups apply to the same writes?
GroupsOverlap(g, h) == g.client = EveryClient \/ h.client = EveryClient \/ g.client = h.client

\* Mutant: a rule goes to the first group, whatever its client.
AnyGroup(gs, client) == IF gs = <<>> THEN 0 ELSE 1

\* migrate_ignore: a rule goes to the first group of its client, or to a new one
GroupOf(gs, client) ==
    LET same == {i \in DOMAIN gs : gs[i].client = client}
    IN IF same = {} THEN 0 ELSE CHOOSE i \in same : \A j \in same : i <= j

Migrated(gs, rule) ==
    LET i == GroupOf(gs, rule.client)
    IN IF i = 0 THEN Append(gs, Group("none", rule.client, {rule.node}))
       ELSE [gs EXCEPT ![i].nodes = @ \cup {rule.node}]

MigrateIgnore(file) == FoldLeft(Migrated, file.groups, file.rules)

\* drop_summarise_overlaps: a node that an earlier group has for the same writes
DropOverlaps(gs) ==
    LET kept[j \in DOMAIN gs] ==
            {t \in gs[j].nodes : \A i \in 1 .. j - 1 :
                GroupsOverlap(gs[i], gs[j]) => ParseNode[t] \notin Parsed(kept[i])}
    IN [j \in DOMAIN gs |-> [gs[j] EXCEPT !.nodes = kept[j]]]

\* validate_summarise
OnceEach(texts) == Cardinality(Parsed(texts)) = Cardinality(texts)
NodeCount(gs) == MapThenSumSet(LAMBDA i : Cardinality(gs[i].nodes), DOMAIN gs)
ValidGroups(gs) ==
    /\ Len(gs) <= MaxGroups
    /\ NodeCount(gs) <= MaxNodes
    /\ \A i \in DOMAIN gs : OnceEach(gs[i].nodes)
    /\ \A i, j \in DOMAIN gs : i # j =>
         /\ <<gs[i].name, gs[i].client>> # <<gs[j].name, gs[j].client>>
         /\ GroupsOverlap(gs[i], gs[j]) => Parsed(gs[i].nodes) \cap Parsed(gs[j].nodes) = {}

\* Config::load, of any file
Load ==
    /\ phase = "file"
    /\ \E file \in Files :
         LET gs == DropOverlaps(MigrateIgnore(file))
         IN /\ loadedFrom' = file
            /\ IF ValidGroups(gs) THEN groups' = gs /\ phase' = "loaded"
               ELSE phase' = "refused" /\ UNCHANGED groups
    /\ UNCHANGED <<groupEdits, claimed, picked>>

\* update_summarise: nothing changes when the result is not valid
Change(at, gs, again) ==
    /\ phase = "loaded" /\ groupEdits < MaxGroupEdits /\ ValidGroups(gs)
    /\ groups' = gs /\ claimed' = again
    /\ groupEdits' = groupEdits + 1 /\ loadedFrom' = NoFile
    /\ picked' = IF at = picked THEN NotPicked ELSE picked
    /\ UNCHANGED phase

\* the page of the target, or find_group: a group and where it is
PickGroup ==
    /\ phase = "loaded" /\ picked = NotPicked /\ groupEdits < MaxGroupEdits
    /\ \E i \in DOMAIN groups :
         picked' = [index |-> i, check |-> TRUE, name |-> groups[i].name, client |-> groups[i].client]
    /\ UNCHANGED <<groups, loadedFrom, phase, groupEdits, claimed>>

\* what a request says which group it means: a position, with the group that was seen there
\* or, for other users of the API, without
Meant == ({picked} \ {NotPicked}) \cup {[index |-> i, check |-> FALSE] : i \in DOMAIN groups}

\* Mutant: what the caller saw is not compared.
AnyThere(at) == at.index \in DOMAIN groups

\* group_mut: refused when another group is there meanwhile
GroupMut(at) ==
    /\ at.index \in DOMAIN groups
    /\ at.check => groups[at.index].name = at.name /\ groups[at.index].client = at.client

Refused ==
    /\ picked # NotPicked /\ ~GroupMut(picked)
    /\ picked' = NotPicked
    /\ UNCHANGED <<groups, loadedFrom, phase, groupEdits, claimed>>

\* add_to_group: skips the nodes that are in the group
WithNodes(g, texts) == [g EXCEPT !.nodes = @ \cup {t \in texts : ParseNode[t] \notin Parsed(@)}]

CreateGroup ==
    \E name \in GroupNames, client \in ClientKeys, texts \in SUBSET Texts :
        /\ OnceEach(texts)
        /\ Change(NewPlace, Append(groups, WithNodes(Group(name, client, {}), texts)), {})

RenameGroup ==
    \E at \in Meant, name \in GroupNames :
        GroupMut(at) /\ Change(at, [groups EXCEPT ![at.index].name = name], {})

AddNodes ==
    \E at \in Meant, texts \in SUBSET Texts :
        /\ GroupMut(at) /\ OnceEach(texts)
        /\ Change(at, [groups EXCEPT ![at.index] = WithNodes(@, texts)], {})

\* what is removed, "their writes are recorded again"
Claim(g, nodes) == {[node |-> n, key |-> g.client] : n \in nodes}

RemoveNodes ==
    \E at \in Meant, texts \in SUBSET Texts :
        /\ GroupMut(at)
        /\ LET g == groups[at.index]
               left == {t \in g.nodes : ParseNode[t] \notin Parsed(texts)}
           IN /\ left # g.nodes
              /\ Change(at, [groups EXCEPT ![at.index].nodes = left],
                        Claim(g, Parsed(g.nodes \ left)))

DeleteGroup ==
    \E at \in Meant :
        /\ GroupMut(at)
        /\ LET g == groups[at.index]
           IN Change(at, RemoveAt(groups, at.index), Claim(g, Parsed(g.nodes)))

SumNext ==
    Load \/ PickGroup \/ Refused \/ CreateGroup \/ RenameGroup \/ AddNodes \/ RemoveNodes \/ DeleteGroup
-------------------------------------------------------------------------------
\* The groups are of the shape the code gives them.
SumTypeOK ==
    /\ phase \in {"file", "loaded", "refused"}
    /\ \A i \in DOMAIN groups : groups[i].client \in ClientKeys /\ groups[i].nodes \subseteq Texts
    /\ picked = NotPicked \/ picked.client \in ClientKeys

\* Loading a file of an older version never summarises a write that the file does not ask
\* to summarise: what the migration and the removal of overlaps change is that more is
\* recorded.
LoadSummarisesNoMore ==
    (phase = "loaded" /\ groupEdits = 0) =>
        \A c \in Clients, n \in Nodes :
            Matches(groups, n, c) =>
                \/ Matches(loadedFrom.groups, n, c)
                \/ \E k \in DOMAIN loadedFrom.rules :
                     LET r == loadedFrom.rules[k]
                     IN ParseNode[r.node] = n /\ Applies(r, c)

\* "their writes are recorded again" is true in the trail: after nodes were removed from a
\* group, or a group was, no other group summarises the writes it applied to.  (A client
\* that groups name both by its address and by its application URI is the exception.)
RecordedAgain ==
    \A claim \in claimed, c \in Clients :
        LET calledBy == ({claim.key} \cup {groups[i].client : i \in DOMAIN groups}) \cap c
        IN (Applies([client |-> claim.key], c) /\ Cardinality(calledBy) <= 1)
              => ~Matches(groups, claim.node, c)

\* "so a change never lands on another group": a change of a group that was seen leaves every
\* other group as it is, though the groups before it may have gone and new ones come since.
LandsOnSeen ==
    [][(picked # NotPicked /\ picked' = NotPicked /\ groups' # groups) =>
         \A i \in DOMAIN groups :
            (groups[i].name # picked.name \/ groups[i].client # picked.client)
                => \E j \in DOMAIN groups' : groups'[j] = groups[i]]_sumVars

SumSpec == SumInit /\ [][SumNext]_sumVars
===============================================================================
