----------------------------- MODULE Navigation -----------------------------
(***************************************************************************)
(* The menu (core/services/nav-composition, navigation-config.service):    *)
(* the tree upstream declares, adjusted as a deployment's config.json      *)
(* says, and filtered for whoever looks at it.                             *)
(*                                                                         *)
(* Entries are added and moved one after the other, each through an index  *)
(* from ids to where an entry sits by now; a move sees the moves before    *)
(* it.  An entry is known by its id.  The id of the entry nested in an     *)
(* added group is not checked: where it repeats one of the menu's, the     *)
(* entry is in the menu twice, and the index knows the later one.  That    *)
(* the nested entry is a group itself is left out.                         *)
(***************************************************************************)
EXTENDS Naturals, Sequences, FiniteSets, Functions

CONSTANTS
  Upstream,      \* NAV_CONFIG: the entries of the root and of each group of its own
  Extra,         \* ids a deployment may add
  ExtraGroups,   \* those of them that are groups, with one nested entry
  Dividers,      \* entries that are separators
  DeveloperTools,\* entries that need developerToolsEnabled
  Gated,         \* entries that need a permission or a feature
  MaxItems,      \* bound: nav.items
  MaxPatches,    \* bound: nav.overrides
  MaxOrder       \* bound: the orders given

Groups == (DOMAIN Upstream \ {"root"}) \cup ExtraGroups
Containers == {"root"} \cup Groups
BuiltIn == UNION {Range(Upstream[c]) : c \in DOMAIN Upstream}
NavIds == BuiltIn \cup Extra
Orders == 0..MaxOrder        \* 0: none given
Nowhere == "nowhere"         \* an id that is not that of a group
Unplaced == "none"           \* where an id is that is not in the menu

\* Upstream's entries are nested in one another, and none is there twice.
ASSUME NavigationAssumption ==
  /\ "root" \in DOMAIN Upstream /\ {"root", Nowhere, Unplaced} \cap NavIds = {}
  /\ DOMAIN Upstream \ {"root"} \subseteq BuiltIn /\ BuiltIn \cap Extra = {}
  /\ \A c \in DOMAIN Upstream : Upstream[c] \in Seq(NavIds) /\ IsInjective(Upstream[c])
  /\ \A c, d \in DOMAIN Upstream : c # d => Range(Upstream[c]) \cap Range(Upstream[d]) = {}
  /\ \A S \in SUBSET (DOMAIN Upstream \ {"root"}) :
       S # {} => \E c \in DOMAIN Upstream \ S : Range(Upstream[c]) \cap S # {}
  /\ ExtraGroups \subseteq Extra /\ Dividers \subseteq BuiltIn \ Groups
  /\ {MaxItems, MaxPatches, MaxOrder} \subseteq Nat

VARIABLES
  nav,      \* composeNavTree: the tree, the index, the orders given and the defects
  wish      \* the deployment's nav block as far as it has been read

navVars == <<nav, wish>>

NavTypeOK ==
  /\ nav \in [stage : {"items", "overrides", "composed"}, tree : [Containers -> Seq(NavIds)],
              slot : [NavIds -> Containers \cup {Unplaced}], order : [NavIds -> Orders],
              defects : SUBSET ({"item", "override"} \X NavIds)]
  /\ wish \in [items : SUBSET NavIds, read : 0..MaxItems, patched : SUBSET NavIds,
               parent : [NavIds -> Containers \cup {Nowhere, Unplaced}],
               repeated : SUBSET (NavIds \ Groups)]

\* cloneTree, indexTree
NavInit ==
  /\ nav = [stage |-> "items",
            tree |-> [c \in Containers |-> IF c \in DOMAIN Upstream THEN Upstream[c]
                                           ELSE <<>>],
            slot |-> [n \in NavIds |->
                       IF n \in BuiltIn
                         THEN CHOOSE c \in DOMAIN Upstream : n \in Range(Upstream[c])
                         ELSE Unplaced],
            order |-> [n \in NavIds |-> 0], defects |-> {}]
  /\ wish = [items |-> {}, read |-> 0, patched |-> {},
             parent |-> [n \in NavIds |-> Unplaced], repeated |-> {}]

\* Where an entry is in a list, the entries of a list, and those in the menu.
Places(list, n) == {i \in DOMAIN list : list[i] = n}
Contents(c) == Range(nav.tree[c])
Placed == {n \in NavIds : nav.slot[n] # Unplaced}

\* Mutation: a parent that names no group is taken for one.
Holds_Any(parent) == parent # Unplaced

\* resolveContainer: the root, or a group that is there by now.
Holds(parent) == parent = "root" \/ parent \in Groups \cap Placed

-----------------------------------------------------------------------------
(* nav.items *)

\* Mutation: an id that is taken is not noticed.
Usable_Any(n) == TRUE

\* rejectDeploymentItem
Usable(n) == n \notin Placed

Pushed(tree, parent, n) == [tree EXCEPT ![parent] = Append(@, n)]

\* Item n is read, and the ids that it repeats.
Asked(n, again) == [wish EXCEPT !.items = @ \cup {n}, !.read = @ + 1, !.repeated = @ \cup again]

\* addDeploymentItems, one item, with the entry nested in it if it is a group: indexTree
\* indexes that where it is now, whatever has its id already.
AddItem(n, parent, urlOk) ==
  /\ nav.stage = "items" /\ wish.read < MaxItems
  /\ n \in Groups => urlOk
  /\ IF Usable(n) /\ urlOk /\ Holds(parent)
       THEN \E nested \in (IF n \in Groups THEN NavIds \ (Groups \cup Dividers) ELSE {n}) :
              /\ nav' = [nav EXCEPT
                   !.tree = IF nested = n THEN Pushed(@, parent, n)
                            ELSE [Pushed(@, parent, n) EXCEPT ![n] = <<nested>>],
                   !.slot = [@ EXCEPT ![nested] = n, ![n] = parent]]
              /\ wish' = Asked(n, {nested} \cap Placed)
       ELSE /\ nav' = [nav EXCEPT !.defects = @ \cup {<<"item", n>>}]
            /\ wish' = Asked(n, {})

ItemsRead ==
  /\ nav.stage = "items" /\ nav' = [nav EXCEPT !.stage = "overrides"]
  /\ UNCHANGED wish

-----------------------------------------------------------------------------
(* nav.overrides *)

\* Mutation: only the entries of the group itself are looked at.
ContainsId_Children(group, n) == group \in Groups /\ n \in Contents(group)

\* containsId: the entries of a group, at any depth.  Whatever groups one looks into,
\* with all the groups in those, n is in one of them.
ContainsId(group, n) ==
  /\ group \in Groups
  /\ \A S \in SUBSET Groups :
       group \in S /\ (\A g \in S : Contents(g) \cap Groups \subseteq S) =>
         \E g \in S : n \in Contents(g)

\* resolveMove
MayMove(n, parent) == parent # n /\ ~ContainsId(n, parent) /\ Holds(parent)

\* detach: the siblings without entry n, which the list it is indexed in holds once until
\* it is moved.
Detached(siblings, n) ==
  LET at == CHOOSE i \in Places(siblings, n) : TRUE IN
  [i \in 1..(Len(siblings) - 1) |-> IF i < at THEN siblings[i] ELSE siblings[i + 1]]

Pulled(tree, group, n) == [tree EXCEPT ![group] = Detached(@, n)]

\* Mutation: the index is left as it was.
Moved_Unindexed(n, parent, order) ==
  [nav EXCEPT !.order[n] = order,
              !.tree = Pushed(Pulled(@, nav.slot[n], n), parent, n)]

\* detach, and push where it is wanted.
Moved(n, parent, order) ==
  [nav EXCEPT !.order[n] = order, !.slot[n] = parent,
              !.tree = Pushed(Pulled(@, nav.slot[n], n), parent, n)]

\* Mutation: a group moved into itself is left where it is without a word.
MoveDefects_Cycles(n, parent) == IF Holds(parent) THEN {} ELSE {<<"override", n>>}

\* What is reported of a move.
MoveDefects(n, parent) == IF MayMove(n, parent) THEN {} ELSE {<<"override", n>>}

\* applyOverrides, one id: an order is given whether or not the move is refused.
\* parent Unplaced: no parent is named.
Override(n, parent, order) ==
  /\ nav.stage = "overrides" /\ n \notin wish.patched \cup Dividers
  /\ Cardinality(wish.patched) < MaxPatches
  /\ wish' = [wish EXCEPT !.patched = @ \cup {n}, !.parent[n] = parent]
  /\ nav' = IF n \notin Placed THEN [nav EXCEPT !.defects = @ \cup {<<"override", n>>}]
            ELSE IF parent = Unplaced THEN [nav EXCEPT !.order[n] = order]
            ELSE IF MayMove(n, parent) THEN Moved(n, parent, order)
            ELSE [nav EXCEPT !.order[n] = order,
                             !.defects = @ \cup MoveDefects(n, parent)]

\* The order of entry i of a list: one that is given is that of the entry indexed, which
\* was put last where the list has another of its id.
OrderOf(c, i) ==
  LET n == nav.tree[c][i] IN
  IF nav.slot[n] = c /\ \A j \in Places(nav.tree[c], n) : j <= i THEN nav.order[n] ELSE 0

\* Entry i comes before entry j: by order, and entries without one behind, as declared.
ComesBefore(c, i, j) ==
  LET p == OrderOf(c, i)
      q == OrderOf(c, j) IN
  (p = q /\ i < j) \/ (p # 0 /\ (q = 0 \/ p < q))

Rank(c, i) == Cardinality({j \in DOMAIN nav.tree[c] : ComesBefore(c, j, i)}) + 1

\* sortTree
Sorted(c) ==
  LET list == nav.tree[c] IN
  [k \in DOMAIN list |-> list[CHOOSE i \in DOMAIN list : Rank(c, i) = k]]

Compose ==
  /\ nav.stage = "overrides"
  /\ nav' = [nav EXCEPT !.stage = "composed",
                        !.tree = [c \in Containers |-> Sorted(c)]]
  /\ UNCHANGED wish

-----------------------------------------------------------------------------
(* What is shown *)

\* Who looks, and at which deployment.  permitted: rbacEnabled is off, or the features
\* and permissions that gated entries need are there.
Views == [hidden : {{}} \cup {{g} : g \in Groups}, tools : BOOLEAN, permitted : BOOLEAN]

\* isItemVisible
IsItemVisible(v, n) ==
  n \notin v.hidden /\ (n \in DeveloperTools => v.tools) /\ (n \in Gated => v.permitted)

\* The lists that filterNavItems goes into from list c: through groups that are visible.
Opened(v, c) ==
  LET closed == {S \in {{c} \cup T : T \in SUBSET Groups} :
                   \A d \in S : \A g \in Contents(d) \cap Groups :
                     IsItemVisible(v, g) => g \in S} IN
  {d \in Containers : \A S \in closed : d \in S}

\* The destinations in them that are visible, and the separators.
Passing(v, c) ==
  {n \in (UNION {Contents(d) : d \in Opened(v, c)}) \ Groups :
     n \in Dividers \/ IsItemVisible(v, n)}

\* filterNavItems, at any depth: those, and the groups that are not empty then.
FilterNavItems(v, c) ==
  Passing(v, c) \cup {g \in Opened(v, c) \ {c} : Passing(v, g) # {}}

Shown(v) == FilterNavItems(v, "root")

-----------------------------------------------------------------------------
NavNext ==
  \/ \E n \in NavIds, parent \in Containers \cup {Nowhere} :
       \E urlOk \in BOOLEAN : AddItem(n, parent, urlOk)
  \/ ItemsRead
  \/ \E n \in NavIds, parent \in Containers \cup {Nowhere, Unplaced}, order \in Orders :
       Override(n, parent, order)
  \/ Compose

NavSpec == NavInit /\ [][NavNext]_navVars

-----------------------------------------------------------------------------
(***************************************************************************)
(* Properties                                                              *)
(***************************************************************************)

\* The lists entry n sits in, by the index.
Above(n) ==
  LET closed == {S \in {{nav.slot[n]} \cup T : T \in SUBSET (Containers \cup {Unplaced})} :
                   \A g \in S \cap Groups : nav.slot[g] \in S} IN
  {c \in Containers \cup {Unplaced} : \A S \in closed : c \in S}

\* Whatever a deployment adds and moves, in whatever order, the menu is one tree: every
\* entry of upstream and every added one is in it, and once, where the index says, and is
\* shown to whom it and the groups it ended up in are shown, unless an added group repeats
\* its id (nav-composition.ts:230-235); no typo makes a group disappear with what is in it.
MenuIsOneTree ==
  /\ \A n \in NavIds \ wish.repeated, c \in Containers :
       LET at == Places(nav.tree[c], n) IN
       IF nav.slot[n] = c THEN \E i \in at : at = {i} ELSE at = {}
  /\ BuiltIn \subseteq Placed
  /\ \A n \in Placed : "root" \in Above(n) /\ n \in Contents(nav.slot[n])
  /\ nav.stage = "composed" =>
       LET destinations == Placed \ (Groups \cup Dividers \cup wish.repeated)
           path == [n \in destinations |-> {n} \cup (Above(n) \ {"root"})] IN
       \A v \in Views :
         destinations \cap Shown(v)
           = {n \in destinations : \A m \in path[n] : IsItemVisible(v, m)}

\* What config.json asks for is done or reported: an item is in the menu or a defect,
\* an entry is where its override says or a defect.
WishesAreMetOrReported ==
  nav.stage = "composed" =>
    /\ \A n \in wish.items : n \in Placed \/ <<"item", n>> \in nav.defects
    /\ \A n \in wish.patched :
         \/ <<"override", n>> \in nav.defects
         \/ n \in Placed /\ wish.parent[n] \in {Unplaced, nav.slot[n]}

=============================================================================
