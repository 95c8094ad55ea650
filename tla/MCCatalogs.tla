--------------------------- MODULE MCCatalogs ----------------------------------
(***************************************************************************)
(* Small catalogs: three fields, two answers, two benefits.                 *)
(***************************************************************************)
EXTENDS Eligibility, TLC

CONSTANTS f1, f2, f3, v1, v2, b1, b2

MCField == {f1, f2, f3}
MCValue == {v1, v2}
MCBenefit == {b1, b2}

\* Shown when field d has answer v.
When(d, v) == <<Group("ALL", {2}), Condition(d, {v}, FALSE)>>

WhenBoth(op, d, v, e, w) ==
    <<Group(op, {2, 3}), Condition(d, {v}, FALSE), Condition(e, {w}, FALSE)>>

Always == <<>>

Is(f, v) == Condition(f, {v}, FALSE)

Trees ==
    { <<Group("ALL", {2}), Is(f3, v1)>>,
      <<Group("ALL", {2, 3}), Is(f2, v1), Is(f3, v2)>>,
      <<Group("ANY", {2, 3}), Is(f1, v2), Is(f3, v1)>>,
      <<Group("ALL", {2, 3}), Is(f1, v1), Group("ANY", {4, 5}), Is(f2, v2), Is(f3, v1)>> }

\* Trees with an IS_EMPTY and an IS_NOT_EMPTY leaf.
PresenceTrees ==
    { <<Group("ALL", {2, 3}), Condition(f1, {Null}, TRUE), Is(f3, v1)>>,
      <<Group("ANY", {2, 3}), Condition(f2, Value, TRUE), Is(f3, v1)>> }

Benefits(tree, residents) ==
    (b1 :> [tree |-> tree, nationwide |-> TRUE, scope |-> {}])
      @@ (b2 :> [tree |-> <<Group("ALL", {2}), Is(f2, v1)>>,
                 nationwide |-> ~residents, scope |-> {v2}])

Catalog(vis2, vis3, anchors, tree, residents) ==
    [vis       |-> (f1 :> Always) @@ (f2 :> vis2) @@ (f3 :> vis3),
     anchor    |-> (f1 :> NoField) @@ (f2 :> anchors[1]) @@ (f3 :> anchors[2]),
     deleted   |-> {}, locked |-> {}, synced |-> {}, subfields |-> {},
     residence |-> IF residents THEN f1 ELSE NoField,
     benefits  |-> Benefits(tree, residents)]

FollowUpCatalogs ==
    {Catalog(When(f1, v1), When(f1, w), <<a, a>>, tree, residents) :
        w \in Value, a \in {NoField, f1}, tree \in Trees, residents \in BOOLEAN}

\* f1 is an eGov field, filled at login and not to be edited.
SyncedCatalogs ==
    {[c EXCEPT !.locked = {f1}, !.synced = {f1}] : c \in FollowUpCatalogs}

\* f3 was anchored below f1 or f2 and deleted; no rule reads it.
DeletedFollowUpCatalogs ==
    {[Catalog(When(f1, v1), When(d, v1), <<f1, d>>, <<Group("ALL", {2}), Is(f2, w)>>,
              residents) EXCEPT !.deleted = {f3}] :
        d \in {f1, f2}, w \in Value, residents \in BOOLEAN}

\* Show/hide trees one level deep: a live driver has no driver of its own.
OneLevelCatalogs ==
    FollowUpCatalogs \cup SyncedCatalogs \cup DeletedFollowUpCatalogs
    \cup {Catalog(Always, Always, <<NoField, NoField>>, tree, residents) :
            tree \in Trees, residents \in BOOLEAN}
    \cup {Catalog(Always, WhenBoth(op, f1, v1, f2, v2), <<NoField, f2>>, tree, residents) :
            op \in LogicalOperator, tree \in Trees, residents \in BOOLEAN}

PresenceCatalogs ==
    {Catalog(Always, When(f1, w), <<NoField, f1>>, tree, FALSE) :
        w \in Value, tree \in PresenceTrees}

\* A rule saved before row columns were refused: f3 is one.
SubfieldCatalogs ==
    {[Catalog(Always, Always, <<NoField, NoField>>, tree, residents)
        EXCEPT !.subfields = {f3}] : tree \in Trees, residents \in BOOLEAN}

\* Deleting a field has emptied a group.
EmptiedCatalogs ==
    {Catalog(Always, When(f1, v1), <<NoField, f1>>,
             <<Group(op, {2, 3}), Group(inner, {}), Is(f3, v1)>>, residents) :
        op, inner \in LogicalOperator, residents \in BOOLEAN}

AllCatalogs ==
    OneLevelCatalogs \cup PresenceCatalogs \cup SubfieldCatalogs \cup EmptiedCatalogs

\* f1 shows f2 and f2 shows f3.
ChainCatalogs ==
    {Catalog(When(f1, v1), When(f2, v1), <<f1, f2>>,
             <<Group("ALL", {2}), Is(f3, v1)>>, FALSE)}

Gated ==
    Catalog(Always, When(f1, v1), <<NoField, f1>>,
            <<Group("ALL", {2}), Is(f3, v1)>>, FALSE)

\* f1 shows f3.
GatedCatalogs == {Gated}
=============================================================================
