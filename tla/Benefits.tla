------------------------------- MODULE Benefits -------------------------------
(***************************************************************************)
(* The benefit services: the benefit, its locations and owning groups, its  *)
(* requirements, utilizations and how-to-apply steps with their attached    *)
(* files, and its eligibility tree.  Each operator is one transaction; what *)
(* a request checked before it is the operator's Can... twin, which the     *)
(* modules that use this one evaluate a step earlier.                       *)
(*                                                                         *)
(* Names and descriptions are left out, the three kinds of child row, whose *)
(* services are the same text three times, are one row with a kind, and a   *)
(* tree is its root: the operator and the fields of its conditions.         *)
(* A location is the sequence of the segments of its PSGC code.             *)
(***************************************************************************)
EXTENDS Naturals, FiniteSets, SequencesExt, Sublists

CONSTANTS
    User,       \* staff: records [scope, code, group]
    Place,      \* PSGC codes
    Group,      \* agencies
    Field,      \* fields a condition names
    Subfield,   \* the columns of repeaters among them
    Tree,       \* trees clients submit: records [op, leaves]
    Benefit,    \* ids of benefits
    Applicant,  \* active accounts of role USER
    Fails,      \* for each applicant, the fields whose conditions the answers fail
    Residence,  \* the code each one answered for where he lives, or None
    ResidenceField, \* the field that asks for it, if there is one
    Unreachable, \* applicants whose evaluation or message fails, or without a number
    None        \* null

NoTree == [op |-> "none", leaves |-> {}]

NationalLevel == {"NATIONAL", "SUPERADMIN"}
LocalLevel == {"REGIONS", "PROVINCES", "DISTRICTS", "CITIES-MUNICIPALITIES", "BARANGAYS"}

\* Who works for a place has its code (validateRoleConfig).
ASSUME BenefitAssumption ==
    /\ \A u \in User :
          /\ u.scope \in NationalLevel \cup LocalLevel
          /\ u.code \in Place \cup {<<>>} /\ (u.scope \in LocalLevel => u.code # <<>>)
          /\ u.group \in Group \cup {None}
    /\ Place \subseteq Seq(Nat)
    /\ Fails \in [Applicant -> SUBSET Field] /\ Unreachable \subseteq Applicant
    /\ Residence \in [Applicant -> Seq(Nat) \cup {None}]
    /\ Tree \subseteq [op : {"ALL", "ANY"}, leaves : SUBSET Field]
    /\ Subfield \subseteq Field
    /\ None \notin Benefit

VARIABLES
    benefit,    \* FctBenefit with the live rows of its codes and groups
    item,       \* requirements, utilizations and how-to-apply steps, in id order
    tree,       \* FctBenefitRuleGroup and its conditions
    field,      \* the fields not deleted
    job,        \* applicants a benefit is still to be announced to
    texted      \* announcements made

store == <<benefit, item, tree, field, job, texted>>

Kinds == <<"requirements", "utilizations", "how-to-apply">>

BenefitRow ==
    [state : {"absent", "live", "deleted"}, nationwide : BOOLEAN,
     codes : SUBSET Place, groups : SUBSET Group, creator : Group \cup {None}]

ItemRow == [benefit : Benefit, kind : Range(Kinds), live : BOOLEAN, files : Seq(BOOLEAN)]

Absent == [state |-> "absent", nationwide |-> FALSE, codes |-> {}, groups |-> {},
           creator |-> None]

Live(b) == benefit[b].state = "live"

-----------------------------------------------------------------------------
(* Jurisdiction *)

Level(scope) ==
    CASE scope = "REGIONS" -> 1
      [] scope \in {"PROVINCES", "DISTRICTS"} -> 2
      [] scope = "CITIES-MUNICIPALITIES" -> 3
      [] scope = "BARANGAYS" -> 4

\* The location record names its ancestor at each level above its own.
IsUserAuthorizedForLocation(u, c) ==
    IF u.scope \in NationalLevel THEN TRUE
    ELSE c = u.code \/ (Level(u.scope) < Len(c) /\ SubSeq(c, 1, Level(u.scope)) = u.code)

ResolvePsgcCodesForUser(u, codes) == \A c \in codes : IsUserAuthorizedForLocation(u, c)

\* One contains the other, by the digits of the codes alone.
IsBenefitVisibleToScopeMutant(row, u) ==
    \/ row.nationwide \/ u.scope \in NationalLevel
    \/ u.code # <<>> /\ \E c \in row.codes : IsPrefix(c, u.code)
IsBenefitVisibleToScope(row, u) ==
    \/ row.nationwide \/ u.scope \in NationalLevel
    \/ u.code # <<>> /\ \E c \in row.codes : IsPrefix(c, u.code) \/ IsPrefix(u.code, c)

\* assertUserCanModifyBenefit: over every location it has now.
CanModifyMutant(u, b) == Live(b)
CanModify(u, b) ==
    /\ Live(b)
    /\ IF benefit[b].nationwide THEN u.scope \in NationalLevel
       ELSE ResolvePsgcCodesForUser(u, benefit[b].codes)

\* A NATIONAL agent's own group is always among the owners, and the creator.
OwnGroup(u) == IF u.scope = "NATIONAL" THEN u.group ELSE None
GroupPlan(u, groups) == groups \cup ({OwnGroup(u)} \ {None})

ValidInput(u, d) ==
    /\ d.nationwide => u.scope \in NationalLevel /\ GroupPlan(u, d.groups) # {}
    /\ ~d.nationwide => d.codes # {} /\ ResolvePsgcCodesForUser(u, d.codes)

-----------------------------------------------------------------------------
(* Child rows: d.items is a sequence of [id, kind, files, fresh], id 0 for a *)
(* new row, files the attachments sent with an id, fresh the number without  *)

ItemExists(b, i) == i \in DOMAIN item /\ item[i].benefit = b /\ item[i].live
FileExists(b, i, f) == ItemExists(b, i) /\ f \in DOMAIN item[i].files /\ item[i].files[f]

CanSaveItems(b, items) ==
    \A it \in Range(items) :
        it.id # 0 => ItemExists(b, it.id) /\ \A f \in it.files : FileExists(b, it.id, f)

NewFiles(n) == [f \in 1 .. n |-> TRUE]

\* Rows the request leaves out stay as they are.
WithItems(b, items) ==
    LET edited == [i \in DOMAIN item |->
            [item[i] EXCEPT !.files = @ \o NewFiles(
                IF \E it \in Range(items) : it.id = i
                THEN (CHOOSE it \in Range(items) : it.id = i).fresh ELSE 0)]]
        Row(it) == [benefit |-> b, kind |-> it.kind, live |-> TRUE, files |-> NewFiles(it.fresh)]
        created == Picked(items, {k \in DOMAIN items : items[k].id = 0})
    IN edited \o [k \in DOMAIN created |-> Row(created[k])]

\* deleteRequirement and its twins: the files of the row keep their rows.
CanDeleteItem(u, b, i) == CanModify(u, b) /\ ItemExists(b, i)
DeleteItem(i) ==
    /\ item' = [item EXCEPT ![i].live = FALSE]
    /\ UNCHANGED <<benefit, tree, field, job, texted>>

CanDeleteFile(u, b, i, f) == CanModify(u, b) /\ FileExists(b, i, f)
DeleteFile(i, f) ==
    /\ item' = [item EXCEPT ![i].files[f] = FALSE]
    /\ UNCHANGED <<benefit, tree, field, job, texted>>

-----------------------------------------------------------------------------
(* The benefit with everything in it *)

\* The shape the routes let through; d.tree = NoTree: the request has no tree.
BundleItem == [id : Nat, kind : Range(Kinds), files : SUBSET Nat, fresh : Nat]
IsBundleRequest(d) ==
    /\ d.nationwide \/ d.codes # {}
    /\ d.codes \subseteq Place /\ d.groups \subseteq Group
    /\ Range(d.items) \subseteq BundleItem
    /\ d.tree \in [op : {"ALL", "ANY"}, leaves : SUBSET Field] \cup {NoTree}

\* A column of a repeater has no answer of its own.
CanBuildTree(t) == t.leaves \cap Subfield = {}

\* What the request makes of the row.  Localized benefits may have groups.
Saved(u, row, d) ==
    [row EXCEPT !.nationwide = d.nationwide,
                !.codes = IF d.nationwide THEN {} ELSE d.codes,
                !.groups = GroupPlan(u, d.groups),
                !.creator = OwnGroup(u)]

CreateBenefitBundle(u, b, d) ==
    /\ CanBuildTree(d.tree)
    /\ benefit' = [benefit EXCEPT ![b] = Saved(u, [@ EXCEPT !.state = "live"], d)]
    /\ item' = WithItems(b, d.items)
    /\ tree' = [tree EXCEPT ![b] = d.tree]
    /\ job' = [job EXCEPT ![b] = Applicant]
    /\ UNCHANGED <<field, texted>>

\* The child services check the benefit again; the row is then locked.
\* Codes and groups are revived although the benefit may be deleted by now.
EditBenefitBundleMutant(u, b, d) ==
    /\ CanBuildTree(d.tree)
    /\ d.items # <<>> => Live(b) /\ CanSaveItems(b, d.items)
    /\ benefit' = [benefit EXCEPT ![b] = [Saved(u, @, d) EXCEPT !.state = "live"]]
    /\ item' = WithItems(b, d.items)
    /\ tree' = [tree EXCEPT ![b] = IF d.tree = NoTree THEN @ ELSE d.tree]
    /\ UNCHANGED <<field, job, texted>>
EditBenefitBundle(u, b, d) ==
    /\ CanBuildTree(d.tree)
    /\ d.items # <<>> => Live(b) /\ CanSaveItems(b, d.items)
    /\ benefit' = [benefit EXCEPT ![b] = Saved(u, @, d)]
    /\ item' = WithItems(b, d.items)
    /\ tree' = [tree EXCEPT ![b] = IF d.tree = NoTree THEN @ ELSE d.tree]
    /\ UNCHANGED <<field, job, texted>>

\* Requirements, files and tree of a deleted benefit stay behind.
DeleteBenefit(b) ==
    /\ benefit' = [benefit EXCEPT ![b].state = "deleted", ![b].codes = {}, ![b].groups = {}]
    /\ UNCHANGED <<item, tree, field, job, texted>>

\* removeField: the conditions on it go, the groups around them stay.
UnboundMutant(t, f) == t
Unbound(t, f) == [t EXCEPT !.leaves = @ \ {f}]
RemoveField(f) ==
    /\ f \in field
    /\ field' = field \ {f}
    /\ tree' = [b \in Benefit |-> Unbound(tree[b], f)]
    /\ UNCHANGED <<benefit, item, job, texted>>

-----------------------------------------------------------------------------
(* The announcement of a new benefit, one applicant after another *)

\* A localized benefit is for those whose place is one of its places or within
\* one.  Who has not said where he lives is asked, and without the field nobody is.
LivesElsewhere(a, b) ==
    /\ ~benefit[b].nationwide /\ ResidenceField \in field /\ Residence[a] # None
    /\ \A c \in benefit[b].codes : ~IsPrefix(c, Residence[a])

FailsRules(a, t) ==
    \/ t.op = "ALL" /\ t.leaves \cap Fails[a] # {}
    \/ t.op = "ANY" /\ t.leaves \subseteq Fails[a]

\* NOT_ELIGIBLE by the answers given; an open answer does not exclude.
Excluded(a, b) == LivesElsewhere(a, b) \/ FailsRules(a, tree[b])

\* The evaluation reads the benefit as it is now and throws if it is deleted.
\* What fails for one applicant is logged, and the loop goes on.
NotifyNextMutant(b) ==
    \E a \in job[b] :
        /\ IF a \in Unreachable THEN job' = [job EXCEPT ![b] = {}] /\ UNCHANGED texted
           ELSE /\ job' = [job EXCEPT ![b] = @ \ {a}]
                /\ texted' = IF Live(b) /\ ~Excluded(a, b)
                             THEN texted \cup {<<b, a>>} ELSE texted
        /\ UNCHANGED <<benefit, item, tree, field>>
NotifyNext(b) ==
    \E a \in job[b] :
        /\ job' = [job EXCEPT ![b] = @ \ {a}]
        /\ texted' = IF Live(b) /\ ~Excluded(a, b) /\ a \notin Unreachable
                     THEN texted \cup {<<b, a>>} ELSE texted
        /\ UNCHANGED <<benefit, item, tree, field>>

\* A restart of the server ends the jobs that run; nothing resumes them.
Restart ==
    /\ \E b \in Benefit : job[b] # {}
    /\ job' = [b \in Benefit |-> {}]
    /\ UNCHANGED <<benefit, item, tree, field, texted>>
=============================================================================
