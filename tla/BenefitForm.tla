------------------------------ MODULE BenefitForm ------------------------------
(***************************************************************************)
(* The benefit form of the admin site, over the benefit services: an author *)
(* opens a benefit or a new one, edits it, and saves it as one bundle        *)
(* request followed by one request for every row and file removed.          *)
(* Meanwhile other authors move benefits and delete them, fields are deleted, *)
(* and applicants are told about what is new.  Any request or its answer may  *)
(* be lost.                                                                 *)
(*                                                                         *)
(* A request is two steps, its checks and its transaction.  The author may   *)
(* be confined to what the properties assume: Patient, he waits for the form *)
(* to load and for uploads; GivesUp, he closes the form when a save failed;  *)
(* QuietFields, no field is deleted while a form is open.  He always leaves  *)
(* the form alone while it saves.                                           *)
(***************************************************************************)
EXTENDS Benefits

CONSTANTS
    Seeded,         \* the benefits there are at first
    Peer,           \* the other authors who change where benefits reach
    Patient, GivesUp, QuietFields,
    MaxItems,       \* bound: child rows in the store
    MaxFiles,       \* bound: files a row has had
    MaxEdits,       \* bound: changes made in one opening of the form
    MaxSessions,    \* bound: openings
    MaxMoves        \* bound: changes other authors make

ASSUME BenefitFormAssumption ==
    /\ User # {} /\ Seeded \subseteq Benefit /\ Peer \subseteq User
    /\ {Patient, GivesUp, QuietFields} \subseteq BOOLEAN
    /\ {MaxItems, MaxFiles, MaxEdits, MaxSessions, MaxMoves} \subseteq Nat

VARIABLES
    phase,      \* of the form
    form,       \* its state
    loads,      \* benefits asked for and not answered yet
    upload,     \* the upload in progress, with the rows as it was started
    queue,      \* requests of the save still to be answered, the first one sent
    checked,    \* whether the server has let the first one through
    edits, sessions,
    moves,      \* changes made by other authors
    restarted,  \* history: whether the server was restarted,
    writer,     \* who wrote each benefit last,
    overtaken   \* whether another author did after the checks of the first request

ui == <<phase, form, loads, upload, queue, checked, edits, sessions>>
history == <<moves, restarted, writer, overtaken>>
vars == <<store, ui, history>>

EmptyTree == [op |-> "ALL", leaves |-> {}]
Author == {u \in User : u.scope # "SUPERADMIN"}     \* agents

NoRows == [kind \in Range(Kinds) |-> <<>>]

Blank(u) ==
    [user |-> u, id |-> None, loaded |-> FALSE, nationwide |-> TRUE, codes |-> {}, base |-> {},
     groups |-> {}, items |-> <<>>, gone |-> NoRows, goneFiles |-> NoRows,
     tree |-> EmptyTree, original |-> EmptyTree, fields |-> field \ Subfield]

\* An agent's switch is locked to the only value the server takes.
NationwideLocked(u) == u.scope # "SUPERADMIN"
Jurisdiction(u) == IF u.scope \in NationalLevel THEN {} ELSE {u.code}

\* What one session of the picker can add up to: no place inside another.
Picks(u) ==
    {T \in SUBSET {c \in Place : u.scope \in NationalLevel \/ (IsPrefix(u.code, c) /\ c # u.code)} :
        \A c, d \in T : IsPrefix(c, d) => c = d}

-----------------------------------------------------------------------------
(* Opening *)

Fresh ==
    /\ phase = "closed" /\ sessions < MaxSessions
    /\ phase' = "open" /\ upload' = None /\ queue' = <<>> /\ checked' = FALSE
    /\ edits' = 0 /\ sessions' = sessions + 1
    /\ UNCHANGED <<store, history>>

OpenCreate(u) ==
    /\ Fresh
    /\ \E b \in Benefit : benefit[b].state = "absent"
    /\ form' = [Blank(u) EXCEPT !.loaded = TRUE,
                                !.nationwide = (u.scope \in NationalLevel),
                                !.groups = {OwnGroup(u)} \ {None}]
    /\ UNCHANGED loads

\* From the row of the list, which agents get filtered.
OpenEdit(u, b) ==
    /\ Fresh
    /\ Live(b) /\ (u \in Author => IsBenefitVisibleToScope(benefit[b], u))
    /\ form' = [Blank(u) EXCEPT !.id = b, !.nationwide = benefit[b].nationwide,
                                !.codes = benefit[b].codes, !.base = benefit[b].codes,
                                !.groups = benefit[b].groups]
    /\ loads' = loads \cup {b}

LocalItems(b) ==
    LET Local(i) == [id |-> i, kind |-> item[i].kind, fresh |-> 0,
                     files |-> {f \in DOMAIN item[i].files : item[i].files[f]}]
    IN Picked([i \in DOMAIN item |-> Local(i)], {i \in DOMAIN item : ItemExists(b, i)})

LoadedTree(b) == IF tree[b] = NoTree THEN EmptyTree ELSE tree[b]

\* getBenefitById answers.  Nothing ties the answer to the benefit the form
\* now shows; a closed form drops it when it is opened again.
FormLoaded(b) ==
    [form EXCEPT !.loaded = TRUE, !.items = LocalItems(b),
                 !.tree = LoadedTree(b), !.original = LoadedTree(b)]

Load(b) ==
    /\ b \in loads
    /\ loads' = loads \ {b}
    /\ form' = IF phase # "closed" /\ Live(b) THEN FormLoaded(b) ELSE form
    /\ UNCHANGED <<store, phase, upload, queue, checked, edits, sessions, history>>

Close ==
    /\ phase \in {"open", "failed"}
    /\ Patient => loads = {}
    /\ phase' = "closed" /\ upload' = None
    /\ UNCHANGED <<store, form, loads, queue, checked, edits, sessions, history>>

-----------------------------------------------------------------------------
(* Editing *)

Editable ==
    /\ phase = "open" \/ (phase = "failed" /\ ~GivesUp)
    /\ Patient => form.loaded /\ upload = None

Edit(new) ==
    /\ Editable /\ edits < MaxEdits
    /\ form' = new /\ new # form
    /\ edits' = edits + 1
    /\ UNCHANGED <<store, phase, loads, upload, queue, checked, sessions, history>>

SetNationwide ==
    /\ ~NationwideLocked(form.user)
    /\ Edit([form EXCEPT !.nationwide = ~@])

\* The picker hands on its whole selection; the codes from before are kept.
PickPlaces ==
    /\ ~form.nationwide
    /\ \E T \in Picks(form.user) : Edit([form EXCEPT !.codes = form.base \cup T])

RemovePlace ==
    /\ ~form.nationwide
    /\ \E c \in form.base \cap form.codes :
          Edit([form EXCEPT !.codes = @ \ {c}, !.base = form.codes \ {c}])

SetGroups ==
    /\ form.nationwide /\ form.user.scope # "NATIONAL"
    /\ \E G \in SUBSET Group : Edit([form EXCEPT !.groups = G])

AddItem ==
    /\ Len(item) + Len(form.items) < MaxItems
    /\ \E kind \in Range(Kinds) :
          Edit([form EXCEPT !.items = Append(@, [id |-> 0, kind |-> kind, fresh |-> 0, files |-> {}])])

RemoveItemMutant(k) == Edit([form EXCEPT !.items = RemoveAt(@, k)])
RemoveItem(k) ==
    Edit([form EXCEPT !.items = RemoveAt(@, k),
                      !.gone[form.items[k].kind] =
                          IF form.items[k].id = 0 THEN @ ELSE Append(@, form.items[k].id)])

RemoveFile(k) ==
    \/ \E f \in form.items[k].files :
          Edit([form EXCEPT !.items[k].files = @ \ {f},
                            !.goneFiles[form.items[k].kind] = Append(@, <<form.items[k].id, f>>)])
    \/ /\ form.items[k].fresh > 0
       /\ Edit([form EXCEPT !.items[k].fresh = @ - 1])

EditTree ==
    \E t \in Tree : t.leaves \subseteq form.fields /\ Edit([form EXCEPT !.tree = t])

\* The file goes to the file store at once; the row gets it when it is there,
\* as one of the rows that were shown when it started.
StartUpload(k) ==
    /\ Editable /\ edits < MaxEdits /\ upload = None
    /\ form.items[k].fresh = 0
    /\ form.items[k].id # 0 => Len(item[form.items[k].id].files) < MaxFiles
    /\ upload' = [row |-> k, items |-> form.items]
    /\ edits' = edits + 1
    /\ UNCHANGED <<store, phase, form, loads, queue, checked, sessions, history>>

FinishUpload ==
    /\ upload # None /\ phase # "closed"
    /\ upload' = None
    /\ \/ form' = [form EXCEPT !.items = [upload.items EXCEPT ![upload.row].fresh = @ + 1]]
       \/ UNCHANGED form        \* it fails
    /\ UNCHANGED <<store, phase, loads, queue, checked, edits, sessions, history>>

-----------------------------------------------------------------------------
(* Saving *)

EffectiveCodes(f) == IF f.codes # {} THEN f.codes ELSE Jurisdiction(f.user)

IncludeTree(f) == IF f.id # None THEN f.tree # f.original ELSE f.tree.leaves # {}

Payload(f) ==
    [nationwide |-> f.nationwide,
     codes |-> IF f.nationwide THEN {} ELSE EffectiveCodes(f),
     groups |-> IF f.nationwide THEN f.groups ELSE {},
     items |-> f.items,
     tree |-> IF IncludeTree(f) THEN f.tree ELSE NoTree]

\* Kind after kind, its rows before its files.
Deletions(f) ==
    LET OfKind(k) ==
            [n \in DOMAIN f.gone[k] |-> [op |-> "row", id |-> f.gone[k][n], file |-> 0]]
            \o [n \in DOMAIN f.goneFiles[k] |->
                  [op |-> "file", id |-> f.goneFiles[k][n][1], file |-> f.goneFiles[k][n][2]]]
    IN OfKind(Kinds[1]) \o OfKind(Kinds[2]) \o OfKind(Kinds[3])

Save ==
    /\ Editable
    /\ form.id = None => \E b \in Benefit : benefit[b].state = "absent"
    /\ phase' = "saving"
    /\ queue' = <<[op |-> "bundle", id |-> 0, file |-> 0]>> \o Deletions(form)
    /\ checked' = FALSE
    /\ UNCHANGED <<store, form, loads, upload, edits, sessions, history>>

Admitted(call) ==
    CASE call.op = "bundle" ->
            /\ IsBundleRequest(Payload(form))
            /\ form.id # None => CanModify(form.user, form.id)
            /\ ValidInput(form.user, Payload(form))
            /\ CanSaveItems(form.id, form.items)
      [] call.op = "row" -> CanDeleteItem(form.user, form.id, call.id)
      [] call.op = "file" -> CanDeleteFile(form.user, form.id, call.id, call.file)

Fail ==
    /\ phase' = "failed"
    /\ queue' = <<>> /\ checked' = FALSE /\ overtaken' = FALSE
    /\ UNCHANGED <<form, loads, upload, edits, sessions, moves, restarted>>

\* The request is lost or refused, or its checks pass.
Check ==
    /\ phase = "saving" /\ ~checked
    /\ UNCHANGED store
    /\ \/ Fail /\ UNCHANGED writer
       \/ /\ Admitted(Head(queue))
          /\ checked' = TRUE
          /\ UNCHANGED <<phase, form, loads, upload, queue, edits, sessions, history>>

Effect(call) ==
    CASE call.op = "bundle" /\ form.id = None ->
            LET b == CHOOSE x \in Benefit : benefit[x].state = "absent"
            IN CreateBenefitBundle(form.user, b, Payload(form))
      [] call.op = "bundle" /\ form.id # None ->
            EditBenefitBundle(form.user, form.id, Payload(form))
      [] call.op = "row" -> DeleteItem(call.id)
      [] call.op = "file" -> DeleteFile(call.id, call.file)

\* The form closes after the last answer.
Answered ==
    /\ queue' = Tail(queue) /\ checked' = FALSE /\ overtaken' = FALSE
    /\ phase' = IF Len(queue) = 1 THEN "closed" ELSE "saving"
    /\ UNCHANGED <<form, loads, upload, edits, sessions, moves, restarted>>

\* The benefit a save is about: the form's, or the one it creates.
Subject(b) == IF form.id # None THEN b = form.id ELSE benefit[b].state = "absent" /\ Live(b)'

\* The transaction, which checks nothing of the author again; the answer may be
\* lost, and then the save has failed.
Apply ==
    /\ phase = "saving" /\ checked
    /\ Effect(Head(queue))
    /\ writer' = [b \in Benefit |->
            IF Head(queue).op = "bundle" /\ Subject(b)
            THEN IF form.id = None THEN "created" ELSE "form" ELSE writer[b]]
    /\ Answered \/ Fail

\* The transaction rolls back: what was checked is no longer so.
RolledBack ==
    /\ phase = "saving" /\ checked
    /\ UNCHANGED <<store, writer>> /\ Fail

-----------------------------------------------------------------------------
(* Everybody else *)

PeerDeletesBenefit(b) ==
    /\ Live(b) /\ DeleteBenefit(b)
    /\ UNCHANGED <<ui, history>>

\* Another author's form, opened on the benefit as it is now, which changes where
\* the benefit reaches: it keeps some of its places, with what one session of the
\* picker adds.
PeerForm(u, b, wide, codes, groups) ==
    [Blank(u) EXCEPT !.id = b, !.nationwide = wide, !.codes = codes, !.groups = groups,
                     !.items = LocalItems(b)]
NewPlaces(u, b) == {C \in SUBSET Place : C \ benefit[b].codes \in Picks(u)}

\* His request's checks and its transaction are one step.
PeerMovesBenefit(u, b) ==
    /\ moves < MaxMoves /\ moves' = moves + 1
    /\ CanModify(u, b) /\ (u \in Author => IsBenefitVisibleToScope(benefit[b], u))
    /\ \E wide \in IF NationwideLocked(u) THEN {benefit[b].nationwide} ELSE BOOLEAN :
       \E codes \in IF wide THEN {{}} ELSE NewPlaces(u, b),
          groups \in IF ~wide THEN {{}}
                    ELSE IF u.scope = "NATIONAL" THEN {benefit[b].groups} ELSE SUBSET Group :
          LET d == Payload(PeerForm(u, b, wide, codes, groups))
          IN IsBundleRequest(d) /\ ValidInput(u, d) /\ EditBenefitBundle(u, b, d)
    /\ writer' = [c \in Benefit |-> IF c = b THEN "peer" ELSE writer[c]]
    /\ overtaken' = (overtaken \/ (checked /\ b = form.id))
    /\ UNCHANGED <<ui, restarted>>

PeerRemovesField(f) ==
    /\ QuietFields => phase = "closed"
    /\ RemoveField(f)
    /\ UNCHANGED <<ui, history>>

Announce(b) == NotifyNext(b) /\ UNCHANGED <<ui, history>>

ServerRestart == Restart /\ restarted' = TRUE /\ UNCHANGED <<ui, moves, writer, overtaken>>

Init ==
    /\ \E row \in BenefitRow, t \in Tree \cup {NoTree} :
          /\ t.leaves \cap Subfield = {}
          /\ row.state = "live" /\ row.creator = None /\ (~row.nationwide => row.groups = {})
          /\ IF row.nationwide THEN row.groups # {} /\ row.codes = {} ELSE row.codes # {}
          /\ benefit = [b \in Benefit |-> IF b \in Seeded THEN row ELSE Absent]
          /\ tree = [b \in Benefit |-> IF b \in Seeded THEN t ELSE NoTree]
    /\ \E b \in Seeded :
          item = <<[benefit |-> b, kind |-> Kinds[2], live |-> TRUE, files |-> <<TRUE>>]>>
    /\ field = Field
    /\ job = [b \in Benefit |-> {}] /\ texted = {}
    /\ phase = "closed" /\ form = [Blank(CHOOSE u \in User : TRUE) EXCEPT !.fields = {}]
    /\ loads = {} /\ upload = None /\ queue = <<>> /\ checked = FALSE
    /\ edits = 0 /\ sessions = 0
    /\ moves = 0 /\ restarted = FALSE /\ writer = [b \in Benefit |-> None] /\ overtaken = FALSE

Next ==
    \/ \E u \in User : OpenCreate(u) \/ \E b \in Benefit : OpenEdit(u, b)
    \/ \E u \in Peer, b \in Benefit : PeerMovesBenefit(u, b)
    \/ \E b \in Benefit : Load(b) \/ PeerDeletesBenefit(b) \/ Announce(b)
    \/ \E f \in Field : PeerRemovesField(f)
    \/ SetNationwide \/ PickPlaces \/ RemovePlace \/ SetGroups \/ EditTree \/ AddItem
    \/ \E k \in DOMAIN form.items : RemoveItem(k) \/ RemoveFile(k) \/ StartUpload(k)
    \/ FinishUpload \/ Close \/ Save \/ Check \/ Apply \/ RolledBack \/ ServerRestart

Spec == Init /\ [][Next]_vars

-----------------------------------------------------------------------------
(* Properties *)

\* Every variable has its type.
TypeOK ==
    /\ benefit \in [Benefit -> BenefitRow]
    /\ \A i \in DOMAIN item : item[i] \in [benefit : Benefit, kind : Range(Kinds), live : BOOLEAN,
                                           files : UNION {[1 .. n -> BOOLEAN] : n \in 0 .. MaxFiles}]
    /\ tree \in [Benefit -> [op : {"none", "ALL", "ANY"}, leaves : SUBSET Field]]
    /\ field \subseteq Field
    /\ job \in [Benefit -> SUBSET Applicant] /\ texted \subseteq Benefit \X Applicant
    /\ phase \in {"closed", "open", "saving", "failed"} /\ loads \subseteq Benefit
    /\ form.id \in Benefit \cup {None} /\ form.codes \subseteq Place
    /\ phase = "saving" => queue # <<>>

\* A condition is on a field that can still be answered: deleting a field
\* unbinds it everywhere, and no form opened later brings it back.  A column of a
\* repeater, which has no answer of its own, is never picked.
LeavesAnswerable == \A b \in Benefit : Live(b) => tree[b].leaves \subseteq field \ Subfield

\* When the announcement of a benefit is over, everyone who is not excluded, by
\* the rules or by where he lives, was told and nobody else, whatever failed for
\* others (benefitNotification.service.ts:13 and :42); of one that was edited
\* meanwhile, everyone was told who fails nothing and may live anywhere.
\* A deleted field may leave an ANY group empty, which excludes everybody.
NobodyForgotten ==
    \A b \in Benefit \ Seeded : (Live(b) /\ job[b] = {} /\ ~restarted /\ field = Field) =>
        \A a \in Applicant \ Unreachable :
            /\ writer[b] = "created" => (<<b, a>> \in texted) = ~Excluded(a, b)
            /\ Fails[a] = {} /\ Residence[a] = None => <<b, a>> \in texted

ShapeCount(items, kind, n) ==
    Cardinality({k \in DOMAIN items : items[k].kind = kind /\
                                      Cardinality(items[k].files) + items[k].fresh = n})

\* What a form that reports success showed is what is stored, over the bundle
\* request and every deletion after it, whatever a deletion of the benefit did
\* in between (the form's one save call, BenefitFormModal.tsx:83).  Where it
\* reaches may have been changed by another author since the bundle request.
StoredReach(f, row) ==
    /\ row.nationwide = f.nationwide
    /\ IF f.nationwide THEN row.groups = GroupPlan(f.user, f.groups)
       ELSE row.codes = EffectiveCodes(f)
Stored(f, b) ==
    /\ writer[b] # "peer" => StoredReach(f, benefit[b])
    /\ LoadedTree(b) = f.tree
    /\ \A kind \in Range(Kinds), n \in 0 .. MaxFiles :
          ShapeCount(f.items, kind, n) = ShapeCount(LocalItems(b), kind, n)
    /\ \A k \in DOMAIN f.items : f.items[k].id # 0 => ItemExists(b, f.items[k].id)

Reports == phase = "saving" /\ phase' = "closed"

SavedIsShown ==
    [][Reports => \A b \in Benefit : Subject(b) /\ Live(b)' => Stored(form, b)']_vars

\* What an author saved is on his own list, whatever others made of the benefit
\* before the last request, and during a bundle request (benefitLocation.service.ts:22
\* and :67: the authority over a location and the reach of a benefit are two
\* readings of a code).
SavedIsListed ==
    [][Reports => \A b \in Benefit :
            Subject(b) /\ Live(b)' /\ (overtaken => Head(queue).op = "bundle")
            => IsBenefitVisibleToScope(benefit[b], form.user)']_vars

\* No request of a save changes a benefit that is beyond its author's
\* jurisdiction, unless another author moved it there between the request's
\* checks and its transaction, which locks nothing and checks nothing again; and
\* what the author writes never reaches beyond it, even then.
Within(u, row) ==
    IF row.nationwide THEN u.scope \in NationalLevel
    ELSE \A c \in row.codes : IsUserAuthorizedForLocation(u, c)
WithinJurisdiction ==
    [][(checked /\ ~checked' /\ (benefit' # benefit \/ item' # item)) =>
         \A b \in Benefit : (benefit'[b] # benefit[b] \/ b = form.id) =>
            /\ Live(b) /\ ~overtaken => Within(form.user, benefit[b])
            /\ benefit'[b] # benefit[b] \/ ~overtaken => Within(form.user, benefit'[b])]_vars

\* Deleted is deleted: neither a save in flight nor anything later brings back a
\* benefit, a row or a file (every update names its row by id alone).
DeletedStaysDeleted ==
    [][/\ \A b \in Benefit : benefit[b].state = "deleted" => benefit'[b].state = "deleted"
       /\ \A i \in DOMAIN item :
             /\ ~item[i].live => ~item'[i].live
             /\ \A f \in DOMAIN item[i].files : ~item[i].files[f] => ~item'[i].files[f]]_vars
=============================================================================
