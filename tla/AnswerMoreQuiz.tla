---------------------------- MODULE AnswerMoreQuiz ----------------------------
(***************************************************************************)
(* One applicant answering the "Answer More" quiz in one or more browser    *)
(* tabs.  The server holds the answer rows; every tab holds the copy that   *)
(* its AnswersProvider last received (the provider outlives the pages) and, *)
(* while the quiz page is open, the questions it fetched and a draft.       *)
(*                                                                         *)
(* The catalog does not change here: it is one of Catalogs for a whole      *)
(* behavior.  Repeater rows are not modelled: the page excludes them.       *)
(* Anchor chains are acyclic, so flattenAnchorOrder drops no question.      *)
(***************************************************************************)
EXTENDS EligibilityLaws

CONSTANTS
    Tab,
    Failures    \* whether a bulk save may fail after saving some of its items

ASSUME QuizAssumption ==
    /\ IsFiniteSet(Benefit)
    /\ \A c \in Catalogs : c.locked \subseteq Field /\ c.synced \subseteq Field
    /\ Failures \in BOOLEAN

VARIABLE tab

vars == <<catalog, answers, tab>>

NoDraft == [f \in Field |-> Null]

\* Draft and cached answers as isFieldVisible and "?? null" see them: a missing
\* key and a null are the same.
Draft(cache) == [f \in Field |-> IF cache[f] \in Value THEN cache[f] ELSE Null]

Elsewhere(cache) ==
    [page |-> "elsewhere", cache |-> cache, candidates |-> {}, fields |-> {},
     draft |-> NoDraft]

TypeOK ==
    /\ catalog \in Catalogs
    /\ answers \in Answers
    /\ tab \in [Tab -> [page : {"elsewhere", "quiz"}, cache : Answers,
                        candidates : SUBSET Benefit, fields : SUBSET Field,
                        draft : [Field -> Value \cup {Null}]]]

\* A login through eGov has filled the fields it knows.
Init ==
    /\ catalog \in Catalogs
    /\ answers \in [Field -> Value \cup {NoRow}]
    /\ \A f \in Field : answers[f] \in Value <=> f \in catalog.synced
    /\ tab = [t \in Tab |-> Elsewhere(answers)]

Candidates == {b \in Benefit : Verdict(catalog, b, answers) = "PENDING"}

\* Mutation: the page keeps only the questions that decide the verdict next.
PageFieldsMutant(candidates) ==
    (UNION {PendingFieldIds(catalog, b, answers) : b \in candidates})
      \ (catalog.deleted \cup catalog.locked)

\* The questions of the page: getFields() leaves out deleted fields, the page
\* the ones isEgovFieldLocked() locks in this session.
PageFields(candidates) ==
    (UNION {UnansweredFieldIds(catalog, b, answers) : b \in candidates})
      \ (catalog.deleted \cup catalog.locked)

\* Mutation: every fetched question is shown and submitted.
RenderableMutant(t) == tab[t].fields

Renderable(t) ==
    {f \in tab[t].fields : Visible(catalog.vis[f], tab[t].draft)}

-----------------------------------------------------------------------------
\* The page mounts: eligibility comes from the server, the draft from the tab's
\* own copy of the answers.
Open(t) ==
    /\ tab[t].page = "elsewhere"
    /\ tab' = [tab EXCEPT ![t] =
                 [page |-> "quiz", cache |-> tab[t].cache,
                  candidates |-> Candidates, fields |-> PageFields(Candidates),
                  draft |-> Draft(tab[t].cache)]]
    /\ UNCHANGED <<catalog, answers>>

\* The applicant answers a rendered question, or clears one.
Fill(t, f, v) ==
    /\ tab[t].page = "quiz" /\ f \in Renderable(t)
    /\ tab' = [tab EXCEPT ![t].draft[f] = v]
    /\ UNCHANGED <<catalog, answers>>

Saved(t, fields) ==
    [f \in Field |-> IF f \in fields THEN tab[t].draft[f] ELSE answers[f]]

\* handleSubmit: every rendered question is saved, blank ones as null; the
\* response refreshes the tab's copy and the page navigates away.
Submit(t) ==
    /\ tab[t].page = "quiz" /\ tab[t].candidates # {} /\ tab[t].fields # {}
    /\ answers' = Saved(t, Renderable(t))
    /\ tab' = [tab EXCEPT ![t] = Elsewhere(answers')]
    /\ UNCHANGED catalog

\* submitFieldAnswers runs its items with Promise.all and no transaction, then
\* reads the answers back: a request that fails leaves any of them written, and
\* the page stays, with its draft.
SubmitFails(t) ==
    /\ Failures
    /\ tab[t].page = "quiz" /\ tab[t].candidates # {} /\ tab[t].fields # {}
    /\ \E saved \in SUBSET Renderable(t) : answers' = Saved(t, saved)
    /\ UNCHANGED <<catalog, tab>>

\* The page unmounts; the provider and its copy stay.
Leave(t) ==
    /\ tab[t].page = "quiz"
    /\ tab' = [tab EXCEPT ![t] = Elsewhere(tab[t].cache)]
    /\ UNCHANGED <<catalog, answers>>

\* A full page load: the provider fetches the answers again.
Reload(t) ==
    /\ tab' = [tab EXCEPT ![t] = Elsewhere(answers)]
    /\ UNCHANGED <<catalog, answers>>

Next ==
    \E t \in Tab :
        \/ Open(t)
        \/ \E f \in Field, v \in Value \cup {Null} : Fill(t, f, v)
        \/ Submit(t)
        \/ SubmitFails(t)
        \/ Leave(t)
        \/ Reload(t)

Spec == Init /\ [][Next]_vars

-----------------------------------------------------------------------------
\* An applicant who answers every question shown and saves it: the environment
\* under which the quiz must end.
AnswerOne(t) ==
    \E f \in Renderable(t), v \in Value : tab[t].draft[f] = Null /\ Fill(t, f, v)

SubmitAnswered(t) ==
    /\ \A f \in Renderable(t) : tab[t].draft[f] # Null
    /\ Submit(t)

LeaveDone(t) == tab[t].candidates = {} /\ Leave(t)

DiligentNext ==
    \E t \in Tab :
        \/ Open(t)
        \/ AnswerOne(t)
        \/ SubmitAnswered(t)
        \/ SubmitFails(t)
        \/ LeaveDone(t)

DiligentSpec ==
    /\ Init
    /\ [][DiligentNext]_vars
    /\ \A t \in Tab :
         /\ WF_vars(Open(t))
         /\ WF_vars(AnswerOne(t))
         /\ WF_vars(SubmitAnswered(t))
         /\ WF_vars(LeaveDone(t))

-----------------------------------------------------------------------------
\* Catalogs on which the quiz makes its promises: rules and show/hide trees read
\* live top-level fields, a live question depends on other questions that are
\* always shown, and what a login fills in is always shown too.
OneLevel(c) ==
    /\ \A b \in DOMAIN c.benefits :
          LeafFields(c.benefits[b].tree) \cap (c.deleted \cup c.subfields) = {}
    /\ \A f \in Field \ c.deleted :
          /\ c.vis[f] # <<>> => References(c.vis[f], f) # {}
          /\ \A d \in References(c.vis[f], f) :
                c.vis[d] = <<>> /\ d \notin c.deleted \cup c.subfields
    /\ c.residence # NoField => c.residence \notin c.deleted /\ c.vis[c.residence] = <<>>
    /\ c.locked \subseteq c.synced /\ \A f \in c.synced : c.vis[f] = <<>>

\* A benefit that is still PENDING leaves something to answer on the page that
\* lists it (README.md:16, "never a dead end, always the next concrete question
\* to answer"; answerMoreQuiz.test.ts:147-150).
NoDeadEnd ==
    \A t \in Tab : tab[t].candidates # {} => Renderable(t) # {}

\* No field that the answers hide for good has an answer of its own: a leaf on
\* a hidden question never counts a leftover answer (field-visibility.ts:572-576,
\* a hidden field "must never get a saved answer row").
HiddenStayUnanswered ==
    \A b \in Benefit, f \in Field :
        f \in HiddenFields(catalog, b, answers) => answers[f] \notin Value

\* The quiz asks for what is missing and never rewrites a real answer.
SavedAnswersKept ==
    [][\A f \in Field : answers[f] \in Value => answers'[f] = answers[f]]_vars

\* Answering every question the quiz shows decides every benefit
\* (answerMoreQuiz.test.ts:193-196, "must actually move the benefit off PENDING").
EventuallyDecided ==
    <>[](\A b \in Benefit : Verdict(catalog, b, answers) # "PENDING")

=============================================================================
