----------------------------- MODULE WebControls -----------------------------
(***************************************************************************)
(* What the user of web/ chooses, and what the pages make of it: the       *)
(* presets, filters and sorting of the models page, the selection of the   *)
(* compare page, and the theme, which the layout keeps in localStorage for *)
(* all tabs.  Both pages filter a list they loaded once; what they choose  *)
(* lives as long as the page is mounted.                                   *)
(***************************************************************************)
EXTENDS Integers, Sequences

CONSTANTS
    Rows,           \* rows of GET /models: id, provider, tier and what is read of them
    Replies,        \* the lists that may be loaded, subsets of Rows
    Terms,          \* what may be typed into a search box
    LongTerms,      \* those of at least two characters
    Columns,        \* the sortable columns
    MaxSelected,    \* how many models can be compared, 5
    Colours         \* how many colours the chart has, 5

Tiers == {"S", "A", "B"}
RowType == [model_id : STRING, provider : STRING, tier : Tiers,
            id_has : SUBSET Terms, provider_has : SUBSET Terms,
            free : BOOLEAN, has_tools : BOOLEAN]

ASSUME WebControlsAssumption ==
    /\ Rows \subseteq RowType /\ Replies \subseteq SUBSET Rows
    /\ "" \in Terms \ LongTerms /\ "deepseek" \in Terms
    /\ MaxSelected \in Nat /\ Colours \in Nat \ {0} /\ MaxSelected <= Colours

VARIABLES
    open, loading,      \* which of the two pages is mounted
    models, isList,     \* models and allModels of the source, and whether it is an
                        \* array: the API may answer with an object
    search, sortCol, sortDir, filterProvider, filterTier, activePreset,
    searchTerm, suggestions, selected,
    dark,               \* darkMode of the layout
    theme               \* localStorage 'theme'

loaded == <<open, loading, models, isList>>
filters == <<search, filterProvider, filterTier, activePreset>>
sorting == <<sortCol, sortDir>>
comparison == <<searchTerm, suggestions, selected>>
look == <<dark, theme>>
vars == <<loaded, filters, sorting, comparison, look>>

Presets == {"all", "free", "best_value", "agent_ready", "s_tier", "deepseek"}
Themes == {"dark", "light"}

TypeOK ==
    /\ open \in {"models", "compare"} /\ loading \in BOOLEAN
    /\ models \subseteq Rows /\ isList \in BOOLEAN
    /\ search \in Terms /\ searchTerm \in Terms
    /\ sortCol \in Columns \cup {"composite"} /\ sortDir \in {"asc", "desc"}
    /\ filterProvider \in {r.provider : r \in Rows} \cup {""}
    /\ filterTier \in Tiers \cup {""}
    /\ activePreset \in Presets
    /\ suggestions \subseteq Rows
    /\ selected \in Seq(Rows)
    /\ Len(selected) <= MaxSelected
    /\ dark \in BOOLEAN /\ theme \in Themes

-----------------------------------------------------------------------------
(* The layout and the pages as they are mounted.                           *)

\* onMount reads what is stored before the effect writes the theme back.
DarkAtLoad(saved, systemDark) == saved = "dark" \/ (saved = "none" /\ systemDark)

Written(isDark) == IF isDark THEN "dark" ELSE "light"

ModelsPageMounts ==
    /\ search' = "" /\ sortCol' = "composite" /\ sortDir' = "desc"
    /\ filterProvider' = "" /\ filterTier' = "" /\ activePreset' = "all"

ComparePageMounts == searchTerm' = "" /\ suggestions' = {} /\ selected' = <<>>

Mounts(p) ==
    /\ open' = p /\ loading' = TRUE /\ models' = {} /\ isList' = TRUE
    /\ ModelsPageMounts /\ ComparePageMounts

\* A link of the sidebar: the layout stays.
Go(p) ==
    /\ p # open
    /\ Mounts(p)
    /\ UNCHANGED look

OpenEffectFirst(p) ==
    /\ Mounts(p)
    /\ dark' = FALSE
    /\ theme' = Written(FALSE)

\* A document starts.
Open(p) ==
    /\ Mounts(p)
    /\ \E systemDark \in BOOLEAN : dark' = DarkAtLoad(theme, systemDark)
    /\ theme' = Written(dark')

ToggleDark ==
    /\ dark' = ~dark
    /\ theme' = Written(~dark)
    /\ UNCHANGED <<loaded, filters, sorting, comparison>>

OtherTabToggles ==
    /\ theme' \in Themes
    /\ UNCHANGED <<loaded, filters, sorting, comparison, dark>>

\* The list arrives, or an object, or nothing: catch {} leaves the empty list.
Load ==
    /\ loading
    /\ loading' = FALSE
    /\ \/ models' \in Replies \cup {{}} /\ isList' = TRUE
       \/ models' = {} /\ isList' = FALSE
    /\ UNCHANGED <<open, filters, sorting, comparison, look>>

-----------------------------------------------------------------------------
(* The models page.                                                        *)

\* Only "all" clears the search, and only "deepseek" sets it.
SetPreset(id) ==
    /\ open = "models"
    /\ activePreset' = id
    /\ filterProvider' = ""
    /\ filterTier' = IF id = "s_tier" THEN "S" ELSE ""
    /\ search' = CASE id = "deepseek" -> "deepseek" [] id = "all" -> "" [] OTHER -> search
    /\ IF id \in {"best_value", "agent_ready", "all"}
       THEN sortCol' = "composite" /\ sortDir' = "desc"
       ELSE UNCHANGED sorting
    /\ UNCHANGED <<loaded, comparison, look>>

Search(term) ==
    /\ open = "models"
    /\ search' = term
    /\ UNCHANGED <<loaded, filterProvider, filterTier, activePreset, sorting, comparison, look>>

\* The options are those of the rows loaded.
ChooseProvider(p) ==
    /\ open = "models"
    /\ p \in {r.provider : r \in models} \cup {""}
    /\ filterProvider' = p
    /\ UNCHANGED <<loaded, search, filterTier, activePreset, sorting, comparison, look>>

ChooseTier(t) ==
    /\ open = "models"
    /\ t \in {r.tier : r \in models} \cup {""}
    /\ filterTier' = t
    /\ UNCHANGED <<loaded, search, filterProvider, activePreset, sorting, comparison, look>>

ToggleSort(col) ==
    /\ open = "models" /\ ~loading
    /\ IF sortCol = col
       THEN sortCol' = col /\ sortDir' = (IF sortDir = "desc" THEN "asc" ELSE "desc")
       ELSE sortCol' = col /\ sortDir' = "desc"
    /\ UNCHANGED <<loaded, filters, comparison, look>>

\* The rows the filters keep, and the order asked for.
Kept == {r \in models :
    /\ search = "" \/ search \in r.id_has \cup r.provider_has
    /\ filterProvider \in {"", r.provider}
    /\ filterTier \in {"", r.tier}
    /\ activePreset = "free" => r.free
    /\ activePreset = "agent_ready" => r.has_tools /\ r.tier \in {"S", "A"}}

Order == IF activePreset = "best_value" THEN <<"value", "desc">> ELSE sorting

\* $derived keeps the arrow function it is given; the rows kept, in that order, are
\* what a call of it would return, and nothing calls it.
Filtered == [kind |-> "function", returns |-> [rows |-> Kept, order |-> Order]]

\* {#each} takes an array as it is and Array.from of anything else: a function
\* without parameters has length 0.
EachOf(value) == IF value.kind = "array" THEN value.items ELSE {}

TableRows == EachOf(Filtered)

-----------------------------------------------------------------------------
(* The compare page.                                                       *)

IsSelectedRow(r) == \E i \in DOMAIN selected : selected[i] = r

\* By id alone: the same model at another provider counts as selected.
IsSelected(r) == \E i \in DOMAIN selected : selected[i].model_id = r.model_id

OnSearchInputBehind(term) ==
    /\ open = "compare"
    /\ searchTerm' = term
    /\ suggestions' = IF searchTerm \notin LongTerms THEN {}
                      ELSE {r \in models : searchTerm \in r.id_has /\ ~IsSelected(r)}
    /\ UNCHANGED <<loaded, filters, sorting, selected, look>>

\* On every input event; over an object filter() throws and the list stays.
OnSearchInput(term) ==
    /\ open = "compare"
    /\ searchTerm' = term
    /\ suggestions' = CASE term \notin LongTerms -> {}
                        [] term \in LongTerms /\ ~isList -> suggestions
                        [] OTHER -> {r \in models : term \in r.id_has /\ ~IsSelected(r)}
    /\ UNCHANGED <<loaded, filters, sorting, selected, look>>

\* A click on a suggestion; at the limit it changes nothing.
AddModel(r) ==
    /\ open = "compare"
    /\ r \in suggestions
    /\ Len(selected) < MaxSelected /\ ~IsSelected(r)
    /\ selected' = Append(selected, r)
    /\ searchTerm' = ""
    /\ suggestions' = {}
    /\ UNCHANGED <<loaded, filters, sorting, look>>

Without(s, i) == [j \in 1 .. Len(s) - 1 |-> IF j < i THEN s[j] ELSE s[j + 1]]

RemoveModel(i) ==
    /\ open = "compare"
    /\ i \in DOMAIN selected
    /\ selected' = Without(selected, i)
    /\ UNCHANGED <<loaded, filters, sorting, searchTerm, suggestions, look>>

\* One polygon, one chip and one column of the table per selected model.
Datasets == [i \in DOMAIN selected |->
                [label |-> selected[i].model_id, colour |-> (i - 1) % Colours]]

-----------------------------------------------------------------------------

Init ==
    /\ open \in {"models", "compare"} /\ loading = TRUE
    /\ models = {} /\ isList = TRUE
    /\ search = "" /\ sortCol = "composite" /\ sortDir = "desc"
    /\ filterProvider = "" /\ filterTier = "" /\ activePreset = "all"
    /\ searchTerm = "" /\ suggestions = {} /\ selected = <<>>
    /\ \E saved \in Themes \cup {"none"}, systemDark \in BOOLEAN :
          dark = DarkAtLoad(saved, systemDark)
    /\ theme = Written(dark)

Next ==
    \/ \E p \in {"models", "compare"} : Go(p) \/ Open(p)
    \/ Load \/ ToggleDark \/ OtherTabToggles
    \/ \E id \in Presets : SetPreset(id)
    \/ \E term \in Terms : Search(term) \/ OnSearchInput(term)
    \/ \E r \in Rows : ChooseProvider(r.provider) \/ ChooseTier(r.tier) \/ AddModel(r)
    \/ ChooseProvider("") \/ ChooseTier("")
    \/ \E col \in Columns : ToggleSort(col)
    \/ \E i \in 1..MaxSelected : RemoveModel(i)

Spec == Init /\ [][Next]_vars

-----------------------------------------------------------------------------

\* Whatever is typed, added and removed, and whenever the list arrives: each
\* suggestion is a loaded model that matches what the box says now and is not
\* compared already.
SuggestionsSound ==
    \A r \in suggestions : r \in models /\ searchTerm \in r.id_has /\ ~IsSelected(r)

\* No two models of a comparison share a name or a colour.
ChartTellsApart ==
    \A i, j \in DOMAIN Datasets : i # j =>
        /\ Datasets[i].label # Datasets[j].label
        /\ Datasets[i].colour # Datasets[j].colour

\* Opening or reloading a page never changes the theme that is stored: only a
\* switch in one of the tabs does.
OpeningKeepsTheme == [][theme' # theme => ToggleDark \/ OtherTabToggles]_vars

\* "All Models - no filters": with nothing chosen the table lists what was loaded,
\* the number of which stands above it.  It never does.
AllModelsListed ==
    open = "models" /\ ~loading /\ filters = <<"", "", "", "all">> => TableRows = models
==============================================================================
