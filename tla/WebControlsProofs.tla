-------------------------- MODULE WebControlsProofs --------------------------
(***************************************************************************)
(* What holds of the controls for every list of rows, every text typed,    *)
(* every number of columns and every limit the chart has colours for.      *)
(***************************************************************************)
EXTENDS WebControls, TLAPS

\* What the proofs use of the constants.
LEMMA Limits == MaxSelected \in Nat /\ Colours \in Nat /\ Colours # 0 /\ MaxSelected <= Colours
<1>1. MaxSelected \in Nat /\ Colours \in Nat \ {0} /\ MaxSelected <= Colours
  BY WebControlsAssumption, Zenon DEF WebControlsAssumption
<1>2. QED
  BY <1>1

LEMMA Constants ==
    /\ "" \in Terms /\ "deepseek" \in Terms
    /\ Replies \subseteq SUBSET Rows
    /\ \A r \in Rows : r.tier \in Tiers
<1>1. Rows \subseteq RowType /\ Replies \subseteq SUBSET Rows
  BY WebControlsAssumption, Zenon DEF WebControlsAssumption
<1>2. "" \in Terms \ LongTerms /\ "deepseek" \in Terms
  BY WebControlsAssumption, Zenon DEF WebControlsAssumption
<1>3. \A r \in RowType : r.tier \in Tiers
  BY DEF RowType
<1>4. QED
  BY <1>1, <1>2, <1>3, Zenon

\* Adding at the end and taking one out.
LEMMA Appended ==
    ASSUME NEW S, NEW s \in Seq(S), NEW e \in S
    PROVE  /\ Append(s, e) \in Seq(S)
           /\ Len(Append(s, e)) = Len(s) + 1
           /\ DOMAIN Append(s, e) = 1 .. Len(s) + 1
           /\ \A i \in 1 .. Len(s) : Append(s, e)[i] = s[i]
           /\ Append(s, e)[Len(s) + 1] = e
OBVIOUS

LEMMA TakenOut ==
    ASSUME NEW S, NEW s \in Seq(S), NEW i \in DOMAIN s
    PROVE  /\ Without(s, i) \in Seq(S)
           /\ Len(Without(s, i)) = Len(s) - 1
           /\ DOMAIN Without(s, i) = 1 .. Len(s) - 1
           /\ \A j \in 1 .. Len(s) - 1 :
                 \E k \in DOMAIN s :
                     /\ k = (IF j < i THEN j ELSE j + 1)
                     /\ Without(s, i)[j] = s[k]
<1>1. Len(s) \in Nat /\ i \in 1 .. Len(s) /\ DOMAIN s = 1 .. Len(s)
  OBVIOUS
<1>2. Len(s) - 1 \in Nat
  BY <1>1
<1>3. \A j \in 1 .. Len(s) - 1 : (IF j < i THEN j ELSE j + 1) \in 1 .. Len(s)
  BY <1>1
<1>4. \A j \in 1 .. Len(s) - 1 : (IF j < i THEN s[j] ELSE s[j + 1]) \in S
  BY <1>1
<1>5. Without(s, i) \in [1 .. Len(s) - 1 -> S]
  BY <1>4 DEF Without
<1>6. Without(s, i) \in Seq(S) /\ Len(Without(s, i)) = Len(s) - 1
  BY <1>2, <1>5
<1>7. \A j \in 1 .. Len(s) - 1 : Without(s, i)[j] = s[IF j < i THEN j ELSE j + 1]
  BY DEF Without
<1>8. QED
  BY <1>1, <1>3, <1>5, <1>6, <1>7

LEMMA NothingSelected == <<>> \in Seq(Rows) /\ Len(<<>>) <= MaxSelected
<1>1. Len(<<>>) = 0 /\ <<>> \in Seq(Rows)
  OBVIOUS
<1>2. 0 <= MaxSelected
  BY Limits
<1>3. QED
  BY <1>1, <1>2

LEMMA EmptySelection == DOMAIN <<>> = {}
<1>1. <<>> \in Seq({}) /\ Len(<<>>) = 0
  OBVIOUS
<1>2. DOMAIN <<>> = 1..0
  BY <1>1
<1>3. QED
  BY <1>2

LEMMA RoomForOne ==
    ASSUME NEW s \in Seq(Rows), NEW r \in Rows, Len(s) < MaxSelected
    PROVE  Append(s, r) \in Seq(Rows) /\ Len(Append(s, r)) <= MaxSelected
<1>1. Append(s, r) \in Seq(Rows) /\ Len(Append(s, r)) = Len(s) + 1
  BY Appended
<1>2. Len(s) \in Nat /\ MaxSelected \in Nat
  BY Limits
<1>3. QED
  BY <1>1, <1>2

LEMMA OneLess ==
    ASSUME NEW s \in Seq(Rows), NEW i \in DOMAIN s, Len(s) <= MaxSelected
    PROVE  Without(s, i) \in Seq(Rows) /\ Len(Without(s, i)) <= MaxSelected
<1>1. Without(s, i) \in Seq(Rows) /\ Len(Without(s, i)) = Len(s) - 1
  BY TakenOut
<1>2. Len(s) \in Nat /\ MaxSelected \in Nat
  BY Limits
<1>3. QED
  BY <1>1, <1>2

\* A freshly mounted page has the type of its controls.
LEMMA MountsTyped ==
    ASSUME NEW p \in {"models", "compare"}, Mounts(p), dark' \in BOOLEAN, theme' \in Themes
    PROVE  TypeOK'
<1>1. <<>> \in Seq(Rows) /\ Len(<<>>) <= MaxSelected
  BY NothingSelected
<1>2. QED
  BY <1>1, Constants
     DEF Mounts, ModelsPageMounts, ComparePageMounts, TypeOK, Presets

LEMMA InitTyped == Init => TypeOK
<1> SUFFICES ASSUME Init PROVE TypeOK
  OBVIOUS
<1>1. <<>> \in Seq(Rows) /\ Len(<<>>) <= MaxSelected
  BY NothingSelected
<1>2. dark \in BOOLEAN
  BY DEF Init, DarkAtLoad
<1>3. theme \in Themes
  BY DEF Init, Written, Themes
<1>4. QED
  BY <1>1, <1>2, <1>3, Constants DEF Init, TypeOK, Presets

\* Type correctness: every filter has a value its select box offers, and never
\* more models are selected than may be compared.
THEOREM TypeCorrect == Spec => []TypeOK
<1>1. TypeOK /\ [Next]_vars => TypeOK'
  <2> SUFFICES ASSUME TypeOK, [Next]_vars PROVE TypeOK'
    OBVIOUS
  <2>1. ASSUME NEW p \in {"models", "compare"}, Go(p)
        PROVE  TypeOK'
    BY <2>1, MountsTyped DEF Go, look, TypeOK
  <2>2. ASSUME NEW p \in {"models", "compare"}, Open(p)
        PROVE  TypeOK'
    <3>1. dark' \in BOOLEAN
      BY <2>2 DEF Open, DarkAtLoad
    <3>2. theme' \in Themes
      BY <2>2 DEF Open, Written, Themes
    <3>3. Mounts(p)
      BY <2>2 DEF Open
    <3>4. QED
      BY <3>1, <3>2, <3>3, MountsTyped
  <2> USE DEF TypeOK, loaded, filters, sorting, comparison, look
  <2>3. CASE Load
    BY <2>3, Constants DEF Load
  <2>4. CASE ToggleDark
    BY <2>4 DEF ToggleDark, Written, Themes
  <2>5. CASE OtherTabToggles
    BY <2>5 DEF OtherTabToggles
  <2>6. ASSUME NEW id \in Presets, SetPreset(id)
        PROVE  TypeOK'
    BY <2>6, Constants DEF SetPreset, Presets, Tiers
  <2>7. ASSUME NEW term \in Terms, Search(term)
        PROVE  TypeOK'
    BY <2>7 DEF Search
  <2>8. ASSUME NEW term \in Terms, OnSearchInput(term)
        PROVE  TypeOK'
    <3>1. suggestions' \subseteq Rows
      BY <2>8 DEF OnSearchInput
    <3>2. QED
      BY <2>8, <3>1 DEF OnSearchInput
  <2>9. ASSUME NEW p, ChooseProvider(p)
        PROVE  TypeOK'
    BY <2>9 DEF ChooseProvider
  <2>10. ASSUME NEW t, ChooseTier(t)
         PROVE  TypeOK'
    <3>1. \A r \in Rows : r.tier \in Tiers
      BY Constants
    <3>2. filterTier' \in Tiers \cup {""}
      BY <2>10, <3>1 DEF ChooseTier
    <3>3. QED
      BY <2>10, <3>2 DEF ChooseTier
  <2>11. ASSUME NEW r \in Rows, AddModel(r)
         PROVE  TypeOK'
    <3>1. selected' \in Seq(Rows) /\ Len(selected') <= MaxSelected
      <4>1. selected' = Append(selected, r) /\ Len(selected) < MaxSelected
        BY <2>11 DEF AddModel
      <4>2. QED
        BY <4>1, RoomForOne
    <3>2. QED
      BY <2>11, <3>1, Constants DEF AddModel
  <2>12. ASSUME NEW col \in Columns, ToggleSort(col)
         PROVE  TypeOK'
    BY <2>12 DEF ToggleSort
  <2>13. ASSUME NEW i \in 1..MaxSelected, RemoveModel(i)
         PROVE  TypeOK'
    <3>1. selected' \in Seq(Rows) /\ Len(selected') <= MaxSelected
      <4>1. selected' = Without(selected, i) /\ i \in DOMAIN selected
        BY <2>13 DEF RemoveModel
      <4>2. QED
        BY <4>1, OneLess
    <3>2. QED
      BY <2>13, <3>1 DEF RemoveModel
  <2>14. CASE UNCHANGED vars
    BY <2>14 DEF vars
  <2>15. QED
    BY <2>1, <2>2, <2>3, <2>4, <2>5, <2>6, <2>7, <2>8, <2>9, <2>10, <2>11, <2>12,
       <2>13, <2>14 DEF Next
<1>2. QED
  BY <1>1, InitTyped, PTL DEF Spec

-----------------------------------------------------------------------------
(* Suggestions and the chart.                                              *)

\* The list is loaded once, and what is not an array holds no row.
ListInv == (loading => models = {}) /\ (~isList => models = {})

\* The selection never holds one id twice.
Distinct == \A i, j \in DOMAIN selected : i # j => selected[i].model_id # selected[j].model_id

\* The list, the suggestions and the selection hold together: suggestions depend
\* on the list not changing under them, and the selection on the suggestions.
IInv == TypeOK /\ ListInv /\ SuggestionsSound /\ Distinct

\* Steps that leave the list and the compare page alone.
LEMMA Elsewhere ==
    ASSUME ListInv, SuggestionsSound, Distinct, UNCHANGED <<loaded, comparison>>
    PROVE  ListInv' /\ SuggestionsSound' /\ Distinct'
<1>1. UNCHANGED <<loading, models, isList, searchTerm, suggestions, selected>>
  BY DEF loaded, comparison
<1>2. ListInv'
  BY <1>1 DEF ListInv
<1>3. Distinct'
  BY <1>1 DEF Distinct
<1>4. \A r : IsSelected(r)' <=> IsSelected(r)
  BY <1>1 DEF IsSelected
<1>5. SuggestionsSound'
  BY <1>1, <1>4 DEF SuggestionsSound
<1>6. QED
  BY <1>2, <1>3, <1>5

LEMMA MountsSound ==
    ASSUME NEW p, Mounts(p)
    PROVE  ListInv' /\ SuggestionsSound' /\ Distinct'
<1>1. ListInv'
  BY DEF Mounts, ListInv
<1>2. SuggestionsSound'
  BY DEF Mounts, ComparePageMounts, SuggestionsSound
<1>3. selected' = <<>>
  BY DEF Mounts, ComparePageMounts
<1>4. Distinct'
  BY <1>3, EmptySelection DEF Distinct
<1>5. QED
  BY <1>1, <1>2, <1>4

LEMMA AddSound ==
    ASSUME IInv, NEW r \in Rows, AddModel(r)
    PROVE  ListInv' /\ SuggestionsSound' /\ Distinct'
<1>1. /\ selected \in Seq(Rows) /\ selected' = Append(selected, r)
      /\ ~IsSelected(r)
      /\ suggestions' = {}
      /\ UNCHANGED loaded
  BY DEF AddModel, IInv, TypeOK
<1>2. ListInv'
  BY <1>1 DEF IInv, ListInv, loaded
<1>3. SuggestionsSound'
  BY <1>1 DEF SuggestionsSound
<1>4. /\ DOMAIN selected' = 1 .. Len(selected) + 1
      /\ \A i \in 1 .. Len(selected) : selected'[i] = selected[i]
      /\ selected'[Len(selected) + 1] = r
  BY <1>1, Appended
<1>5. Len(selected) \in Nat /\ DOMAIN selected = 1 .. Len(selected)
  BY <1>1
<1>6. \A i \in 1 .. Len(selected) : selected[i].model_id # r.model_id
  BY <1>1, <1>5 DEF IsSelected
<1>7. \A i, j \in 1 .. Len(selected) : i # j => selected[i].model_id # selected[j].model_id
  BY <1>5 DEF IInv, Distinct
<1>8. Distinct'
  BY <1>4, <1>5, <1>6, <1>7 DEF Distinct
<1>9. QED
  BY <1>2, <1>3, <1>8

LEMMA RemoveSound ==
    ASSUME IInv, NEW i, RemoveModel(i)
    PROVE  ListInv' /\ SuggestionsSound' /\ Distinct'
<1>1. /\ selected \in Seq(Rows) /\ i \in DOMAIN selected
      /\ selected' = Without(selected, i)
      /\ UNCHANGED <<loaded, searchTerm, suggestions>>
  BY DEF RemoveModel, IInv, TypeOK
<1>2. ListInv'
  BY <1>1 DEF IInv, ListInv, loaded
<1>3. /\ DOMAIN selected' = 1 .. Len(selected) - 1
      /\ \A j \in 1 .. Len(selected) - 1 :
            \E k \in DOMAIN selected :
                /\ k = (IF j < i THEN j ELSE j + 1)
                /\ selected'[j] = selected[k]
  BY <1>1, TakenOut, SMTT(20)
<1>4. Len(selected) \in Nat /\ DOMAIN selected = 1 .. Len(selected)
  BY <1>1
<1>5. \A r : IsSelected(r)' => IsSelected(r)
  <2> SUFFICES ASSUME NEW r, NEW j \in DOMAIN selected', selected'[j].model_id = r.model_id
               PROVE  \E k \in DOMAIN selected : selected[k].model_id = r.model_id
    BY DEF IsSelected
  <2>1. PICK k \in DOMAIN selected : selected'[j] = selected[k]
    BY <1>3, Zenon
  <2>2. QED
    BY <2>1, Zenon
<1>6. SuggestionsSound'
  BY <1>1, <1>5 DEF IInv, SuggestionsSound, loaded
<1>7. Distinct'
  <2> SUFFICES ASSUME NEW a \in DOMAIN selected', NEW b \in DOMAIN selected', a # b
               PROVE  selected'[a].model_id # selected'[b].model_id
    BY DEF Distinct
  <2>1. PICK k \in DOMAIN selected : k = (IF a < i THEN a ELSE a + 1) /\ selected'[a] = selected[k]
    BY <1>3
  <2>2. PICK l \in DOMAIN selected : l = (IF b < i THEN b ELSE b + 1) /\ selected'[b] = selected[l]
    BY <1>3
  <2>3. k # l
    BY <1>1, <1>3, <1>4, <2>1, <2>2
  <2>4. selected[k].model_id # selected[l].model_id
    BY <2>3 DEF IInv, Distinct
  <2>5. QED
    BY <2>1, <2>2, <2>4
<1>8. QED
  BY <1>2, <1>6, <1>7

LEMMA TypingSound ==
    ASSUME IInv, NEW term \in Terms, OnSearchInput(term)
    PROVE  ListInv' /\ SuggestionsSound' /\ Distinct'
<1>1. UNCHANGED <<loaded, selected>> /\ searchTerm' = term
  BY DEF OnSearchInput
<1>2. ListInv' /\ Distinct'
  BY <1>1 DEF IInv, ListInv, Distinct, loaded
<1>3. \A r : IsSelected(r)' <=> IsSelected(r)
  BY <1>1 DEF IsSelected
<1>4. CASE term \notin LongTerms
  <2>1. suggestions' = {}
    BY <1>4 DEF OnSearchInput
  <2>2. QED
    BY <1>2, <2>1 DEF SuggestionsSound
<1>5. CASE term \in LongTerms /\ ~isList
  <2>1. suggestions' = suggestions
    BY <1>5 DEF OnSearchInput
  <2>2. suggestions = {}
    BY <1>5 DEF IInv, ListInv, SuggestionsSound
  <2>3. QED
    BY <1>2, <2>1, <2>2 DEF SuggestionsSound
<1>6. CASE term \in LongTerms /\ isList
  <2>1. suggestions' = {r \in models : term \in r.id_has /\ ~IsSelected(r)}
    BY <1>6 DEF OnSearchInput
  <2>2. QED
    BY <1>1, <1>2, <1>3, <2>1 DEF SuggestionsSound, loaded
<1>7. QED
  BY <1>4, <1>5, <1>6

LEMMA Inductive == IInv /\ TypeOK' /\ [Next]_vars => IInv'
<1> SUFFICES ASSUME IInv, TypeOK', [Next]_vars
             PROVE  ListInv' /\ SuggestionsSound' /\ Distinct'
  BY DEF IInv
<1>1. ListInv /\ SuggestionsSound /\ Distinct
  BY DEF IInv
<1>2. CASE \E p \in {"models", "compare"} : Go(p) \/ Open(p)
  <2>1. PICK p : Mounts(p)
    BY <1>2 DEF Go, Open
  <2>2. QED
    BY <2>1, MountsSound
<1>3. CASE Load
  <2>1. suggestions = {}
    BY <1>1, <1>3 DEF Load, ListInv, SuggestionsSound
  <2>2. loading' = FALSE /\ (~isList' => models' = {}) /\ UNCHANGED <<suggestions, selected>>
    BY <1>3 DEF Load, comparison
  <2>3. QED
    BY <1>1, <2>1, <2>2 DEF ListInv, SuggestionsSound, Distinct
<1>4. CASE UNCHANGED <<loaded, comparison>>
  BY <1>1, <1>4, Elsewhere
<1>5. CASE \E term \in Terms : OnSearchInput(term)
  BY <1>5, TypingSound
<1>6. CASE \E r \in Rows : AddModel(r)
  BY <1>6, AddSound
<1>7. CASE \E i \in 1..MaxSelected : RemoveModel(i)
  BY <1>7, RemoveSound
<1>8. ASSUME \/ ToggleDark \/ OtherTabToggles \/ (\E id \in Presets : SetPreset(id))
             \/ (\E term \in Terms : Search(term))
             \/ (\E p : ChooseProvider(p)) \/ (\E t : ChooseTier(t))
             \/ (\E col \in Columns : ToggleSort(col)) \/ UNCHANGED vars
      PROVE  UNCHANGED <<loaded, comparison>>
  BY <1>8 DEF ToggleDark, OtherTabToggles, SetPreset, Search, ChooseProvider, ChooseTier,
              ToggleSort, vars
<1>9. QED
  BY <1>2, <1>3, <1>4, <1>5, <1>6, <1>7, <1>8 DEF Next

LEMMA InitSound == Init => IInv
<1> SUFFICES ASSUME Init PROVE IInv
  OBVIOUS
<1>1. ListInv /\ SuggestionsSound
  BY DEF Init, ListInv, SuggestionsSound
<1>2. selected = <<>>
  BY DEF Init
<1>3. Distinct
  BY <1>2, EmptySelection DEF Distinct
<1>4. QED
  BY <1>1, <1>3, InitTyped DEF IInv

\* The three parts are preserved together by every step.
THEOREM InvariantHolds == Spec => []IInv
BY InitSound, Inductive, TypeCorrect, PTL DEF Spec

\* The list of suggestions is right whatever is typed, added, removed or loaded,
\* in whichever order.
THEOREM SuggestionsAreSound == Spec => []SuggestionsSound
<1>1. IInv => SuggestionsSound
  BY DEF IInv
<1>2. QED
  BY <1>1, InvariantHolds, PTL

\* Below the number of colours a remainder is the number itself.
LEMMA OwnColour ==
    ASSUME NEW i \in 1..Colours
    PROVE  (i - 1) % Colours = i - 1
BY Limits

\* No two models of the chart share a name or a colour, for any limit up to the
\* number of colours.
THEOREM ChartIsReadable == Spec => []ChartTellsApart
<1>1. IInv => ChartTellsApart
  <2> SUFFICES ASSUME IInv, NEW i \in DOMAIN selected, NEW j \in DOMAIN selected, i # j
               PROVE  /\ Datasets[i].label # Datasets[j].label
                      /\ Datasets[i].colour # Datasets[j].colour
    BY DEF ChartTellsApart, Datasets
  <2>1. selected \in Seq(Rows) /\ Len(selected) <= MaxSelected
    BY DEF IInv, TypeOK
  <2>2. i \in 1..Colours /\ j \in 1..Colours
    BY <2>1, Limits
  <2>3. (i - 1) % Colours # (j - 1) % Colours
    BY <2>2, OwnColour
  <2>4. selected[i].model_id # selected[j].model_id
    BY DEF IInv, Distinct
  <2>5. QED
    BY <2>3, <2>4 DEF Datasets
<1>2. QED
  BY <1>1, InvariantHolds, PTL

-----------------------------------------------------------------------------
(* Steps.                                                                  *)

\* A document that starts writes back the theme it read, whatever the system
\* prefers; nothing but a switch changes it.
THEOREM ThemeIsKept == Spec => OpeningKeepsTheme
<1>1. TypeOK /\ [Next]_vars => [theme' # theme => ToggleDark \/ OtherTabToggles]_vars
  <2> SUFFICES ASSUME TypeOK, Next, ~ToggleDark, ~OtherTabToggles
               PROVE  theme' = theme
    OBVIOUS
  <2>1. ASSUME NEW p, Open(p)
        PROVE  theme' = theme
    <3>1. theme' = Written(dark') /\ \E systemDark \in BOOLEAN : dark' = DarkAtLoad(theme, systemDark)
      BY <2>1 DEF Open
    <3>2. theme \in {"dark", "light"}
      BY DEF TypeOK, Themes
    <3>3. QED
      BY <3>1, <3>2 DEF Written, DarkAtLoad
  <2>2. ASSUME NEW p, Go(p)
        PROVE  theme' = theme
    BY <2>2 DEF Go, look
  <2>3. ASSUME \/ Load \/ (\E id \in Presets : SetPreset(id))
               \/ (\E term \in Terms : Search(term) \/ OnSearchInput(term))
               \/ (\E p : ChooseProvider(p)) \/ (\E t : ChooseTier(t))
               \/ (\E r \in Rows : AddModel(r)) \/ (\E col \in Columns : ToggleSort(col))
               \/ (\E i \in 1..MaxSelected : RemoveModel(i))
        PROVE  theme' = theme
    BY <2>3 DEF Load, SetPreset, Search, OnSearchInput, ChooseProvider, ChooseTier, AddModel,
                ToggleSort, RemoveModel, look
  <2>4. QED
    BY <2>1, <2>2, <2>3 DEF Next
<1>2. QED
  BY <1>1, TypeCorrect, PTL DEF Spec, OpeningKeepsTheme
==============================================================================
