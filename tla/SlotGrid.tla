------------------------------- MODULE SlotGrid -------------------------------
(***************************************************************************)
(* The fifteen Gateway slots (slot_grid.py): a vendor model family with an *)
(* effort, its capability floor, whether it may spend, and its reserve in  *)
(* hundredths.  A vendor model is the family its name carries, or "other". *)
(***************************************************************************)
EXTENDS Integers, FiniteSets

NoSlot == "none"

Slot(family, effort, floor, mode, reserve) ==
    [family |-> family, effort |-> effort, min_rank |-> floor,
     eval_mode |-> mode, reserve |-> reserve, tools |-> TRUE]

Slots == [
    S01_haiku         |-> Slot("haiku", "medium", 15, "free", 0),
    S02_sonnet_low    |-> Slot("sonnet", "low", 16, "free", 0),
    S03_sonnet_medium |-> Slot("sonnet", "medium", 14, "free", 0),
    S04_sonnet_high   |-> Slot("sonnet", "high", 13, "free", 0),
    S05_sonnet_xhigh  |-> Slot("sonnet", "xhigh", 10, "cost_basis", 0),
    S06_opus_low      |-> Slot("opus", "low", 13, "free", 0),
    S07_opus_medium   |-> Slot("opus", "medium", 7, "cost_basis", 0),
    S08_opus_high     |-> Slot("opus", "high", 5, "cost_basis", 0),
    S09_opus_xhigh    |-> Slot("opus", "xhigh", 4, "cost_basis", 10),
    S10_opus_max      |-> Slot("opus", "max", 4, "cost_basis", 15),
    S11_fable_low     |-> Slot("fable", "low", 12, "free", 0),
    S12_fable_medium  |-> Slot("fable", "medium", 9, "cost_basis", 0),
    S13_fable_high    |-> Slot("fable", "high", 3, "cost_basis", 10),
    S14_fable_xhigh   |-> Slot("fable", "xhigh", 2, "cost_basis", 15),
    S15_fable_max     |-> Slot("fable", "max", 1, "cost_basis", 20)]

Efforts == {"low", "medium", "high", "xhigh", "max"}

\* Haiku has one slot, Sonnet no "max"; anything unknown counts as medium.
NormalizeEffort(effort, family) ==
    IF family = "haiku" \/ effort \notin Efforts THEN "medium"
    ELSE IF family = "sonnet" /\ effort = "max" THEN "xhigh"
    ELSE effort

SlotFor(family, effort) ==
    LET fits == {s \in DOMAIN Slots :
                    /\ Slots[s].family = family
                    /\ Slots[s].effort = NormalizeEffort(effort, family)}
    IN  IF fits = {} THEN NoSlot ELSE CHOOSE s \in fits : TRUE

\* The slots a model is asked for, over all its efforts.
SlotsAsked(requests, family) ==
    {SlotFor(r[1], r[2]) : r \in {q \in requests : q[1] = family}} \ {NoSlot}

AliasTableAnyEffort(requests) ==
    [m \in {q[1] : q \in requests} \cap {Slots[s].family : s \in DOMAIN Slots} |->
        CHOOSE s \in SlotsAsked(requests, m) : TRUE]

\* A gateway alias is the model's name alone, so a model whose efforts lead to
\* different slots gets no alias, and one of no family passes through untouched.
AliasTable(requests) ==
    [m \in {f \in {q[1] : q \in requests} : Cardinality(SlotsAsked(requests, f)) = 1} |->
        CHOOSE s \in SlotsAsked(requests, m) : TRUE]
===============================================================================
