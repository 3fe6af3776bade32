------------------------------- MODULE Seeder -------------------------------
(* The seeder contract (contracts/NSeeder.sol), the task that fills it       *)
(* (tasks/populate-seeder.ts) from the probability document, and the choice  *)
(* of images for a seed (NDescriptorV2.getPartsForSeed).                     *)
(*                                                                           *)
(* The document is a constant, so the contract's words are too: the state    *)
(* only says which of the task's transactions have been mined. A seed is     *)
(* generated by one view call; its draws are separate steps here, and        *)
(* nothing else happens between them. A draw of the 2^24 numbers is taken    *)
(* from the two sides of every boundary, which reach every outcome.          *)
EXTENDS Integers, Sequences, FiniteSets, SequencesExt, Functions

CONSTANTS
    ProbDoc,      \* config/probability.json, see ProbDocAssumption
    ImageData     \* files/image-data-v2.json: the number of images of each page

ASSUME ProbDocAssumption ==
    /\ \A i \in DOMAIN ProbDoc.types :
          LET d == ProbDoc.probabilities[ProbDoc.types[i]]
          IN  /\ d.probability \in Nat
              /\ \A n \in Range(d.skin) \cup Range(d.counts) : n \in Nat
              /\ d.accessories \subseteq Range(ProbDoc.acc_types)
    /\ \A t \in Range(ProbDoc.acc_types) : \A a \in Range(ProbDoc.accessories[t]) :
          a[2] \in Nat \ {0}
    /\ \A g \in ProbDoc.exclusive_groups : g \subseteq Range(ProbDoc.acc_types)

VARIABLES
    seeder,   \* which transactions of populate-seeder have been mined
    gen       \* the call of generateSeedFromNumber under way

seederVars == <<seeder, gen>>

PunkTypes == ProbDoc.types
AccTypes == ProbDoc.acc_types
NumTypes == Len(PunkTypes)

Idle == [stage |-> "idle", type |-> 0, skin |-> 0, left |-> 0,
         open |-> {}, picked |-> {}, again |-> FALSE, zero |-> FALSE]

SeederInit ==
    /\ seeder = [type |-> FALSE, skin |-> 0, count |-> 0, ids |-> FALSE, exclusion |-> FALSE]
    /\ gen = Idle

-----------------------------------------------------------------------------
(* tasks/populate-seeder.ts.                                                 *)

Available(p, t, k) == PunkTypes[p] \in ProbDoc.accessories[t][k][1]

(* The accessories of a type that a kind of punk may wear, by their place    *)
(* among all the accessories of that type.                                   *)
AccIdPerType(p, t) ==
    SelectSeq([k \in DOMAIN ProbDoc.accessories[t] |-> k], LAMBDA k : Available(p, t, k))

AccWeightPerType(p, t) ==
    LET ids == AccIdPerType(p, t)
    IN  [k \in DOMAIN ids |-> ProbDoc.accessories[t][ids[k]][2]]

(* The task throws when the lists of accessory types and the accessories     *)
(* disagree.                                                                 *)
AvailabilityChecks ==
    \A p \in 1 .. NumTypes, t \in Range(AccTypes) :
        (t \in ProbDoc.probabilities[PunkTypes[p]].accessories)
            <=> (AccIdPerType(p, t) # <<>>)

\* Variant: a type in no group does not exclude itself.
AccExclusionOfGroups(t) == UNION {g \in ProbDoc.exclusive_groups : t \in g}

(* accExclusion: the bit of the type itself, and those of every group it     *)
(* belongs to.                                                               *)
AccExclusion(t) == {t} \cup UNION {g \in ProbDoc.exclusive_groups : t \in g}

-----------------------------------------------------------------------------
(* NSeeder.sol: the setters.                                                 *)

MaxDraw == 16777215          \* 0xffffff

(* cumulative * 0xffffff / 100000, with TLC's integers.                      *)
Scaled(cumulative) == 167 * cumulative + (cumulative * 15443) \div 20000

Cumulative(probabilities) ==
    [i \in DOMAIN probabilities |->
        SumFunctionOnSet(probabilities, 1 .. i)]

CalcProbability(probabilities) ==
    LET c == Cumulative(probabilities)
    IN  [i \in DOMAIN c |-> Scaled(c[i])]

Accepted(probabilities) ==
    /\ Len(probabilities) \in 1 .. 10
    /\ Cumulative(probabilities)[Len(probabilities)] = 100000

TypeProbabilities == [p \in 1 .. NumTypes |-> ProbDoc.probabilities[PunkTypes[p]].probability]
SkinProbabilities(p) == ProbDoc.probabilities[PunkTypes[p]].skin
CountProbabilities(p) == ProbDoc.probabilities[PunkTypes[p]].counts

SetTypeProbability ==
    /\ Accepted(TypeProbabilities)
    /\ ~ seeder.type
    /\ seeder' = [seeder EXCEPT !.type = TRUE]

SetSkinProbability ==
    /\ seeder.type
    /\ seeder.skin < NumTypes
    /\ Accepted(SkinProbabilities(seeder.skin + 1))
    /\ seeder' = [seeder EXCEPT !.skin = @ + 1]

SetAccCountProbability ==
    /\ seeder.skin = NumTypes
    /\ seeder.count < NumTypes
    /\ Accepted(CountProbabilities(seeder.count + 1))
    /\ seeder' = [seeder EXCEPT !.count = @ + 1]

SetAccIdByType ==
    /\ seeder.count = NumTypes
    /\ ~ seeder.ids
    /\ AvailabilityChecks
    /\ Len(AccTypes) < 28
    /\ seeder' = [seeder EXCEPT !.ids = TRUE]

SetAccExclusion ==
    /\ seeder.ids
    /\ ~ seeder.exclusion
    /\ seeder' = [seeder EXCEPT !.exclusion = TRUE]

(* The transactions of the task, each mined before the next is sent.         *)
PopulateSeeder ==
    \/ SetTypeProbability
    \/ SetSkinProbability
    \/ SetAccCountProbability
    \/ SetAccIdByType
    \/ SetAccExclusion

-----------------------------------------------------------------------------
(* NSeeder.sol: generateSeedFromNumber.                                      *)

(* The first entry of a packed word that the draw does not exceed; entry 1   *)
(* when the word is empty.                                                   *)
Selected(word, r) ==
    IF \E i \in DOMAIN word : r <= word[i]
    THEN CHOOSE i \in DOMAIN word : r <= word[i] /\ \A j \in 1 .. i - 1 : r > word[j]
    ELSE 1

Draws(word) ==
    ({0, 1, MaxDraw} \cup {word[i] : i \in DOMAIN word} \cup {word[i] + 1 : i \in DOMAIN word})
        \cap (0 .. MaxDraw)

TypeWord == CalcProbability(TypeProbabilities)
SkinWord == [p \in 1 .. NumTypes |-> CalcProbability(SkinProbabilities(p))]
CountWord == [p \in 1 .. NumTypes |-> CalcProbability(CountProbabilities(p))]

(* accTypeWeight: the sum of the weights of a punk's accessories of a type.  *)
TypeWeight == [p \in 1 .. NumTypes |-> [t \in Range(AccTypes) |-> SumFunction(AccWeightPerType(p, t))]]

OpenWeight(p, open) == SumFunctionOnSet(TypeWeight[p], open)

GenerateSeed ==
    /\ gen.stage = "idle"
    /\ gen' = [Idle EXCEPT !.stage = "type"]

DrawType ==
    /\ gen.stage = "type"
    /\ LET word == IF seeder.type THEN TypeWord ELSE <<>>
       IN  \E r \in Draws(word) :
              gen' = [gen EXCEPT !.stage = "skin", !.type = Selected(word, r),
                                 !.zero = (r = 0)]

(* The array of skin words is read past its end: the call panics.            *)
DrawSkin ==
    /\ gen.stage = "skin"
    /\ IF gen.type > seeder.skin
       THEN gen' = [gen EXCEPT !.stage = "panic"]
       ELSE \E r \in Draws(SkinWord[gen.type]) :
               gen' = [gen EXCEPT !.stage = "count",
                                  !.skin = Selected(SkinWord[gen.type], r),
                                  !.zero = @ \/ r = 0]

DrawCount ==
    /\ gen.stage = "count"
    /\ IF gen.type > seeder.count \/ ~ seeder.ids
       THEN gen' = [gen EXCEPT !.stage = "panic"]
       ELSE \E r \in Draws(CountWord[gen.type]) :
               gen' = [gen EXCEPT !.stage = "accessories",
                                  !.left = Selected(CountWord[gen.type], r) - 1,
                                  !.open = {t \in Range(AccTypes) : TypeWeight[gen.type][t] > 0},
                                  !.zero = @ \/ r = 0]

(* One round: the aggregated weights (a uint16 that must not overflow), a    *)
(* draw of 1 .. their sum, the type it falls on (never one of weight 0), and *)
(* that type's exclusions.                                                   *)
DrawAccessory ==
    /\ gen.stage = "accessories"
    /\ gen.left > 0
    /\ IF OpenWeight(gen.type, gen.open) \notin 1 .. 65535
       THEN gen' = [gen EXCEPT !.stage = "panic"]
       ELSE \E t \in gen.open :
               gen' = [gen EXCEPT
                         !.left = @ - 1,
                         !.open = @ \ (IF seeder.exclusion THEN AccExclusion(t) ELSE {}),
                         !.picked = @ \cup {t},
                         !.again = @ \/ t \in gen.picked]

(* _sortAccessories asserts that no accessory type was drawn twice.          *)
SortAccessories ==
    /\ gen.stage = "accessories"
    /\ gen.left = 0
    /\ gen' = [gen EXCEPT !.stage = IF gen.again THEN "panic" ELSE "seed"]

Generate ==
    \/ GenerateSeed
    \/ DrawType
    \/ DrawSkin
    \/ DrawCount
    \/ DrawAccessory
    \/ SortAccessories

-----------------------------------------------------------------------------
(* NDescriptorV2.getPartsForSeed: the image of the punk, and the trait that  *)
(* each accessory type's index selects.                                      *)

PunkTypeId(type, skin) ==
    CASE type = 1 -> skin - 1
      [] type = 2 -> 4 + skin - 1
      [] OTHER -> 6 + type - 1

Traits == <<"necks", "cheekses", "faces", "lipses", "emotions", "teeths", "beards",
            "earses", "hats", "helmets", "hairs", "mouths", "glasseses", "goggleses",
            "eyeses", "noses">>

-----------------------------------------------------------------------------
(* Properties.                                                               *)

(* Once populate-seeder has finished, no draw makes generateSeedFromNumber   *)
(* revert: the accessory types left open never run out (the remainder by 0   *)
(* at NSeeder.sol:116), their weights never overflow a uint16, and no type   *)
(* is drawn twice.                                                           *)
SeedNeverFails == seeder.exclusion => gen.stage # "panic"

(* Two accessories of a seed are never of one exclusive group, and all are   *)
(* of types the document lists for that kind of punk.                        *)
SeedCompatible ==
    (gen.stage = "seed" /\ seeder.exclusion) =>
        /\ gen.picked \subseteq ProbDoc.probabilities[PunkTypes[gen.type]].accessories
        /\ \A g \in ProbDoc.exclusive_groups : Cardinality(g \cap gen.picked) <= 1

(* A part whose probability is 0 is only ever chosen by the draw 0, which    *)
(* the comparison with the first packed entry lets through (NSeeder.sol:71); *)
(* apart from it every kind of punk, skin and number of accessories of a     *)
(* seed has a positive probability in the document.                          *)
OnlyZeroDraw ==
    (gen.stage = "seed" /\ ~ gen.zero) =>
        /\ TypeProbabilities[gen.type] > 0
        /\ SkinProbabilities(gen.type)[gen.skin] > 0
        /\ CountProbabilities(gen.type)[Cardinality(gen.picked) + 1] > 0

(* Whatever was drawn, the images of a seed exist: the index into the punk   *)
(* images is below their number, and an accessory's id is below the number   *)
(* of images of the trait that getPartsForSeed selects by its type's index.  *)
SeedHasImages ==
    gen.stage = "seed" =>
        /\ PunkTypeId(gen.type, gen.skin) < ImageData["types"]
        /\ \A i \in DOMAIN AccTypes : AccTypes[i] \in gen.picked =>
              \A id \in Range(AccIdPerType(gen.type, AccTypes[i])) :
                 id - 1 < ImageData[Traits[i]]

(* Every seed that can be drawn is one the document allows, and has images.  *)
SeedsSound == SeedNeverFails /\ SeedCompatible /\ OnlyZeroDraw /\ SeedHasImages

=============================================================================
