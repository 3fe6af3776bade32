------------------------------ MODULE OGPunks ------------------------------
(* The hashes by which NToken recognises the look of a punk. The task        *)
(* create-merkle computes them for the 10000 original punks from a list,     *)
(* register-og-punks sends them to NToken in slices, and _mintTo draws again *)
(* while the hash of the drawn seed is taken (NToken.sol:404).               *)
(*                                                                           *)
(* A hash is a word of 32 bytes, here a function from the place of a byte,   *)
(* counted from the right, to its value.                                     *)
EXTENDS Seeder

CONSTANTS
    OGRows,       \* rows of config/og_punks/*.csv: type, gender, skin, accessories
    NameDoc,      \* entries of config/punk_name.json, with the accessory each names
    SliceCount    \* hashes in one transaction, 200 in the task

ASSUME OGAssumption ==
    /\ SliceCount \in Nat \ {0}
    /\ \A i \in DOMAIN NameDoc :
          /\ NameDoc[i].type \in 0 .. Len(AccTypes) - 1
          /\ NameDoc[i].id < Len(ProbDoc.accessories[AccTypes[NameDoc[i].type + 1]])

VARIABLE
    seedHashes    \* the hashes registered for original punks

(* The look of a punk: its accessories are pairs of a type and an id.        *)
Seed(type, skin, accessories) ==
    [punkType |-> type, skinTone |-> skin, accessories |-> accessories]

-----------------------------------------------------------------------------
(* tasks/create-merkle.ts and tasks/generate-og-punks.ts.                    *)

SkinNames == <<"albino", "light", "medium", "dark", "green", "brown", "blue">>

(* create-merkle: a skin tone that the list does not name is tone 0.         *)
SkinTone(row) ==
    IF Contains(SkinNames, row.skin) THEN SelectInSeq(SkinNames, LAMBDA s : s = row.skin) - 1
    ELSE 0

(* generate-og-punks knows which tone such a punk has.                       *)
SkinShown(row) ==
    CASE Contains(SkinNames, row.skin) -> SkinTone(row)
      [] row.type = "alien" -> 6
      [] row.type = "ape" -> 5
      [] row.type = "zombie" -> 4
      [] OTHER -> 0

PunkType(row) ==
    CASE row.type = "human" -> IF row.gender = "male" THEN 0 ELSE 1
      [] row.type = "alien" -> 2
      [] row.type = "ape" -> 3
      [] OTHER -> 4

(* The first entry of the name document for this name and gender, 0 if none. *)
AccEntry(row, name) ==
    SelectInSeq(NameDoc, LAMBDA e : e.name = name /\ e.gender = row.gender)

NamesKnown == \A i \in DOMAIN OGRows : \A name \in Range(OGRows[i].accessories) :
                  AccEntry(OGRows[i], name) # 0

Accessories(row) ==
    [k \in DOMAIN row.accessories |->
        LET e == NameDoc[AccEntry(row, row.accessories[k])] IN <<e.type, e.id>>]

-----------------------------------------------------------------------------
(* The two functions that compute the hash of a seed.                        *)

SortByType(accessories) == SortSeq(accessories, LAMBDA a, b : a[1] < b[1])

(* 0x, zeroes up to 64 digits, and the bytes in front of the marker 01.      *)
Word(bytes) ==
    [p \in 0 .. 31 |-> IF p = 0 THEN 1 ELSE IF p \in DOMAIN bytes THEN bytes[p] ELSE 0]

\* Variant: the accessories stay in the order of the list.
CalculateSeedHashUnsorted(seed) ==
    Word(<<seed.punkType, seed.skinTone, Len(seed.accessories)>> \o FlattenSeq(seed.accessories))

(* tasks/utils/index.ts.                                                     *)
CalculateSeedHash(seed) ==
    Word(<<seed.punkType, seed.skinTone, Len(seed.accessories)>>
            \o FlattenSeq(SortByType(seed.accessories)))

(* It throws for a number that does not fit in a byte, for more than 14      *)
(* accessories and for two of one type.                                      *)
SeedValid(seed) ==
    /\ seed.punkType < 256
    /\ seed.skinTone < 256
    /\ Len(seed.accessories) <= 14
    /\ \A a \in Range(seed.accessories) : a[1] < 256 /\ a[2] < 256
    /\ IsInjective([k \in DOMAIN seed.accessories |-> seed.accessories[k][1]])

(* NToken.calculateSeedHash adds shifted numbers. It does not sort: the      *)
(* seeder has sorted.                                                        *)
TokenSeedHash(seed) ==
    LET byte(p) == LET i == (p - 4) \div 2
                   IN  IF p % 2 = 0 THEN seed.accessories[i + 1][1]
                                    ELSE seed.accessories[i + 1][2]
    IN  [p \in 0 .. 31 |->
            CASE p = 0 -> 1
              [] p = 1 -> seed.punkType
              [] p = 2 -> seed.skinTone
              [] p = 3 -> Len(seed.accessories)
              [] p \in 4 .. 3 + 2 * Len(seed.accessories) -> byte(p)
              [] OTHER -> 0]

DecodeSeedHash(hash) ==
    Seed(hash[1], hash[2], [i \in 1 .. hash[3] |-> <<hash[2 * i + 2], hash[2 * i + 3]>>])

-----------------------------------------------------------------------------
(* tasks/register-og-punks.ts and NToken.registerOGHashes.                   *)

PunkHashes ==
    [i \in DOMAIN OGRows |->
        CalculateSeedHash(Seed(PunkType(OGRows[i]), SkinTone(OGRows[i]), Accessories(OGRows[i])))]

Slices == (Len(OGRows) + SliceCount - 1) \div SliceCount

(* The hashes of the n-th transaction, the last one with what is left.       *)
Slice(n) ==
    LET i == (n - 1) * SliceCount
        count == IF i + SliceCount > Len(OGRows) THEN Len(OGRows) - i ELSE SliceCount
    IN  SubSeq(PunkHashes, i + 1, i + count)

OGInit == seedHashes = {}

RegisterOGHashes(n) ==
    /\ NamesKnown
    /\ seedHashes' = seedHashes \cup Range(Slice(n))

-----------------------------------------------------------------------------
(* Properties.                                                               *)

(* The seed of a finished draw, if every accessory is the one that pick      *)
(* selects among those of its type.                                          *)
SeedDrawn(pick(_)) ==
    LET types == SelectSeq([i \in DOMAIN AccTypes |-> i], LAMBDA i : AccTypes[i] \in gen.picked)
        id(i) == pick(AccIdPerType(gen.type, AccTypes[i])) - 1
    IN  Seed(gen.type - 1, gen.skin - 1, [k \in DOMAIN types |-> <<types[k] - 1, id(types[k])>>])

(* For every seed that a populated seeder draws the hash of the tasks is the *)
(* hash of the contract, and the contract reads the seed back from it        *)
(* (getPunk), so two different seeds never have one hash.                    *)
HashesAgree ==
    (gen.stage = "seed" /\ seeder.exclusion) =>
        \A seed \in {SeedDrawn(Head), SeedDrawn(Last)} :
            /\ SeedValid(seed)
            /\ CalculateSeedHash(seed) = TokenSeedHash(seed)
            /\ DecodeSeedHash(TokenSeedHash(seed)) = seed

(* The hash under which the contract would know the look of an original.     *)
LookHash(row) ==
    TokenSeedHash(Seed(PunkType(row), SkinShown(row), SortByType(Accessories(row))))

(* deploy-and-configure.ts:74: "Register OG punk hashes to make sure they    *)
(* will not be minted.": the look of every original is among the hashes.     *)
AllLooksTaken == \A i \in DOMAIN OGRows : LookHash(OGRows[i]) \in seedHashes

(* The looks of the originals that are human are.                            *)
HumanLooksTaken ==
    \A i \in DOMAIN OGRows : OGRows[i].type = "human" => LookHash(OGRows[i]) \in seedHashes

=============================================================================
