---------------------------- MODULE MCDeployment ----------------------------
(* The probability document and the image counts of the repository, as they *)
(* stand in punks-assets/src/config/probability.json (probabilities in      *)
(* thousandths of a percent) and punks-contracts/files/image-data-v2.json.  *)
EXTENDS Deployment

F == {"female"}
M == {"male"}
MLPZ == {"male", "alien", "ape", "zombie"}
MZ == {"male", "zombie"}

MCProbDoc ==
  [types |-> <<"male", "female", "alien", "ape", "zombie">>,
   acc_types |-> <<"neck", "cheeks", "face", "lips", "emotion", "teeth", "beard",
       "ears", "hat", "helmet", "hair", "mouth", "glasses", "goggles", "eyes", "nose">>,
   exclusive_groups |-> {{"hair", "hat", "helmet"}, {"helmet", "glasses", "eyes",
       "goggles"}, {"hat", "goggles"}, {"lips", "emotion", "teeth"}, {"face",
       "cheeks"}},
   probabilities |-> [
     male |-> [probability |-> 60150, skin |-> <<10000, 30000, 30000, 30000, 0, 0, 0>>,
        counts |-> <<90, 3240, 35560, 45140, 14220, 1620, 120, 10>>,
        accessories |-> {"hair", "hat", "glasses", "eyes", "mouth", "neck", "ears",
            "beard", "teeth", "emotion", "face", "cheeks", "nose"}],
     female |-> [probability |-> 38500, skin |-> <<10000, 30000, 30000, 30000, 0, 0, 0>>,
        counts |-> <<90, 3240, 35560, 45140, 14220, 1620, 120, 10>>,
        accessories |-> {"hair", "hat", "helmet", "glasses", "goggles", "eyes", "mouth",
            "neck", "ears", "lips", "face", "cheeks", "nose"}],
     alien |-> [probability |-> 100, skin |-> <<0, 0, 0, 0, 0, 0, 100000>>,
        counts |-> <<0, 33330, 44450, 22220>>,
        accessories |-> {"hat", "glasses", "mouth", "neck", "ears"}],
     ape |-> [probability |-> 250, skin |-> <<0, 0, 0, 0, 0, 100000, 0>>,
        counts |-> <<0, 37500, 50000, 12500>>,
        accessories |-> {"hat", "glasses", "mouth", "neck", "ears"}],
     zombie |-> [probability |-> 1000, skin |-> <<0, 0, 0, 0, 100000, 0, 0>>,
        counts |-> <<0, 15910, 48860, 28410, 5680, 1140>>,
        accessories |-> {"hair", "hat", "glasses", "eyes", "mouth", "neck", "ears",
            "beard", "emotion", "face", "cheeks", "nose"}]],
   accessories |-> [
     neck |-> <<<<MLPZ, 113>>, <<MLPZ, 109>>, <<F, 48>>, <<F, 60>>, <<F, 43>>>>,
     cheeks |-> <<<<MZ, 68>>, <<F, 60>>>>,
     face |-> <<<<MZ, 359>>, <<MZ, 73>>, <<F, 285>>, <<F, 51>>>>,
     lips |-> <<<<F, 696>>, <<F, 655>>, <<F, 617>>>>,
     emotion |-> <<<<MZ, 261>>, <<MZ, 238>>>>,
     teeth |-> <<<<M, 78>>>>,
     beard |-> <<<<MZ, 286>>, <<MZ, 288>>, <<MZ, 526>>, <<MZ, 295>>, <<MZ, 289>>, <<MZ,
         292>>, <<MZ, 263>>, <<MZ, 273>>, <<MZ, 146>>, <<MZ, 282>>, <<MZ, 260>>, <<MZ,
         303>>>>,
     ears |-> <<<<MLPZ, 1526>>, <<F, 933>>>>,
     hat |-> <<<<MLPZ, 142>>, <<MLPZ, 318>>, <<MLPZ, 254>>, <<MLPZ, 44>>, <<MLPZ, 253>>,
         <<MLPZ, 115>>, <<MLPZ, 317>>, <<MLPZ, 203>>, <<MLPZ, 300>>, <<MLPZ, 186>>,
         <<MLPZ, 310>>, <<MLPZ, 259>>, <<F, 178>>, <<F, 55>>, <<F, 98>>, <<F, 164>>,
         <<F, 96>>, <<F, 101>>, <<F, 95>>>>,
     helmet |-> <<<<F, 54>>>>,
     hair |-> <<<<MZ, 85>>, <<MZ, 283>>, <<MZ, 165>>, <<MZ, 300>>, <<MZ, 289>>, <<MZ,
         303>>, <<MZ, 293>>, <<MZ, 246>>, <<MZ, 147>>, <<MZ, 303>>, <<MZ, 300>>, <<MZ,
         298>>, <<MZ, 288>>, <<F, 148>>, <<F, 168>>, <<F, 144>>, <<F, 136>>, <<F, 149>>,
         <<F, 68>>, <<F, 147>>, <<F, 160>>, <<F, 144>>, <<F, 165>>, <<F, 157>>, <<F,
         129>>, <<F, 63>>, <<F, 94>>, <<F, 144>>, <<F, 152>>, <<F, 147>>, <<F, 153>>,
         <<F, 151>>, <<F, 147>>, <<F, 146>>>>,
     mouth |-> <<<<MLPZ, 569>>, <<MLPZ, 162>>, <<MLPZ, 110>>, <<MLPZ, 187>>, <<F, 130>>,
         <<F, 65>>, <<F, 392>>, <<F, 110>>>>,
     glasses |-> <<<<MLPZ, 397>>, <<MLPZ, 399>>, <<MLPZ, 378>>, <<MLPZ, 348>>, <<MLPZ,
         376>>, <<MLPZ, 244>>, <<MLPZ, 369>>, <<MLPZ, 393>>, <<MLPZ, 207>>, <<MLPZ,
         208>>, <<F, 128>>, <<F, 78>>, <<F, 175>>, <<F, 92>>, <<F, 154>>, <<F, 86>>,
         <<F, 88>>, <<F, 159>>, <<F, 142>>>>,
     goggles |-> <<<<F, 86>>>>,
     eyes |-> <<<<MZ, 136>>, <<MZ, 110>>, <<F, 266>>, <<F, 274>>, <<F, 262>>, <<F,
         246>>, <<F, 271>>>>,
     nose |-> <<<<MZ, 136>>, <<F, 76>>>>]]

MCImageData == [types |-> 11, necks |-> 5, cheekses |-> 2, faces |-> 4, beards |-> 12,
    mouths |-> 8, earses |-> 2, hats |-> 19, helmets |-> 1, hairs |-> 34, teeths |-> 1,
    lipses |-> 3, emotions |-> 2, eyeses |-> 7, glasseses |-> 19, goggleses |-> 1, noses
    |-> 2]

Flags(auto, start, update, punkers) ==
    [auto |-> auto, start |-> start, update |-> update, punkers |-> punkers]

MCFlagSets == {Flags(TRUE, FALSE, FALSE, FALSE), Flags(TRUE, TRUE, TRUE, TRUE),
               Flags(FALSE, TRUE, TRUE, TRUE), Flags(FALSE, FALSE, FALSE, TRUE)}

(* Eight of the originals, in the order of the list.                        *)
Row(type, gender, skin, accessories) ==
    [type |-> type, gender |-> gender, skin |-> skin, accessories |-> accessories]

MCOGRows ==
    <<Row("human", "female", "medium", <<"Green Eye Shadow", "Earring", "Blonde Bob">>),
      Row("human", "male", "dark", <<"Smile", "Mohawk">>),
      Row("zombie", "male", "", <<"Messy Hair", "Front Beard Dark">>),
      Row("human", "male", "light", <<>>),
      Row("ape", "male", "", <<"Cap Forward">>),
      Row("alien", "male", "", <<"Headband">>),
      Row("human", "male", "dark", <<>>),
      Row("human", "male", "medium", <<"Cigarette", "Buck Teeth", "Classic Shades", "Earring",
                                       "Top Hat", "Big Beard", "Mole">>)>>

Name(name, gender, type, id) == [name |-> name, gender |-> gender, type |-> type, id |-> id]

MCNameDoc ==
    <<Name("Cigarette", "male", 11, 0), Name("Cap Forward", "male", 8, 2),
      Name("Mole", "male", 2, 0), Name("Classic Shades", "male", 12, 3),
      Name("Smile", "male", 4, 1), Name("Top Hat", "male", 8, 5),
      Name("Buck Teeth", "male", 5, 0), Name("Big Beard", "male", 6, 8),
      Name("Earring", "male", 7, 0), Name("Headband", "male", 8, 10),
      Name("Messy Hair", "male", 10, 10), Name("Front Beard Dark", "male", 6, 10),
      Name("Mohawk", "male", 10, 12), Name("Mohawk", "female", 10, 30),
      Name("Blonde Bob", "female", 10, 29), Name("Earring", "female", 7, 1),
      Name("Green Eye Shadow", "female", 14, 6)>>

(* A transparent pixel, an opaque one and one that is half opaque.          *)
Black == <<0, 0, 0>>
Red == <<255, 0, 0>>
Blue == <<0, 0, 255>>
MCColors == {[rgb |-> Black, a |-> 0], [rgb |-> Red, a |-> 255], [rgb |-> Blue, a |-> 128]}
MCSizes == {<<3, 2>>, <<1, 2>>}

(* The opacities in image-data.json, each with a colour.                    *)
MCOpacities == <<255, 113, 64, 153, 128, 102, 51, 40, 77, 146>>
MCPalettes == {<<>>, [i \in DOMAIN MCOpacities |-> Append(Red, MCOpacities[i])]}

=============================================================================
