----------------------------- MODULE Deployment -----------------------------
(* The hardhat tasks that deploy the contracts and configure them:           *)
(*   tasks/deploy.ts, deploy-short-times.ts, deploy-local.ts,                *)
(*   tasks/deploy-and-configure.ts, deploy-and-configure-short-times.ts,     *)
(*   tasks/run-local.ts, deploy-descriptor-v2.ts, populate-descriptor.ts,    *)
(*   tasks/start-auction.ts, verify-etherscan.ts, update-configs.ts;         *)
(* and, by themselves, the tasks and the script behind Seeder, OGPunks and   *)
(* Images.                                                                   *)
(*                                                                           *)
(* An address is the deployer's nonce that creates it. NDescriptorV2, NToken *)
(* and NDAOExecutor are given the addresses of contracts created after them, *)
(* predicted from the nonce at the start. The deployer's account may send    *)
(* other transactions meanwhile, a creation may fail, the operator may skip  *)
(* or exit at a prompt, and the process may die at any await; the operator   *)
(* may then run populate-descriptor or start-auction by hand.                *)
EXTENDS OGPunks, Images

CONSTANTS
    FlagSets,     \* the combinations of flags the tasks are called with
    MaxFaults,    \* foreign transactions, failed creations and crashes
    MaxRefusals,  \* prompts answered SKIP or EXIT
    MaxReruns     \* tasks run by hand afterwards

ASSUME DeploymentAssumption ==
    /\ FlagSets \subseteq [auto : BOOLEAN, start : BOOLEAN, update : BOOLEAN, punkers : BOOLEAN]
    /\ MaxFaults \in Nat /\ MaxRefusals \in Nat /\ MaxReruns \in Nat

VARIABLES
    job,      \* the task, the one that deployed the contracts, and the flags
    phase,    \* "deploy", "configure", "done" or "failed"
    step,     \* the contract or the configuration step it is at
    nonce,    \* transactions of the deployer since the task started
    made,     \* the address of each contract the task recorded, NotMade if none
    code,     \* the contracts whose creation succeeded
    refused,  \* the contracts the operator answered SKIP or EXIT for
    art,      \* the pages in NArt: how often each was added
    owner,    \* the owner of each ownable contract
    house,    \* "paused" or "live"
    faults,
    reruns

taskVars == <<job, phase, step, nonce, made, code, refused, art, owner, house, faults, reruns>>
assetVars == <<seederVars, seedHashes, encoder>>
vars == <<taskVars, assetVars>>

NotMade == -1

-----------------------------------------------------------------------------
(* What the tasks deploy.                                                    *)

DeployOrder == <<"NFTDescriptorV2", "SVGRenderer", "NDescriptorV2", "Inflator", "NArt",
                 "NSeeder", "NToken", "NAuctionHouse", "NAuctionHouseProxyAdmin",
                 "NAuctionHouseProxy", "NDAOExecutor", "NDAOLogicV1", "NDAOProxy">>

LocalOrder == <<"WETH", "CryptopunksMock", "WrappedPunkMock", "CryptopunksVote">> \o DeployOrder

DescriptorOrder == SubSeq(DeployOrder, 1, 5)

Deploys == {"deploy-and-configure", "deploy-and-configure-short-times", "run-local",
            "deploy-descriptor-v2"}

(* What is run by itself, on contracts that are there (or on files).         *)
Alone == {"populate-seeder", "register-og-punks", "encode"}

Order(task) ==
    CASE task = "run-local" -> LocalOrder
      [] task = "deploy-descriptor-v2" -> DescriptorOrder
      [] OTHER -> DeployOrder

(* N_ART_NONCE_OFFSET, AUCTION_HOUSE_PROXY_NONCE_OFFSET and                  *)
(* GOVERNOR_N_DELEGATOR_NONCE_OFFSET.                                        *)
Expected(task) ==
    IF task = "run-local"
    THEN [NArt |-> 8, NAuctionHouseProxy |-> 13, NDAOProxy |-> 16]
    ELSE [NArt |-> 4, NAuctionHouseProxy |-> 9, NDAOProxy |-> 12]

(* The contracts whose recorded addresses are arguments or libraries.        *)
Needs(c) ==
    CASE c = "WrappedPunkMock" -> {"CryptopunksMock"}
      [] c = "CryptopunksVote" -> {"CryptopunksMock", "WrappedPunkMock"}
      [] c = "NDescriptorV2" -> {"SVGRenderer", "NFTDescriptorV2"}
      [] c = "NArt" -> {"NDescriptorV2", "Inflator"}
      [] c = "NToken" -> {"NDescriptorV2", "NSeeder"}
      [] c = "NAuctionHouseProxy" -> {"NAuctionHouse", "NAuctionHouseProxyAdmin", "NToken"}
      [] c = "NDAOProxy" -> {"NDAOExecutor", "NToken", "NDAOLogicV1"}
      [] OTHER -> {}

(* waitForConfirmation: a creation that fails is noticed. (A local node      *)
(* refuses it when it is sent; deploy-descriptor-v2 waits for its five       *)
(* contracts together, before it uses any of them.)                          *)
Waits(task, c) ==
    task = "deploy-and-configure-short-times" =>
        c \in {"NAuctionHouse", "NAuctionHouseProxy", "NDAOLogicV1", "NDAOProxy"}

\* Variant: only the address of the governor is compared.
ValidatesGovernorOnly(task, c) == task # "run-local" /\ c = "NDAOProxy"

(* validateDeployment: the address of the two proxies is the predicted one.  *)
Validates(task, c) == task # "run-local" /\ c \in {"NAuctionHouseProxy", "NDAOProxy"}

Contracts == Range(LocalOrder)
Predicted == {"NArt", "NAuctionHouseProxy", "NDAOProxy"}
Ownable == {"NDescriptorV2", "NToken", "NSeeder", "NAuctionHouseProxyAdmin", "NAuctionHouseProxy"}
Made == {c \in Contracts : made[c] # NotMade}

-----------------------------------------------------------------------------
(* What the tasks do next.                                                   *)

(* tasks/populate-descriptor.ts: the palette, then one page for each trait.  *)
Pages == <<"palette", "types", "necks", "cheekses", "faces", "beards", "mouths", "earses",
           "hats", "helmets", "hairs", "teeths", "lipses", "emotions", "eyeses",
           "glasseses", "goggleses", "noses">>

Seeds == [i \in 1 .. 2 * NumTypes + 3 |-> "seeder"]

\* Variant: ownership is given away before the seeder is populated.
StepsHandOverFirst(j) ==
    IF j.task = "deploy-and-configure"
    THEN <<"verify">> \o Pages \o <<"NDescriptorV2", "NSeeder", "NAuctionHouseProxyAdmin">> \o Seeds
    ELSE <<"register">>

(* The steps of each task after its contracts are there. Ownership is handed *)
(* over contract by contract. run-local passes register-og-punks an argument *)
(* of another name than the one it requires, and stops there.                *)
Steps(j) ==
    CASE j.task = "deploy-and-configure" ->
            <<"verify">> \o Pages \o Seeds
              \o <<"NDescriptorV2", "NSeeder", "NAuctionHouseProxyAdmin">>
              \o (IF j.start THEN <<"unpause", "NAuctionHouseProxy">> ELSE <<>>)
              \o (IF j.update THEN <<"configs">> ELSE <<>>)
      [] j.task = "deploy-and-configure-short-times" ->
            <<"verify">> \o Pages
              \o <<"NDescriptorV2", "NToken", "NSeeder", "NAuctionHouseProxyAdmin">>
              \o (IF j.start THEN <<"unpause", "NAuctionHouseProxy">> ELSE <<>>)
              \o (IF j.update THEN <<"configs">> ELSE <<>>)
      [] j.task = "run-local" -> Pages \o Seeds \o <<"register">>
      [] j.task = "deploy-descriptor-v2" -> Pages \o <<"NDescriptorV2", "verify">>
      [] j.task = "populate-descriptor" -> Pages
      [] j.task = "start-auction" -> <<"unpause">> \o (IF j.punkers THEN <<"NAuctionHouseProxy">> ELSE <<>>)
      [] j.task = "register-og-punks" -> [i \in 1 .. Slices |-> "slice"]
      [] j.task = "encode" -> <<"files">>
      [] OTHER -> Seeds

NoFlags == [auto |-> TRUE, start |-> FALSE, update |-> FALSE, punkers |-> FALSE]

Init ==
    /\ \E task \in Deploys \cup Alone, f \in FlagSets :
          /\ task \in {"run-local", "deploy-descriptor-v2"} \cup Alone => f = NoFlags
          /\ job = [task |-> task, by |-> task, auto |-> f.auto, start |-> f.start,
                    update |-> f.update,
                    punkers |-> f.punkers \/ task = "deploy-descriptor-v2"]
    /\ phase = IF job.task \in Alone THEN "configure" ELSE "deploy"
    /\ step = 1
    /\ nonce = 0
    /\ made = [c \in Contracts |-> NotMade]
    /\ code = {}
    /\ refused = {}
    /\ art = [p \in Range(Pages) |-> 0]
    /\ owner = [c \in Ownable |-> "deployer"]
    /\ house = "paused"
    /\ faults = 0
    /\ reruns = 0
    /\ SeederInit
    /\ OGInit
    /\ EncoderInit(IF job.task = "encode" THEN Palettes ELSE {<<>>})

-----------------------------------------------------------------------------
(* The deployment loop: one iteration for each contract.                     *)

Current == Order(job.by)[step]

(* The loop goes on, or returns the deployment to the task that called it.   *)
NextContract ==
    IF step = Len(Order(job.by))
    THEN phase' = "configure" /\ step' = 1
    ELSE phase' = phase /\ step' = step + 1

Fail == phase' = "failed" /\ UNCHANGED step

(* The arguments are computed before the prompt: the address of a contract   *)
(* that was skipped is read off undefined, and the task throws.              *)
MissingArgument ==
    /\ phase = "deploy"
    /\ ~ (Needs(Current) \subseteq Made)
    /\ Fail
    /\ UNCHANGED <<job, nonce, made, code, refused, art, owner, house, faults, reruns, assetVars>>

Answers == IF job.auto \/ Cardinality(refused) = MaxRefusals THEN {"DEPLOY"}
           ELSE {"DEPLOY", "SKIP", "EXIT"}

(* What the operator's answer does. deploy-short-times asks for "confirm"    *)
(* and then looks at "operation", which is undefined.                        *)
Operation(answer) ==
    IF job.task = "deploy-and-configure-short-times" THEN "DEPLOY" ELSE answer

Refused(answer) == refused' = IF answer = "DEPLOY" THEN refused ELSE refused \cup {Current}

Ready == phase = "deploy" /\ Needs(Current) \subseteq Made

Create(answer) ==
    /\ Ready
    /\ answer \in Answers
    /\ Operation(answer) = "DEPLOY"
    /\ Refused(answer)
    /\ nonce' = nonce + 1
    /\ made' = [made EXCEPT ![Current] = nonce]
    /\ code' = code \cup {Current}
    /\ IF Validates(job.by, Current) /\ nonce # Expected(job.by)[Current]
       THEN Fail
       ELSE NextContract
    /\ UNCHANGED <<job, art, owner, house, faults, reruns, assetVars>>

(* The creation is mined but fails. A task that waits for it throws before   *)
(* it records the address; one that does not goes on with it.                *)
CreationFails ==
    /\ Ready
    /\ faults < MaxFaults
    /\ faults' = faults + 1
    /\ nonce' = nonce + 1
    /\ IF Waits(job.by, Current)
       THEN Fail /\ UNCHANGED made
       ELSE NextContract /\ made' = [made EXCEPT ![Current] = nonce]
    /\ UNCHANGED <<job, code, refused, art, owner, house, reruns, assetVars>>

Skip ==
    /\ Ready
    /\ "SKIP" \in Answers
    /\ Operation("SKIP") = "SKIP"
    /\ Refused("SKIP")
    /\ NextContract
    /\ UNCHANGED <<job, nonce, made, code, art, owner, house, faults, reruns, assetVars>>

(* The deployment returns nothing, and the calling task has no contracts to  *)
(* go on with.                                                               *)
Exit ==
    /\ Ready
    /\ "EXIT" \in Answers
    /\ Operation("EXIT") = "EXIT"
    /\ Refused("EXIT")
    /\ Fail
    /\ UNCHANGED <<job, nonce, made, code, art, owner, house, faults, reruns, assetVars>>

(* The deployer's account sends a transaction of its own. (A local node is   *)
(* started by run-local itself.)                                             *)
ForeignTransaction ==
    /\ phase = "deploy"
    /\ job.task # "run-local"
    /\ faults < MaxFaults
    /\ faults' = faults + 1
    /\ nonce' = nonce + 1
    /\ UNCHANGED <<job, phase, step, made, code, refused, art, owner, house, reruns, assetVars>>

-----------------------------------------------------------------------------
(* The configuration steps. Each transaction is mined before the next one.   *)

At(names) == phase = "configure" /\ Steps(job)[step] \in names

NextStep ==
    IF step = Len(Steps(job))
    THEN phase' = "done" /\ UNCHANGED step
    ELSE phase' = phase /\ step' = step + 1

(* The art behind the address that NDescriptorV2 was created with.           *)
ArtWired == made["NArt"] = Expected(job.by)["NArt"] /\ "NArt" \in code

(* verify-etherscan catches every error.                                     *)
Verify ==
    /\ At({"verify"})
    /\ NextStep
    /\ UNCHANGED <<job, nonce, made, code, refused, art, owner, house, faults, reruns, assetVars>>

(* A page is added by the descriptor's owner, through the descriptor. A call *)
(* of an address without code does nothing and succeeds; the descriptor's    *)
(* call of one reverts.                                                      *)
AddPage ==
    /\ At(Range(Pages))
    /\ IF "NDescriptorV2" \in code /\ ~ (owner["NDescriptorV2"] = "deployer" /\ ArtWired)
       THEN Fail /\ UNCHANGED art
       ELSE /\ NextStep
            /\ LET p == Steps(job)[step]
               IN  art' = IF "NDescriptorV2" \notin code THEN art
                          ELSE [art EXCEPT ![p] = IF p = "palette" THEN 1 ELSE @ + 1]
    /\ UNCHANGED <<job, nonce, made, code, refused, owner, house, faults, reruns, assetVars>>

SeederStep ==
    /\ At({"seeder"})
    /\ gen.stage = "idle"
    /\ IF owner["NSeeder"] # "deployer"
       THEN Fail /\ UNCHANGED seeder
       ELSE /\ NextStep
            /\ PopulateSeeder
    /\ UNCHANGED <<job, nonce, made, code, refused, art, owner, house, faults, reruns, gen, seedHashes, encoder>>

(* run-local: register-og-punks is called without its required parameter.    *)
Register ==
    /\ At({"register"})
    /\ Fail
    /\ UNCHANGED <<job, nonce, made, code, refused, art, owner, house, faults, reruns, assetVars>>

(* register-og-punks, for the owner of the token.                            *)
RegisterSlice ==
    /\ At({"slice"})
    /\ IF owner["NToken"] # "deployer"
       THEN Fail /\ UNCHANGED seedHashes
       ELSE NextStep /\ RegisterOGHashes(step)
    /\ UNCHANGED <<job, nonce, made, code, refused, art, owner, house, faults, reruns, seederVars, encoder>>

TransferOwnership ==
    /\ At(Ownable)
    /\ LET c == Steps(job)[step]
       IN  IF c \notin Made \/ owner[c] # "deployer"
           THEN Fail /\ UNCHANGED owner
           ELSE /\ NextStep
                /\ owner' = IF c \in code /\ job.punkers THEN [owner EXCEPT ![c] = "punkers"]
                            ELSE owner
    /\ UNCHANGED <<job, nonce, made, code, refused, art, house, faults, reruns, assetVars>>

(* unpause creates the first auction, which mints a punk. A mint refused     *)
(* with a message (the proxy is not the minter) is caught and the house      *)
(* pauses again; a panic of the seeder makes the whole transaction revert.   *)
HouseCallable ==
    /\ "NAuctionHouseProxy" \in code
    /\ owner["NAuctionHouseProxy"] = "deployer"
    /\ house = "paused"

IsMinter == made["NAuctionHouseProxy"] = Expected(job.by)["NAuctionHouseProxy"]

MintReaches == IsMinter /\ {"NToken", "NSeeder"} \subseteq code

UnpauseStarts ==
    /\ At({"unpause"})
    /\ HouseCallable
    /\ MintReaches
    /\ seeder.ids
    /\ house' = "live"
    /\ NextStep
    /\ UNCHANGED <<job, nonce, made, code, refused, art, owner, faults, reruns, assetVars>>

UnpauseIsCaught ==
    /\ At({"unpause"})
    /\ HouseCallable
    /\ ~ IsMinter
    /\ NextStep
    /\ UNCHANGED <<job, nonce, made, code, refused, art, owner, house, faults, reruns, assetVars>>

(* The short-times task does not wait for the transaction and goes on.       *)
UnpauseReverts ==
    /\ At({"unpause"})
    /\ ~ HouseCallable \/ (IsMinter /\ ~ (MintReaches /\ seeder.exclusion))
    /\ IF job.task = "deploy-and-configure-short-times" /\ "NAuctionHouseProxy" \in Made
       THEN NextStep
       ELSE Fail
    /\ UNCHANGED <<job, nonce, made, code, refused, art, owner, house, faults, reruns, assetVars>>

(* update-configs reads the address of every contract it writes first.       *)
Published == {"NToken", "NSeeder", "NDescriptorV2", "NFTDescriptorV2", "NAuctionHouse",
              "NAuctionHouseProxy", "NAuctionHouseProxyAdmin", "NDAOExecutor", "NDAOProxy",
              "NDAOLogicV1"}

UpdateConfigs ==
    /\ At({"configs"})
    /\ IF Published \subseteq Made THEN NextStep ELSE Fail
    /\ UNCHANGED <<job, nonce, made, code, refused, art, owner, house, faults, reruns, assetVars>>

-----------------------------------------------------------------------------
(* The process dies, or a request to the node fails.                         *)
Crash ==
    /\ phase \in {"deploy", "configure"}
    /\ job.task \notin {"populate-seeder", "encode"}
    /\ faults < MaxFaults
    /\ faults' = faults + 1
    /\ Fail
    /\ UNCHANGED <<job, nonce, made, code, refused, art, owner, house, reruns, assetVars>>

(* The operator runs a task by hand on the contracts that are there.         *)
Rerun(task) ==
    /\ phase \in {"done", "failed"}
    /\ reruns < MaxReruns
    /\ CASE task = "register-og-punks" -> job.by = task
         [] task = "start-auction" -> "NAuctionHouseProxy" \in Made
         [] OTHER -> {"NDescriptorV2", "NFTDescriptorV2"} \subseteq Made
    /\ reruns' = reruns + 1
    /\ job' = [job EXCEPT !.task = task]
    /\ phase' = "configure"
    /\ step' = 1
    /\ UNCHANGED <<nonce, made, code, refused, art, owner, house, faults, assetVars>>

(* The seeder by itself: any seed, after any of the task's transactions.     *)
GenerateAny ==
    /\ job.task = "populate-seeder"
    /\ Generate
    /\ UNCHANGED <<taskVars, seeder, seedHashes, encoder>>

(* The encoding script by itself.                                            *)
EncodeAny ==
    /\ At({"files"})
    /\ EncodeFile
    /\ UNCHANGED <<taskVars, seederVars, seedHashes>>

(* The steps the tasks take by themselves once the operator has confirmed.   *)
Progress ==
    \/ MissingArgument
    \/ Create("DEPLOY")
    \/ Verify
    \/ AddPage
    \/ SeederStep
    \/ Register
    \/ RegisterSlice
    \/ TransferOwnership
    \/ UnpauseStarts
    \/ UnpauseIsCaught
    \/ UnpauseReverts
    \/ UpdateConfigs

Next ==
    \/ Progress
    \/ \E answer \in {"SKIP", "EXIT"} : Create(answer)
    \/ CreationFails
    \/ Skip
    \/ Exit
    \/ ForeignTransaction
    \/ Crash
    \/ \E task \in {"populate-descriptor", "start-auction", "register-og-punks"} : Rerun(task)
    \/ GenerateAny
    \/ EncodeAny

Spec == Init /\ [][Next]_vars /\ WF_vars(Progress)

-----------------------------------------------------------------------------
(* Properties.                                                               *)

TypeOK ==
    /\ job.task \in Deploys \cup Alone \cup {"populate-descriptor", "start-auction"}
    /\ phase \in {"deploy", "configure", "done", "failed"}
    /\ step \in 1 .. IF phase = "deploy" THEN Len(Order(job.by))
                     ELSE IF phase = "configure" THEN Len(Steps(job)) ELSE 60
    /\ nonce \in 0 .. Len(LocalOrder) + MaxFaults
    /\ made \in [Contracts -> 0 .. nonce - 1 \cup {NotMade}]
    /\ code \subseteq Contracts
    /\ refused \subseteq Contracts
    /\ art \in [Range(Pages) -> 0 .. MaxReruns + 1]
    /\ owner \in [Ownable -> {"deployer", "punkers"}]
    /\ house \in {"paused", "live"}
    /\ faults \in 0 .. MaxFaults
    /\ reruns \in 0 .. MaxReruns
    /\ seeder.skin \in 0 .. NumTypes
    /\ seeder.count \in 0 .. NumTypes

(* Once the deployment has returned with an auction house proxy, every       *)
(* contract that another was told of in advance is at the predicted address. *)
(* Only the two proxies are validated; NArt, which is created first, has to  *)
(* follow from them whatever was skipped and whatever else the deployer's    *)
(* account sent. The mainnet task also knows that all of them have code.     *)
Wired ==
    (job.task \in Deploys /\ phase \in {"configure", "done"}) =>
        /\ "NAuctionHouseProxy" \in Made =>
              \A c \in Predicted \cap Made : made[c] = Expected(job.by)[c]
        /\ job.task = "deploy-and-configure" => Made \subseteq code

(* While an auction runs, every accessory and every punk the seeder can draw *)
(* has its page in the art contract that the descriptor really uses, even    *)
(* when the first attempt died half way and start-auction was run by hand.   *)
AuctionHasArt ==
    house = "live" =>
        /\ ArtWired
        /\ \A p \in Range(Pages) : art[p] > 0
        /\ seeder.count = NumTypes /\ seeder.ids

(* deploy-and-configure and deploy-descriptor-v2 give the descriptor and the *)
(* seeder away only when nothing is left to add to them, so that an attempt  *)
(* that dies, or that was wired to the wrong art contract, leaves them with  *)
(* the deployer, who can still finish.                                       *)
NothingStranded ==
    job.by # "deploy-and-configure-short-times" =>
        /\ owner["NDescriptorV2"] = "punkers" => \A p \in Range(Pages) : art[p] > 0
        /\ owner["NSeeder"] = "punkers" => seeder.exclusion

(* The SDK's addresses and the subgraph's configuration are only written for *)
(* a complete and correctly wired deployment.                                *)
PublishedIsComplete ==
    (job.task \in Deploys /\ job.update /\ phase = "done") =>
        /\ Published \subseteq Made
        /\ \A c \in Predicted \cap Made : made[c] = Expected(job.by)[c]

(* Whoever draws or lists a punk gets the same hash, and once register-og-   *)
(* punks has ended, after any crash and repetition, no human original can be *)
(* minted again. (An alien, ape or zombie can: AllLooksTaken is violated.)   *)
OriginalsKnown ==
    /\ HashesAgree
    /\ (job.task = "register-og-punks" /\ phase = "done") => HumanLooksTaken

(* deploy-and-configure.ts:74, for every original.                           *)
OriginalsNotMinted == (job.task = "register-og-punks" /\ phase = "done") => AllLooksTaken

(* What was deployed, sold from, given away and published fits together.     *)
DeployedRight ==
    TypeOK /\ Wired /\ AuctionHasArt /\ NothingStranded /\ PublishedIsComplete

(* Without faults deploy-and-configure ends, with the first auction running  *)
(* if it was asked for.                                                      *)
Completes ==
    (job.task = "deploy-and-configure" /\ job.auto)
        ~> (faults > 0 \/ (phase = "done" /\ (job.start => house = "live")))

(* deploy-short-times.ts:265: "Type "DEPLOY" to confirm, "SKIP" to skip this *)
(* contract, or "EXIT" to exit.": a contract the operator refused is not     *)
(* deployed.                                                                 *)
ObeysOperator == \A c \in refused : c \notin Made

=============================================================================
