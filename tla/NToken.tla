------------------------------- MODULE NToken -------------------------------
(***************************************************************************)
(* NToken (contracts/NToken.sol over contracts/base/ERC721.sol): who owns  *)
(* and who may move each punk, how ids and seed hashes are handed out, and *)
(* the one-way locks on the contract's settings.                           *)
(*                                                                         *)
(* A contract's storage is a record and a call is an operator on it, so    *)
(* that a transaction of another contract (NAuctionHouse) can make several *)
(* calls in one step.  A call that reverts is one that is not enabled.     *)
(* Votes and enumeration, which the same transfers drive, are in           *)
(* ERC721Checkpointable and ERC721Enumerable.                              *)
(***************************************************************************)
EXTENDS Naturals, FiniteSets

CONSTANTS
  Zero,         \* address(0)
  Accounts,     \* every other address that can hold or move a punk
  Owner,        \* owner() of the contracts, the DAO's executor
  Punkers,      \* initial punkers address
  Minter,       \* initial minter, the auction house proxy
  Users,        \* the accounts whose own token calls are explored
  PunkIds,      \* unshifted ids: Nat, or an initial segment of it
  SeedHashes,   \* values of calculateSeedHash
  RewardEvery,  \* a punkers punk every so many ids (10 in the code) ...
  RewardLast,   \* ... up to this id (1820 in the code)
  MinterChoices,\* values the owner may pass to setMinter
  LockChoices,  \* the locks whose setting is explored
  OGHashes,     \* hashes the owner may register as taken by OG punks
  IdShifts,     \* values the owner may pass to setIdShift
  Versions      \* values of descriptor, seeder, name/symbol and contract URI

ASSUME NTokenAssumption ==
  /\ Zero \notin Accounts
  /\ {Owner, Punkers, Minter} \cup Users \subseteq Accounts
  /\ PunkIds \subseteq Nat
  /\ \A i \in PunkIds : \A j \in 0 .. i : j \in PunkIds
  /\ RewardEvery \in Nat \ {0, 1}
  /\ RewardLast \in Nat
  /\ MinterChoices \subseteq Accounts \cup {Zero}
  /\ IdShifts \subseteq Nat
  /\ OGHashes \subseteq SeedHashes
  /\ "noSeed" \notin SeedHashes

VARIABLE token

Address == Accounts \cup {Zero}

\* A seed slot of _seeds that was never written (bytes32(0)).
NoSeed == "noSeed"

\* The settings without a type of their own, and the ones that can be locked.
Parts == {"descriptor", "seeder", "metadata", "contractURI"}
Lockable == (Parts \ {"contractURI"}) \cup {"minter", "idShift", "ogHashes"}

TokenStorage ==
  [owners        : [PunkIds -> Address],
   approved      : [PunkIds -> Address],
   operators     : SUBSET (Accounts \X Accounts),
   currentPunkId : Nat,
   seeds         : [PunkIds -> SeedHashes \cup {NoSeed}],
   seedHashes    : [SeedHashes -> Nat],
   minter        : Address,
   punkers       : Accounts,
   idShift       : Nat,
   parts         : [Parts -> Versions],
   locks         : SUBSET Lockable]

Deployed(v) ==
  [owners        |-> [i \in PunkIds |-> Zero],
   approved      |-> [i \in PunkIds |-> Zero],
   operators     |-> {},
   currentPunkId |-> 0,
   seeds         |-> [i \in PunkIds |-> NoSeed],
   seedHashes    |-> [h \in SeedHashes |-> 0],
   minter        |-> Minter,
   punkers       |-> Punkers,
   idShift       |-> 0,
   parts         |-> [p \in Parts |-> v],
   locks         |-> {}]

-----------------------------------------------------------------------------
(* ERC721: ownership and approvals                                         *)

Exists(t, i) == i \in PunkIds /\ t.owners[i] # Zero

IsApprovedOrOwner(t, sender, i) ==
  /\ Exists(t, i)
  /\ \/ sender = t.owners[i]
     \/ sender = t.approved[i]
     \/ <<t.owners[i], sender>> \in t.operators

\* An outside id is the storage id plus the shift; a smaller one reverts.
Shifted(t, id) == id >= t.idShift
Unshift(t, id) == id - t.idShift

\* transferFrom and safeTransferFrom; the receiver hook can only revert.
CanTransferFrom(t, sender, from, to, id) ==
  /\ Shifted(t, id)
  /\ IsApprovedOrOwner(t, sender, Unshift(t, id))
  /\ t.owners[Unshift(t, id)] = from
  /\ to # Zero

\* Variant: _transfer without clearing the approval.
TransferredKeepsApproval(t, to, id) ==
  [t EXCEPT !.owners[Unshift(t, id)] = to]

\* _transfer: the approval is cleared before the owner changes.
Transferred(t, to, id) ==
  [t EXCEPT !.approved[Unshift(t, id)] = Zero,
            !.owners[Unshift(t, id)] = to]

CanBurn(t, sender, id) ==
  /\ sender = t.minter
  /\ Shifted(t, id)
  /\ IsApprovedOrOwner(t, sender, Unshift(t, id))

Burned(t, id) ==
  [t EXCEPT !.approved[Unshift(t, id)] = Zero,
            !.owners[Unshift(t, id)] = Zero]

CanApprove(t, sender, to, id) ==
  LET owner == t.owners[Unshift(t, id)] IN
    /\ Shifted(t, id)
    /\ Exists(t, Unshift(t, id))
    /\ to # owner
    /\ sender = owner \/ <<owner, sender>> \in t.operators

-----------------------------------------------------------------------------
(* Minting                                                                 *)

\* Variant: hashes of OG punks are the only ones refused.
FreeHashesOGOnly(t) == {h \in SeedHashes : t.seedHashes[h] # 1}

\* The seeder is asked with salt 0, 1, ... until a hash comes up that nobody
\* uses: which one it is, is the seeder's pseudo-random choice.  With none
\* left the loop runs out of gas, so there is no result.
FreeHashes(t) == {h \in SeedHashes : t.seedHashes[h] = 0}

\* The requires of _mint; PunkIds bounds the ids.
CanMintTo(t, to) ==
  /\ to # Zero
  /\ t.currentPunkId \in PunkIds
  /\ ~Exists(t, t.currentPunkId)

\* _mintTo(to, _currentPunkId++): the storages it can leave.
MintTo(t, to) ==
  {[t EXCEPT !.owners[t.currentPunkId] = to,
             !.seeds[t.currentPunkId] = h,
             !.seedHashes[h] = t.currentPunkId + 2,
             !.currentPunkId = @ + 1] :
     h \in IF CanMintTo(t, to) THEN FreeHashes(t) ELSE {}}

\* Variant: the last reward is missed.
RewardDueMissesLast(t) ==
  t.currentPunkId < RewardLast /\ t.currentPunkId % RewardEvery = 0

RewardDue(t) ==
  t.currentPunkId <= RewardLast /\ t.currentPunkId % RewardEvery = 0

\* mint(), once onlyMinter has passed.
Minted(t) ==
  IF RewardDue(t)
  THEN UNION {MintTo(u, u.minter) : u \in MintTo(t, t.punkers)}
  ELSE MintTo(t, t.minter)

\* Variant: the counter is read after its increment.
MintResultAfterIncrement(t) == t.currentPunkId

\* The value mint() returns: _mintTo returns its unshifted argument.
MintResult(t) == t.currentPunkId - 1

-----------------------------------------------------------------------------
(* The calls of accounts other than the auction house                      *)

Mint(sender) ==
  /\ sender = token.minter
  /\ token' \in Minted(token)

Burn(sender, id) ==
  /\ CanBurn(token, sender, id)
  /\ token' = Burned(token, id)

TransferFrom(sender, from, to, id) ==
  /\ CanTransferFrom(token, sender, from, to, id)
  /\ token' = Transferred(token, to, id)

Approve(sender, to, id) ==
  /\ CanApprove(token, sender, to, id)
  /\ token' = [token EXCEPT !.approved[Unshift(token, id)] = to]

SetApprovalForAll(sender, operator, approved) ==
  /\ operator # sender
  /\ token' = [token EXCEPT !.operators = IF approved
                                          THEN @ \cup {<<sender, operator>>}
                                          ELSE @ \ {<<sender, operator>>}]

SetPunkers(to) ==
  /\ to # Zero
  /\ token' = [token EXCEPT !.punkers = to]

SetMinter(m) ==
  /\ "minter" \notin token.locks
  /\ token' = [token EXCEPT !.minter = m]

SetIdShift(n) ==
  /\ "idShift" \notin token.locks
  /\ token' = [token EXCEPT !.idShift = n]

\* setDescriptor, setSeeder, setName/setSymbol and setContractURIHash.
SetPart(p, v) ==
  /\ p \notin token.locks
  /\ token' = [token EXCEPT !.parts[p] = v]

Lock(l) ==
  /\ l \in Lockable \ token.locks
  /\ token' = [token EXCEPT !.locks = @ \cup {l}]

RegisterOGHashes(hashes) ==
  /\ "ogHashes" \notin token.locks
  /\ token' = [token EXCEPT !.seedHashes =
                 [h \in SeedHashes |-> IF h \in hashes THEN 1 ELSE @[h]]]

-----------------------------------------------------------------------------
\* Outside ids a caller may name.
OutsideIds == {i + token.idShift : i \in PunkIds}

UserStep(u) ==
  \/ Mint(u)
  \/ \E id \in OutsideIds : Burn(u, id)
  \/ \E from, to \in Accounts, id \in OutsideIds : TransferFrom(u, from, to, id)
  \/ \E to \in Address, id \in OutsideIds : Approve(u, to, id)
  \/ \E operator \in Accounts, approved \in BOOLEAN :
       SetApprovalForAll(u, operator, approved)

OwnerStep ==
  \/ \E m \in MinterChoices : SetMinter(m)
  \/ \E n \in IdShifts : SetIdShift(n)
  \/ \E p \in Parts, v \in Versions : SetPart(p, v)
  \/ \E l \in LockChoices : Lock(l)
  \/ \E h \in OGHashes : RegisterOGHashes({h})

TokenInit == \E v \in Versions : token = Deployed(v)

TokenStep ==
  \/ \E u \in Users : UserStep(u)
  \/ \E to \in Users \cup {Zero} : SetPunkers(to)
  \/ OwnerStep

TokenSpec == TokenInit /\ [][TokenStep]_token

-----------------------------------------------------------------------------
(* Properties                                                              *)

\* Every storage slot of the token has its declared type.
TokenTypeOK == token \in TokenStorage

InOrder(t) ==
  \A i \in PunkIds :
    IF i < t.currentPunkId
    THEN t.seeds[i] # NoSeed
    ELSE /\ t.owners[i] = Zero
         /\ t.approved[i] = Zero
         /\ t.seeds[i] = NoSeed

\* Ids are handed out in order: an id at or past _currentPunkId was never
\* minted (no owner, no seed, no approval), and every id before it has a seed.
IdsInOrder == InOrder(token)

SeedsTaken(t) ==
  \A i \in PunkIds : t.seeds[i] # NoSeed =>
    /\ t.seedHashes[t.seeds[i]] \in {1, i + 2}
    /\ \A j \in PunkIds : t.seeds[j] = t.seeds[i] => j = i

\* The salted retry loop of _mintTo and registerOGHashes, which overwrites
\* entries at any time, never let two punks, burned ones included, share a
\* seed hash, and the hash of every minted punk stays taken.
UniqueSeeds == SeedsTaken(token)

\* Storage is sound: its types, the order of ids and the uniqueness of seeds,
\* which need each other.
TokenSafe == TokenTypeOK /\ IdsInOrder /\ UniqueSeeds

\* An approval never survives a change of owner: whoever was approved by the
\* previous owner (approve) has no say over the punk in the new one's hands.
ApprovalsDieWithOwner ==
  [][\A i \in PunkIds : token'.owners[i] # token.owners[i] =>
       token'.approved[i] = Zero]_token

=============================================================================
