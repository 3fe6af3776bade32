------------------------ MODULE NAuctionHouse_proofs ------------------------
(***************************************************************************)
(* Proofs about NToken and NAuctionHouse for every set of accounts, ids,   *)
(* seed hashes, bids, prices, time buffers and percentages.  The lemmas of *)
(* the token are about a storage t, not about the variable, so that the    *)
(* house can cite them for the storages inside one of its transactions.    *)
(***************************************************************************)
EXTENDS NAuctionHouse, TLAPS

-----------------------------------------------------------------------------
(* The token                                                               *)

\* One _mintTo leaves sound storage: the id was fresh, the hash was free.
LEMMA MintToSound ==
  ASSUME NEW t \in TokenStorage, InOrder(t), SeedsTaken(t),
         NEW to \in Accounts, NEW u \in MintTo(t, to)
  PROVE  /\ u \in TokenStorage
         /\ InOrder(u)
         /\ SeedsTaken(u)
         /\ t.currentPunkId \in PunkIds
         /\ u.currentPunkId = t.currentPunkId + 1
         /\ u.owners = [t.owners EXCEPT ![t.currentPunkId] = to]
         /\ u.approved = t.approved
         /\ u.operators = t.operators
         /\ u.minter = t.minter
         /\ u.punkers = t.punkers
         /\ u.idShift = t.idShift
<1> DEFINE n == t.currentPunkId
<1>1. PICK h \in SeedHashes :
        /\ n \in PunkIds
        /\ t.seedHashes[h] = 0
        /\ u = [t EXCEPT !.owners[n] = to, !.seeds[n] = h,
                         !.seedHashes[h] = n + 2, !.currentPunkId = @ + 1]
  BY DEF MintTo, CanMintTo, FreeHashes
<1>2. /\ u.currentPunkId = n + 1
      /\ u.owners = [t.owners EXCEPT ![n] = to]
      /\ u.approved = t.approved
      /\ u.operators = t.operators
      /\ u.seeds = [t.seeds EXCEPT ![n] = h]
      /\ u.seedHashes = [t.seedHashes EXCEPT ![h] = n + 2]
      /\ u.minter = t.minter
      /\ u.punkers = t.punkers
      /\ u.idShift = t.idShift
  BY <1>1 DEF TokenStorage
<1>3. u \in TokenStorage
  <2>1. /\ [t.owners EXCEPT ![n] = to] \in [PunkIds -> Address]
        /\ [t.seeds EXCEPT ![n] = h] \in [PunkIds -> SeedHashes \cup {NoSeed}]
        /\ [t.seedHashes EXCEPT ![h] = n + 2] \in [SeedHashes -> Nat]
        /\ n + 1 \in Nat
    BY <1>1, NTokenAssumption DEF TokenStorage, Address
  <2> QED BY <1>1, <2>1 DEF TokenStorage
<1>4. InOrder(u)
  BY <1>1, <1>2, NTokenAssumption DEF InOrder, TokenStorage, NoSeed
<1>5. SeedsTaken(u)
  <2>1. \A i \in PunkIds : t.seeds[i] # h
    BY <1>1, NTokenAssumption DEF SeedsTaken, TokenStorage, NoSeed
  <2> QED BY <1>1, <1>2, <2>1, NTokenAssumption
          DEF SeedsTaken, InOrder, TokenStorage, NoSeed
<1> QED BY <1>1, <1>2, <1>3, <1>4, <1>5

\* What mint() does beside keeping storage sound: the new minter's punk has
\* the id it returns, was nobody's before, and no other punk changes hands
\* except a fresh one that goes to the punkers.
LEMMA MintedSound ==
  ASSUME NEW t \in TokenStorage, InOrder(t), SeedsTaken(t),
         t.minter \in Accounts, NEW u \in Minted(t)
  PROVE  /\ u \in TokenStorage
         /\ InOrder(u)
         /\ SeedsTaken(u)
         /\ MintResult(u) \in PunkIds
         /\ MintResult(u) >= t.currentPunkId
         /\ u.owners[MintResult(u)] = t.minter
         /\ u.approved = t.approved
         /\ u.operators = t.operators
         /\ u.minter = t.minter
         /\ u.idShift = t.idShift
         /\ \A i \in PunkIds : i < t.currentPunkId => u.owners[i] = t.owners[i]
<1>1. CASE RewardDue(t)
  <2>1. PICK v \in MintTo(t, t.punkers) : u \in MintTo(v, v.minter)
    BY <1>1 DEF Minted
  <2>2. t.punkers \in Accounts
    BY DEF TokenStorage
  <2>3. /\ v \in TokenStorage
        /\ InOrder(v)
        /\ SeedsTaken(v)
        /\ t.currentPunkId \in PunkIds
        /\ v.currentPunkId = t.currentPunkId + 1
        /\ v.owners = [t.owners EXCEPT ![t.currentPunkId] = t.punkers]
        /\ v.approved = t.approved
        /\ v.operators = t.operators
        /\ v.minter = t.minter
        /\ v.idShift = t.idShift
    BY <2>1, <2>2, MintToSound
  <2>4. /\ u \in TokenStorage
        /\ InOrder(u)
        /\ SeedsTaken(u)
        /\ v.currentPunkId \in PunkIds
        /\ u.currentPunkId = v.currentPunkId + 1
        /\ u.owners = [v.owners EXCEPT ![v.currentPunkId] = v.minter]
        /\ u.approved = v.approved
        /\ u.operators = v.operators
        /\ u.minter = v.minter
        /\ u.idShift = v.idShift
    BY <2>1, <2>3, MintToSound
  <2> QED BY <2>3, <2>4, NTokenAssumption DEF MintResult, TokenStorage
<1>2. CASE ~RewardDue(t)
  <2>1. u \in MintTo(t, t.minter)
    BY <1>2 DEF Minted
  <2>2. /\ u \in TokenStorage
        /\ InOrder(u)
        /\ SeedsTaken(u)
        /\ t.currentPunkId \in PunkIds
        /\ u.currentPunkId = t.currentPunkId + 1
        /\ u.owners = [t.owners EXCEPT ![t.currentPunkId] = t.minter]
        /\ u.approved = t.approved
        /\ u.operators = t.operators
        /\ u.minter = t.minter
        /\ u.idShift = t.idShift
    BY <2>1, MintToSound
  <2> QED BY <2>2, NTokenAssumption DEF MintResult, TokenStorage
<1> QED BY <1>1, <1>2

LEMMA NotDueTwice ==
  ASSUME NEW n \in Nat, NEW e \in Nat, e > 1, n % e = 0
  PROVE  (n + 1) % e # 0
BY SMT

\* The id that mint() returns is not a reward's: a due reward takes its own id
\* first, and the next id is not due.
LEMMA MintedNotReward ==
  ASSUME NEW t \in TokenStorage, InOrder(t), SeedsTaken(t),
         t.minter \in Accounts, NEW u \in Minted(t)
  PROVE  ~(MintResult(u) <= RewardLast /\ MintResult(u) % RewardEvery = 0)
<1>1. t.currentPunkId \in Nat /\ RewardEvery \in Nat /\ RewardEvery > 1
      /\ RewardLast \in Nat /\ t.punkers \in Accounts
  BY NTokenAssumption DEF TokenStorage
<1>2. CASE RewardDue(t)
  <2>1. PICK v \in MintTo(t, t.punkers) : u \in MintTo(v, v.minter)
    BY <1>2 DEF Minted
  <2>2. /\ v \in TokenStorage /\ InOrder(v) /\ SeedsTaken(v)
        /\ v.minter \in Accounts /\ v.currentPunkId = t.currentPunkId + 1
    BY <1>1, <2>1, MintToSound
  <2>3. u.currentPunkId = v.currentPunkId + 1
    BY <2>1, <2>2, MintToSound
  <2>4. MintResult(u) = t.currentPunkId + 1
    BY <1>1, <2>2, <2>3 DEF MintResult
  <2>5. t.currentPunkId % RewardEvery = 0
    BY <1>2 DEF RewardDue
  <2>6. (t.currentPunkId + 1) % RewardEvery # 0
    BY <1>1, <2>5, NotDueTwice
  <2> QED BY <2>4, <2>6
<1>3. CASE ~RewardDue(t)
  <2>1. u.currentPunkId = t.currentPunkId + 1
    BY <1>3, MintToSound DEF Minted
  <2>2. MintResult(u) = t.currentPunkId
    BY <1>1, <2>1 DEF MintResult
  <2> QED BY <1>3, <2>2 DEF RewardDue
<1> QED BY <1>2, <1>3

\* Moving or burning an existing punk keeps storage sound.
LEMMA MovedSound ==
  ASSUME NEW t \in TokenStorage, InOrder(t), SeedsTaken(t),
         NEW to \in Address, NEW approvee \in Address,
         NEW i \in PunkIds, Exists(t, i),
         NEW u, u = [t EXCEPT !.approved[i] = approvee, !.owners[i] = to]
  PROVE  /\ u \in TokenStorage
         /\ InOrder(u)
         /\ SeedsTaken(u)
<1>1. /\ [t.owners EXCEPT ![i] = to] \in [PunkIds -> Address]
      /\ [t.approved EXCEPT ![i] = approvee] \in [PunkIds -> Address]
  BY DEF TokenStorage
<1>2. u \in TokenStorage
  BY <1>1 DEF TokenStorage
<1>3. i < t.currentPunkId
  BY NTokenAssumption DEF InOrder, Exists, TokenStorage
<1>4. /\ u.currentPunkId = t.currentPunkId
      /\ u.seeds = t.seeds
      /\ u.seedHashes = t.seedHashes
      /\ \A j \in PunkIds : j # i => u.owners[j] = t.owners[j]
                                     /\ u.approved[j] = t.approved[j]
  BY DEF TokenStorage
<1> QED BY <1>2, <1>3, <1>4 DEF InOrder, SeedsTaken, TokenStorage

LEMMA UnshiftExists ==
  ASSUME NEW t \in TokenStorage, NEW sender, NEW id,
         IsApprovedOrOwner(t, sender, Unshift(t, id))
  PROVE  Unshift(t, id) \in PunkIds /\ Exists(t, Unshift(t, id))
BY DEF IsApprovedOrOwner, Exists

\* No call of a user, of the punkers or of the owner makes storage unsound.
LEMMA StepSound ==
  ASSUME token \in TokenStorage, InOrder(token), SeedsTaken(token), TokenStep
  PROVE  token' \in TokenStorage /\ InOrder(token') /\ SeedsTaken(token')
<1>1. ASSUME NEW u \in Users, Mint(u)
      PROVE  token' \in TokenStorage /\ InOrder(token') /\ SeedsTaken(token')
  <2>1. token.minter \in Accounts /\ token' \in Minted(token)
    BY <1>1, NTokenAssumption DEF Mint
  <2> QED BY <2>1, MintedSound
<1>2. ASSUME NEW u \in Users, NEW id \in OutsideIds, Burn(u, id)
      PROVE  token' \in TokenStorage /\ InOrder(token') /\ SeedsTaken(token')
  <2>1. Exists(token, Unshift(token, id)) /\ Unshift(token, id) \in PunkIds
    BY <1>2, UnshiftExists DEF Burn, CanBurn
  <2>2. token' = [token EXCEPT !.approved[Unshift(token, id)] = Zero,
                               !.owners[Unshift(token, id)] = Zero]
    BY <1>2 DEF Burn, Burned
  <2>3. Zero \in Address
    BY DEF Address
  <2> QED BY <2>1, <2>2, <2>3, MovedSound
<1>3. ASSUME NEW u \in Users, NEW from \in Accounts, NEW to \in Accounts,
             NEW id \in OutsideIds, TransferFrom(u, from, to, id)
      PROVE  token' \in TokenStorage /\ InOrder(token') /\ SeedsTaken(token')
  <2>1. Exists(token, Unshift(token, id)) /\ Unshift(token, id) \in PunkIds
    BY <1>3, UnshiftExists DEF TransferFrom, CanTransferFrom
  <2>2. token' = [token EXCEPT !.approved[Unshift(token, id)] = Zero,
                               !.owners[Unshift(token, id)] = to]
    BY <1>3 DEF TransferFrom, Transferred
  <2>3. Zero \in Address /\ to \in Address
    BY DEF Address
  <2> QED BY <2>1, <2>2, <2>3, MovedSound
<1>4. ASSUME NEW u \in Users, NEW to \in Address, NEW id \in OutsideIds,
             Approve(u, to, id)
      PROVE  token' \in TokenStorage /\ InOrder(token') /\ SeedsTaken(token')
  <2> DEFINE i == Unshift(token, id)
  <2>1. Exists(token, i) /\ i \in PunkIds
    BY <1>4 DEF Approve, CanApprove, Exists
  <2>2. token' = [token EXCEPT !.approved[i] = to]
    BY <1>4 DEF Approve
  <2>3. [token EXCEPT !.approved[i] = to]
          = [token EXCEPT !.approved[i] = to, !.owners[i] = token.owners[i]]
    BY <2>1 DEF TokenStorage
  <2>4. token.owners[i] \in Address
    BY <2>1 DEF TokenStorage
  <2> HIDE DEF i
  <2> QED BY <2>1, <2>2, <2>3, <2>4, MovedSound
<1>5. ASSUME token'.owners = token.owners, token'.approved = token.approved,
             token'.currentPunkId = token.currentPunkId,
             token'.seeds = token.seeds, token'.seedHashes = token.seedHashes
      PROVE  InOrder(token') /\ SeedsTaken(token')
  BY <1>5 DEF InOrder, SeedsTaken
<1>6. ASSUME NEW u \in Users, NEW operator \in Accounts, NEW b \in BOOLEAN,
             SetApprovalForAll(u, operator, b)
      PROVE  token' \in TokenStorage /\ InOrder(token') /\ SeedsTaken(token')
  <2>1. PICK ops \in SUBSET (Accounts \X Accounts) :
          token' = [token EXCEPT !.operators = ops]
    <3>1. <<u, operator>> \in Accounts \X Accounts
      BY NTokenAssumption
    <3> QED BY <1>6, <3>1 DEF SetApprovalForAll, TokenStorage
  <2> QED BY <2>1, <1>5 DEF TokenStorage
<1>7. ASSUME NEW to \in Users \cup {Zero}, SetPunkers(to)
      PROVE  token' \in TokenStorage /\ InOrder(token') /\ SeedsTaken(token')
  BY <1>7, <1>5, NTokenAssumption DEF SetPunkers, TokenStorage
<1>8. ASSUME NEW m \in MinterChoices, SetMinter(m)
      PROVE  token' \in TokenStorage /\ InOrder(token') /\ SeedsTaken(token')
  BY <1>8, <1>5, NTokenAssumption DEF SetMinter, TokenStorage, Address
<1>9. ASSUME NEW n \in IdShifts, SetIdShift(n)
      PROVE  token' \in TokenStorage /\ InOrder(token') /\ SeedsTaken(token')
  BY <1>9, <1>5, NTokenAssumption DEF SetIdShift, TokenStorage
<1>10. ASSUME NEW p \in Parts, NEW v \in Versions, SetPart(p, v)
       PROVE  token' \in TokenStorage /\ InOrder(token') /\ SeedsTaken(token')
  <2>1. [token.parts EXCEPT ![p] = v] \in [Parts -> Versions]
    BY DEF TokenStorage
  <2> QED BY <1>10, <1>5, <2>1 DEF SetPart, TokenStorage
<1>11. ASSUME NEW l \in LockChoices, Lock(l)
       PROVE  token' \in TokenStorage /\ InOrder(token') /\ SeedsTaken(token')
  <2>1. token.locks \cup {l} \in SUBSET Lockable
    BY <1>11 DEF TokenStorage, Lock
  <2> QED BY <1>11, <1>5, <2>1 DEF Lock, TokenStorage
<1>12. ASSUME NEW h \in OGHashes, RegisterOGHashes({h})
       PROVE  token' \in TokenStorage /\ InOrder(token') /\ SeedsTaken(token')
  <2> DEFINE sh == [g \in SeedHashes |->
                      IF g \in {h} THEN 1 ELSE token.seedHashes[g]]
  <2>1. token' = [token EXCEPT !.seedHashes = sh]
    BY <1>12 DEF RegisterOGHashes
  <2>2. sh \in [SeedHashes -> Nat]
    BY DEF TokenStorage
  <2>3. \A g \in SeedHashes : sh[g] \in {1, token.seedHashes[g]}
    OBVIOUS
  <2> HIDE DEF sh
  <2>4. token' \in TokenStorage
    BY <2>1, <2>2 DEF TokenStorage
  <2>5. /\ token'.owners = token.owners
        /\ token'.approved = token.approved
        /\ token'.currentPunkId = token.currentPunkId
        /\ token'.seeds = token.seeds
        /\ token'.seedHashes = sh
    BY <2>1 DEF TokenStorage
  <2>6. InOrder(token')
    BY <2>5 DEF InOrder
  <2>7. SeedsTaken(token')
    BY <2>3, <2>5, NTokenAssumption DEF SeedsTaken, TokenStorage
  <2> QED BY <2>4, <2>6, <2>7
<1> QED BY <1>1, <1>2, <1>3, <1>4, <1>6, <1>7, <1>8, <1>9, <1>10, <1>11, <1>12
        DEF TokenStep, UserStep, OwnerStep

\* The initial storage, written by the constructor, is sound.
LEMMA InitSound ==
  ASSUME NEW v \in Versions
  PROVE  /\ Deployed(v) \in TokenStorage
         /\ InOrder(Deployed(v))
         /\ SeedsTaken(Deployed(v))
<1>1. Deployed(v) \in TokenStorage
  BY NTokenAssumption DEF Deployed, TokenStorage, Address, NoSeed
<1>2. InOrder(Deployed(v)) /\ SeedsTaken(Deployed(v))
  BY NTokenAssumption DEF Deployed, InOrder, SeedsTaken, NoSeed
<1> QED BY <1>1, <1>2

-----------------------------------------------------------------------------
\* For every number of punks, accounts and hashes: storage keeps its type,
\* mint() hands ids out in order, and no two punks ever share a seed hash,
\* whatever the owner registers and whoever burns, moves or approves punks.
THEOREM TokenSound == TokenSpec => []TokenSafe
<1>1. TokenInit => TokenSafe
  BY InitSound DEF TokenInit, TokenSafe, TokenTypeOK, IdsInOrder, UniqueSeeds
<1>2. TokenSafe /\ [TokenStep]_token => TokenSafe'
  <2> SUFFICES ASSUME TokenSafe, [TokenStep]_token PROVE TokenSafe'
    OBVIOUS
  <2>1. CASE TokenStep
    BY <2>1, StepSound DEF TokenSafe, TokenTypeOK, IdsInOrder, UniqueSeeds
  <2>2. CASE UNCHANGED token
    BY <2>2 DEF TokenSafe, TokenTypeOK, IdsInOrder, UniqueSeeds
  <2> QED BY <2>1, <2>2
<1> QED BY <1>1, <1>2, PTL DEF TokenSpec

\* A punk that gets another owner in a step has no approval after it.
LEMMA StepClearsApproval ==
  ASSUME TokenSafe, TokenStep, NEW i \in PunkIds,
         token'.owners[i] # token.owners[i]
  PROVE  token'.approved[i] = Zero
<1>1. token \in TokenStorage /\ InOrder(token) /\ SeedsTaken(token)
  BY DEF TokenSafe, TokenTypeOK, IdsInOrder, UniqueSeeds
<1>2. CASE \E u \in Users : Mint(u)
  <2>1. token.minter \in Accounts /\ token' \in Minted(token)
    BY <1>2, NTokenAssumption DEF Mint
  <2>2. /\ token'.approved = token.approved
        /\ i < token.currentPunkId => token'.owners[i] = token.owners[i]
    BY <1>1, <2>1, MintedSound
  <2>3. ~(i < token.currentPunkId)
    BY <2>2
  <2> QED BY <2>2, <2>3 DEF InOrder, TokenSafe, IdsInOrder
<1>3. CASE \E u \in Users, id \in OutsideIds : Burn(u, id)
  <2>1. PICK u \in Users, id \in OutsideIds : Burn(u, id)
    BY <1>3
  <2>2. Unshift(token, id) \in PunkIds /\ token' = Burned(token, id)
    BY <1>1, <2>1, UnshiftExists DEF Burn, CanBurn
  <2> QED BY <1>1, <2>2 DEF Burned, TokenStorage
<1>4. CASE \E u \in Users, from, to \in Accounts, id \in OutsideIds :
             TransferFrom(u, from, to, id)
  <2>1. PICK u \in Users, from \in Accounts, to \in Accounts, id \in OutsideIds :
          TransferFrom(u, from, to, id)
    BY <1>4
  <2>2. Unshift(token, id) \in PunkIds /\ token' = Transferred(token, to, id)
    BY <1>1, <2>1, UnshiftExists DEF TransferFrom, CanTransferFrom
  <2> QED BY <1>1, <2>2 DEF Transferred, TokenStorage
<1>5. CASE \/ \E u \in Users : \/ \E to \in Address, id \in OutsideIds :
                                    Approve(u, to, id)
                               \/ \E operator \in Accounts, b \in BOOLEAN :
                                    SetApprovalForAll(u, operator, b)
           \/ \E to \in Users \cup {Zero} : SetPunkers(to)
           \/ OwnerStep
  <2>1. token'.owners = token.owners
    BY <1>1, <1>5
       DEF TokenStorage, Approve, SetApprovalForAll, SetPunkers, OwnerStep,
           SetMinter, SetIdShift, SetPart, Lock, RegisterOGHashes
  <2> QED BY <2>1
<1> QED BY <1>2, <1>3, <1>4, <1>5 DEF TokenStep, UserStep

\* No approval outlives the ownership it was given under: _transfer, _burn and
\* _mint all leave a punk that changes hands unapproved.
THEOREM ApprovalsDie == TokenSpec => ApprovalsDieWithOwner
<1>1. TokenSafe /\ [TokenStep]_token =>
        [\A i \in PunkIds : token'.owners[i] # token.owners[i] =>
           token'.approved[i] = Zero]_token
  BY StepClearsApproval
<1> QED BY <1>1, TokenSound, PTL DEF TokenSpec, ApprovalsDieWithOwner

-----------------------------------------------------------------------------
(* The auction house                                                       *)

\* At most one createBid is suspended, and it holds a copy of an auction that is still open and
\* unchanged: nothing that the outbid bidder can call meanwhile touches it.
FrameInv ==
  frames # <<>> =>
    /\ frames = <<Head(frames)>>
    /\ Head(frames) \in Frame
    /\ Head(frames).auction = auction
    /\ Live
    /\ now < auction.endTime
    /\ auction.bidder # Zero

\* A bidder and an amount go together, and a suspended or running auction has
\* not been created by anyone but _createAuction.
AuctionInv ==
  /\ auction.bidder = Zero => auction.amount = 0
  /\ ~Begun => auction.endTime = 0 /\ auction.bidder = Zero
  /\ auction.settled => now >= auction.endTime

TokenInv == token \in TokenStorage /\ InOrder(token) /\ SeedsTaken(token)

\* The inductive invariant of the money.
MoneyInv ==
  TypeOK /\ TokenInv /\ FrameInv /\ AuctionInv /\ Solvency /\ BiddersMadeWhole

-----------------------------------------------------------------------------
LEMMA PayType ==
  ASSUME NEW b \in [Wallets -> Nat], NEW from \in Wallets, NEW to \in Wallets,
         from # to, NEW v \in Nat, v <= b[from]
  PROVE  /\ Pay(b, from, to, v) \in [Wallets -> Nat]
         /\ Pay(b, from, to, v)[from] = b[from] - v
         /\ Pay(b, from, to, v)[to] = b[to] + v
         /\ \A a \in Wallets \ {from, to} : Pay(b, from, to, v)[a] = b[a]
BY DEF Pay

LEMMA TakeType ==
  ASSUME NEW b \in [Wallets -> Nat], NEW a \in Wallets, NEW v \in Nat, v <= b[a]
  PROVE  /\ Take(b, a, v) \in [Wallets -> Nat]
         /\ Take(b, a, v)[a] = b[a] - v
         /\ \A w \in Wallets \ {a} : Take(b, a, v)[w] = b[w]
BY DEF Take

LEMMA WalletFacts ==
  /\ AuctionHouse \in Wallets /\ Owner \in Wallets /\ Bidders \subseteq Wallets
  /\ AuctionHouse # Owner
  /\ AuctionHouse \notin Bidders
  /\ Owner \notin Bidders
  /\ Zero \notin Bidders
BY NTokenAssumption, NAuctionHouseAssumption DEF Wallets

\* The token a settlement leaves behind, before the next mint, is sound.
LEMMA DeliveredSound ==
  ASSUME TokenInv, auction \in Auction, Deliverable
  PROVE  /\ Delivered \in TokenStorage
         /\ InOrder(Delivered)
         /\ SeedsTaken(Delivered)
<1> DEFINE i == Unshift(token, auction.tokenId)
<1>1. i \in PunkIds /\ Exists(token, i)
  BY UnshiftExists
     DEF Deliverable, CanBurn, CanTransferFrom, TokenInv
<1>2. PICK to \in Address :
        Delivered = [token EXCEPT !.approved[i] = Zero, !.owners[i] = to]
  BY NAuctionHouseAssumption DEF Delivered, Burned, Transferred, Auction, Address
<1>3. Zero \in Address
  BY DEF Address
<1> HIDE DEF i
<1> QED BY <1>1, <1>2, <1>3, MovedSound DEF TokenInv

-----------------------------------------------------------------------------
(* One lemma per group of actions                                          *)

LEMMA InitMoney == Init => MoneyInv
<1> SUFFICES ASSUME Init PROVE MoneyInv
  OBVIOUS
<1>1. TokenInv
  BY InitSound DEF Init, TokenInit, TokenInv
<1>2. TypeOK
  <2>1. auction \in Auction /\ now \in Nat \ {0}
    BY DEF Init, Auction
  <2>2. /\ frames \in Seq(Frame) /\ entered \in BOOLEAN
        /\ entered <=> frames # <<>>
    <3>1. frames = <<>> /\ entered = FALSE
      BY DEF Init
    <3>2. frames \in Seq(Frame)
      BY <3>1
    <3>3. entered \in BOOLEAN /\ (entered <=> frames # <<>>)
      BY <3>1, Zenon
    <3> QED BY <3>2, <3>3
  <2>3. /\ timeBuffer \in Nat /\ reservePrice \in Nat
        /\ minBidIncrementPercentage \in Nat /\ paused \in BOOLEAN
    BY NAuctionHouseAssumption DEF Init
  <2>4. /\ eth \in [Wallets -> Nat] /\ weth \in [Wallets -> Nat]
        /\ spent \in [Wallets -> Nat]
    BY NAuctionHouseAssumption DEF Init
  <2> QED BY <1>1, <2>1, <2>2, <2>3, <2>4 DEF TypeOK, TokenTypeOK, TokenInv
<1>3. FrameInv /\ AuctionInv /\ Solvency
  BY WalletFacts DEF Init, FrameInv, AuctionInv, Begun, Live, Solvency, Owed
<1>4. BiddersMadeWhole
  BY WalletFacts, NAuctionHouseAssumption DEF Init, BiddersMadeWhole, Standing, Begun, Live
<1> QED BY <1>1, <1>2, <1>3, <1>4 DEF MoneyInv

\* The state of the auction house is untouched by a step of someone else.
HouseUnchanged == UNCHANGED <<auction, frames, now, money, entered>>

\* A step that leaves auction, money and suspended bids alone and keeps the
\* rest well typed preserves the invariant.
LEMMA QuietStep ==
  ASSUME MoneyInv, HouseUnchanged, TokenInv', paused' \in BOOLEAN,
         timeBuffer' \in Nat, reservePrice' \in Nat,
         minBidIncrementPercentage' \in Nat
  PROVE  MoneyInv'
<1>1. TypeOK'
  BY DEF MoneyInv, TypeOK, HouseUnchanged, money, TokenTypeOK, TokenInv
<1>2. FrameInv' /\ AuctionInv'
  BY DEF MoneyInv, HouseUnchanged, FrameInv, AuctionInv, Live, Begun
<1>3. Solvency' /\ BiddersMadeWhole'
  BY DEF MoneyInv, HouseUnchanged, money, Solvency, Owed, Live, Begun,
         BiddersMadeWhole, Standing
<1> QED BY <1>1, <1>2, <1>3 DEF MoneyInv

\* What RecordBid leaves of the auction, for a bid that was let in.
LEMMA RecordBidEffect ==
  ASSUME MoneyInv, NEW b \in Bidders, NEW v \in Nat, NEW a, a = auction,
         RecordBid(b, v, a), Live, now < auction.endTime, now' = now
  PROVE  /\ auction' \in Auction
         /\ Live'
         /\ auction'.bidder = b
         /\ auction'.amount = v
         /\ AuctionInv'
<1>1. PICK e \in Nat :
        auction' = [auction EXCEPT !.amount = v, !.bidder = b, !.endTime = e]
  <2> DEFINE end == IF a.endTime - now < timeBuffer THEN now + timeBuffer
                    ELSE auction.endTime
  <2>1. end \in Nat
    BY DEF MoneyInv, TypeOK, Auction
  <2>2. auction' = [auction EXCEPT !.amount = v, !.bidder = b, !.endTime = end]
    BY DEF RecordBid
  <2> HIDE DEF end
  <2> QED BY <2>1, <2>2
<1> QED BY <1>1, WalletFacts
        DEF MoneyInv, TypeOK, Auction, Live, Begun, AuctionInv

\* createBid is only let in on an auction that has begun and is not settled,
\* although it checks neither.
LEMMA BidOnLive ==
  ASSUME MoneyInv, NEW b, NEW v, BidAccepted(b, auction.tokenId, v)
  PROVE  Live /\ now < auction.endTime
BY SMTT(30) DEF MoneyInv, AuctionInv, BidAccepted, Live, Begun, TypeOK, Auction

LEMMA FirstBidMoney ==
  ASSUME MoneyInv, NEW b \in Bidders, NEW v \in Bids,
         CreateFirstBid(b, auction.tokenId, v)
  PROVE  MoneyInv'
<1>1. v \in Nat /\ v <= eth[b] /\ b \in Wallets /\ AuctionHouse \in Wallets
      /\ b # AuctionHouse
  BY WalletFacts, NAuctionHouseAssumption DEF CreateFirstBid, BidAccepted
<1>2. Live /\ now < auction.endTime
  BY BidOnLive DEF CreateFirstBid
<1>3. /\ auction' \in Auction /\ Live' /\ auction'.bidder = b
      /\ auction'.amount = v /\ AuctionInv'
  BY <1>1, <1>2, RecordBidEffect DEF CreateFirstBid
<1>4. /\ eth' \in [Wallets -> Nat]
      /\ eth'[b] = eth[b] - v
      /\ eth'[AuctionHouse] = eth[AuctionHouse] + v
      /\ \A a \in Wallets \ {b, AuctionHouse} : eth'[a] = eth[a]
  <2>1. eth \in [Wallets -> Nat] /\ eth' = Pay(eth, b, AuctionHouse, v)
    BY DEF CreateFirstBid, MoneyInv, TypeOK
  <2> QED BY <1>1, <2>1, PayType
<1>5. /\ frames = <<>> /\ frames' = <<>> /\ auction.amount = 0
      /\ auction.bidder = Zero
  BY DEF CreateFirstBid, NonReentrant, MoneyInv, TypeOK, AuctionInv
<1>6. TypeOK' /\ TokenInv'
  BY <1>3, <1>4 DEF CreateFirstBid, MoneyInv, TypeOK, TokenTypeOK, TokenInv, config
<1>7. Solvency'
  BY <1>2, <1>3, <1>4, <1>5 DEF MoneyInv, Solvency, Owed, TypeOK, Auction
<1>8. BiddersMadeWhole'
  <2> SUFFICES ASSUME NEW c \in Bidders
               PROVE  eth'[c] + weth'[c] + Standing(c)' + spent'[c] = Funds
    BY DEF BiddersMadeWhole
  <2>1. /\ eth[c] + weth[c] + Standing(c) + spent[c] = Funds
        /\ eth[c] \in Nat /\ weth[c] \in Nat /\ spent[c] \in Nat
    BY WalletFacts DEF MoneyInv, BiddersMadeWhole, TypeOK
  <2>2. Standing(c) = 0 /\ Standing(c)' = IF c = b THEN v ELSE 0
    BY <1>3, <1>5, WalletFacts DEF Standing
  <2>3. weth' = weth /\ spent' = spent
    BY DEF CreateFirstBid
  <2> QED BY <1>1, <1>4, <2>1, <2>2, <2>3, WalletFacts
<1> QED BY <1>3, <1>5, <1>6, <1>7, <1>8 DEF MoneyInv, FrameInv

LEMMA RefundWETHMoney ==
  ASSUME MoneyInv, NEW b \in Bidders, NEW v \in Bids,
         CreateBidRefundWETH(b, auction.tokenId, v)
  PROVE  MoneyInv'
<1> DEFINE last == auction.bidder
           amount == auction.amount
<1>1. /\ v \in Nat /\ v <= eth[b] /\ b \in Wallets /\ AuctionHouse \in Wallets
      /\ b # AuctionHouse
      /\ last \in Bidders /\ last \in Wallets /\ last # AuctionHouse
      /\ amount \in Nat
      /\ eth \in [Wallets -> Nat] /\ weth \in [Wallets -> Nat]
  BY WalletFacts, NAuctionHouseAssumption
     DEF CreateBidRefundWETH, BidAccepted, MoneyInv, TypeOK, Auction
<1>2. Live /\ now < auction.endTime
  BY BidOnLive DEF CreateBidRefundWETH
<1>3. /\ auction' \in Auction /\ Live' /\ auction'.bidder = b
      /\ auction'.amount = v /\ AuctionInv'
  BY <1>1, <1>2, RecordBidEffect DEF CreateBidRefundWETH
<1>4. frames = <<>> /\ frames' = <<>> /\ eth[AuctionHouse] = amount
  BY <1>2 DEF CreateBidRefundWETH, NonReentrant, MoneyInv, TypeOK, Solvency, Owed
<1>5. /\ eth' \in [Wallets -> Nat]
      /\ eth'[AuctionHouse] = v
      /\ \A a \in Wallets \ {AuctionHouse} :
           eth'[a] = IF a = b THEN eth[a] - v ELSE eth[a]
  <2> DEFINE mid == Pay(eth, b, AuctionHouse, v)
  <2>1. /\ mid \in [Wallets -> Nat]
        /\ mid[b] = eth[b] - v
        /\ mid[AuctionHouse] = eth[AuctionHouse] + v
        /\ \A a \in Wallets \ {b, AuctionHouse} : mid[a] = eth[a]
    BY <1>1, PayType
  <2>2. eth' = Take(mid, AuctionHouse, amount)
    BY DEF CreateBidRefundWETH
  <2> HIDE DEF mid
  <2>3. amount <= mid[AuctionHouse]
    BY <1>1, <1>4, <2>1
  <2> HIDE DEF amount
  <2>4. /\ eth' \in [Wallets -> Nat]
        /\ eth'[AuctionHouse] = mid[AuctionHouse] - amount
        /\ \A a \in Wallets \ {AuctionHouse} : eth'[a] = mid[a]
    BY <1>1, <2>1, <2>2, <2>3, TakeType
  <2> QED BY <1>1, <1>4, <2>1, <2>4, SMTT(30)
<1>6. /\ weth' \in [Wallets -> Nat]
      /\ \A a \in Wallets : weth'[a] = IF a = last THEN weth[a] + amount ELSE weth[a]
  <2>1. weth' = Give(weth, last, amount)
    BY DEF CreateBidRefundWETH
  <2> HIDE DEF last, amount
  <2>2. /\ weth' \in [Wallets -> Nat]
        /\ weth'[last] = weth[last] + amount
        /\ \A a \in Wallets \ {last} : weth'[a] = weth[a]
    BY <1>1, <2>1 DEF Give
  <2> QED BY <1>1, <2>2
<1>7. TypeOK' /\ TokenInv'
  BY <1>3, <1>5, <1>6 DEF CreateBidRefundWETH, MoneyInv, TypeOK, TokenTypeOK, TokenInv, config
<1>8. Solvency'
  BY <1>3, <1>4, <1>5 DEF Solvency, Owed
<1>9. BiddersMadeWhole'
  <2> SUFFICES ASSUME NEW c \in Bidders
               PROVE  eth'[c] + weth'[c] + Standing(c)' + spent'[c] = Funds
    BY DEF BiddersMadeWhole
  <2>1. /\ eth[c] + weth[c] + Standing(c) + spent[c] = Funds
        /\ eth[c] \in Nat /\ weth[c] \in Nat /\ spent[c] \in Nat
        /\ c \in Wallets /\ c # AuctionHouse
    BY WalletFacts DEF MoneyInv, BiddersMadeWhole, TypeOK
  <2>2. /\ Standing(c) = IF c = last THEN amount ELSE 0
        /\ Standing(c)' = IF c = b THEN v ELSE 0
    BY <1>2, <1>3, <1>4 DEF Standing
  <2>3. spent' = spent
    BY DEF CreateBidRefundWETH
  <2> HIDE DEF last, amount
  <2> QED BY <1>1, <1>5, <1>6, <2>1, <2>2, <2>3
<1> QED BY <1>3, <1>4, <1>7, <1>8, <1>9 DEF MoneyInv, FrameInv

LEMMA RefundETHMoney ==
  ASSUME MoneyInv, NEW b \in Bidders, NEW v \in Bids,
         CreateBidRefundETH(b, auction.tokenId, v)
  PROVE  MoneyInv'
<1> DEFINE last == auction.bidder
           amount == auction.amount
           frame == [bidder |-> b, value |-> v, auction |-> auction]
<1>1. /\ v \in Nat /\ v <= eth[b] /\ b \in Wallets /\ AuctionHouse \in Wallets
      /\ b # AuctionHouse
      /\ last \in Bidders /\ last \in Wallets /\ last # AuctionHouse
      /\ amount \in Nat
      /\ eth \in [Wallets -> Nat]
  BY WalletFacts, NAuctionHouseAssumption
     DEF CreateBidRefundETH, BidAccepted, MoneyInv, TypeOK, Auction
<1>2. Live /\ now < auction.endTime
  BY BidOnLive DEF CreateBidRefundETH
<1>3. /\ auction' = auction /\ now' = now /\ weth' = weth /\ spent' = spent
      /\ auction.bidder # Zero
  BY DEF CreateBidRefundETH
<1>4. frames = <<>> /\ ~entered /\ eth[AuctionHouse] = amount
  BY <1>2 DEF CreateBidRefundETH, NonReentrant, MoneyInv, TypeOK, Solvency, Owed
<1>5. /\ frame \in Frame
      /\ frames' = <<frame>>
      /\ entered' = TRUE
  BY <1>1, <1>4 DEF CreateBidRefundETH, Frame, MoneyInv, TypeOK
<1>6. /\ eth' \in [Wallets -> Nat]
      /\ eth'[AuctionHouse] = v
      /\ \A a \in Wallets \ {AuctionHouse} :
           eth'[a] = eth[a] - (IF a = b THEN v ELSE 0)
                            + (IF a = last THEN amount ELSE 0)
  <2> DEFINE mid == Pay(eth, b, AuctionHouse, v)
  <2>1. /\ mid \in [Wallets -> Nat]
        /\ mid[b] = eth[b] - v
        /\ mid[AuctionHouse] = eth[AuctionHouse] + v
        /\ \A a \in Wallets \ {b, AuctionHouse} : mid[a] = eth[a]
    BY <1>1, PayType
  <2>2. eth' = Pay(mid, AuctionHouse, last, amount)
    BY DEF CreateBidRefundETH
  <2> HIDE DEF mid
  <2>3. amount <= mid[AuctionHouse]
    BY <1>1, <1>4, <2>1
  <2> HIDE DEF last, amount
  <2>4. /\ eth' \in [Wallets -> Nat]
        /\ eth'[AuctionHouse] = mid[AuctionHouse] - amount
        /\ eth'[last] = mid[last] + amount
        /\ \A a \in Wallets \ {AuctionHouse, last} : eth'[a] = mid[a]
    BY <1>1, <2>1, <2>2, <2>3, PayType
  <2> QED BY <1>1, <1>4, <2>1, <2>4, SMTT(30)
<1>7. Live'
  BY <1>2, <1>3 DEF Live, Begun
<1>8. TypeOK' /\ TokenInv'
  <2>1. frames' \in Seq(Frame) /\ frames' # <<>>
    BY <1>5
  <2>2. entered' \in BOOLEAN /\ (entered' <=> frames' # <<>>)
    BY <1>5, <2>1, Zenon
  <2> QED BY <1>3, <1>6, <2>1, <2>2
          DEF CreateBidRefundETH, MoneyInv, TypeOK, TokenTypeOK, TokenInv, config
<1>9. Head(frames') = frame /\ frames' # <<>>
  BY <1>5
<1>10. FrameInv' /\ AuctionInv'
  BY <1>2, <1>3, <1>5, <1>7, <1>9
     DEF FrameInv, AuctionInv, MoneyInv, Begun, Live
<1>11. Solvency'
  BY <1>6, <1>9 DEF Solvency, Owed
<1>12. BiddersMadeWhole'
  <2> SUFFICES ASSUME NEW c \in Bidders
               PROVE  eth'[c] + weth'[c] + Standing(c)' + spent'[c] = Funds
    BY DEF BiddersMadeWhole
  <2>1. /\ eth[c] + weth[c] + Standing(c) + spent[c] = Funds
        /\ eth[c] \in Nat /\ weth[c] \in Nat /\ spent[c] \in Nat
        /\ c \in Wallets /\ c # AuctionHouse
    BY <1>3, WalletFacts DEF MoneyInv, BiddersMadeWhole, TypeOK
  <2>2. /\ Standing(c) = IF c = last THEN amount ELSE 0
        /\ Standing(c)' = IF c = b THEN v ELSE 0
    BY <1>2, <1>4, <1>9 DEF Standing
  <2> HIDE DEF last, amount
  <2> QED BY <1>1, <1>3, <1>6, <2>1, <2>2
<1> QED BY <1>8, <1>10, <1>11, <1>12 DEF MoneyInv

LEMMA ReturnMoney ==
  ASSUME MoneyInv, ReturnFromRefund
  PROVE  MoneyInv'
<1> DEFINE f == Head(frames)
<1>1. /\ f \in Frame /\ frames = <<f>> /\ f.auction = auction
      /\ Live /\ now < auction.endTime
  BY DEF MoneyInv, FrameInv, ReturnFromRefund
<1>2. f.bidder \in Bidders /\ f.value \in Nat
  BY <1>1 DEF Frame
<1>3. /\ auction' \in Auction /\ Live' /\ auction'.bidder = f.bidder
      /\ auction'.amount = f.value /\ AuctionInv'
  BY <1>1, <1>2, RecordBidEffect DEF ReturnFromRefund
<1>4. frames # <<>> /\ frames' = <<>> /\ entered' = FALSE
  <2>1. frames # <<>> /\ frames' = Tail(frames) /\ entered' = FALSE
    BY DEF ReturnFromRefund
  <2> HIDE DEF f
  <2> QED BY <1>1, <2>1
<1>5. eth' = eth /\ weth' = weth /\ spent' = spent
  BY DEF ReturnFromRefund, money
<1>6. TypeOK' /\ TokenInv'
  <2>1. frames' \in Seq(Frame)
    BY <1>4
  <2>2. entered' \in BOOLEAN /\ (entered' <=> frames' # <<>>)
    BY <1>4, Zenon
  <2> QED BY <1>3, <1>5, <2>1, <2>2
          DEF ReturnFromRefund, MoneyInv, TypeOK, TokenTypeOK, TokenInv, config
<1>7. Solvency'
  BY <1>3, <1>4, <1>5 DEF MoneyInv, Solvency, Owed
<1>8. BiddersMadeWhole'
  BY <1>3, <1>4, <1>5 DEF MoneyInv, BiddersMadeWhole, Standing
<1> QED BY <1>3, <1>4, <1>6, <1>7, <1>8 DEF MoneyInv, FrameInv

\* The money and the bids after a settlement, whoever gets the punk.  The
\* auction is over: it is marked settled, or replaced by one without a bid.
LEMMA SettledMoney ==
  ASSUME MoneyInv, CanSettle, NonReentrant, PayOwner,
         UNCHANGED <<entered, config, frames, now>>,
         TokenInv', paused' \in BOOLEAN, auction' \in Auction, AuctionInv',
         Live' => auction'.amount = 0 /\ auction'.bidder = Zero
  PROVE  MoneyInv'
<1> DEFINE last == auction.bidder
           amount == auction.amount
<1>1. /\ frames = <<>> /\ frames' = <<>> /\ Live
      /\ eth[AuctionHouse] = amount
  BY DEF MoneyInv, NonReentrant, TypeOK, Solvency, Owed, CanSettle, Live, Begun
<1>2. /\ amount \in Nat /\ AuctionHouse \in Wallets /\ Owner \in Wallets
      /\ AuctionHouse # Owner
      /\ eth \in [Wallets -> Nat] /\ weth \in [Wallets -> Nat]
      /\ spent \in [Wallets -> Nat]
      /\ last \in Bidders \cup {Zero}
  BY WalletFacts DEF MoneyInv, TypeOK, Auction
<1>3. /\ eth' \in [Wallets -> Nat] /\ weth' \in [Wallets -> Nat]
      /\ eth'[AuctionHouse] = 0
      /\ \A c \in Bidders : eth'[c] = eth[c] /\ weth'[c] = weth[c]
  <2>0. \/ eth' = Pay(eth, AuctionHouse, Owner, amount) /\ weth' = weth
        \/ /\ eth' = Take(eth, AuctionHouse, amount)
           /\ weth' = Give(weth, Owner, amount)
    BY DEF PayOwner
  <2> HIDE DEF amount
  <2>4. amount <= eth[AuctionHouse]
    BY <1>1, <1>2
  <2>1. CASE eth' = Pay(eth, AuctionHouse, Owner, amount) /\ weth' = weth
    <3>1. /\ eth' \in [Wallets -> Nat]
          /\ eth'[AuctionHouse] = eth[AuctionHouse] - amount
          /\ \A a \in Wallets \ {AuctionHouse, Owner} : eth'[a] = eth[a]
      BY <1>2, <2>1, <2>4, PayType
    <3>2. \A c \in Bidders : c \in Wallets \ {AuctionHouse, Owner}
      BY WalletFacts
    <3>3. eth[AuctionHouse] = amount
      BY <1>1
    <3> QED BY <1>2, <2>1, <3>1, <3>2, <3>3
  <2>2. CASE /\ eth' = Take(eth, AuctionHouse, amount)
             /\ weth' = Give(weth, Owner, amount)
    <3>1. /\ eth' \in [Wallets -> Nat]
          /\ eth'[AuctionHouse] = eth[AuctionHouse] - amount
          /\ \A a \in Wallets \ {AuctionHouse} : eth'[a] = eth[a]
      BY <1>2, <2>2, <2>4, TakeType
    <3>2. /\ weth' \in [Wallets -> Nat]
          /\ \A a \in Wallets \ {Owner} : weth'[a] = weth[a]
      BY <1>2, <2>2 DEF Give
    <3> QED BY <1>1, <1>2, <3>1, <3>2, WalletFacts, SMTT(30)
  <2> QED BY <2>0, <2>1, <2>2
<1>4. /\ spent' \in [Wallets -> Nat]
      /\ \A c \in Bidders :
           spent'[c] = IF c = last THEN spent[c] + amount ELSE spent[c]
  <2>1. spent' = IF last = Zero THEN spent ELSE Give(spent, last, amount)
    BY DEF PayOwner
  <2> HIDE DEF last, amount
  <2>2. CASE last = Zero
    BY <1>2, <2>1, <2>2, WalletFacts
  <2>3. CASE last # Zero
    <3>1. last \in Wallets
      BY <1>2, <2>3, WalletFacts
    <3>2. /\ spent' \in [Wallets -> Nat]
          /\ spent'[last] = spent[last] + amount
          /\ \A a \in Wallets \ {last} : spent'[a] = spent[a]
      BY <1>2, <2>1, <2>3, <3>1 DEF Give
    <3> QED BY <1>2, <3>1, <3>2, WalletFacts
  <2> QED BY <2>2, <2>3
<1>5. TypeOK'
  BY <1>3, <1>4 DEF MoneyInv, TypeOK, TokenTypeOK, TokenInv, config
<1>6. Solvency'
  BY <1>1, <1>3 DEF Solvency, Owed
<1>7. BiddersMadeWhole'
  <2> SUFFICES ASSUME NEW c \in Bidders
               PROVE  eth'[c] + weth'[c] + Standing(c)' + spent'[c] = Funds
    BY DEF BiddersMadeWhole
  <2>1. /\ eth[c] + weth[c] + Standing(c) + spent[c] = Funds
        /\ eth[c] \in Nat /\ weth[c] \in Nat /\ spent[c] \in Nat
    BY WalletFacts DEF MoneyInv, BiddersMadeWhole, TypeOK
  <2>2. Standing(c) = (IF c = last THEN amount ELSE 0) /\ Standing(c)' = 0
    BY <1>1, WalletFacts DEF Standing
  <2> HIDE DEF last, amount
  <2> QED BY <1>2, <1>3, <1>4, <2>1, <2>2
<1> QED BY <1>1, <1>5, <1>6, <1>7 DEF MoneyInv, FrameInv

\* What _createAuction leaves, from sound token storage t.
LEMMA CreateAuctionEffect ==
  ASSUME NEW t \in TokenStorage, InOrder(t), SeedsTaken(t),
         NEW a, CreateAuction(t, a), now \in Nat \ {0}, now' = now
  PROVE  /\ TokenInv'
         /\ paused' \in BOOLEAN
         /\ \/ /\ auction' \in Auction /\ AuctionInv' /\ Live'
               /\ auction'.amount = 0 /\ auction'.bidder = Zero
            \/ auction' = a
<1>1. CASE /\ t.minter = AuctionHouse
           /\ token' \in Minted(t)
           /\ auction' = [tokenId |-> MintResult(token'), amount |-> 0,
                          startTime |-> now, endTime |-> now + Duration,
                          bidder |-> Zero, settled |-> FALSE]
           /\ paused' = FALSE
  <2>1. t.minter \in Accounts
    BY <1>1, NAuctionHouseAssumption
  <2>2. TokenInv' /\ MintResult(token') \in Nat
    BY <1>1, <2>1, MintedSound, NTokenAssumption DEF TokenInv
  <2>3. auction' \in Auction /\ AuctionInv' /\ Live'
    BY <1>1, <2>2, NAuctionHouseAssumption
       DEF Auction, AuctionInv, Live, Begun
  <2> QED BY <1>1, <2>2, <2>3
<1>2. CASE token' = t /\ auction' = a /\ paused' = TRUE
  BY <1>2 DEF TokenInv
<1> QED BY <1>1, <1>2 DEF CreateAuction

LEMMA SettleMoney ==
  ASSUME MoneyInv, Settle
  PROVE  MoneyInv'
<1> DEFINE a == [auction EXCEPT !.settled = TRUE]
<1>1. Deliverable /\ CanSettle /\ NonReentrant /\ PayOwner
      /\ UNCHANGED <<entered, config, frames, now>>
  BY DEF Settle, SettleAuction, SettleCurrentAndCreateNewAuction
<1>2. /\ auction \in Auction /\ now \in Nat \ {0} /\ now' = now
      /\ TokenInv
  BY <1>1 DEF MoneyInv, TypeOK
<1>3. /\ Delivered \in TokenStorage
      /\ InOrder(Delivered)
      /\ SeedsTaken(Delivered)
  BY <1>1, <1>2, DeliveredSound
<1>4. a \in Auction /\ a.settled
  BY <1>2 DEF Auction
<1>5. ASSUME auction' = a PROVE auction' \in Auction /\ AuctionInv' /\ ~Live'
  BY <1>1, <1>2, <1>4, <1>5 DEF AuctionInv, Live, Begun, MoneyInv, Auction, CanSettle
<1>6. CASE SettleAuction
  <2>1. TokenInv' /\ paused' \in BOOLEAN /\ auction' = a
    BY <1>3, <1>6 DEF SettleAuction, TokenInv, MoneyInv, TypeOK
  <2> QED BY <1>1, <1>5, <2>1, SettledMoney
<1>7. CASE SettleCurrentAndCreateNewAuction
  <2>1. CreateAuction(Delivered, a)
    BY <1>7 DEF SettleCurrentAndCreateNewAuction
  <2>2. /\ TokenInv'
        /\ paused' \in BOOLEAN
        /\ \/ /\ auction' \in Auction /\ AuctionInv' /\ Live'
              /\ auction'.amount = 0 /\ auction'.bidder = Zero
           \/ auction' = a
    BY <1>2, <1>3, <2>1, CreateAuctionEffect
  <2> QED BY <1>1, <1>5, <2>2, SettledMoney
<1> QED BY <1>6, <1>7 DEF Settle

LEMMA UnpauseMoney ==
  ASSUME MoneyInv, Unpause
  PROVE  MoneyInv'
<1>1. UNCHANGED <<entered, config, frames, now, money>>
  BY DEF Unpause
<1>2. /\ token \in TokenStorage /\ InOrder(token) /\ SeedsTaken(token)
      /\ now \in Nat \ {0} /\ now' = now
      /\ timeBuffer' \in Nat /\ reservePrice' \in Nat
      /\ minBidIncrementPercentage' \in Nat
  BY <1>1 DEF MoneyInv, TokenInv, TypeOK, config
<1>3. CASE ~UnpauseNeedsAuction
  <2>1. paused' = FALSE /\ UNCHANGED <<token, auction>>
    BY <1>3 DEF Unpause
  <2> QED BY <1>1, <1>2, <2>1, QuietStep DEF HouseUnchanged, TokenInv
<1>4. CASE UnpauseNeedsAuction
  <2>1. CreateAuction(token, auction)
    BY <1>4 DEF Unpause
  <2>2. /\ TokenInv'
        /\ paused' \in BOOLEAN
        /\ \/ /\ auction' \in Auction /\ AuctionInv' /\ Live'
              /\ auction'.amount = 0 /\ auction'.bidder = Zero
           \/ auction' = auction
    BY <1>2, <2>1, CreateAuctionEffect
  <2>3. CASE auction' = auction
    BY <1>1, <1>2, <2>2, <2>3, QuietStep DEF HouseUnchanged
  <2>4. CASE /\ auction' \in Auction /\ AuctionInv' /\ Live'
             /\ auction'.amount = 0 /\ auction'.bidder = Zero
    <3>1. ~Live
      BY <1>4 DEF UnpauseNeedsAuction, Live, Begun
    <3>2. frames = <<>> /\ frames' = <<>>
      BY <1>1, <3>1 DEF MoneyInv, FrameInv
    <3>3. eth' = eth /\ weth' = weth /\ spent' = spent
      BY <1>1 DEF money
    <3>4. TypeOK'
      BY <1>1, <1>2, <2>2, <2>4, <3>3
         DEF MoneyInv, TypeOK, TokenTypeOK, TokenInv
    <3>5. Solvency'
      BY <2>4, <3>1, <3>2, <3>3 DEF MoneyInv, Solvency, Owed
    <3>6. BiddersMadeWhole'
      <4>1. \A c \in Bidders : Standing(c) = 0 /\ Standing(c)' = 0
        BY <2>4, <3>1, <3>2, WalletFacts DEF Standing
      <4> QED BY <3>3, <4>1 DEF MoneyInv, BiddersMadeWhole
    <3> QED BY <2>2, <2>4, <3>2, <3>4, <3>5, <3>6 DEF MoneyInv, FrameInv
  <2> QED BY <2>2, <2>3, <2>4
<1> QED BY <1>3, <1>4

LEMMA TickMoney ==
  ASSUME MoneyInv, Tick
  PROVE  MoneyInv'
<1>1. /\ now' = now + 1 /\ frames = <<>>
      /\ UNCHANGED <<token, auction, paused, entered, config, frames, money>>
  BY DEF Tick
<1>2. TypeOK' /\ TokenInv'
  BY <1>1 DEF MoneyInv, TypeOK, TokenTypeOK, TokenInv, config, money
<1>3. FrameInv' /\ AuctionInv'
  BY <1>1 DEF MoneyInv, FrameInv, AuctionInv, Begun, Live, TypeOK, Auction
<1>4. Solvency' /\ BiddersMadeWhole'
  BY <1>1 DEF MoneyInv, Solvency, Owed, Live, Begun, BiddersMadeWhole, Standing, money
<1> QED BY <1>2, <1>3, <1>4 DEF MoneyInv

\* A bid, its refund, a settlement, a change of settings, a call of the token
\* or the passing of time: no step breaks the invariant.
LEMMA StepMoney ==
  ASSUME MoneyInv, [Next]_vars
  PROVE  MoneyInv'
<1>1. CASE CreateBid
  BY <1>1, FirstBidMoney, RefundWETHMoney, RefundETHMoney DEF CreateBid
<1>2. CASE ReturnFromRefund
  BY <1>2, ReturnMoney
<1>3. CASE Settle
  BY <1>3, SettleMoney
<1>4. CASE Pause
  BY <1>4, QuietStep
     DEF Pause, HouseUnchanged, MoneyInv, TokenInv, TypeOK, config
<1>5. CASE Unpause
  BY <1>5, UnpauseMoney
<1>6. CASE Configure
  <2>1. /\ HouseUnchanged /\ UNCHANGED <<token, paused>>
        /\ timeBuffer' \in Nat /\ reservePrice' \in Nat
        /\ minBidIncrementPercentage' \in Nat
    <3>1. /\ timeBuffer \in Nat /\ reservePrice \in Nat
          /\ minBidIncrementPercentage \in Nat
      BY DEF MoneyInv, TypeOK
    <3>2. CASE \E x \in TimeBuffers : SetTimeBuffer(x)
      BY <3>1, <3>2, NAuctionHouseAssumption DEF SetTimeBuffer, HouseUnchanged
    <3>3. CASE \E x \in ReservePrices : SetReservePrice(x)
      BY <3>1, <3>3, NAuctionHouseAssumption DEF SetReservePrice, HouseUnchanged
    <3>4. CASE \E x \in Percentages : SetMinBidIncrementPercentage(x)
      BY <3>1, <3>4, NAuctionHouseAssumption
         DEF SetMinBidIncrementPercentage, HouseUnchanged
    <3> QED BY <1>6, <3>2, <3>3, <3>4 DEF Configure
  <2>2. TokenInv' /\ paused' \in BOOLEAN
    BY <2>1 DEF MoneyInv, TokenInv, TypeOK
  <2> QED BY <2>1, <2>2, QuietStep
<1>7. CASE TokenCall
  <2>1. TokenStep /\ HouseUnchanged /\ UNCHANGED <<paused, config>>
    BY <1>7 DEF TokenCall, HouseUnchanged
  <2>2. TokenInv'
    BY <2>1, StepSound DEF MoneyInv, TokenInv
  <2>3. /\ paused' \in BOOLEAN /\ timeBuffer' \in Nat /\ reservePrice' \in Nat
        /\ minBidIncrementPercentage' \in Nat
    BY <2>1 DEF MoneyInv, TypeOK, config
  <2> QED BY <2>1, <2>2, <2>3, QuietStep
<1>8. CASE Tick
  BY <1>8, TickMoney
<1>9. CASE UNCHANGED vars
  BY <1>9, QuietStep
     DEF vars, HouseUnchanged, MoneyInv, TokenInv, TypeOK, config
<1> QED BY <1>1, <1>2, <1>3, <1>4, <1>5, <1>6, <1>7, <1>8, <1>9 DEF Next

-----------------------------------------------------------------------------
\* The money of the auction house: for any bidders, prices, buffers and
\* schedule of bids, re-entrant calls, refused refunds and settlements, the
\* contract holds exactly the standing bid and every bidder is made whole.
THEOREM MoneySafe == Spec => []MoneyExact
<1>1. Init => MoneyInv
  BY InitMoney
<1>2. MoneyInv /\ [Next]_vars => MoneyInv'
  BY StepMoney
<1>3. MoneyInv => MoneyExact
  BY DEF MoneyInv, MoneyExact
<1> QED BY <1>1, <1>2, <1>3, PTL DEF Spec

-----------------------------------------------------------------------------
(* Custody of the punk on sale, with the ids unshifted                     *)

\* The house never trusts an operator, and ids are not shifted.
NoOperator(t) == \A u \in Accounts : <<AuctionHouse, u>> \notin t.operators

\* The punk i is the house's alone in storage t.
Kept(t, i) ==
  /\ i \in PunkIds
  /\ t.owners[i] = AuctionHouse
  /\ t.approved[i] = Zero

CustodyInv ==
  /\ token.idShift = 0
  /\ NoOperator(token)
  /\ Live => Kept(token, auction.tokenId)

\* No call of anyone but the house takes a punk it keeps, or its trust.
LEMMA OthersCannotTake ==
  ASSUME TokenInv, IdShifts = {0}, token.idShift = 0, NoOperator(token), TokenStep
  PROVE  /\ token'.idShift = 0
         /\ NoOperator(token')
         /\ \A i : Kept(token, i) => Kept(token', i)
<1> USE DEF TokenInv
<1>1. AuctionHouse \in Accounts /\ AuctionHouse \notin Users /\ Users \subseteq Accounts
      /\ AuctionHouse # Zero /\ Zero \notin Accounts
  BY NTokenAssumption, NAuctionHouseAssumption
<1>2. ASSUME NEW u \in Users, Mint(u)
      PROVE  /\ token'.idShift = 0
             /\ NoOperator(token')
             /\ \A i : Kept(token, i) => Kept(token', i)
  <2>1. token.minter \in Accounts /\ token' \in Minted(token)
    BY <1>2, NTokenAssumption DEF Mint
  <2>2. /\ token'.approved = token.approved
        /\ token'.operators = token.operators
        /\ token'.idShift = token.idShift
        /\ \A i \in PunkIds :
             i < token.currentPunkId => token'.owners[i] = token.owners[i]
    BY <2>1, MintedSound
  <2>3. \A i : Kept(token, i) => i < token.currentPunkId
    BY <1>1 DEF Kept, InOrder
  <2> QED BY <2>2, <2>3 DEF NoOperator, Kept
<1>3. ASSUME NEW u \in Users, NEW id \in OutsideIds, NEW to,
             IsApprovedOrOwner(token, u, Unshift(token, id)),
             token' = [token EXCEPT !.approved[Unshift(token, id)] = Zero,
                                    !.owners[Unshift(token, id)] = to]
      PROVE  /\ token'.idShift = 0
             /\ NoOperator(token')
             /\ \A i : Kept(token, i) => Kept(token', i)
  <2> DEFINE j == Unshift(token, id)
  <2>1. ~Kept(token, j)
    BY <1>1, <1>3 DEF Kept, IsApprovedOrOwner, NoOperator
  <2>2. /\ token'.operators = token.operators /\ token'.idShift = token.idShift
        /\ \A i \in PunkIds : i # j => /\ token'.owners[i] = token.owners[i]
                                       /\ token'.approved[i] = token.approved[i]
    BY <1>3 DEF TokenStorage
  <2> HIDE DEF j
  <2> QED BY <2>1, <2>2 DEF NoOperator, Kept
<1>4. ASSUME NEW u \in Users, NEW to \in Address, NEW id \in OutsideIds,
             Approve(u, to, id)
      PROVE  /\ token'.idShift = 0
             /\ NoOperator(token')
             /\ \A i : Kept(token, i) => Kept(token', i)
  <2> DEFINE j == Unshift(token, id)
  <2>1. ~Kept(token, j)
    BY <1>1, <1>4 DEF Kept, Approve, CanApprove, NoOperator
  <2>2. /\ token'.operators = token.operators /\ token'.idShift = token.idShift
        /\ token'.owners = token.owners
        /\ \A i \in PunkIds : i # j => token'.approved[i] = token.approved[i]
    BY <1>4 DEF TokenStorage, Approve
  <2> HIDE DEF j
  <2> QED BY <2>1, <2>2 DEF NoOperator, Kept
<1>5. ASSUME token'.owners = token.owners, token'.approved = token.approved
      PROVE  \A i : Kept(token, i) => Kept(token', i)
  BY <1>5 DEF Kept
<1>6. ASSUME NEW u \in Users, NEW operator \in Accounts, NEW b \in BOOLEAN,
             SetApprovalForAll(u, operator, b)
      PROVE  /\ token'.idShift = 0
             /\ NoOperator(token')
             /\ \A i : Kept(token, i) => Kept(token', i)
  <2>1. /\ token'.operators \subseteq token.operators \cup {<<u, operator>>}
        /\ token'.idShift = token.idShift
        /\ token'.owners = token.owners /\ token'.approved = token.approved
    BY <1>6 DEF SetApprovalForAll, TokenStorage
  <2> QED BY <1>1, <1>5, <2>1 DEF NoOperator
<1>7. ASSUME \/ \E to \in Users \cup {Zero} : SetPunkers(to)
             \/ OwnerStep
      PROVE  /\ token'.idShift = 0
             /\ NoOperator(token')
             /\ \A i : Kept(token, i) => Kept(token', i)
  <2>1. /\ token'.owners = token.owners /\ token'.approved = token.approved
        /\ token'.operators = token.operators
        /\ token'.idShift \in {token.idShift} \cup IdShifts
    BY <1>7 DEF OwnerStep, SetPunkers, SetMinter, SetIdShift, SetPart, Lock,
                RegisterOGHashes, TokenStorage
  <2> QED BY <1>5, <2>1 DEF NoOperator
<1> QED BY <1>2, <1>3, <1>4, <1>6, <1>7
        DEF TokenStep, UserStep, Burn, CanBurn, Burned, TransferFrom,
            CanTransferFrom, Transferred

\* _createAuction puts a punk on sale that the house keeps.
LEMMA CreateAuctionKeeps ==
  ASSUME NEW t \in TokenStorage, InOrder(t), SeedsTaken(t),
         t.idShift = 0, NoOperator(t),
         NEW a, CreateAuction(t, a)
  PROVE  /\ token'.idShift = 0
         /\ NoOperator(token')
         /\ (auction' = a /\ token' = t) \/ Kept(token', auction'.tokenId)
<1>1. CASE /\ t.minter = AuctionHouse
           /\ token' \in Minted(t)
           /\ auction'.tokenId = MintResult(token')
  <2>1. t.minter \in Accounts
    BY <1>1, NAuctionHouseAssumption
  <2>2. /\ MintResult(token') \in PunkIds
        /\ MintResult(token') >= t.currentPunkId
        /\ token'.owners[MintResult(token')] = t.minter
        /\ token'.approved = t.approved
        /\ token'.operators = t.operators
        /\ token'.idShift = t.idShift
    BY <1>1, <2>1, MintedSound
  <2>3. t.approved[MintResult(token')] = Zero
    <3>1. ASSUME NEW r \in PunkIds, r >= t.currentPunkId
          PROVE  t.approved[r] = Zero
      BY <3>1, NTokenAssumption DEF InOrder, TokenStorage
    <3> QED BY <2>2, <3>1
  <2> QED BY <1>1, <2>2, <2>3 DEF NoOperator, Kept
<1>2. CASE token' = t /\ auction' = a
  BY <1>2 DEF NoOperator
<1> QED BY <1>1, <1>2 DEF CreateAuction

LEMMA StepCustody ==
  ASSUME MoneyInv, CustodyInv, IdShifts = {0}, [Next]_vars
  PROVE  CustodyInv'
<1>0. /\ TokenInv /\ token.idShift = 0 /\ NoOperator(token)
      /\ auction \in Auction
  BY DEF MoneyInv, CustodyInv, TypeOK
<1>1. ASSUME token' = token, auction'.tokenId = auction.tokenId,
             Live' => Live
      PROVE  CustodyInv'
  BY <1>1 DEF CustodyInv, NoOperator, Kept
<1>2. ASSUME NEW b, NEW v, NEW a, RecordBid(b, v, a), token' = token
      PROVE  CustodyInv'
  <2>1. /\ auction'.tokenId = auction.tokenId
        /\ auction'.startTime = auction.startTime
        /\ auction'.settled = auction.settled
    BY <1>0, <1>2 DEF RecordBid, Auction
  <2> QED BY <1>1, <1>2, <2>1 DEF Live, Begun
<1>3. CASE CreateBid \/ ReturnFromRefund
  <2>1. CASE \E b \in Bidders, v \in Bids :
               CreateBidRefundETH(b, auction.tokenId, v)
    BY <2>1, <1>1 DEF CreateBidRefundETH, Live, Begun
  <2> QED BY <1>2, <1>3, <2>1
          DEF CreateBid, CreateFirstBid, CreateBidRefundWETH, ReturnFromRefund
<1>4. CASE Settle
  <2> DEFINE a == [auction EXCEPT !.settled = TRUE]
  <2>1. Deliverable /\ CanSettle
    BY <1>4 DEF Settle, SettleAuction, SettleCurrentAndCreateNewAuction
  <2>2. /\ Delivered \in TokenStorage /\ InOrder(Delivered)
        /\ SeedsTaken(Delivered)
    BY <1>0, <2>1, DeliveredSound
  <2>3. Delivered.idShift = 0 /\ NoOperator(Delivered)
    BY <1>0 DEF Delivered, Burned, Transferred, NoOperator, TokenStorage, TokenInv
  <2>4. a.settled
    BY <1>0 DEF Auction
  <2>5. CASE SettleAuction
    BY <2>3, <2>4, <2>5 DEF SettleAuction, CustodyInv, Live, NoOperator
  <2>6. CASE SettleCurrentAndCreateNewAuction
    <3>1. CreateAuction(Delivered, a)
      BY <2>6 DEF SettleCurrentAndCreateNewAuction
    <3> HIDE DEF a
    <3>2. /\ token'.idShift = 0
          /\ NoOperator(token')
          /\ auction' = a \/ Kept(token', auction'.tokenId)
      BY <2>2, <2>3, <3>1, CreateAuctionKeeps
    <3> QED BY <2>4, <3>2 DEF CustodyInv, Live, NoOperator, Kept
  <2> QED BY <1>4, <2>5, <2>6 DEF Settle
<1>5. CASE Unpause
  <2>1. CASE ~UnpauseNeedsAuction
    BY <1>1, <1>5, <2>1 DEF Unpause, Live, Begun
  <2>2. CASE UnpauseNeedsAuction
    <3>1. CreateAuction(token, auction)
      BY <1>5, <2>2 DEF Unpause
    <3>2. /\ token'.idShift = 0
          /\ NoOperator(token')
          /\ \/ auction' = auction /\ token' = token
             \/ Kept(token', auction'.tokenId)
      BY <1>0, <3>1, CreateAuctionKeeps DEF TokenInv
    <3> QED BY <1>1, <3>2 DEF CustodyInv, Live, Begun, NoOperator, Kept
  <2> QED BY <2>1, <2>2
<1>6. CASE TokenCall
  <2>1. TokenStep /\ auction' = auction
    BY <1>6 DEF TokenCall
  <2>2. /\ token'.idShift = 0
        /\ NoOperator(token')
        /\ \A i : Kept(token, i) => Kept(token', i)
    BY <1>0, <2>1, OthersCannotTake
  <2> QED BY <2>1, <2>2 DEF CustodyInv, Live, Begun, NoOperator, Kept
<1>7. CASE Pause \/ Configure \/ Tick \/ UNCHANGED vars
  BY <1>1, <1>7
     DEF Pause, Configure, SetTimeBuffer, SetReservePrice,
         SetMinBidIncrementPercentage, Tick, vars, Live, Begun
<1> QED BY <1>3, <1>4, <1>5, <1>6, <1>7 DEF Next

\* While ids are not shifted, the punk on sale belongs to the house and nobody
\* else can move it, whatever users, the punkers and the owner do to the token
\* and whoever the owner makes the minter.
THEOREM CustodySafe ==
  ASSUME IdShifts = {0}
  PROVE  Spec => []Custody
<1>1. Init => MoneyInv /\ CustodyInv
  <2>1. Init => CustodyInv
    BY DEF Init, TokenInit, Deployed, CustodyInv, NoOperator, Live, Begun
  <2> QED BY <2>1, InitMoney
<1>2. MoneyInv /\ CustodyInv /\ [Next]_vars => (MoneyInv /\ CustodyInv)'
  BY StepMoney, StepCustody
<1>3. CustodyInv => Custody
  BY DEF CustodyInv, Custody, Kept, NoOperator
<1> QED BY <1>1, <1>2, <1>3, PTL DEF Spec

-----------------------------------------------------------------------------
(* Rewards are not auctioned                                               *)

\* A record that keeps its id, and does not begin, names no reward either.
LEMMA SameLot ==
  ASSUME RewardsNotAuctioned, auction'.tokenId = auction.tokenId,
         auction'.startTime = auction.startTime
  PROVE  RewardsNotAuctioned'
BY DEF RewardsNotAuctioned, Begun

LEMMA BidKeepsLot ==
  ASSUME MoneyInv, RewardsNotAuctioned, NEW b, NEW v, NEW a,
         RecordBid(b, v, a)
  PROVE  RewardsNotAuctioned'
<1>1. auction'.tokenId = auction.tokenId /\ auction'.startTime = auction.startTime
  BY DEF MoneyInv, TypeOK, Auction, RecordBid
<1> QED BY <1>1, SameLot

\* _createAuction puts the id that mint() returned on sale, or nothing.
LEMMA CreateAuctionNotReward ==
  ASSUME NEW t \in TokenStorage, InOrder(t), SeedsTaken(t), NEW a,
         RewardsNotAuctioned, a.tokenId = auction.tokenId,
         a.startTime = auction.startTime, CreateAuction(t, a)
  PROVE  RewardsNotAuctioned'
<1>1. CASE /\ t.minter = AuctionHouse
           /\ token' \in Minted(t)
           /\ auction'.tokenId = MintResult(token')
  <2>1. t.minter \in Accounts
    BY <1>1, NAuctionHouseAssumption
  <2> QED BY <1>1, <2>1, MintedNotReward DEF RewardsNotAuctioned
<1>2. CASE auction' = a
  BY <1>2, SameLot
<1> QED BY <1>1, <1>2 DEF CreateAuction

LEMMA StepRewards ==
  ASSUME MoneyInv, RewardsNotAuctioned, [Next]_vars
  PROVE  RewardsNotAuctioned'
<1>1. CASE CreateBid
  <2>1. PICK b \in Bidders, v \in Bids :
          RecordBid(b, v, auction) \/ UNCHANGED auction
    BY <1>1
       DEF CreateBid, CreateFirstBid, CreateBidRefundWETH, CreateBidRefundETH
  <2> QED BY <2>1, BidKeepsLot, SameLot
<1>2. CASE ReturnFromRefund
  BY <1>2, BidKeepsLot DEF ReturnFromRefund
<1>3. CASE Settle
  <2> DEFINE a == [auction EXCEPT !.settled = TRUE]
  <2>1. a.tokenId = auction.tokenId /\ a.startTime = auction.startTime
    BY DEF MoneyInv, TypeOK, Auction
  <2>2. /\ Delivered \in TokenStorage /\ InOrder(Delivered)
        /\ SeedsTaken(Delivered)
    <3>1. Deliverable
      BY <1>3 DEF Settle, SettleAuction, SettleCurrentAndCreateNewAuction
    <3>2. auction \in Auction /\ TokenInv
      BY DEF MoneyInv, TypeOK
    <3> QED BY <3>1, <3>2, DeliveredSound
  <2>3. auction' = a \/ CreateAuction(Delivered, a)
    BY <1>3 DEF Settle, SettleAuction, SettleCurrentAndCreateNewAuction
  <2> HIDE DEF a
  <2> QED BY <2>1, <2>2, <2>3, SameLot, CreateAuctionNotReward
<1>4. CASE Unpause
  <2>1. auction' = auction \/ CreateAuction(token, auction)
    BY <1>4 DEF Unpause
  <2> QED BY <2>1, SameLot, CreateAuctionNotReward DEF MoneyInv, TokenInv
<1>5. CASE \/ Pause \/ Configure \/ TokenCall \/ Tick \/ UNCHANGED vars
  BY <1>5, SameLot
     DEF Pause, Configure, SetTimeBuffer, SetReservePrice,
         SetMinBidIncrementPercentage, TokenCall, Tick, vars
<1> QED BY <1>1, <1>2, <1>3, <1>4, <1>5 DEF Next

\* For every schedule of rewards of more than one punk apart: the auction house
\* never sells a punkers' reward, in whatever order punks are minted by it, by
\* another minter, or burned, and whether or not it is paused in between.
THEOREM RewardsSafe == Spec => []RewardsNotAuctioned
<1>1. Init => MoneyInv /\ RewardsNotAuctioned
  <2>1. Init => RewardsNotAuctioned
    BY DEF Init, RewardsNotAuctioned, Begun
  <2> QED BY <2>1, InitMoney
<1>2. MoneyInv /\ RewardsNotAuctioned /\ [Next]_vars
        => (MoneyInv /\ RewardsNotAuctioned)'
  BY StepMoney, StepRewards
<1> QED BY <1>1, <1>2, PTL DEF Spec

-----------------------------------------------------------------------------
(* The auction house implements EnglishAuction while ids are unshifted.    *)

\* Ids on sale are behind the counter, so that the next lot has a new one,
\* and a bid suspended in its refund outbids the auction that it will change.
EnglishInv ==
  /\ Begun => auction.tokenId < token.currentPunkId
  /\ frames # <<>> => Head(frames).value >= auction.amount

\* What a step that is about something else leaves alone.
LotKept ==
  /\ UNCHANGED <<auction, frames>>
  /\ now' \in Nat /\ now' >= now
  /\ Live => token'.owners[auction.tokenId] = token.owners[auction.tokenId]
  /\ token'.currentPunkId >= token.currentPunkId

LEMMA KeptStep ==
  ASSUME MoneyInv, EnglishInv, LotKept, token' \in TokenStorage
  PROVE  EnglishInv' /\ English!Elsewhere
<1>1. /\ token.currentPunkId \in Nat /\ token'.currentPunkId \in Nat
      /\ auction.tokenId \in Nat
  BY NTokenAssumption DEF MoneyInv, TypeOK, TokenTypeOK, TokenStorage, Auction
<1>2. EnglishInv'
  BY <1>1 DEF EnglishInv, LotKept, Begun
<1>3. UNCHANGED Lot
  BY DEF LotKept, Lot, Begun
<1>4. Lot.state = "open" => Live
  BY DEF Lot, Live
<1>5. Lot.id = auction.tokenId
  BY DEF Lot
<1> QED BY <1>2, <1>3, <1>4, <1>5 DEF LotKept, English!Elsewhere

\* mint() and the other calls of the token only move its counter forward.
LEMMA CounterForward ==
  ASSUME TokenInv, TokenStep
  PROVE  token'.currentPunkId >= token.currentPunkId
<1>0. token.currentPunkId \in Nat
  BY NTokenAssumption DEF TokenInv, TokenStorage
<1>1. ASSUME NEW u \in Users, Mint(u)
      PROVE  token'.currentPunkId >= token.currentPunkId
  <2>1. token.minter \in Accounts /\ token' \in Minted(token)
    BY <1>1, NTokenAssumption DEF Mint
  <2>2. /\ MintResult(token') >= token.currentPunkId
        /\ token' \in TokenStorage
    BY <2>1, MintedSound DEF TokenInv
  <2> QED BY <1>0, <2>2, NTokenAssumption DEF MintResult, TokenStorage
<1>2. ASSUME token'.currentPunkId = token.currentPunkId
      PROVE  token'.currentPunkId >= token.currentPunkId
  BY <1>0, <1>2
<1>3. CASE \/ \E u \in Users : UserStep(u) /\ ~Mint(u)
           \/ \E to \in Users \cup {Zero} : SetPunkers(to)
           \/ OwnerStep
  BY <1>2, <1>3
     DEF TokenInv, TokenStorage, UserStep, Burn, Burned, TransferFrom,
         Transferred, Approve, SetApprovalForAll, SetPunkers, OwnerStep,
         SetMinter, SetIdShift, SetPart, Lock, RegisterOGHashes
<1> QED BY <1>1, <1>3 DEF TokenStep

\* A bid recorded on the open lot, that is at least as high as the last one.
LEMMA RecordedBid ==
  ASSUME MoneyInv, EnglishInv, NEW b \in Bidders, NEW v \in Nat,
         RecordBid(b, v, auction), Live, now < auction.endTime,
         v >= auction.amount, UNCHANGED <<token, timeBuffer, now>>,
         frames' = <<>>
  PROVE  EnglishInv' /\ English!Bid
<1> DEFINE end == IF auction.endTime - now < timeBuffer THEN now + timeBuffer
                  ELSE auction.endTime
<1>1. /\ auction \in Auction /\ timeBuffer \in Nat /\ now \in Nat
  BY DEF MoneyInv, TypeOK
<1>2. auction' = [auction EXCEPT !.amount = v, !.bidder = b, !.endTime = end]
  BY DEF RecordBid
<1>3. end \in Nat /\ end >= auction.endTime /\ end >= now + timeBuffer
  BY <1>1 DEF Auction
<1> HIDE DEF end
<1>4. /\ auction'.tokenId = auction.tokenId
      /\ auction'.amount = v
      /\ auction'.bidder = b
      /\ auction'.endTime = end
      /\ auction'.startTime = auction.startTime
      /\ auction'.settled = auction.settled
  BY <1>1, <1>2 DEF Auction
<1>5. EnglishInv'
  BY <1>4 DEF EnglishInv, Begun
<1>6. /\ Lot.state = "open" /\ Lot'.state = "open"
      /\ Lot'.id = Lot.id
      /\ Lot'.leader # Zero
      /\ Lot'.price >= Lot.price
      /\ Lot'.end >= Lot.end /\ Lot'.end >= now + timeBuffer
      /\ now < Lot.end
  BY <1>3, <1>4, WalletFacts DEF Lot, Live, Begun
<1> QED BY <1>5, <1>6 DEF English!Bid

-----------------------------------------------------------------------------
\* _createAuction on storage t opens a new lot, or leaves record a and t.
\* Either way the punks minted before stay where they are in t.
LEMMA CreateAuctionOpens ==
  ASSUME NEW t \in TokenStorage, InOrder(t), SeedsTaken(t),
         NEW a, CreateAuction(t, a), now \in Nat \ {0}, now' = now
  PROVE  /\ \A i \in PunkIds :
              i < t.currentPunkId => token'.owners[i] = t.owners[i]
         /\ \/ /\ Lot'.state = "open"
               /\ Lot'.id >= t.currentPunkId
               /\ Lot'.id < token'.currentPunkId
               /\ Lot'.price = 0 /\ Lot'.leader = Zero
               /\ Lot'.end >= now
               /\ token'.owners[Lot'.id] = AuctionHouse
               /\ auction'.amount = 0
            \/ auction' = a /\ token' = t
<1>1. CASE /\ t.minter = AuctionHouse
           /\ token' \in Minted(t)
           /\ auction' = [tokenId |-> MintResult(token'), amount |-> 0,
                          startTime |-> now, endTime |-> now + Duration,
                          bidder |-> Zero, settled |-> FALSE]
  <2>1. t.minter \in Accounts
    BY <1>1, NAuctionHouseAssumption
  <2>2. /\ MintResult(token') >= t.currentPunkId
        /\ token'.owners[MintResult(token')] = t.minter
        /\ token' \in TokenStorage
        /\ \A i \in PunkIds :
             i < t.currentPunkId => token'.owners[i] = t.owners[i]
    BY <1>1, <2>1, MintedSound
  <2>3. MintResult(token') < token'.currentPunkId
    BY <2>2, NTokenAssumption DEF MintResult, TokenStorage
  <2>4. /\ Lot'.state = "open" /\ Lot'.id = MintResult(token')
        /\ Lot'.price = 0 /\ Lot'.leader = Zero /\ Lot'.end = now + Duration
        /\ auction'.amount = 0
    BY <1>1 DEF Lot, Begun
  <2>5. now + Duration >= now
    BY NAuctionHouseAssumption
  <2> QED BY <1>1, <2>2, <2>3, <2>4, <2>5
<1>2. CASE token' = t /\ auction' = a
  BY <1>2
<1> QED BY <1>1, <1>2 DEF CreateAuction

\* A settlement sells the lot, and opens the next one unless the house is
\* paused or may not mint.
LEMMA SettleSells ==
  ASSUME MoneyInv, CustodyInv, EnglishInv, Settle
  PROVE  EnglishInv' /\ (English!Close \/ English!CloseAndOpen)
<1> DEFINE a == [auction EXCEPT !.settled = TRUE]
           i == auction.tokenId
<1>1. /\ Deliverable /\ CanSettle /\ NonReentrant
      /\ UNCHANGED <<config, frames, now>>
  BY DEF Settle, SettleAuction, SettleCurrentAndCreateNewAuction
<1>2. /\ auction \in Auction /\ now \in Nat \ {0} /\ TokenInv
      /\ frames = <<>> /\ timeBuffer' = timeBuffer
  BY <1>1 DEF MoneyInv, TypeOK, NonReentrant, config
<1>3. /\ Delivered \in TokenStorage /\ InOrder(Delivered)
      /\ SeedsTaken(Delivered)
  BY <1>1, <1>2, DeliveredSound
<1>4. Live /\ Kept(token, i)
  BY <1>1 DEF CanSettle, Live, Begun, CustodyInv
<1>5. /\ Unshift(token, i) = i
      /\ i \in PunkIds
      /\ i < token.currentPunkId /\ i \in Nat
  BY <1>2, <1>4, NTokenAssumption
     DEF CustodyInv, Unshift, Kept, EnglishInv, Live, Auction
<1>6. /\ Delivered.owners[i] = auction.bidder
      /\ Delivered.currentPunkId = token.currentPunkId
  BY <1>2, <1>5 DEF Delivered, Burned, Transferred, TokenInv, TokenStorage
<1>7. /\ a.settled /\ a.tokenId = i /\ a.amount = auction.amount
      /\ a.bidder = auction.bidder /\ a.endTime = auction.endTime
      /\ a.startTime = auction.startTime
  BY <1>2 DEF Auction
<1>8. /\ Lot.state = "open" /\ Lot.id = i /\ Lot.leader = auction.bidder
      /\ now >= Lot.end
  BY <1>1, <1>4 DEF Lot, Live, CanSettle
<1>9. ASSUME auction' = a, token' = Delivered
      PROVE  EnglishInv' /\ English!Close
  <2>1. EnglishInv'
    BY <1>1, <1>2, <1>5, <1>6, <1>7, <1>9 DEF EnglishInv, Begun
  <2>2. Lot' = [Lot EXCEPT !.state = "closed"]
    BY <1>4, <1>7, <1>9 DEF Lot, Live, Begun
  <2> QED BY <1>1, <1>2, <1>6, <1>8, <1>9, <2>1, <2>2
          DEF English!Close, English!Sold
<1>10. CASE SettleAuction
  BY <1>9, <1>10 DEF SettleAuction
<1>11. CASE SettleCurrentAndCreateNewAuction
  <2>1. CreateAuction(Delivered, a) /\ now' = now
    BY <1>1, <1>11 DEF SettleCurrentAndCreateNewAuction
  <2> HIDE DEF a
  <2>2. /\ token'.owners[i] = auction.bidder
        /\ \/ /\ Lot'.state = "open"
              /\ Lot'.id >= token.currentPunkId
              /\ Lot'.id < token'.currentPunkId
              /\ Lot'.price = 0 /\ Lot'.leader = Zero
              /\ Lot'.end >= now
              /\ token'.owners[Lot'.id] = AuctionHouse
              /\ auction'.amount = 0
           \/ auction' = a /\ token' = Delivered
    BY <1>2, <1>3, <1>5, <1>6, <2>1, CreateAuctionOpens
  <2>3. ASSUME Lot'.state = "open", Lot'.id >= token.currentPunkId,
               Lot'.id < token'.currentPunkId,
               Lot'.price = 0, Lot'.leader = Zero, Lot'.end >= now,
               token'.owners[Lot'.id] = AuctionHouse
        PROVE  EnglishInv' /\ English!CloseAndOpen
    <3>1. Lot'.id = auction'.tokenId
      BY DEF Lot
    <3>2. EnglishInv'
      BY <1>1, <1>2, <2>3, <3>1 DEF EnglishInv
    <3>3. auction'.tokenId \in Nat /\ token.currentPunkId \in Nat
      BY <1>2, SettleMoney, NTokenAssumption
         DEF MoneyInv, TypeOK, Auction, TokenInv, TokenStorage
    <3>4. Lot'.id > Lot.id
      BY <1>5, <1>8, <2>3, <3>1, <3>3
    <3> QED BY <1>1, <1>2, <1>8, <2>2, <2>3, <3>2, <3>4
            DEF English!CloseAndOpen, English!Sold, English!Opened
  <2> QED BY <1>9, <2>2, <2>3
<1> QED BY <1>10, <1>11 DEF Settle

LEMMA UnpauseOpens ==
  ASSUME MoneyInv, CustodyInv, EnglishInv, Unpause
  PROVE  EnglishInv' /\ (English!Open \/ English!Elsewhere)
<1>1. UNCHANGED <<config, frames, now>>
  BY DEF Unpause
<1>2. /\ auction \in Auction /\ now \in Nat \ {0} /\ TokenInv
      /\ timeBuffer' = timeBuffer
      /\ token.currentPunkId \in Nat
  BY <1>1, NTokenAssumption DEF MoneyInv, TypeOK, config, TokenInv, TokenStorage
<1>3. ASSUME auction' = auction, token' = token
      PROVE  EnglishInv' /\ English!Elsewhere
  BY <1>1, <1>2, <1>3, KeptStep DEF LotKept, TokenInv
<1>4. CASE ~UnpauseNeedsAuction
  BY <1>3, <1>4 DEF Unpause
<1>5. CASE UnpauseNeedsAuction
  <2>1. CreateAuction(token, auction)
    BY <1>5 DEF Unpause
  <2>2. frames = <<>>
    BY <1>5 DEF UnpauseNeedsAuction, MoneyInv, FrameInv, Live, Begun
  <2>3. \/ /\ Lot'.state = "open"
           /\ Lot'.id >= token.currentPunkId
           /\ Lot'.id < token'.currentPunkId
           /\ Lot'.price = 0 /\ Lot'.leader = Zero
           /\ Lot'.end >= now
           /\ token'.owners[Lot'.id] = AuctionHouse
        \/ auction' = auction /\ token' = token
    BY <1>1, <1>2, <2>1, CreateAuctionOpens DEF TokenInv
  <2>4. ASSUME Lot'.state = "open", Lot'.id >= token.currentPunkId,
               Lot'.id < token'.currentPunkId,
               Lot'.price = 0, Lot'.leader = Zero, Lot'.end >= now,
               token'.owners[Lot'.id] = AuctionHouse
        PROVE  EnglishInv' /\ English!Open
    <3>1. Lot'.id = auction'.tokenId /\ Lot.id = auction.tokenId
      BY DEF Lot
    <3>2. EnglishInv'
      BY <1>1, <2>2, <2>4, <3>1 DEF EnglishInv
    <3>3. auction'.tokenId \in Nat /\ auction.tokenId \in Nat
      BY UnpauseMoney DEF MoneyInv, TypeOK, Auction
    <3>4. Lot.state # "none" => Lot'.id > Lot.id
      BY <1>2, <2>4, <3>1, <3>3 DEF EnglishInv, Lot, Begun
    <3>5. Lot.state # "open"
      BY <1>5 DEF UnpauseNeedsAuction, Lot, Begun
    <3> QED BY <1>1, <1>2, <2>4, <3>2, <3>4, <3>5
            DEF English!Open, English!Opened
  <2> QED BY <1>3, <2>3, <2>4
<1> QED BY <1>4, <1>5

LEMMA BidStep ==
  ASSUME MoneyInv, EnglishInv, CreateBid \/ ReturnFromRefund
  PROVE  EnglishInv' /\ (English!Bid \/ English!Elsewhere)
<1>0. /\ auction \in Auction /\ now \in Nat /\ timeBuffer \in Nat
      /\ minBidIncrementPercentage \in Nat
      /\ TokenInv /\ FrameInv /\ token.currentPunkId \in Nat
  BY NTokenAssumption DEF MoneyInv, TypeOK, TokenInv, TokenStorage
<1>1. ASSUME NEW b \in Bidders, NEW v \in Bids,
             BidAccepted(b, auction.tokenId, v)
      PROVE  v \in Nat /\ v >= auction.amount /\ Live /\ now < auction.endTime
  <2>1. v \in Nat /\ auction.amount \in Nat
    BY <1>0, NAuctionHouseAssumption DEF Auction
  <2>2. (auction.amount * minBidIncrementPercentage) \div 100 \in Nat
    <3> DEFINE n == auction.amount * minBidIncrementPercentage
    <3>1. n \in Nat
      BY <1>0, <2>1
    <3> HIDE DEF n
    <3>2. n \div 100 \in Nat
      BY <3>1
    <3> QED BY <3>2 DEF n
  <2> HIDE <1>0
  <2>3. v >= auction.amount
               + ((auction.amount * minBidIncrementPercentage) \div 100)
    BY <1>1 DEF BidAccepted
  <2>4. v >= auction.amount
    BY <2>1, <2>2, <2>3
  <2> QED BY <1>1, <2>1, <2>4, BidOnLive
<1>2. ASSUME NEW b \in Bidders, NEW v \in Bids,
             CreateFirstBid(b, auction.tokenId, v)
               \/ CreateBidRefundWETH(b, auction.tokenId, v)
      PROVE  EnglishInv' /\ English!Bid
  <2>1. /\ BidAccepted(b, auction.tokenId, v) /\ NonReentrant
        /\ RecordBid(b, v, auction)
        /\ UNCHANGED <<token, entered, config, frames, now>>
    BY <1>2 DEF CreateFirstBid, CreateBidRefundWETH
  <2>2. frames = <<>>
    BY <2>1 DEF NonReentrant, MoneyInv, TypeOK
  <2> QED BY <1>1, <2>1, <2>2, RecordedBid DEF config
<1>3. ASSUME NEW b \in Bidders, NEW v \in Bids,
             CreateBidRefundETH(b, auction.tokenId, v)
      PROVE  EnglishInv' /\ English!Elsewhere
  <2>1. /\ BidAccepted(b, auction.tokenId, v) /\ NonReentrant
        /\ frames' = <<[bidder |-> b, value |-> v, auction |-> auction]>>
                        \o frames
        /\ UNCHANGED <<token, auction, now>>
    BY <1>3 DEF CreateBidRefundETH
  <2>2. frames = <<>>
    BY <2>1 DEF NonReentrant, MoneyInv, TypeOK
  <2>3. frames' = <<[bidder |-> b, value |-> v, auction |-> auction]>>
    <3> DEFINE f == [bidder |-> b, value |-> v, auction |-> auction]
    <3> HIDE DEF f
    <3>1. <<f>> \o <<>> = <<f>>
      OBVIOUS
    <3> QED BY <2>1, <2>2, <3>1 DEF f
  <2>4. EnglishInv'
    BY <1>1, <2>1, <2>3 DEF EnglishInv, Begun
  <2>5. UNCHANGED Lot
    BY <2>1 DEF Lot, Begun
  <2> QED BY <1>0, <2>1, <2>4, <2>5 DEF English!Elsewhere
<1>4. CASE ReturnFromRefund
  <2>1. /\ frames # <<>> /\ frames' = Tail(frames)
        /\ RecordBid(Head(frames).bidder, Head(frames).value,
                     Head(frames).auction)
        /\ UNCHANGED <<token, config, now>>
    BY <1>4 DEF ReturnFromRefund
  <2>2. /\ frames = <<Head(frames)>> /\ Head(frames) \in Frame
        /\ Head(frames).auction = auction
        /\ Live /\ now < auction.endTime
        /\ Head(frames).value >= auction.amount
    BY <1>0, <2>1 DEF FrameInv, EnglishInv
  <2>3. frames' = <<>>
    <3> DEFINE f == Head(frames)
    <3> HIDE DEF f
    <3>1. frames = <<f>>
      BY <2>2 DEF f
    <3> QED BY <2>1, <3>1
  <2>4. Head(frames).bidder \in Bidders /\ Head(frames).value \in Nat
    BY <2>2 DEF Frame
  <2> QED BY <2>1, <2>2, <2>3, <2>4, RecordedBid DEF config
<1> QED BY <1>2, <1>3, <1>4 DEF CreateBid

LEMMA StepEnglish ==
  ASSUME MoneyInv, CustodyInv, EnglishInv, IdShifts = {0}, [Next]_vars
  PROVE  EnglishInv' /\ [English!Next]_(English!vars)
<1>0. /\ TokenInv /\ token.idShift = 0 /\ NoOperator(token)
      /\ auction \in Auction /\ now \in Nat /\ token.currentPunkId \in Nat
  BY NTokenAssumption
     DEF MoneyInv, CustodyInv, TypeOK, TokenInv, TokenStorage
<1>1. ASSUME LotKept, token' \in TokenStorage
      PROVE  EnglishInv' /\ English!Next
  BY <1>1, KeptStep DEF English!Next
<1>2. CASE CreateBid \/ ReturnFromRefund
  BY <1>2, BidStep DEF English!Next
<1>3. CASE Settle
  BY <1>3, SettleSells DEF English!Next
<1>4. CASE Unpause
  BY <1>4, UnpauseOpens DEF English!Next
<1>5. CASE TokenCall
  <2>1. TokenStep /\ UNCHANGED <<auction, frames, now>>
    BY <1>5 DEF TokenCall
  <2>2. token' \in TokenStorage
    BY <1>0, <2>1, StepSound DEF TokenInv
  <2>3. \A i : Kept(token, i) => Kept(token', i)
    BY <1>0, <2>1, OthersCannotTake
  <2>4. Live => token'.owners[auction.tokenId] = token.owners[auction.tokenId]
    BY <2>3 DEF CustodyInv, Kept
  <2>5. token'.currentPunkId >= token.currentPunkId
    BY <1>0, <2>1, CounterForward
  <2> QED BY <1>0, <1>1, <2>1, <2>2, <2>4, <2>5 DEF LotKept
<1>6. CASE Pause \/ Configure \/ Tick \/ UNCHANGED vars
  <2>1. /\ UNCHANGED <<token, auction, frames>>
        /\ now' = now \/ now' = now + 1
    BY <1>6
       DEF Pause, Configure, SetTimeBuffer, SetReservePrice,
           SetMinBidIncrementPercentage, Tick, vars
  <2>2. LotKept /\ token' \in TokenStorage
    BY <1>0, <2>1 DEF LotKept, TokenInv
  <2> QED BY <1>1, <2>2
<1> QED BY <1>2, <1>3, <1>4, <1>5, <1>6 DEF Next

-----------------------------------------------------------------------------
\* The refinement: with the ids unshifted, every behaviour of the auction
\* house and the token is one of an English auction, whatever bids, refunds
\* with their re-entrant calls, pauses, settings and moves of the minter role
\* it is made of.
THEOREM ImplementsEnglishAuction ==
  ASSUME IdShifts = {0}
  PROVE  Spec => IsEnglishAuction
<1> DEFINE I == MoneyInv /\ CustodyInv /\ EnglishInv
<1>1. Init => I /\ English!Init
  <2>1. Init => CustodyInv
    BY DEF Init, TokenInit, Deployed, CustodyInv, NoOperator, Live, Begun
  <2>2. Init => EnglishInv /\ English!Init
    BY DEF Init, EnglishInv, Begun, English!Init, Lot
  <2> QED BY <2>1, <2>2, InitMoney
<1>2. I /\ [Next]_vars => I' /\ [English!Next]_(English!vars)
  BY StepMoney, StepCustody, StepEnglish
<1> HIDE DEF I
<1> QED BY <1>1, <1>2, PTL DEF Spec, IsEnglishAuction, English!Spec
=============================================================================
