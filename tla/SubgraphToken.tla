--------------------------- MODULE SubgraphToken ----------------------------
(***************************************************************************)
(* The token half of the subgraph (packages/punks-subgraph/src): the       *)
(* handlers of the events of NToken, of CryptopunksVote, of the OG punk    *)
(* market and of its ERC721 wrapper, and the entities they maintain.       *)
(*                                                                         *)
(* A transaction puts its events into `pending` in the order in which the  *)
(* contracts emit them; the indexer handles one event per step.  Handlers  *)
(* read the event and the entities and never the chain, so that nothing    *)
(* is lost by letting the next transaction wait until `pending` is empty.  *)
(*                                                                         *)
(* A list of ids is modelled by how often each id is in it: push adds one, *)
(* filter removes them all.  `entity` holds what is stored; a handler that *)
(* loads an entity, lets another function save it and saves its own copy   *)
(* afterwards is modelled with that copy.                                  *)
(***************************************************************************)
EXTENDS Integers, Sequences, FiniteSets

CONSTANTS
  Zero,        \* address(0)
  Owner,       \* owner of NToken, through whom Transfer logs of mints go
  Wrapper,     \* the ERC721 wrapper of OG punks
  Holders,     \* other accounts
  Punks,       \* ids of the token
  OGPunks,     \* ids of OG punks
  MaxTxs       \* bound on the number of transactions

ASSUME SubgraphTokenAssumption ==
  /\ Cardinality({Zero, Owner, Wrapper}) = 3
  /\ {Zero, Owner, Wrapper} \cap Holders = {}
  /\ MaxTxs \in Nat

VARIABLES
  chain,       \* what the contracts know
  pending,     \* events of the last transaction not handled yet
  entity,      \* the entity store
  txs,         \* transactions so far
  drift        \* history: what explains the known differences

vars == <<chain, pending, entity, txs, drift>>

Accounts == Holders \cup {Owner}
Address == Accounts \cup {Zero, Wrapper}
Nobody == "nobody"       \* null, and the owner of what is not minted

None(S) == [p \in S |-> 0]
AccountEntity ==
  [delegate : Address \cup {Nobody}, balance : Int, punks : [Punks -> Nat],
   ogBalance : Int, ogpunks : [OGPunks -> Nat]]
DelegateEntity ==
  [votes : Nat, ogVotes : Nat, holders : Int, punks : [Punks -> Nat],
   ogpunks : [OGPunks -> Nat]]

-----------------------------------------------------------------------------
(* The chain: what ERC721Checkpointable and CryptopunksVote establish.     *)

Delegates(a) ==
  IF a = Zero \/ chain.delegate[a] = Zero THEN a ELSE chain.delegate[a]
Owned(a) == {p \in Punks : chain.owner[p] = a}
Represents(d) ==
  {p \in Punks : chain.owner[p] \in Address \ {Zero}
                 /\ Delegates(chain.owner[p]) = d}
Votes(d) == Cardinality(Represents(d))
OGRepresents(d) == {p \in OGPunks : chain.ogDelegate[p] = d}

\* Who owns an OG punk in the eyes of the subgraph: the owner of the wrapped
\* punk if it is wrapped, else its owner on the market.
OGOwner(p) ==
  IF chain.wrapped[p] # Zero THEN chain.wrapped[p] ELSE chain.market[p]

\* _moveDelegates: DelegateVotesChanged of the source, then of the target.
VoteEvents(src, dst, amount) ==
  IF src = dst \/ amount = 0 THEN <<>>
  ELSE (IF src = Zero THEN <<>>
        ELSE <<[type |-> "votes", delegate |-> src, old |-> Votes(src),
                new |-> Votes(src) - amount]>>)
       \o (IF dst = Zero THEN <<>>
           ELSE <<[type |-> "votes", delegate |-> dst, old |-> Votes(dst),
                   new |-> Votes(dst) + amount]>>)

TransferEvent(from, to, p) ==
  [type |-> "transfer", from |-> from, to |-> to, punk |-> p]

Send(events) ==
  /\ pending = <<>>
  /\ txs < MaxTxs
  /\ txs' = txs + 1
  /\ pending' = events
  /\ UNCHANGED <<entity, drift>>

\* mint: votes, the two Transfer logs of _mint, PunkCreated.
Mint(to, p) ==
  /\ chain.owner[p] = Nobody
  /\ chain' = [chain EXCEPT !.owner[p] = to]
  /\ Send(VoteEvents(Zero, Delegates(to), 1)
          \o <<TransferEvent(Zero, Owner, p), TransferEvent(Owner, to, p),
               [type |-> "created", punk |-> p]>>)

\* transferFrom, and burn when to is the zero address.
Transfer(to, p) ==
  LET from == chain.owner[p] IN
  /\ from \in Accounts
  /\ chain' = [chain EXCEPT !.owner[p] = to]
  /\ Send(VoteEvents(Delegates(from), Delegates(to), 1)
          \o <<TransferEvent(from, to, p)>>)

\* delegate: DelegateChanged before the votes move.
Delegate(a, d) ==
  /\ chain' = [chain EXCEPT !.delegate[a] = d]
  /\ Send(<<[type |-> "delegate", delegator |-> a, from |-> Delegates(a),
             to |-> d]>>
          \o VoteEvents(Delegates(a), d, Cardinality(Owned(a))))

OGEvent(from, to, p) ==
  [type |-> "ogtransfer", from |-> from, to |-> to, punk |-> p]
WrapEvent(from, to, p) ==
  [type |-> "wrapped", from |-> from, to |-> to, punk |-> p]

OGAssign(to, p) ==
  /\ chain.market[p] = Nobody
  /\ chain' = [chain EXCEPT !.market[p] = to]
  /\ Send(<<[type |-> "ogassign", to |-> to, punk |-> p]>>)

\* transferPunk, the only way of the market that the subgraph listens to.
OGTransfer(to, p) ==
  LET from == chain.market[p] IN
  /\ from \in Accounts
  /\ chain' = [chain EXCEPT !.market[p] = to]
  /\ Send(<<OGEvent(from, to, p)>>)

\* The wrapper's mint: it takes the punk, then _mint with itself as creator.
OGWrap(p) ==
  LET a == chain.market[p] IN
  /\ a \in Accounts
  /\ chain' = [chain EXCEPT !.market[p] = Wrapper, !.wrapped[p] = a]
  /\ Send(<<OGEvent(a, Wrapper, p), WrapEvent(Zero, Wrapper, p),
            WrapEvent(Wrapper, a, p)>>)

OGWrappedTransfer(to, p) ==
  LET from == chain.wrapped[p] IN
  /\ from # Zero
  /\ chain' = [chain EXCEPT !.wrapped[p] = to]
  /\ Send(<<WrapEvent(from, to, p)>>)

OGUnwrap(p) ==
  LET a == chain.wrapped[p] IN
  /\ a # Zero
  /\ chain' = [chain EXCEPT !.market[p] = a, !.wrapped[p] = Zero]
  /\ Send(<<WrapEvent(a, Zero, p), OGEvent(Wrapper, a, p)>>)

\* CryptopunksVote: the owner or the delegate may delegate a punk again.
OGDelegate(a, p, d) ==
  LET prev == chain.ogDelegate[p]
      Changed(x, n) == [type |-> "ogvotes", delegate |-> x,
                        new |-> Cardinality(OGRepresents(x)) + n] IN
  /\ chain.market[p] # Nobody
  /\ a \in {OGOwner(p), prev} \ {Zero}
  /\ chain' = [chain EXCEPT !.ogDelegate[p] = d]
  /\ Send((IF prev \in {d, Zero} THEN <<>> ELSE <<Changed(prev, -1)>>)
          \o (IF prev = d THEN <<>> ELSE <<Changed(d, 1)>>)
          \o <<[type |-> "ogdelegate", delegator |-> a, from |-> prev,
                to |-> d, punk |-> p]>>)

-----------------------------------------------------------------------------
(* Entities (utils/helpers.ts)                                             *)

\* A new delegate is counted in the stored governance entity.
GetOrCreateDelegate(s, d) ==
  IF d \in s.known THEN s
  ELSE [s EXCEPT !.known = @ \cup {d},
                 !.gov.totalDelegates = IF d = Zero THEN @ ELSE @ + 1]

\* Accounts that were never saved read as this one.
NewAccount ==
  [delegate |-> Nobody, balance |-> 0, punks |-> None(Punks),
   ogBalance |-> 0, ogpunks |-> None(OGPunks)]
NewDelegate ==
  [votes |-> 0, ogVotes |-> 0, holders |-> 0, punks |-> None(Punks),
   ogpunks |-> None(OGPunks)]
NewGovernance ==
  [totalTokenHolders |-> 0, currentTokenHolders |-> 0,
   currentDelegates |-> 0, totalDelegates |-> 0, delegatedVotes |-> 0]

-----------------------------------------------------------------------------
(* Handlers of the token (n-erc-721.ts)                                    *)

\* The seed is saved in any case, the punk only if a Transfer created it.
HandlePunkCreated(s, e) ==
  [s EXCEPT !.punk[e.punk].seed = s.punk[e.punk].owner # Nobody]

\* Variant: the punks of the account stay with the previous delegate.
HandleDelegateChangedKeeping(s, e) ==
  LET t == GetOrCreateDelegate(GetOrCreateDelegate(s, e.from), e.to)
      punks == s.account[e.delegator].punks
      prev == t.delegate[e.from]
      new == t.delegate[e.to] IN
  [t EXCEPT
     !.account[e.delegator].delegate = e.to,
     !.delegate[e.from] = [prev EXCEPT !.holders = @ - 1],
     !.delegate[e.to] =
        [new EXCEPT !.holders = @ + 1,
                    !.punks = [p \in Punks |-> @[p] + punks[p]]]]

\* Both delegates are loaded before either is saved, the new one last.
HandleDelegateChanged(s, e) ==
  LET t == GetOrCreateDelegate(GetOrCreateDelegate(s, e.from), e.to)
      punks == s.account[e.delegator].punks
      prev == t.delegate[e.from]
      new == t.delegate[e.to] IN
  [t EXCEPT
     !.account[e.delegator].delegate = e.to,
     !.delegate[e.from] =
        [prev EXCEPT !.holders = @ - 1,
                     !.punks = [p \in Punks |->
                                  IF punks[p] > 0 THEN 0 ELSE @[p]]],
     !.delegate[e.to] =
        [new EXCEPT !.holders = @ + 1,
                    !.punks = [p \in Punks |-> @[p] + punks[p]]]]

\* The governance entity is loaded before the delegate and saved after it:
\* the count of a delegate created in between is lost.
HandleDelegateVotesChanged(s, e) ==
  LET t == GetOrCreateDelegate(s, e.delegate) IN
  [t EXCEPT
     !.delegate[e.delegate].votes = e.new,
     !.gov = [s.gov EXCEPT
                !.currentDelegates =
                   @ + (IF e.old = 0 /\ e.new > 0 THEN 1 ELSE 0)
                     - (IF e.new = 0 THEN 1 ELSE 0),
                !.delegatedVotes = @ + e.new - e.old]]

\* handleTransfer up to fromHolder.save(): the governance entity the handler
\* holds, and the store.
FromGovernance(s, e) ==
  IF e.from = Zero THEN [s.gov EXCEPT !.totalTokenHolders = @ + 1]
  ELSE IF s.account[e.from].balance = 1
  THEN [s.gov EXCEPT !.currentTokenHolders = @ - 1]
  ELSE s.gov

FromHolder(s, e) ==
  LET holder == s.account[e.from]
      last == holder.balance = 1
      t == IF holder.delegate = Nobody THEN s
           ELSE [GetOrCreateDelegate(s, holder.delegate) EXCEPT
                   !.delegate[holder.delegate].punks[e.punk] = 0] IN
  IF e.from = Zero THEN [s EXCEPT !.gov = FromGovernance(s, e)]
  ELSE [t EXCEPT
          !.gov = IF last THEN FromGovernance(s, e) ELSE @,
          !.account[e.from] =
             [holder EXCEPT !.balance = @ - 1,
                            !.punks[e.punk] = 0,
                            !.delegate = IF last THEN Nobody ELSE @]]

\* The rest.  toHolder was loaded with fromHolder, before it was saved.
ToHolder(s, t, e) ==
  LET holder == s.account[e.to]
      gov == IF e.to = Zero
             THEN [FromGovernance(s, e) EXCEPT !.totalTokenHolders = @ - 1]
             ELSE FromGovernance(s, e)
      d == IF holder.delegate = Nobody THEN e.to ELSE holder.delegate
      u == GetOrCreateDelegate(
             IF e.to = Zero THEN [t EXCEPT !.gov = gov] ELSE t, d)
      first == holder.balance = 0 IN
  [u EXCEPT
     !.delegate[d].punks[e.punk] = @ + 1,
     !.gov = IF first THEN [gov EXCEPT !.currentTokenHolders = @ + 1] ELSE @,
     !.account[e.to] =
        [holder EXCEPT !.balance = @ + 1,
                       !.punks[e.punk] = @ + 1,
                       !.delegate = IF first THEN e.to ELSE @],
     !.punk[e.punk].owner = e.to]

HandleTransfer(s, e) == ToHolder(s, FromHolder(s, e), e)

-----------------------------------------------------------------------------
(* Handlers of OG punks (og-cryptopunks.ts, wrapped-punk.ts,               *)
(* cryptopunks-vote.ts)                                                    *)

AddOG(account, p) ==
  [account EXCEPT !.ogBalance = @ + 1, !.ogpunks[p] = @ + 1]
RemoveOG(account, p) ==
  [account EXCEPT !.ogBalance = @ - 1, !.ogpunks[p] = 0]

HandleOGPunkAssign(s, e) ==
  [s EXCEPT !.og[e.punk].owner = e.to,
            !.og[e.punk].wrapped = FALSE,
            !.account[e.to] = AddOG(@, e.punk)]

\* Both owners are loaded before either is saved.
HandleOGPunkTransfer(s, e) ==
  [s EXCEPT !.og[e.punk].owner = e.to,
            !.account[e.from] = RemoveOG(@, e.punk),
            !.account[e.to] = AddOG(s.account[e.to], e.punk)]

\* A wrap comes from the wrapper, an unwrap goes to it, as on the market.
HandleWrappedTransfer(s, e) ==
  LET prev == IF e.from = Zero THEN Wrapper ELSE e.from
      new == IF e.to = Zero THEN Wrapper ELSE e.to IN
  [s EXCEPT !.og[e.punk].wrapped =
               IF e.to = Zero THEN FALSE ELSE e.from = Zero \/ @,
            !.og[e.punk].owner = new,
            !.account[prev] = RemoveOG(@, e.punk),
            !.account[new] = AddOG(@, e.punk)]

HandleOGPunkDelegateChanged(s, e) ==
  LET t == GetOrCreateDelegate(GetOrCreateDelegate(s, e.from), e.to) IN
  [t EXCEPT !.og[e.punk].delegate = e.to,
            !.delegate[e.from].ogpunks[e.punk] = 0,
            !.delegate[e.to] = [t.delegate[e.to] EXCEPT
                                  !.ogpunks[e.punk] = @ + 1]]

HandleOGPunkDelegateVotesChanged(s, e) ==
  [GetOrCreateDelegate(s, e.delegate) EXCEPT
     !.delegate[e.delegate].ogVotes = e.new]

-----------------------------------------------------------------------------
Handled(s, e) ==
  CASE e.type = "created" -> HandlePunkCreated(s, e)
    [] e.type = "delegate" -> HandleDelegateChanged(s, e)
    [] e.type = "votes" -> HandleDelegateVotesChanged(s, e)
    [] e.type = "transfer" -> HandleTransfer(s, e)
    [] e.type = "ogassign" -> HandleOGPunkAssign(s, e)
    [] e.type = "ogtransfer" -> HandleOGPunkTransfer(s, e)
    [] e.type = "wrapped" -> HandleWrappedTransfer(s, e)
    [] e.type = "ogdelegate" -> HandleOGPunkDelegateChanged(s, e)
    [] e.type = "ogvotes" -> HandleOGPunkDelegateVotesChanged(s, e)

\* What the handlers get wrong, counted: moves of a punk to its own holder,
\* also when it was its only one; delegations to the delegate one has; and
\* who got a first punk while somebody else was the delegate.
Drifted(e) ==
  LET self == e.type = "transfer" /\ e.from = e.to
      last == self /\ entity.account[e.from].balance = 1
      strays == /\ e.type = "transfer"
                /\ e.to # Zero
                /\ entity.account[e.to].balance = 0
                /\ Delegates(e.to) # e.to IN
  [moves |-> [a \in Address |->
                drift.moves[a] + (IF self /\ e.to = a THEN 1 ELSE 0)],
   ogMoves |-> [a \in Address |->
                  drift.ogMoves[a]
                  + (IF e.type = "ogtransfer" /\ {e.from, e.to} = {a}
                     THEN 1 ELSE 0)],
   holders |-> drift.holders + (IF last THEN 1 ELSE 0),
   again |-> [d \in Address |->
                drift.again[d]
                + (IF e.type = "delegate" /\ {e.from, e.to} = {d}
                   THEN 1 ELSE 0)],
   strayed |-> drift.strayed \/ strays]

HandleEvent ==
  /\ pending # <<>>
  /\ entity' = Handled(entity, Head(pending))
  /\ drift' = Drifted(Head(pending))
  /\ pending' = Tail(pending)
  /\ UNCHANGED <<chain, txs>>

Init ==
  /\ chain = [owner |-> [p \in Punks |-> Nobody],
              delegate |-> [a \in Address |-> Zero],
              market |-> [p \in OGPunks |-> Nobody],
              wrapped |-> [p \in OGPunks |-> Zero],
              ogDelegate |-> [p \in OGPunks |-> Zero]]
  /\ pending = <<>>
  /\ entity = [account |-> [a \in Address |-> NewAccount],
               delegate |-> [a \in Address |-> NewDelegate],
               known |-> {},
               gov |-> NewGovernance,
               punk |-> [p \in Punks |-> [owner |-> Nobody, seed |-> FALSE]],
               og |-> [p \in OGPunks |->
                         [owner |-> Nobody, wrapped |-> FALSE,
                          delegate |-> Nobody]]]
  /\ txs = 0
  /\ drift = [moves |-> [a \in Address |-> 0],
              ogMoves |-> [a \in Address |-> 0],
              holders |-> 0,
              again |-> [d \in Address |-> 0],
              strayed |-> FALSE]

TokenTransaction ==
  \/ \E to \in Accounts, p \in Punks : Mint(to, p)
  \/ \E to \in Accounts \cup {Zero}, p \in Punks : Transfer(to, p)
  \/ \E a \in Holders, d \in Accounts : Delegate(a, d)

OGTransaction ==
  \/ \E to \in Accounts, p \in OGPunks : OGAssign(to, p)
  \/ \E to \in Accounts, p \in OGPunks : OGTransfer(to, p)
  \/ \E p \in OGPunks : OGWrap(p)
  \/ \E to \in Accounts, p \in OGPunks : OGWrappedTransfer(to, p)
  \/ \E p \in OGPunks : OGUnwrap(p)
  \/ \E a, d \in Accounts, p \in OGPunks : OGDelegate(a, p, d)

Next == TokenTransaction \/ OGTransaction \/ HandleEvent

Spec == Init /\ [][Next]_vars

-----------------------------------------------------------------------------
(* Properties: what the entities say once the events are handled.          *)

Idle == pending = <<>>

\* Every entity has its type; in particular no vote count is negative.
TypeOK ==
  /\ entity.account \in [Address -> AccountEntity]
  /\ entity.delegate \in [Address -> DelegateEntity]
  /\ entity.known \subseteq Address
  /\ txs \in 0 .. MaxTxs

\* Every punk is shown with its owner and its seed, although PunkCreated only
\* finds the punk when a Transfer log came before it.
PunksIndexed ==
  Idle => \A p \in Punks :
    entity.punk[p] = [owner |-> chain.owner[p],
                      seed |-> chain.owner[p] # Nobody]

\* Votes of every delegate, their sum and the number of delegates that have
\* votes are those of the chain.
VotesIndexed ==
  Idle =>
    /\ \A d \in Address \ {Zero} : entity.delegate[d].votes = Votes(d)
    /\ entity.gov.delegatedVotes =
         Cardinality({p \in Punks : chain.owner[p] \notin {Zero, Nobody}})
    /\ entity.gov.currentDelegates =
         Cardinality({d \in Address \ {Zero} : Votes(d) > 0})

\* Balances are the number of punks held (burned, for the zero address) plus
\* one for each move of a punk to its own holder, which the handler books as
\* an arrival only; holders are counted accordingly, and the zero address
\* counts as one.
BalancesIndexed ==
  Idle =>
    /\ \A a \in Address : entity.account[a].balance =
                            Cardinality(Owned(a)) + drift.moves[a]
    /\ \A a \in Address :
         {p \in Punks : entity.account[a].punks[p] > 0} = Owned(a)
    /\ entity.gov.currentTokenHolders =
         Cardinality({a \in Address : entity.account[a].balance > 0})
         - drift.holders

\* Every delegate is shown with exactly the punks it represents, unless some
\* account got its first punk while its votes were delegated elsewhere.
RepresentedIndexed ==
  Idle /\ ~drift.strayed =>
    \A d \in Address \ {Zero} :
      {p \in Punks : entity.delegate[d].punks[p] > 0} = Represents(d)

\* The amount of holders a delegate represents leaves out itself, is one too
\* low once it delegated to somebody else, and one too high for each time it
\* was chosen by someone it already represented.
HoldersRepresentedIndexed ==
  Idle => \A d \in Accounts :
    entity.delegate[d].holders =
      Cardinality({a \in Accounts \ {d} : Delegates(a) = d})
      - (IF Delegates(d) # d THEN 1 ELSE 0)
      + drift.again[d]

\* OG punks are shown with their owner, wrapped or not, with their delegate,
\* and delegates with their OG punks and votes, through any sequence of
\* transfers, wraps, unwraps and delegations.
OGIndexed ==
  Idle =>
    /\ \A p \in OGPunks : chain.market[p] # Nobody =>
         entity.og[p] =
           [owner |-> OGOwner(p), wrapped |-> chain.wrapped[p] # Zero,
            delegate |-> IF chain.ogDelegate[p] = Zero THEN Nobody
                         ELSE chain.ogDelegate[p]]
    /\ \A a \in Address : entity.account[a].ogBalance =
         Cardinality({p \in OGPunks : OGOwner(p) = a}) + drift.ogMoves[a]
    /\ \A d \in Address \ {Zero} :
         /\ {p \in OGPunks : entity.delegate[d].ogpunks[p] > 0} =
              OGRepresents(d)
         /\ entity.delegate[d].ogVotes = Cardinality(OGRepresents(d))

\* What the subgraph answers about punks, balances, votes, who represents
\* whom and OG punks is what the chain says, but for the known differences.
EntitiesExact ==
  /\ TypeOK
  /\ PunksIndexed /\ VotesIndexed /\ BalancesIndexed /\ OGIndexed
  /\ RepresentedIndexed /\ HoldersRepresentedIndexed
=============================================================================
