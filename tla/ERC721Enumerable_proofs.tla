----------------------- MODULE ERC721Enumerable_proofs ----------------------
(***************************************************************************)
(* The lists of ERC721Enumerable are exact, for any accounts and punks.    *)
(* The two list invariants are inductive together with the types: a token  *)
(* and its slot name each other, so that the token moved into the gap is   *)
(* neither the removed one nor one of another owner's list.                *)
(***************************************************************************)
EXTENDS ERC721Enumerable, TLAPS

LEMMA InitExact ==
  ASSUME Slots = Nat, Init
  PROVE  ListsSound
  BY ERC721EnumerableAssumption
  DEF Init, ListsSound, TypeOK, OwnerListsExact, AllTokensExact, Address

\* The invariant point by point, as the proofs below use it.
LEMMA Pointwise ==
  ASSUME Slots = Nat, ListsSound
  PROVE  /\ \A a \in Accounts : balances[a] \in Nat
         /\ \A a \in Accounts, k \in Nat : ownedTokens[a][k] \in Punks
         /\ \A q \in Punks : /\ ownedTokensIndex[q] \in Nat
                             /\ owners[q] \in Accounts \/ owners[q] = Zero
         /\ \A a \in Accounts, k \in Nat : k < balances[a] =>
              /\ owners[ownedTokens[a][k]] = a
              /\ ownedTokensIndex[ownedTokens[a][k]] = k
         /\ \A q \in Punks : owners[q] # Zero =>
              /\ ownedTokensIndex[q] < balances[owners[q]]
              /\ ownedTokens[owners[q]][ownedTokensIndex[q]] = q
<1>1. /\ \A a \in Accounts : balances[a] \in Nat
      /\ \A a \in Accounts, k \in Nat : ownedTokens[a][k] \in Punks
      /\ \A q \in Punks : /\ ownedTokensIndex[q] \in Nat
                          /\ owners[q] \in Accounts \/ owners[q] = Zero
  BY DEF ListsSound, TypeOK, Address
<1>2. \A a \in Accounts, k \in Nat : k < balances[a] => k \in 0 .. balances[a] - 1
  BY <1>1
<1> QED
  BY <1>1, <1>2 DEF ListsSound, OwnerListsExact

LEMMA MintExact ==
  ASSUME Slots = Nat, ListsSound, NEW to \in Address, NEW p \in Punks, Mint(to, p)
  PROVE  ListsSound'
<1> USE ERC721EnumerableAssumption
<1>0. to \in Accounts /\ owners[p] = Zero
  BY DEF Mint, Address
<1>1. TypeOK'
  BY <1>0, SMTT(30) DEF ListsSound, TypeOK, Mint, AddedToOwner, Address
<1>2. OwnerListsExact'
  <2>1. /\ \A a \in Accounts : balances'[a] = IF a = to THEN balances[a] + 1
                                              ELSE balances[a]
        /\ \A q \in Punks : owners'[q] = IF q = p THEN to ELSE owners[q]
        /\ \A q \in Punks : ownedTokensIndex'[q] =
             IF q = p THEN balances[to] ELSE ownedTokensIndex[q]
    BY <1>0 DEF ListsSound, TypeOK, Mint
  <2>2. \A a \in Accounts, k \in Nat : ownedTokens'[a][k] =
          IF a = to /\ k = balances[to] THEN p ELSE ownedTokens[a][k]
    BY <1>0 DEF ListsSound, TypeOK, Mint, AddedToOwner
  <2>p. Slots = Nat /\ ListsSound
    OBVIOUS
  <2>3. ASSUME NEW a \in Accounts, NEW k \in 0 .. balances'[a] - 1
        PROVE  /\ owners'[ownedTokens'[a][k]] = a
               /\ ownedTokensIndex'[ownedTokens'[a][k]] = k
    <3>0. k \in Nat /\ k < balances'[a]
      BY <2>p, <2>1, Pointwise
    <3>1. CASE a = to /\ k = balances[to]
      BY <3>0, <3>1, <2>1, <2>2
    <3>2. CASE ~(a = to /\ k = balances[to])
      <4>1. k < balances[a] /\ ownedTokens'[a][k] = ownedTokens[a][k]
        BY <3>0, <3>2, <2>p, <2>1, <2>2, Pointwise
      <4>2. /\ ownedTokens[a][k] \in Punks
            /\ owners[ownedTokens[a][k]] = a
            /\ ownedTokensIndex[ownedTokens[a][k]] = k
        BY <3>0, <4>1, <2>p, Pointwise
      <4>3. ownedTokens[a][k] # p
        BY <4>2, <1>0
      <4> QED
        BY <4>1, <4>2, <4>3, <2>1
    <3> QED
      BY <3>1, <3>2
  <2>4. ASSUME NEW q \in Punks, owners'[q] # Zero
        PROVE  /\ ownedTokensIndex'[q] < balances'[owners'[q]]
               /\ ownedTokens'[owners'[q]][ownedTokensIndex'[q]] = q
    <3>1. CASE q = p
      BY <3>1, <2>p, <2>1, <2>2, <1>0, Pointwise
    <3>2. CASE q # p
      <4>1. /\ owners'[q] = owners[q] /\ owners[q] \in Accounts
            /\ ownedTokensIndex'[q] = ownedTokensIndex[q]
        BY <3>2, <2>4, <2>p, <2>1, Pointwise
      <4>2. /\ ownedTokensIndex[q] \in Nat
            /\ ownedTokensIndex[q] < balances[owners[q]]
            /\ ownedTokens[owners[q]][ownedTokensIndex[q]] = q
        BY <4>1, <2>p, Pointwise
      <4> QED
        BY <4>1, <4>2, <2>p, <2>1, <2>2, <1>0, Pointwise
    <3> QED
      BY <3>1, <3>2
  <2> QED
    BY <2>3, <2>4 DEF OwnerListsExact
<1>3. AllTokensExact'
  <2>1. /\ Len(allTokens') = Len(allTokens) + 1
        /\ \A k \in 1 .. Len(allTokens) + 1 :
             allTokens'[k] = IF k = Len(allTokens) + 1 THEN p ELSE allTokens[k]
        /\ \A q \in Punks : allTokensIndex'[q] =
             IF q = p THEN Len(allTokens) ELSE allTokensIndex[q]
        /\ \A q \in Punks : owners'[q] = IF q = p THEN to ELSE owners[q]
        /\ Len(allTokens) \in Nat
        /\ \A k \in 1 .. Len(allTokens) : allTokens[k] \in Punks
        /\ \A q \in Punks : allTokensIndex[q] \in Nat
    BY <1>0 DEF ListsSound, TypeOK, Mint
  <2>2. ASSUME NEW k \in 1 .. Len(allTokens')
        PROVE  /\ owners'[allTokens'[k]] # Zero
               /\ allTokensIndex'[allTokens'[k]] = k - 1
    <3>1. CASE k = Len(allTokens) + 1
      BY <3>1, <2>1, <1>0
    <3>2. CASE k # Len(allTokens) + 1
      <4>1. k \in 1 .. Len(allTokens) /\ allTokens'[k] = allTokens[k]
        BY <3>2, <2>1
      <4>2. /\ owners[allTokens[k]] # Zero
            /\ allTokensIndex[allTokens[k]] = k - 1
            /\ allTokens[k] \in Punks
        BY <4>1, <2>1 DEF ListsSound, AllTokensExact
      <4> QED
        BY <4>1, <4>2, <2>1, <1>0
    <3> QED
      BY <3>1, <3>2
  <2>3. ASSUME NEW q \in Punks, owners'[q] # Zero
        PROVE  /\ allTokensIndex'[q] < Len(allTokens')
               /\ allTokens'[allTokensIndex'[q] + 1] = q
    <3>1. CASE q = p
      BY <3>1, <2>1
    <3>2. CASE q # p
      <4>1. /\ allTokensIndex'[q] = allTokensIndex[q]
            /\ allTokensIndex[q] \in Nat
            /\ allTokensIndex[q] < Len(allTokens)
            /\ allTokens[allTokensIndex[q] + 1] = q
        BY <3>2, <2>1, <2>3 DEF ListsSound, AllTokensExact
      <4> QED
        BY <4>1, <2>1
    <3> QED
      BY <3>1, <3>2
  <2> QED
    BY <2>2, <2>3 DEF AllTokensExact
<1> QED
  BY <1>1, <1>2, <1>3 DEF ListsSound

\* What list and index are to be once p is out of the list of from: the list
\* is exact again, and the tokens of other owners keep their slots.
ExactWithout(p, from, list, index) ==
  /\ balances[from] \in Nat \ {0}
  /\ list \in [Nat -> Punks]
  /\ index \in [Punks -> Nat]
  /\ \A k \in 0 .. balances[from] - 2 :
       list[k] # p /\ owners[list[k]] = from /\ index[list[k]] = k
  /\ \A q \in Punks : q # p /\ owners[q] = from =>
       index[q] < balances[from] - 1 /\ list[index[q]] = q
  /\ \A q \in Punks : q # p /\ owners[q] # from =>
       index[q] = ownedTokensIndex[q]

\* Swap and pop does that.
LEMMA RemovalExact ==
  ASSUME Slots = Nat, ListsSound, NEW p \in Punks, owners[p] \in Accounts
  PROVE  ExactWithout(p, owners[p], RemovedFromOwner(owners[p], p),
                      RemovedFromIndex(owners[p], p))
<1> USE ERC721EnumerableAssumption
<1> DEFINE from == owners[p]
           last == balances[from] - 1
           gap == ownedTokensIndex[p]
           moved == ownedTokens[from][last]
           list == RemovedFromOwner(from, p)
           index == RemovedFromIndex(from, p)
<1>1. /\ from \in Accounts /\ from # Zero
      /\ gap \in Nat
      /\ gap < balances[from]
      /\ balances[from] \in Nat
      /\ ownedTokens[from][gap] = p
      /\ ownedTokens[from] \in [Nat -> Punks]
  BY DEF ListsSound, TypeOK, OwnerListsExact
<1>2. /\ last \in Nat /\ gap <= last
      /\ moved \in Punks
      /\ owners[moved] = from
      /\ ownedTokensIndex[moved] = last
  BY <1>1 DEF ListsSound, OwnerListsExact
<1>3. \A k \in Nat : list[k] = IF k = last THEN 0
                               ELSE IF k = gap THEN moved
                               ELSE ownedTokens[from][k]
  BY DEF RemovedFromOwner
<1>4. \A q \in Punks : index[q] = IF q = p THEN 0
                                  ELSE IF gap # last /\ q = moved THEN gap
                                  ELSE ownedTokensIndex[q]
  BY DEF RemovedFromIndex
<1>5. list \in [Nat -> Punks] /\ index \in [Punks -> Nat]
  <2>1. list \in [Nat -> Punks]
    BY <1>1, <1>2 DEF RemovedFromOwner
  <2>2. index \in [Punks -> Nat]
    BY <1>1, <1>2 DEF RemovedFromIndex, ListsSound, TypeOK
  <2> QED
    BY <2>1, <2>2
<1>6. \A k \in 0 .. last : /\ ownedTokens[from][k] \in Punks
                           /\ owners[ownedTokens[from][k]] = from
                           /\ ownedTokensIndex[ownedTokens[from][k]] = k
  BY <1>1, <1>2 DEF ListsSound, OwnerListsExact
<1>7. \A q \in Punks : owners[q] = from =>
        /\ ownedTokensIndex[q] \in 0 .. last
        /\ ownedTokens[from][ownedTokensIndex[q]] = q
  BY <1>1, <1>2 DEF ListsSound, TypeOK, OwnerListsExact
<1> HIDE DEF from, last, gap, moved, list, index
<1>8. ASSUME NEW k \in 0 .. last - 1
      PROVE  list[k] # p /\ owners[list[k]] = from /\ index[list[k]] = k
  <2>1. k \in Nat /\ k # last /\ k \in 0 .. last
    BY <1>2
  <2>2. CASE k = gap
    <3>1. list[k] = moved /\ moved # p
      BY <2>1, <2>2, <1>2, <1>3 DEF gap
    <3> QED
      BY <3>1, <2>1, <2>2, <1>2, <1>4
  <2>3. CASE k # gap
    <3>1. list[k] = ownedTokens[from][k]
      BY <2>1, <2>3, <1>3
    <3>2. /\ list[k] \in Punks /\ owners[list[k]] = from
          /\ ownedTokensIndex[list[k]] = k
      BY <3>1, <2>1, <1>6
    <3>3. list[k] # p /\ list[k] # moved
      BY <3>2, <2>1, <2>3, <1>2 DEF gap
    <3> QED
      BY <3>2, <3>3, <1>4
  <2> QED
    BY <2>2, <2>3
<1>9. ASSUME NEW q \in Punks, q # p, owners[q] = from
      PROVE  index[q] < last /\ list[index[q]] = q
  <2>1. ownedTokensIndex[q] \in 0 .. last /\ ownedTokens[from][ownedTokensIndex[q]] = q
    BY <1>7, <1>9
  <2>2. ownedTokensIndex[q] # gap
    BY <2>1, <1>1, <1>9
  <2>3. CASE q = moved /\ gap # last
    BY <2>3, <1>9, <1>1, <1>2, <1>3, <1>4
  <2>4. CASE q # moved
    <3>1. index[q] = ownedTokensIndex[q] /\ index[q] # last
      BY <2>4, <2>1, <1>4, <1>9 DEF moved
    <3> QED
      BY <3>1, <2>1, <2>2, <1>2, <1>3
  <2>5. CASE q = moved /\ gap = last
    BY <2>5, <2>2, <1>2
  <2> QED
    BY <2>3, <2>4, <2>5
<1>10. \A q \in Punks : q # p /\ owners[q] # from => index[q] = ownedTokensIndex[q]
  BY <1>2, <1>4
<1>11. balances[from] \in Nat \ {0} /\ balances[from] - 2 = last - 1
  BY <1>1, <1>2 DEF last
<1>12. \A k \in 0 .. balances[from] - 2 :
         list[k] # p /\ owners[list[k]] = from /\ index[list[k]] = k
  BY <1>8, <1>11
<1>13. \A q \in Punks : q # p /\ owners[q] = from =>
         index[q] < balances[from] - 1 /\ list[index[q]] = q
  BY <1>9 DEF last
<1> QED
  BY <1>5, <1>10, <1>11, <1>12, <1>13 DEF ExactWithout, from, list, index

LEMMA TransferExact ==
  ASSUME Slots = Nat, ListsSound, NEW from \in Address, NEW to \in Address,
         NEW p \in Punks, Transfer(from, to, p)
  PROVE  ListsSound'
<1> USE ERC721EnumerableAssumption
<1>0. from \in Accounts /\ to \in Accounts /\ owners[p] = from
  BY DEF Transfer, Address
<1>1. CASE from = to
  <2>1. owners' = owners
    BY <1>0, <1>1 DEF Transfer, ListsSound, TypeOK
  <2> QED
    BY <1>1, <2>1 DEF Transfer, ListsSound, TypeOK, OwnerListsExact, AllTokensExact
<1>2. CASE from # to
  <2> DEFINE list == RemovedFromOwner(from, p)
             index == RemovedFromIndex(from, p)
  <2>1. /\ balances[from] \in Nat \ {0}
        /\ list \in [Nat -> Punks]
        /\ index \in [Punks -> Nat]
        /\ \A k \in 0 .. balances[from] - 2 :
             list[k] # p /\ owners[list[k]] = from /\ index[list[k]] = k
        /\ \A q \in Punks : q # p /\ owners[q] = from =>
             index[q] < balances[from] - 1 /\ list[index[q]] = q
        /\ \A q \in Punks : q # p /\ owners[q] # from =>
             index[q] = ownedTokensIndex[q]
    <3>1. ExactWithout(p, from, list, index)
      BY <1>0, RemovalExact
    <3> QED
      BY <3>1 DEF ExactWithout
  <2>2. /\ ownedTokens' = [ownedTokens EXCEPT ![from] = list,
                                              ![to] = AddedToOwner(to, p)]
        /\ ownedTokensIndex' = [index EXCEPT ![p] = balances[to]]
        /\ balances' = [balances EXCEPT ![from] = @ - 1, ![to] = @ + 1]
        /\ owners' = [owners EXCEPT ![p] = to]
        /\ UNCHANGED <<allTokens, allTokensIndex>>
    BY <1>2 DEF Transfer
  <2> HIDE DEF list, index
  <2>3. /\ \A a \in Accounts : balances'[a] = IF a = from THEN balances[a] - 1
                                              ELSE IF a = to THEN balances[a] + 1
                                              ELSE balances[a]
        /\ \A q \in Punks : owners'[q] = IF q = p THEN to ELSE owners[q]
        /\ \A q \in Punks : ownedTokensIndex'[q] =
             IF q = p THEN balances[to] ELSE index[q]
    BY <2>1, <2>2, <1>0, <1>2 DEF ListsSound, TypeOK
  <2>4. /\ ownedTokens'[from] = list
        /\ \A k \in Nat : ownedTokens'[to][k] =
             IF k = balances[to] THEN p ELSE ownedTokens[to][k]
        /\ \A a \in Accounts \ {from, to} : ownedTokens'[a] = ownedTokens[a]
    BY <2>2, <1>0, <1>2 DEF ListsSound, TypeOK, AddedToOwner
  <2>5. TypeOK'
    <3>1. AddedToOwner(to, p) \in [Nat -> Punks]
      BY <1>0 DEF AddedToOwner, ListsSound, TypeOK
    <3>2. ownedTokens' \in [Accounts -> [Nat -> Punks]]
      <4>1. ownedTokens \in [Accounts -> [Nat -> Punks]]
        BY DEF ListsSound, TypeOK
      <4> QED
        BY <4>1, <3>1, <2>1, <2>2, <1>0
    <3>3. balances' \in [Accounts -> Nat]
      <4>1. balances' = [a \in Accounts |-> IF a = from THEN balances[a] - 1
                                            ELSE IF a = to THEN balances[a] + 1
                                            ELSE balances[a]]
        BY <2>2, <1>0, <1>2 DEF ListsSound, TypeOK
      <4> QED
        BY <4>1, <2>1, Pointwise
    <3>4. ownedTokensIndex' \in [Punks -> Nat]
      BY <2>1, <2>2, <1>0 DEF ListsSound, TypeOK
    <3> QED
      BY <3>2, <3>3, <3>4, <2>2, <1>0 DEF ListsSound, TypeOK, Address
  <2>6. OwnerListsExact'
    <3>1. ASSUME NEW a \in Accounts, NEW k \in 0 .. balances'[a] - 1
          PROVE  /\ owners'[ownedTokens'[a][k]] = a
                 /\ ownedTokensIndex'[ownedTokens'[a][k]] = k
      <4>1. CASE a = from
        <5>1. k \in 0 .. balances[from] - 2 /\ k \in Nat
          <6>1. balances[from] \in Nat /\ balances'[from] = balances[from] - 1
            BY <2>3, <1>0, Pointwise
          <6> QED
            BY <6>1, <4>1
        <5>2. list[k] \in Punks
          BY <5>1, <2>1
        <5> QED
          BY <4>1, <5>1, <5>2, <2>1, <2>3, <2>4
      <4>2. CASE a = to /\ k = balances[to]
        BY <4>2, <2>3, <2>4, <1>0 DEF ListsSound, TypeOK
      <4>3. CASE a # from /\ ~(a = to /\ k = balances[to])
        <5>1. k \in 0 .. balances[a] - 1 /\ k \in Nat
          <6>1. balances[a] \in Nat
            BY Pointwise
          <6>2. balances'[a] = IF a = to THEN balances[a] + 1 ELSE balances[a]
            BY <4>3, <2>3
          <6>3. CASE a = to
            BY <6>1, <6>2, <6>3, <4>3
          <6>4. CASE a # to
            BY <6>1, <6>2, <6>4
          <6> QED
            BY <6>3, <6>4
        <5>2. ownedTokens'[a][k] = ownedTokens[a][k]
          BY <4>3, <5>1, <2>4
        <5>3. /\ ownedTokens[a][k] \in Punks
              /\ owners[ownedTokens[a][k]] = a
              /\ ownedTokensIndex[ownedTokens[a][k]] = k
          BY <5>1 DEF ListsSound, TypeOK, OwnerListsExact
        <5>4. ownedTokens[a][k] # p
          BY <5>3, <4>3, <1>0
        <5>5. index[ownedTokens[a][k]] = ownedTokensIndex[ownedTokens[a][k]]
          BY <5>3, <5>4, <4>3, <2>1
        <5> QED
          BY <5>2, <5>3, <5>4, <5>5, <2>3
      <4> QED
        BY <4>1, <4>2, <4>3
    <3>2. ASSUME NEW q \in Punks, owners'[q] # Zero
          PROVE  /\ ownedTokensIndex'[q] < balances'[owners'[q]]
                 /\ ownedTokens'[owners'[q]][ownedTokensIndex'[q]] = q
      <4>1. CASE q = p
        BY <4>1, <2>3, <2>4, <1>0, <1>2 DEF ListsSound, TypeOK
      <4>2. CASE q # p /\ owners[q] = from
        BY <4>2, <2>1, <2>3, <2>4, <1>0
      <4>3. CASE q # p /\ owners[q] # from
        <5>1. /\ owners'[q] = owners[q] /\ owners[q] \in Accounts
              /\ ownedTokensIndex'[q] = ownedTokensIndex[q]
          BY <4>3, <3>2, <2>1, <2>3, SMTT(30) DEF ListsSound, TypeOK, Address
        <5>2. /\ ownedTokensIndex[q] \in Nat
              /\ ownedTokensIndex[q] < balances[owners[q]]
              /\ ownedTokens[owners[q]][ownedTokensIndex[q]] = q
          BY <5>1 DEF ListsSound, TypeOK, OwnerListsExact
        <5>3. CASE owners[q] = to
          <6>1. balances[to] \in Nat /\ balances'[to] = balances[to] + 1
            BY <2>3, <1>0, <1>2, Pointwise
          <6> QED
            BY <6>1, <5>1, <5>2, <5>3, <2>4
        <5>4. CASE owners[q] # to
          <6>1. /\ balances'[owners[q]] = balances[owners[q]]
                /\ ownedTokens'[owners[q]] = ownedTokens[owners[q]]
            BY <5>1, <5>4, <4>3, <2>3, <2>4
          <6> QED
            BY <6>1, <5>1, <5>2
        <5> QED
          BY <5>3, <5>4
      <4> QED
        BY <4>1, <4>2, <4>3
    <3> QED
      BY <3>1, <3>2 DEF OwnerListsExact
  <2>7. AllTokensExact'
    BY <2>2, <2>3, <1>0, SMTT(30) DEF ListsSound, TypeOK, AllTokensExact
  <2> QED
    BY <2>5, <2>6, <2>7 DEF ListsSound
<1> QED
  BY <1>1, <1>2

LEMMA BurnExact ==
  ASSUME Slots = Nat, ListsSound, NEW p \in Punks, Burn(p)
  PROVE  ListsSound'
<1> USE ERC721EnumerableAssumption
<1> DEFINE from == owners[p]
           list == RemovedFromOwner(from, p)
           index == RemovedFromIndex(from, p)
           n == Len(allTokens)
           gap == allTokensIndex[p]
           moved == allTokens[n]
<1>0. from \in Accounts
  BY DEF Burn, Address, ListsSound, TypeOK
<1>1. /\ balances[from] \in Nat \ {0}
      /\ list \in [Nat -> Punks]
      /\ index \in [Punks -> Nat]
      /\ \A k \in 0 .. balances[from] - 2 :
           list[k] # p /\ owners[list[k]] = from /\ index[list[k]] = k
      /\ \A q \in Punks : q # p /\ owners[q] = from =>
           index[q] < balances[from] - 1 /\ list[index[q]] = q
      /\ \A q \in Punks : q # p /\ owners[q] # from =>
           index[q] = ownedTokensIndex[q]
  <2>1. ExactWithout(p, from, list, index)
    BY <1>0, RemovalExact
  <2> QED
    BY <2>1 DEF ExactWithout
<1>2. /\ ownedTokens' = [ownedTokens EXCEPT ![from] = list]
      /\ ownedTokensIndex' = index
      /\ allTokens' = RemovedFromAll(p)
      /\ allTokensIndex' = [i \in Punks |-> IF i = p THEN 0
                                            ELSE IF i = moved THEN gap
                                            ELSE allTokensIndex[i]]
      /\ balances' = [balances EXCEPT ![from] = @ - 1]
      /\ owners' = [owners EXCEPT ![p] = Zero]
  BY DEF Burn
<1>3. /\ \A k \in 1 .. n : /\ allTokens[k] \in Punks
                           /\ owners[allTokens[k]] # Zero
                           /\ allTokensIndex[allTokens[k]] = k - 1
      /\ \A q \in Punks : owners[q] # Zero =>
           /\ allTokensIndex[q] \in 0 .. n - 1
           /\ allTokens[allTokensIndex[q] + 1] = q
      /\ n \in Nat
  BY DEF ListsSound, TypeOK, AllTokensExact
<1>4. /\ gap \in 0 .. n - 1 /\ n \in 1 .. n
      /\ moved \in Punks /\ owners[moved] # Zero
      /\ allTokensIndex[moved] = n - 1
      /\ allTokens[gap + 1] = p
  BY <1>0, <1>3
<1>5. /\ Len(allTokens') = n - 1
      /\ allTokens' \in Seq(Punks)
      /\ \A k \in 1 .. n - 1 :
           allTokens'[k] = IF k = gap + 1 THEN moved ELSE allTokens[k]
  BY <1>2, <1>3, <1>4 DEF RemovedFromAll
<1> HIDE DEF from, list, index, n, gap, moved
<1>6. TypeOK'
  <2>1. ownedTokens' \in [Accounts -> [Nat -> Punks]]
    BY <1>0, <1>1, <1>2 DEF ListsSound, TypeOK
  <2>2. balances' \in [Accounts -> Nat]
    BY <1>0, <1>1, <1>2 DEF ListsSound, TypeOK
  <2>3. allTokensIndex' \in [Punks -> Nat]
    BY <1>2, <1>4 DEF ListsSound, TypeOK, gap
  <2> QED
    BY <2>1, <2>2, <2>3, <1>1, <1>2, <1>5 DEF ListsSound, TypeOK, Address
<1>7. OwnerListsExact'
  <2>1. /\ \A a \in Accounts : balances'[a] = IF a = from THEN balances[a] - 1
                                              ELSE balances[a]
        /\ \A a \in Accounts : ownedTokens'[a] = IF a = from THEN list
                                                 ELSE ownedTokens[a]
        /\ \A q \in Punks : owners'[q] = IF q = p THEN Zero ELSE owners[q]
    BY <1>0, <1>1, <1>2 DEF ListsSound, TypeOK
  <2>2. ASSUME NEW a \in Accounts, NEW k \in 0 .. balances'[a] - 1
        PROVE  /\ owners'[ownedTokens'[a][k]] = a
               /\ ownedTokensIndex'[ownedTokens'[a][k]] = k
    <3>1. CASE a = from
      <4>1. k \in 0 .. balances[from] - 2 /\ k \in Nat
        BY <3>1, <2>1, <1>0, <1>1
      <4>2. list[k] \in Punks
        BY <4>1, <1>1
      <4> QED
        BY <3>1, <4>1, <4>2, <2>1, <1>1, <1>2
    <3>2. CASE a # from
      <4>1. balances'[a] = balances[a] /\ ownedTokens'[a] = ownedTokens[a]
        BY <3>2, <2>1
      <4>2. k \in Nat /\ k < balances[a]
        BY <4>1, Pointwise
      <4>3. /\ ownedTokens[a][k] \in Punks
            /\ owners[ownedTokens[a][k]] = a
            /\ ownedTokensIndex[ownedTokens[a][k]] = k
        BY <4>2, Pointwise
      <4>4. ownedTokens[a][k] # p
        BY <4>3, <3>2 DEF from
      <4>5. index[ownedTokens[a][k]] = k
        BY <4>3, <4>4, <3>2, <1>1
      <4> QED
        BY <4>1, <4>3, <4>4, <4>5, <2>1, <1>2
    <3> QED
      BY <3>1, <3>2
  <2>3. ASSUME NEW q \in Punks, owners'[q] # Zero
        PROVE  /\ ownedTokensIndex'[q] < balances'[owners'[q]]
               /\ ownedTokens'[owners'[q]][ownedTokensIndex'[q]] = q
    <3>1. q # p /\ owners'[q] = owners[q] /\ owners[q] \in Accounts
      BY <2>3, <2>1 DEF ListsSound, TypeOK, Address
    <3>2. CASE owners[q] = from
      BY <3>1, <3>2, <2>1, <1>0, <1>1, <1>2
    <3>3. CASE owners[q] # from
      BY <3>1, <3>3, <2>1, <1>1, <1>2 DEF ListsSound, TypeOK, OwnerListsExact
    <3> QED
      BY <3>2, <3>3
  <2> QED
    BY <2>2, <2>3 DEF OwnerListsExact
<1>8. AllTokensExact'
  <2>1. /\ \A q \in Punks : owners'[q] = IF q = p THEN Zero ELSE owners[q]
        /\ \A q \in Punks : allTokensIndex'[q] = IF q = p THEN 0
                                                 ELSE IF q = moved THEN gap
                                                 ELSE allTokensIndex[q]
    BY <1>2 DEF ListsSound, TypeOK
  <2>2. ASSUME NEW k \in 1 .. Len(allTokens')
        PROVE  /\ owners'[allTokens'[k]] # Zero
               /\ allTokensIndex'[allTokens'[k]] = k - 1
    <3>1. k \in 1 .. n - 1 /\ k \in 1 .. n /\ k # n
      BY <1>3, <1>5
    <3>2. CASE k = gap + 1
      <4>1. allTokens'[k] = moved /\ moved # p
        BY <3>1, <3>2, <1>4, <1>5 DEF gap
      <4> QED
        BY <4>1, <3>2, <2>1, <1>4
    <3>3. CASE k # gap + 1
      <4>1. /\ allTokens'[k] = allTokens[k]
            /\ allTokens[k] \in Punks
            /\ owners[allTokens[k]] # Zero
            /\ allTokensIndex[allTokens[k]] = k - 1
        BY <3>1, <3>3, <1>3, <1>5
      <4>2. allTokens[k] # p
        BY <4>1, <3>3, <1>4 DEF gap
      <4>3. allTokens[k] # moved
        BY <4>1, <3>1, <1>3, <1>4
      <4> QED
        BY <4>1, <4>2, <4>3, <2>1
    <3> QED
      BY <3>2, <3>3
  <2>3. ASSUME NEW q \in Punks, owners'[q] # Zero
        PROVE  /\ allTokensIndex'[q] < Len(allTokens')
               /\ allTokens'[allTokensIndex'[q] + 1] = q
    <3>1. /\ q # p /\ owners[q] # Zero
          /\ allTokensIndex[q] \in 0 .. n - 1
          /\ allTokens[allTokensIndex[q] + 1] = q
      BY <2>3, <2>1, <1>3
    <3>2. CASE q = moved
      <4>1. gap # n - 1
        BY <3>1, <3>2, <1>4
      <4>2. gap + 1 \in 1 .. n - 1 /\ allTokensIndex'[q] = gap
        BY <4>1, <3>1, <3>2, <2>1, <1>3, <1>4
      <4> QED
        BY <4>2, <3>2, <1>3, <1>4, <1>5
    <3>3. CASE q # moved
      <4>1. allTokensIndex'[q] = allTokensIndex[q] /\ allTokensIndex[q] # gap
        BY <3>1, <3>3, <2>1, <1>4
      <4>2. allTokensIndex[q] # n - 1
        BY <3>1, <3>3, <1>3 DEF moved
      <4>3. allTokensIndex[q] + 1 \in 1 .. n - 1 /\ allTokensIndex[q] + 1 # gap + 1
        BY <4>1, <4>2, <3>1, <1>3, <1>4
      <4> QED
        BY <4>1, <4>3, <3>1, <1>3, <1>5
    <3> QED
      BY <3>2, <3>3
  <2> QED
    BY <2>2, <2>3 DEF AllTokensExact
<1> QED
  BY <1>6, <1>7, <1>8 DEF ListsSound

\* tokenOfOwnerByIndex and tokenByIndex list every punk exactly once after
\* any mints, transfers and burns, with uint256 indexes taken as unbounded.
THEOREM ListsExact ==
  ASSUME Slots = Nat
  PROVE  Spec => []ListsSound
<1>1. Init => ListsSound
  BY InitExact
<1>2. ListsSound /\ [Next]_vars => ListsSound'
  <2> SUFFICES ASSUME ListsSound, [Next]_vars PROVE ListsSound'
    OBVIOUS
  <2>1. ASSUME NEW to \in Address, NEW p \in Punks, Mint(to, p) PROVE ListsSound'
    BY <2>1, MintExact
  <2>2. ASSUME NEW from \in Address, NEW to \in Address, NEW p \in Punks,
               Transfer(from, to, p)
        PROVE  ListsSound'
    BY <2>2, TransferExact
  <2>3. ASSUME NEW p \in Punks, Burn(p) PROVE ListsSound'
    BY <2>3, BurnExact
  <2>4. CASE UNCHANGED vars
    BY <2>4 DEF ListsSound, TypeOK, OwnerListsExact, AllTokensExact, vars
  <2> QED
    BY <2>1, <2>2, <2>3, <2>4 DEF Next
<1> QED
  BY <1>1, <1>2, PTL DEF Spec
=============================================================================
