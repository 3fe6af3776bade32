--------------------------- MODULE WebApp_proofs ----------------------------
(***************************************************************************)
(* Proofs about the pages of the web app, for every set of contracts,      *)
(* functions, accounts and names, and every bound.                         *)
(***************************************************************************)
EXTENDS WebApp, FiniteSetTheorems, WellFoundedInduction, TLAPS

-----------------------------------------------------------------------------
(* The page that creates a proposal.                                       *)

Abis == {AbiOf[a] : a \in Addresses} \cup {FileAbi}

\* An ABI is not the one that is undefined, which has the empty signature.
LEMMA AbisHaveFunctions ==
  ASSUME NEW abi \in Abis
  PROVE  abi \in SUBSET Functions /\ abi # NoAbi
<1>1. abi \in SUBSET Functions
  <2>1. CASE abi = FileAbi
    BY <2>1 DEF Functions
  <2>2. ASSUME NEW a \in Addresses, abi = AbiOf[a]
        PROVE  abi \in SUBSET Functions
    BY <2>2 DEF Functions
  <2> QED BY <2>1, <2>2 DEF Abis
<1>2. Blank \notin Functions
  BY WebProposeAssumption
<1>3. Blank \in NoAbi
  BY DEF NoAbi
<1> QED BY <1>1, <1>2, <1>3

\* An argument is for a function that was chosen from an ABI, so whoever has
\* chosen a function has an ABI, and keeps it, if not the same.
FormSound ==
  /\ txForm \in [show : BOOLEAN, step : 0 .. 4, address : Addresses \cup {Blank},
                 value : {Blank, "odd", "ether"},
                 func : Functions \cup {Blank, Placeholder},
                 args : Functions \cup {Blank}, abi : Abis \cup {NoAbi}]
  /\ txForm.step > 0 => txForm.address \in Addresses
  /\ txForm.func # Blank => txForm.abi # NoAbi
  /\ fetches \in Seq(Abis)

ListSound ==
  /\ list \in Seq([address : Addresses,
                   signature : Functions \cup {Blank, Placeholder},
                   calldata : Functions \cup {Blank, "0x"}])
  /\ CalldataFits

ProposalSound ==
  /\ proposing \in BOOLEAN /\ live \in BOOLEAN
  /\ proposes \in Seq({"PendingSignature", "Mining", "Exception", "Fail", "Success"})
  /\ ProposeSpinnerReal

ProposeInv == FormSound /\ ListSound /\ ProposalSound

\* The empty form.
LEMMA NewFormType ==
  /\ NewForm \in [show : BOOLEAN, step : 0 .. 4,
                  address : Addresses \cup {Blank},
                  value : {Blank, "odd", "ether"},
                  func : Functions \cup {Blank, Placeholder},
                  args : Functions \cup {Blank}, abi : Abis \cup {NoAbi}]
  /\ NewForm.step = 0 /\ NewForm.func = Blank
BY DEF NewForm

LEMMA ProposeInvInit ==
  ASSUME ProposeInit
  PROVE  ProposeInv
<1>1. FormSound
  <2>1. fetches \in Seq(Abis)
    BY DEF ProposeInit
  <2>2. txForm = NewForm
    BY DEF ProposeInit
  <2> QED BY <2>1, <2>2, NewFormType DEF FormSound
<1>2. ListSound
  BY DEF ProposeInit, ListSound, CalldataFits
<1>3. ProposalSound
  <2>1. proposes = <<>> /\ proposing = FALSE /\ live = FALSE
    BY DEF ProposeInit
  <2>2. ProposeSpinnerReal
    BY <2>1 DEF ProposeSpinnerReal
  <2>3. <<>> \in Seq({"PendingSignature", "Mining", "Exception", "Fail",
                      "Success"})
    OBVIOUS
  <2> QED BY <2>1, <2>2, <2>3, Zenon DEF ProposalSound
<1> QED BY <1>1, <1>2, <1>3 DEF ProposeInv

\* What is left of a sequence are elements of it.
LEMMA WithoutType ==
  ASSUME NEW S, NEW s \in Seq(S), NEW i \in DOMAIN s
  PROVE  /\ Without(s, i) \in Seq(S)
         /\ \A k \in DOMAIN Without(s, i) :
              \E j \in DOMAIN s : Without(s, i)[k] = s[j]
<1> DEFINE a == SubSeq(s, 1, i - 1)
           b == SubSeq(s, i + 1, Len(s))
<1>1. i \in 1 .. Len(s) /\ Len(s) \in Nat
  OBVIOUS
<1>2. a \in Seq(S) /\ Len(a) = i - 1 /\ \A k \in 1 .. i - 1 : a[k] = s[k]
  BY <1>1
<1>3. b \in Seq(S) /\ Len(b) = Len(s) - i
      /\ \A k \in 1 .. Len(s) - i : b[k] = s[i + k]
  BY <1>1
<1> HIDE DEF a, b
<1>4. Without(s, i) = a \o b
  BY DEF Without, a, b
<1>5. a \o b \in Seq(S) /\ DOMAIN (a \o b) = 1 .. Len(s) - 1
  BY <1>1, <1>2, <1>3
<1>6. ASSUME NEW k \in 1 .. Len(s) - 1
      PROVE  \E j \in DOMAIN s : (a \o b)[k] = s[j]
  <2>1. CASE k <= i - 1
    <3>1. (a \o b)[k] = s[k]
      BY <1>1, <1>2, <1>3, <2>1
    <3> QED BY <1>1, <3>1
  <2>2. CASE k > i - 1
    <3>1. (a \o b)[k] = b[k - (i - 1)] /\ k - (i - 1) \in 1 .. Len(s) - i
      BY <1>1, <1>2, <1>3, <2>2
    <3>2. (a \o b)[k] = s[k + 1]
      BY <1>1, <1>3, <3>1, SMTT(30)
    <3> QED BY <1>1, <2>2, <3>2
  <2>3. k <= i - 1 \/ k > i - 1
    BY <1>1
  <2> QED BY <2>1, <2>2, <2>3
<1> QED BY <1>4, <1>5, <1>6

LEMMA FormSteps ==
  ASSUME ProposeInv, ProposeNext
  PROVE  FormSound'
<1>n. Blank \notin Addresses /\ Blank \notin Functions
  BY WebProposeAssumption
<1>t. /\ txForm \in [show : BOOLEAN, step : 0 .. 4,
                 address : Addresses \cup {Blank},
                 value : {Blank, "odd", "ether"},
                 func : Functions \cup {Blank, Placeholder},
                 args : Functions \cup {Blank}, abi : Abis \cup {NoAbi}]
      /\ txForm.step > 0 => txForm.address \in Addresses
      /\ txForm.func # Blank => txForm.abi # NoAbi
      /\ fetches \in Seq(Abis)
  BY DEF ProposeInv, FormSound
<1>0. CASE UNCHANGED <<txForm, fetches>>
  BY <1>0, <1>t DEF FormSound
<1>1. CASE OpenForm
  BY <1>1, <1>t DEF OpenForm, FormSound
<1>2. CASE txForm' = NewForm /\ UNCHANGED fetches
  BY <1>2, <1>t, NewFormType DEF FormSound
<1>3. CASE SetAddress
  BY <1>3, <1>t DEF SetAddress, SetField, FormSound
<1>4. CASE SetValue
  BY <1>4, <1>t DEF SetValue, SetField, FormSound
<1>5. CASE SetFunction
  <2>1. txForm.abi \in SUBSET Functions
    BY <1>5, <1>t, AbisHaveFunctions DEF SetFunction
  <2> QED BY <1>5, <1>t, <2>1 DEF SetFunction, SetField, FormSound
<1>6. CASE SetArguments
  BY <1>6, <1>t DEF SetArguments, SetField, FormSound
<1>7. CASE StepForward
  <2>1. txForm' = [txForm EXCEPT !.step = @ + 1] /\ txForm.step < 4
    BY <1>7 DEF StepForward
  <2>2. txForm.step = 0 => txForm.address \in Addresses
    BY <1>7 DEF StepForward
  <2>3. fetches' \in Seq(Abis)
    <3>1. CASE txForm.step = 0
      <4>1. fetches' = Append(fetches, AbiOf[txForm.address])
        BY <1>7, <3>1 DEF StepForward
      <4>2. AbiOf[txForm.address] \in Abis
        BY <2>2, <3>1 DEF Abis
      <4> QED BY <1>t, <4>1, <4>2
    <3>2. CASE txForm.step # 0
      BY <1>7, <1>t, <3>2 DEF StepForward
    <3> QED BY <3>1, <3>2
  <2>4. txForm.address \in Addresses
    BY <1>t, <2>2
  <2> QED BY <1>t, <2>1, <2>3, <2>4 DEF FormSound
<1>8. CASE StepBackwards
  <2>1. /\ txForm' = [txForm EXCEPT !.step = @ - 1] /\ txForm.step > 0
        /\ UNCHANGED fetches
    BY <1>8 DEF StepBackwards
  <2>2. txForm.address \in Addresses
    BY <1>t, <2>1
  <2> QED BY <1>t, <2>1, <2>2 DEF FormSound
<1>9. ASSUME NEW i \in DOMAIN fetches, PopulateABIIfExists(i)
      PROVE  FormSound'
  <2>1. fetches' \in Seq(Abis)
    BY <1>9, <1>t, WithoutType DEF PopulateABIIfExists
  <2>2. fetches[i] \in Abis /\ fetches[i] # NoAbi
    <3>1. fetches[i] \in Abis
      BY <1>t
    <3> QED BY <3>1, AbisHaveFunctions
  <2>3. CASE txForm' = [txForm EXCEPT !.abi = fetches[i]]
    BY <1>t, <2>1, <2>2, <2>3 DEF FormSound
  <2>4. CASE UNCHANGED txForm
    BY <1>t, <2>1, <2>4 DEF FormSound
  <2> QED BY <1>9, <2>3, <2>4 DEF PopulateABIIfExists
<1>10. CASE ValidateAndSetABI
  <2>1. FileAbi \in Abis
    BY DEF Abis
  <2> QED BY <1>10, <1>t, <2>1 DEF ValidateAndSetABI, FormSound
<1>11. CASE \/ \E i \in DOMAIN list : HandleRemoveProposalAction(i)
            \/ HandleDescription
            \/ HandleCreateProposal
            \/ \E i \in DOMAIN proposes : ProposeStep(i)
  <2>1. UNCHANGED <<txForm, fetches>>
    BY <1>11 DEF HandleRemoveProposalAction, HandleDescription,
                 HandleCreateProposal, ProposeStep, ProposeState
  <2> QED BY <1>0, <2>1
<1>12. CASE HideForm \/ AddTransaction
  <2>1. txForm' = NewForm /\ UNCHANGED fetches
    BY <1>12 DEF HideForm, AddTransaction
  <2> QED BY <1>2, <2>1
<1> QED
  BY <1>1, <1>3, <1>4, <1>5, <1>6, <1>7, <1>8, <1>9, <1>10, <1>11, <1>12
  DEF ProposeNext

LEMMA ListSteps ==
  ASSUME ProposeInv, ProposeNext
  PROVE  ListSound'
<1> DEFINE Txs == [address : Addresses,
                   signature : Functions \cup {Blank, Placeholder},
                   calldata : Functions \cup {Blank, "0x"}]
           Fits(act) == act.calldata = IF act.signature = Blank THEN "0x"
                                     ELSE act.signature
<1>1. list \in Seq(Txs) /\ \A i \in DOMAIN list : Fits(list[i])
  BY DEF ProposeInv, ListSound, CalldataFits
<1>2. SUFFICES list' \in Seq(Txs) /\ \A i \in DOMAIN list' : Fits(list'[i])
  BY DEF ListSound, CalldataFits
<1> HIDE DEF Txs, Fits
<1>3. CASE UNCHANGED list
  BY <1>1, <1>3
<1>4. CASE AddTransaction
  <2> DEFINE act == [address |-> txForm.address, signature |-> txForm.func,
                    calldata |-> CalldataOf(txForm)]
  <2>1. list' = Append(list, act)
    BY <1>4 DEF AddTransaction
  <2>2. txForm.address \in Addresses
    BY <1>4 DEF AddTransaction, ProposeInv, FormSound
  <2>3. /\ txForm.func \in Functions \cup {Blank, Placeholder}
        /\ txForm.args \in Functions \cup {Blank}
        /\ txForm.func # Blank => txForm.abi # NoAbi
    BY DEF ProposeInv, FormSound
  <2>4. txForm.func # Blank => txForm.args = txForm.func
    BY <1>4, <2>3 DEF AddTransaction, Throws, Encodes
  <2>5. act \in Txs /\ Fits(act)
    <3>1. CASE txForm.func = Blank
      BY <2>2, <2>3, <3>1 DEF CalldataOf, Txs, Fits
    <3>2. CASE txForm.func # Blank
      BY <2>2, <2>3, <2>4, <3>2 DEF CalldataOf, Txs, Fits
    <3> QED BY <3>1, <3>2
  <2> HIDE DEF act
  <2> QED BY <1>1, <2>1, <2>5
<1>5. ASSUME NEW i \in DOMAIN list, HandleRemoveProposalAction(i)
      PROVE  list' \in Seq(Txs) /\ \A k \in DOMAIN list' : Fits(list'[k])
  <2>1. list' = Without(list, i)
    BY <1>5 DEF HandleRemoveProposalAction
  <2> QED BY <1>1, <2>1, WithoutType
<1>6. ProposeNext =>
        \/ UNCHANGED list \/ AddTransaction
        \/ \E i \in DOMAIN list : HandleRemoveProposalAction(i)
  BY DEF ProposeNext, OpenForm, HideForm, SetAddress, SetValue, SetFunction,
         SetArguments, SetField, StepForward, StepBackwards,
         PopulateABIIfExists, ValidateAndSetABI, HandleDescription,
         HandleCreateProposal, ProposeStep, ProposeState, FormUnchanged
<1> QED BY <1>3, <1>4, <1>5, <1>6

LEMMA ProposalSteps ==
  ASSUME ProposeInv, ProposeNext
  PROVE  ProposalSound'
<1> DEFINE Statuses == {"PendingSignature", "Mining", "Exception", "Fail",
                        "Success"}
<1>1. /\ proposing \in BOOLEAN /\ live \in BOOLEAN
      /\ proposes \in Seq(Statuses)
      /\ proposing => \E i \in DOMAIN proposes : proposes[i] = "Mining"
  BY DEF ProposeInv, ProposalSound, ProposeSpinnerReal
<1>2. CASE UNCHANGED <<proposing, proposes, live>>
  BY <1>1, <1>2 DEF ProposalSound, ProposeSpinnerReal
<1>3. CASE HandleCreateProposal
  <2>1. /\ proposes' = Append(proposes, "PendingSignature")
        /\ UNCHANGED <<proposing, live>>
    BY <1>3 DEF HandleCreateProposal
  <2>2. proposes' \in Seq(Statuses)
    BY <1>1, <2>1
  <2>3. \A i \in DOMAIN proposes :
          i \in DOMAIN proposes' /\ proposes'[i] = proposes[i]
    BY <1>1, <2>1
  <2> QED BY <1>1, <2>1, <2>2, <2>3 DEF ProposalSound, ProposeSpinnerReal
<1>4. ASSUME NEW i \in DOMAIN proposes, NEW status \in Statuses,
             ProposeState(i, status), live' \in BOOLEAN
      PROVE  ProposalSound'
  <2>1. /\ proposes' = [proposes EXCEPT ![i] = status]
        /\ proposing' = (status = "Mining")
    BY <1>4 DEF ProposeState, ProposePending
  <2>2. proposes' \in Seq(Statuses) /\ i \in DOMAIN proposes'
        /\ proposes'[i] = status
    BY <1>1, <2>1
  <2>3. proposing' \in BOOLEAN
    BY <2>1
  <2> QED BY <1>4, <2>1, <2>2, <2>3 DEF ProposalSound, ProposeSpinnerReal
<1>5. ASSUME NEW i \in DOMAIN proposes, ProposeStep(i)
      PROVE  ProposalSound'
  <2>1. \E status \in Statuses : ProposeState(i, status) /\ live' \in BOOLEAN
    BY <1>1, <1>5 DEF ProposeStep
  <2> QED BY <1>4, <2>1
<1>6. ProposeNext =>
        \/ UNCHANGED <<proposing, proposes, live>> \/ HandleCreateProposal
        \/ \E i \in DOMAIN proposes : ProposeStep(i)
  BY DEF ProposeNext, OpenForm, HideForm, SetAddress, SetValue, SetFunction,
         SetArguments, SetField, StepForward, StepBackwards,
         PopulateABIIfExists, ValidateAndSetABI, HandleDescription,
         AddTransaction, HandleRemoveProposalAction, FormUnchanged
<1> QED BY <1>2, <1>3, <1>5, <1>6

\* The form that creates a proposal (ProposalTransactionFormModal): whatever
\* ABI comes when, the calldata of every transaction fit the function it
\* calls, and the button shows a spinner only while a propose() is mined.
THEOREM ProposalIsWhatWasPutTogether == Spec => []ProposeFormExact
<1>1. Init => ProposeInv
  BY ProposeInvInit DEF Init
<1>2. ProposeInv /\ [Next]_vars => ProposeInv'
  <2> SUFFICES ASSUME ProposeInv, [Next]_vars PROVE ProposeInv'
    OBVIOUS
  <2>1. CASE ProposeNext
    BY <2>1, FormSteps, ListSteps, ProposalSteps DEF ProposeInv
  <2>2. CASE UNCHANGED proposeVars
    BY <2>2 DEF proposeVars, ProposeInv, FormSound, ListSound, CalldataFits,
                ProposalSound, ProposeSpinnerReal
  <2> QED
    BY <2>1, <2>2 DEF Next, vars, OnAuction, OnVote, OnList, OnCreate,
                      OnDelegate, OnActivity
<1>3. ProposeInv => ProposeFormExact
  <2> SUFFICES ASSUME ProposeInv PROVE ProposeFormExact
    OBVIOUS
  <2>1. CalldataFits /\ ProposeSpinnerReal
    BY DEF ProposeInv, ListSound, ProposalSound
  <2>2. \A i \in DOMAIN list : list[i].address \in Addresses
    <3> DEFINE Txs == [address : Addresses,
                       signature : Functions \cup {Blank, Placeholder},
                       calldata : Functions \cup {Blank, "0x"}]
    <3>1. list \in Seq(Txs)
      BY DEF ProposeInv, ListSound
    <3>2. \A t \in Txs : t.address \in Addresses
      OBVIOUS
    <3> HIDE DEF Txs
    <3> QED BY <3>1, <3>2
  <2>3. /\ txForm.step \in 0 .. 4
        /\ txForm.step > 0 => txForm.address \in Addresses
        /\ txForm.func \in Functions \cup {Blank, Placeholder}
    BY DEF ProposeInv, FormSound
  <2>4. proposing \in BOOLEAN /\ live \in BOOLEAN
    BY DEF ProposeInv, ProposalSound
  <2> QED BY <2>1, <2>2, <2>3, <2>4, Zenon DEF ProposeFormExact, ProposeTypeOK
<1> QED BY <1>1, <1>2, <1>3, PTL DEF Spec

-----------------------------------------------------------------------------
(* The dialog that delegates votes.                                        *)

Texts == Accounts \cup Names

DelegateTypes ==
  /\ panel \in {"ENTER_DELEGATE_ADDRESS", "CHANGING", "CHANGE_SUCCESS",
                "CHANGE_FAILURE"}
  /\ text \in Texts \cup {NoOne} /\ target \in Texts \cup {NoOne}
  /\ lookups \in SUBSET Texts
  /\ delegate \in Accounts \cup {NoOne}
  /\ willHave \in Nat
  /\ overtaken \in BOOLEAN
  /\ token \in [status : {"None", "PendingSignature", "Mining", "mined"},
                to : Accounts \cup {NoOne}, new : BOOLEAN, resets : BOOLEAN]
  /\ token.status \in {"Mining", "mined"} => token.to \in Accounts

\* The target is what is typed until it is looked up, and the account that
\* was found from then on; a name is a target only while it is in the input.
TargetSound ==
  /\ target \in Accounts \/ target = text
  /\ ~overtaken /\ text # NoOne =>
       \/ /\ target = text
          /\ text \in lookups \/ ResolveName[text] \in {NoOne, text}
       \/ target = ResolveName[text] /\ target # NoOne

\* A new delegatee has none of the votes until the delegation is mined, and
\* the count is made, and then kept, before they can be read.
CountSound ==
  /\ token.new /\ token.status = "PendingSignature" =>
       /\ panel = "ENTER_DELEGATE_ADDRESS"
       /\ votes = delegate /\ token.to # delegate
  /\ token.new /\ panel = "CHANGING" =>
       willHave = Balance \/ (willHave = 0 /\ votes # target)

DelegateInv == DelegateTypes /\ TargetSound /\ CountSound

LEMMA NamesResolve ==
  /\ Balance \in Nat /\ Balance > 0
  /\ NoOne \notin Texts
  /\ \A t \in Texts : ResolveName[t] \in Accounts \cup {NoOne}
  /\ \A a \in Accounts : a \in Texts /\ ResolveName[a] = a
BY WebDelegateAssumption DEF Texts

LEMMA DelegateInvInit ==
  ASSUME DelegateInit
  PROVE  DelegateInv
<1>1. DelegateTypes
  BY DEF DelegateInit, DelegateTypes, NoTransfer
<1>2. TargetSound
  BY DEF DelegateInit, TargetSound
<1>3. CountSound
  BY DEF DelegateInit, CountSound, NoTransfer
<1> QED BY <1>1, <1>2, <1>3 DEF DelegateInv

LEMMA NoTransferType ==
  /\ NoTransfer \in [status : {"None", "PendingSignature", "Mining", "mined"},
                     to : Accounts \cup {NoOne}, new : BOOLEAN,
                     resets : BOOLEAN]
  /\ NoTransfer.status = "None" /\ NoTransfer.new = FALSE
BY DEF NoTransfer

LEMMA TypesStep ==
  ASSUME DelegateInv, DelegateNext
  PROVE  DelegateTypes'
<1> DEFINE Tokens == [status : {"None", "PendingSignature", "Mining", "mined"},
                      to : Accounts \cup {NoOne}, new : BOOLEAN,
                      resets : BOOLEAN]
           Panels == {"ENTER_DELEGATE_ADDRESS", "CHANGING", "CHANGE_SUCCESS",
                      "CHANGE_FAILURE"}
<1>0. /\ panel \in Panels
      /\ text \in Texts \cup {NoOne} /\ target \in Texts \cup {NoOne}
      /\ lookups \in SUBSET Texts
      /\ delegate \in Accounts \cup {NoOne}
      /\ willHave \in Nat /\ overtaken \in BOOLEAN
      /\ token \in Tokens
      /\ token.status \in {"Mining", "mined"} => token.to \in Accounts
  BY DEF DelegateInv, DelegateTypes
<1>1. SUFFICES
      /\ panel' \in Panels
      /\ text' \in Texts \cup {NoOne} /\ target' \in Texts \cup {NoOne}
      /\ lookups' \in SUBSET Texts
      /\ delegate' \in Accounts \cup {NoOne}
      /\ willHave' \in Nat /\ overtaken' \in BOOLEAN
      /\ token' \in Tokens
      /\ token'.status \in {"Mining", "mined"} => token'.to \in Accounts
  BY DEF DelegateTypes
<1>t. NoTransfer \in Tokens /\ NoTransfer.status = "None"
  BY NoTransferType
<1>2. CASE RunCandidateEffect
  <2>1. CountVotes \in Nat
    BY <1>0, NamesResolve DEF CountVotes, CountDelegated
  <2> QED BY <1>0, <1>2, <2>1 DEF RunCandidateEffect
<1>3. ASSUME NEW t \in Accounts \cup Names \cup {NoOne}, TypeText(t)
      PROVE  DelegateTypes'
  BY <1>0, <1>3 DEF TypeText, SetDelegateAddress, Texts, DelegateTypes
<1>4. ASSUME NEW t \in lookups, Resolved(t)
      PROVE  DelegateTypes'
  <2>1. t \in Texts
    BY <1>0
  <2>2. ResolveName[t] \in Accounts \cup {NoOne}
    BY <2>1, NamesResolve
  <2>3. /\ lookups' \in SUBSET Texts /\ target' \in Texts \cup {NoOne}
        /\ overtaken' \in BOOLEAN
    BY <1>0, <1>4, <2>2 DEF Resolved, Texts
  <2> QED BY <1>0, <1>4, <2>3 DEF Resolved, DelegateTypes
<1>5. CASE ReadVotes
  BY <1>0, <1>5 DEF ReadVotes
<1>6. CASE DelegateVotes
  <2>1. target # NoOne => ResolveName[target] \in Accounts \cup {NoOne}
    BY <1>0, NamesResolve
  <2>2. token' \in Tokens /\ token'.status = "PendingSignature"
    BY <1>0, <1>6, <2>1 DEF DelegateVotes
  <2> QED BY <1>0, <1>6, <2>2 DEF DelegateVotes
<1>7. CASE TokenMining
  <2>1. token' \in Tokens /\ token'.to \in Accounts
    BY <1>0, <1>7 DEF TokenMining, IsAddress
  <2> QED BY <1>0, <1>7, <2>1 DEF TokenMining
<1>8. CASE TokenMined
  <2>1. token' \in Tokens /\ token'.to = token.to /\ token.to \in Accounts
    BY <1>0, <1>8 DEF TokenMined
  <2> QED BY <1>0, <1>8, <2>1 DEF TokenMined
<1>9. CASE TokenDone
  <2>1. panel' \in Panels /\ text' \in Texts \cup {NoOne}
        /\ target' \in Texts \cup {NoOne} /\ UNCHANGED <<lookups, overtaken>>
    BY <1>0, <1>9 DEF TokenDone, Ended, HandleResetDelegate
  <2>2. token' = NoTransfer /\ UNCHANGED <<willHave, delegate>>
    BY <1>9 DEF TokenDone
  <2> QED BY <1>0, <1>t, <2>1, <2>2
<1>10. CASE DelegateOgPunk
  BY <1>0, <1>10 DEF DelegateOgPunk
<1>11. CASE OgDone
  BY <1>0, <1>11 DEF OgDone, HandleResetDelegate
<1> QED
  BY <1>2, <1>3, <1>4, <1>5, <1>6, <1>7, <1>8, <1>9, <1>10, <1>11
  DEF DelegateNext, DelegateTypes

LEMMA TargetStep ==
  ASSUME DelegateInv, DelegateNext
  PROVE  TargetSound'
<1>0. /\ text \in Texts \cup {NoOne} /\ target \in Texts \cup {NoOne}
      /\ lookups \in SUBSET Texts
      /\ overtaken \in BOOLEAN
      /\ TargetSound
  BY DEF DelegateInv, DelegateTypes
<1>1. CASE UNCHANGED <<text, target, lookups, overtaken>>
  BY <1>0, <1>1 DEF TargetSound
<1>2. CASE text' = NoOne /\ target' = NoOne
  BY <1>2 DEF TargetSound
<1>3. ASSUME NEW t \in Accounts \cup Names \cup {NoOne}, TypeText(t)
      PROVE  TargetSound'
  <2>1. /\ text' = t /\ target' = t /\ t # text
        /\ t \notin {target, NoOne} => t \in lookups'
    BY <1>3 DEF TypeText, SetDelegateAddress
  <2>2. t = target => t \in Accounts
    BY <1>0, <2>1 DEF TargetSound
  <2>3. t = NoOne \/ t \in lookups' \/ ResolveName[t] = t
    BY <2>1, <2>2, NamesResolve
  <2> QED BY <2>1, <2>3 DEF TargetSound
<1>4. ASSUME NEW t \in lookups, Resolved(t)
      PROVE  TargetSound'
  <2>1. t \in Texts /\ t # NoOne
    BY <1>0, NamesResolve
  <2>2. ResolveName[t] \in Accounts \cup {NoOne}
    BY <2>1, NamesResolve
  <2>3. UNCHANGED text
    BY <1>4 DEF Resolved
  <2>4. CASE ResolveName[t] = NoOne
    <3>1. lookups' = lookups \ {t} /\ UNCHANGED <<target, overtaken>>
      BY <1>4, <2>4 DEF Resolved
    <3> QED BY <1>0, <2>3, <2>4, <3>1 DEF TargetSound
  <2>5. CASE ResolveName[t] # NoOne
    <3>1. /\ target' = ResolveName[t]
          /\ overtaken' = (overtaken \/ t # target)
      BY <1>4, <2>5 DEF Resolved
    <3>2. target' \in Accounts
      BY <2>2, <2>5, <3>1
    <3>3. ASSUME ~overtaken', text # NoOne
          PROVE  target' = ResolveName[text] /\ target' # NoOne
      <4>1. t = target /\ ~overtaken
        BY <3>1, <3>3
      <4>2. CASE target = text
        BY <2>5, <3>1, <4>1, <4>2
      <4>3. CASE target = ResolveName[text] /\ target # text
        <5>1. target \in Accounts
          BY <1>0, <4>3 DEF TargetSound
        <5> QED BY <3>1, <4>1, <4>3, <5>1, <2>5, NamesResolve
      <4> QED BY <1>0, <3>3, <4>1, <4>2, <4>3 DEF TargetSound
    <3> QED BY <2>3, <3>2, <3>3 DEF TargetSound
  <2> QED BY <2>4, <2>5
<1>5. CASE TokenDone
  <2>1. \/ text' = NoOne /\ target' = NoOne
        \/ UNCHANGED <<text, target, lookups, overtaken>>
    BY <1>5 DEF TokenDone, Ended, HandleResetDelegate
  <2> QED BY <1>1, <1>2, <2>1
<1>6. CASE OgDone
  BY <1>2, <1>6 DEF OgDone, HandleResetDelegate
<1>7. CASE \/ RunCandidateEffect \/ ReadVotes \/ DelegateVotes \/ TokenMining
           \/ TokenMined \/ DelegateOgPunk
  BY <1>1, <1>7 DEF RunCandidateEffect, ReadVotes, DelegateVotes, TokenMining,
                    TokenMined, DelegateOgPunk
<1> QED BY <1>3, <1>4, <1>5, <1>6, <1>7 DEF DelegateNext

LEMMA CountStep ==
  ASSUME DelegateInv, DelegateNext
  PROVE  CountSound'
<1>0. /\ DelegateTypes /\ CountSound
      /\ panel \in {"ENTER_DELEGATE_ADDRESS", "CHANGING", "CHANGE_SUCCESS",
                    "CHANGE_FAILURE"}
      /\ willHave \in Nat
      /\ token \in [status : {"None", "PendingSignature", "Mining", "mined"},
                    to : Accounts \cup {NoOne}, new : BOOLEAN,
                    resets : BOOLEAN]
  BY DEF DelegateInv, DelegateTypes
<1>b. Balance \in Nat /\ Balance > 0
  BY NamesResolve
\* The effect has run: an open count is none of a delegation under way.
<1>1. ASSUME willHave = CountVotes, token.new, panel = "CHANGING"
      PROVE  willHave = Balance
  BY <1>0, <1>1, <1>b DEF CountSound, CountVotes, CountDelegated
<1>2. CASE RunCandidateEffect
  <2>1. willHave' = CountVotes /\ UNCHANGED <<panel, token, votes, delegate, target>>
    BY <1>2 DEF RunCandidateEffect
  <2>2. ASSUME token.new, panel = "CHANGING"
        PROVE  CountVotes = Balance
    BY <1>0, <1>b, <2>2 DEF CountSound, CountVotes, CountDelegated
  <2> QED BY <1>0, <2>1, <2>2 DEF CountSound
<1>3. CASE token' = NoTransfer
  BY <1>3, NoTransferType DEF CountSound
<1>4. ASSUME willHave = CountVotes, UNCHANGED <<panel, token, willHave>>,
             \/ UNCHANGED <<votes, delegate>>
             \/ votes' = delegate /\ delegate' = delegate
      PROVE  CountSound'
  BY <1>0, <1>1, <1>4 DEF CountSound
<1>5. CASE willHave = CountVotes /\ DelegateVotes
  <2>1. /\ token'.new => /\ panel = "ENTER_DELEGATE_ADDRESS"
                         /\ target # delegate /\ votes = delegate
        /\ token'.to = IF target = NoOne THEN NoOne ELSE ResolveName[target]
        /\ panel = "ENTER_DELEGATE_ADDRESS" => target \in Accounts
        /\ UNCHANGED <<panel, votes, delegate>>
    BY <1>5 DEF DelegateVotes, IsAddress
  <2>2. target \in Accounts => target # NoOne /\ ResolveName[target] = target
    BY NamesResolve
  <2> QED BY <2>1, <2>2 DEF CountSound
<1>6. CASE willHave = CountVotes /\ TokenMining
  <2>1. /\ token.status = "PendingSignature"
        /\ token' = [token EXCEPT !.status = "Mining",
                                  !.new = token.new /\ target = token.to]
        /\ panel' = "CHANGING" /\ UNCHANGED <<votes, delegate, target, willHave>>
    BY <1>6 DEF TokenMining
  <2>2. token'.status = "Mining"
        /\ (token'.new <=> (token.new /\ target = token.to))
    BY <1>0, <2>1
  <2>3. ASSUME token.new, target = token.to
        PROVE  willHave = 0 /\ votes # target
    BY <1>0, <1>6, <2>1, <2>3 DEF CountSound, CountVotes
  <2> QED BY <2>1, <2>2, <2>3 DEF CountSound
<1>7. CASE willHave = CountVotes /\ TokenMined
  <2>1. /\ token' = [token EXCEPT !.status = "mined"]
        /\ UNCHANGED <<panel, willHave>>
    BY <1>7 DEF TokenMined
  <2>2. token'.status = "mined" /\ token'.new = token.new
    BY <1>0, <2>1
  <2> QED BY <1>1, <1>7, <2>1, <2>2 DEF CountSound
<1>8. CASE TokenDone
  BY <1>3, <1>8 DEF TokenDone
<1>9. CASE OgDone
  BY <1>0, <1>9 DEF OgDone, HandleResetDelegate, CountSound
<1>10. CASE /\ willHave = CountVotes
            /\ \/ \E t \in Accounts \cup Names \cup {NoOne} : TypeText(t)
               \/ \E t \in lookups : Resolved(t)
               \/ ReadVotes
               \/ DelegateOgPunk
  BY <1>4, <1>10 DEF TypeText, Resolved, ReadVotes, DelegateOgPunk
<1> QED
  BY <1>2, <1>5, <1>6, <1>7, <1>8, <1>9, <1>10 DEF DelegateNext

\* The dialog that delegates votes (DelegationModal): when the names are
\* looked up, votes go to the account that was typed, unless an answer to an
\* earlier text overtook it, and the votes of a new delegate are counted once
\* whenever the app reads them.
THEOREM DelegationGoesWhereTyped == Spec => []DelegatePanelExact
<1>1. Init => DelegateInv
  BY DelegateInvInit DEF Init
<1>2. DelegateInv /\ [Next]_vars => DelegateInv'
  <2> SUFFICES ASSUME DelegateInv, [Next]_vars PROVE DelegateInv'
    OBVIOUS
  <2>1. CASE DelegateNext
    BY <2>1, TypesStep, TargetStep, CountStep DEF DelegateInv
  <2>2. CASE UNCHANGED delegateVars
    BY <2>2 DEF delegateVars, DelegateInv, DelegateTypes, TargetSound, CountSound
  <2> QED
    BY <2>1, <2>2 DEF Next, vars, OnAuction, OnVote, OnList, OnCreate,
                      OnDelegate, OnActivity
<1>3. DelegateInv => DelegatePanelExact
  <2> SUFFICES ASSUME DelegateInv PROVE DelegatePanelExact
    OBVIOUS
  <2>1. DelegateTypeOK
    BY DEF DelegateInv, DelegateTypes, DelegateTypeOK, Texts, IsAddress
  <2>2. TargetIsTyped
    <3>1. \A t \in DOMAIN ResolveName : t # NoOne
      BY WebDelegateAssumption
    <3> QED BY <3>1 DEF DelegateInv, TargetSound, TargetIsTyped
  <2>3. VotesCountedOnce
    BY DEF DelegateInv, CountSound, VotesCountedOnce
  <2> QED BY <2>1, <2>2, <2>3 DEF DelegatePanelExact
<1> QED BY <1>1, <1>2, <1>3, PTL DEF Spec

-----------------------------------------------------------------------------
(* The page of a proposal.                                                 *)

Props == [for : Nat, against : Nat, abstain : Nat,
          voted : SUBSET {"me", "other"}, canceled : BOOLEAN,
          vetoed : BOOLEAN, executed : BOOLEAN, eta : Nat \cup {NoETA}]

Entities == [proposer : {"proposer"}, createdBlock : {1},
             startBlock : {StartBlock}, endBlock : {EndBlock},
             quorumVotes : {QuorumVotes}, forVotes : Nat, againstVotes : Nat,
             abstainVotes : Nat, eta : Nat \cup {NoETA},
             status : {"PENDING", "ACTIVE", "QUEUED", "EXECUTED",
                       "CANCELLED", "VETOED"}]

Entity == index.proposals[1]
Ballot(voter) == index.votes[<<voter, 1>>].support

\* The two voters' votes for one side.
Cast(voter, support) ==
  IF voter \in prop.voted /\ Ballot(voter) = support THEN 1 ELSE 0
Tally(support) == Cast("me", support) + Cast("other", support)

\* The proposal in the DAO: its tallies are those of the recorded ballots,
\* and it is queued only after it has won.
PropSound ==
  /\ block \in Nat \ {0} /\ prop \in Props
  /\ prop.against = Tally(0) /\ prop.for = Tally(1) /\ prop.abstain = Tally(2)
  /\ prop.voted # {} => block > StartBlock
  /\ prop.executed => prop.eta # NoETA
  /\ prop.eta # NoETA =>
       /\ block > EndBlock /\ prop.voted # {}
       /\ prop.for > prop.against /\ prop.for >= QuorumVotes

\* The status of an entity, with one exception, tells what the last event was.
StatusFollows ==
  CASE prop.vetoed /\ prop.canceled -> Entity.status \in {"VETOED", "CANCELLED"}
    [] prop.vetoed /\ ~prop.canceled -> Entity.status = "VETOED"
    [] ~prop.vetoed /\ prop.canceled -> Entity.status = "CANCELLED"
    [] OTHER ->
         IF prop.executed THEN Entity.status = "EXECUTED"
         ELSE IF prop.eta # NoETA
         THEN Entity.status = "QUEUED" /\ Entity.eta = prop.eta
         ELSE /\ Entity.eta = NoETA
              /\ Entity.status = IF prop.voted = {} THEN "PENDING" ELSE "ACTIVE"

\* The entities of the subgraph are those of the proposal and its ballots.
IndexSound ==
  /\ DOMAIN index = {"proposals", "votes", "queued", "count"}
  /\ DOMAIN index.proposals = {1} /\ Entity \in Entities
  /\ DOMAIN index.votes = {<<v, 1>> : v \in prop.voted}
  /\ \A v \in prop.voted :
       index.votes[<<v, 1>>] \in [votes : {1}, support : 0 .. 2]
  /\ /\ Entity.forVotes = prop.for /\ Entity.againstVotes = prop.against
     /\ Entity.abstainVotes = prop.abstain
  /\ StatusFollows

\* What the page has read was so once: a block it has seen gives the proposal
\* of that block, and an answer of the subgraph only gets old.
ReadSound ==
  /\ view \in [block : Nat, prop : Props] /\ view.block <= block
  /\ view.block = block => view.prop = prop
  /\ source \in {"none", "subgraph", "chain"}
  /\ snapshot \in Entities
  /\ snapshot.status = "ACTIVE" => block > StartBlock
  /\ snapshot.status = "QUEUED" => block > EndBlock

VotersSound ==
  /\ voters \in [answered : BOOLEAN,
                 votes : SUBSET ({"me", "other"} \X (0 .. 2))]
  /\ \A w \in voters.votes : w[1] \in prop.voted /\ w[2] = Ballot(w[1])
  /\ card \in [visit : {"reads", "votes", "moves"}, delegateView : BOOLEAN,
               page : Nat]
  /\ card.page * PerCard <= Len(CardVotes(1))
  /\ ~voters.answered => voters.votes = {} /\ card.page = 0

Modals == [show : BOOLEAN, loading : BOOLEAN, success : BOOLEAN,
           failed : BOOLEAN, timer : BOOLEAN]
Transactions == [call : {"castVote", "queue", "execute"}, support : 0 .. 2,
                 status : {"PendingSignature", "Mining", "Exception",
                           "mined", "reverted", "done"}]

\* A vote that was mined is a vote, and success is said of no other.
SentSound ==
  /\ modal \in Modals /\ sent \in Seq(Transactions)
  /\ \A i \in DOMAIN sent :
       sent[i].call = "castVote" /\ sent[i].status = "mined"
       => "me" \in prop.voted
  /\ modal.success => "me" \in prop.voted

VoteInv == PropSound /\ IndexSound /\ ReadSound /\ VotersSound /\ SentSound

\* Ballots are only added.
BallotsKept ==
  /\ prop.voted \subseteq prop'.voted
  /\ \A v \in prop.voted : index'.votes[<<v, 1>>] = index.votes[<<v, 1>>]

ChainSound == PropSound /\ IndexSound

LEMMA VoteNumbers ==
  /\ StartBlock \in Nat /\ EndBlock \in Nat /\ QuorumVotes \in Nat
  /\ TimelockDelay \in Nat /\ Grace \in Nat
  /\ PerCard \in Nat \ {0} /\ MySupports \subseteq 0 .. 2
  /\ 1 < StartBlock /\ StartBlock < EndBlock
BY WebVoteAssumption

\* A vote is counted in the DAO and recorded in the subgraph alike.
LEMMA VotingKeeps ==
  ASSUME ChainSound, NEW voter \in {"me", "other"}, NEW support \in 0 .. 2,
         block' = block + 1, Voting(voter, support)
  PROVE  ChainSound' /\ BallotsKept
<1>0. /\ block \in Nat /\ prop \in Props /\ NoETA = -1
      /\ StartBlock \in Nat /\ EndBlock \in Nat /\ StartBlock < EndBlock
  BY VoteNumbers DEF ChainSound, PropSound, NoETA
<1>1. /\ ~prop.vetoed /\ ~prop.canceled
      /\ block + 1 > StartBlock /\ block + 1 <= EndBlock
      /\ voter \notin prop.voted
  BY <1>0 DEF Voting, DaoState
<1>2. prop.eta = NoETA /\ ~prop.executed
  BY <1>0, <1>1 DEF ChainSound, PropSound, Props
<1>3. /\ prop'.voted = prop.voted \cup {voter}
      /\ prop'.for = prop.for + (IF support = 1 THEN 1 ELSE 0)
      /\ prop'.against = prop.against + (IF support = 0 THEN 1 ELSE 0)
      /\ prop'.abstain = prop.abstain + (IF support = 2 THEN 1 ELSE 0)
      /\ prop'.canceled = prop.canceled /\ prop'.vetoed = prop.vetoed
      /\ prop'.executed = prop.executed /\ prop'.eta = prop.eta
      /\ prop' \in Props
  <2>1. PICK a \in Nat : a = IF support = 0 THEN 1 ELSE 0
    OBVIOUS
  <2>2. PICK f \in Nat : f = IF support = 1 THEN 1 ELSE 0
    OBVIOUS
  <2>3. PICK n \in Nat : n = IF support = 2 THEN 1 ELSE 0
    OBVIOUS
  <2>4. prop' = [prop EXCEPT !.voted = @ \cup {voter}, !.for = @ + f,
                             !.against = @ + a, !.abstain = @ + n]
    BY <2>1, <2>2, <2>3 DEF Voting
  <2>5. /\ prop'.voted = prop.voted \cup {voter}
        /\ prop'.for = prop.for + f /\ prop'.against = prop.against + a
        /\ prop'.abstain = prop.abstain + n
        /\ prop'.canceled = prop.canceled /\ prop'.vetoed = prop.vetoed
        /\ prop'.executed = prop.executed /\ prop'.eta = prop.eta
    BY <1>0, <2>4 DEF Props
  <2>6. prop' \in Props
    <3>1. /\ prop.for + f \in Nat /\ prop.against + a \in Nat
          /\ prop.abstain + n \in Nat
          /\ prop.voted \cup {voter} \in SUBSET {"me", "other"}
      BY <1>0 DEF Props
    <3>2. PICK x \in Nat, y \in Nat, z \in Nat, w \in SUBSET {"me", "other"} :
            /\ x = prop.for + f /\ y = prop.against + a
            /\ z = prop.abstain + n /\ w = prop.voted \cup {voter}
      BY <3>1
    <3>3. prop' = [prop EXCEPT !.voted = w, !.for = x, !.against = y,
                               !.abstain = z]
      BY <2>4, <3>2
    <3> QED BY <1>0, <3>3 DEF Props
  <2> QED BY <2>1, <2>2, <2>3, <2>5, <2>6
<1>4. /\ DOMAIN index = {"proposals", "votes", "queued", "count"}
      /\ DOMAIN index.proposals = {1} /\ Entity \in Entities
      /\ DOMAIN index.votes = {<<v, 1>> : v \in prop.voted}
  BY DEF ChainSound, IndexSound
<1>5. PICK e : e = [id |-> 1, voter |-> voter, votes |-> 1, support |-> support]
  OBVIOUS
<1>6. index' = HandleVoteCast(index, e)
  BY <1>5 DEF Voting
<1>7. e.id = 1 /\ e.voter = voter /\ e.votes = 1 /\ e.support = support
  BY <1>5
<1>8. index'.votes = [id \in DOMAIN index.votes \cup {<<voter, 1>>} |->
                        IF id = <<voter, 1>>
                        THEN [votes |-> 1, support |-> support]
                        ELSE index.votes[id]]
  BY <1>4, <1>6, <1>7 DEF HandleVoteCast
<1>9. /\ DOMAIN index' = {"proposals", "votes", "queued", "count"}
      /\ DOMAIN index'.proposals = {1}
  BY <1>4, <1>6 DEF HandleVoteCast
<1>10. /\ index'.proposals[1] \in Entities
       /\ index'.proposals[1].againstVotes =
            Entity.againstVotes + (IF support = 0 THEN 1 ELSE 0)
       /\ index'.proposals[1].forVotes =
            Entity.forVotes + (IF support = 1 THEN 1 ELSE 0)
       /\ index'.proposals[1].abstainVotes =
            Entity.abstainVotes + (IF support = 2 THEN 1 ELSE 0)
       /\ index'.proposals[1].eta = Entity.eta
       /\ index'.proposals[1].status =
            IF Entity.status = "PENDING" THEN "ACTIVE" ELSE Entity.status
  <2>1. PICK a \in Nat : a = IF support = 0 THEN 1 ELSE 0
    OBVIOUS
  <2>2. PICK f \in Nat : f = IF support = 1 THEN 1 ELSE 0
    OBVIOUS
  <2>3. PICK n \in Nat : n = IF support = 2 THEN 1 ELSE 0
    OBVIOUS
  <2>4. PICK status : status = IF Entity.status = "PENDING" THEN "ACTIVE"
                               ELSE Entity.status
    OBVIOUS
  <2>5. index'.proposals[1] =
          [Entity EXCEPT !.againstVotes = @ + a, !.forVotes = @ + f,
                         !.abstainVotes = @ + n, !.status = status]
    BY <1>4, <1>6, <1>7, <2>1, <2>2, <2>3, <2>4, ZenonT(60)
    DEF HandleVoteCast, Entity, Entities
  <2>6. status \in {"PENDING", "ACTIVE", "QUEUED", "EXECUTED", "CANCELLED",
                    "VETOED"}
    BY <1>4, <2>4 DEF Entities
  <2>7. index'.proposals[1] \in Entities
    <3>1. /\ Entity.forVotes + f \in Nat /\ Entity.againstVotes + a \in Nat
          /\ Entity.abstainVotes + n \in Nat
      BY <1>4 DEF Entities
    <3>2. PICK x \in Nat, y \in Nat, z \in Nat :
            /\ x = Entity.forVotes + f /\ y = Entity.againstVotes + a
            /\ z = Entity.abstainVotes + n
      BY <3>1
    <3>3. index'.proposals[1] =
            [Entity EXCEPT !.againstVotes = y, !.forVotes = x,
                           !.abstainVotes = z, !.status = status]
      BY <2>5, <3>2
    <3> QED BY <1>4, <2>6, <3>3 DEF Entities
  <2>8. /\ index'.proposals[1].againstVotes = Entity.againstVotes + a
        /\ index'.proposals[1].forVotes = Entity.forVotes + f
        /\ index'.proposals[1].abstainVotes = Entity.abstainVotes + n
        /\ index'.proposals[1].eta = Entity.eta
        /\ index'.proposals[1].status = status
    BY <1>4, <2>5 DEF Entities
  <2> QED BY <2>1, <2>2, <2>3, <2>4, <2>7, <2>8
<1>11. /\ index'.votes[<<voter, 1>>] = [votes |-> 1, support |-> support]
       /\ \A v \in prop.voted : index'.votes[<<v, 1>>] = index.votes[<<v, 1>>]
       /\ DOMAIN index'.votes = {<<v, 1>> : v \in prop'.voted}
  BY <1>1, <1>3, <1>4, <1>8
<1>12. BallotsKept
  BY <1>3, <1>11 DEF BallotsKept
<1>13. \A k \in 0 .. 2 :
         Tally(k)' = Tally(k) + (IF support = k THEN 1 ELSE 0)
  BY <1>1, <1>3, <1>11 DEF Tally, Cast, Ballot
<1>14. PropSound'
  BY <1>0, <1>1, <1>2, <1>3, <1>13 DEF PropSound, ChainSound
<1>15. StatusFollows'
  BY <1>1, <1>2, <1>3, <1>10 DEF StatusFollows, ChainSound, IndexSound, Entity
<1>16. IndexSound'
  <2>1. \A v \in prop'.voted :
          index'.votes[<<v, 1>>] \in [votes : {1}, support : 0 .. 2]
    <3>1. ASSUME NEW v \in prop.voted
          PROVE  index'.votes[<<v, 1>>] \in [votes : {1}, support : 0 .. 2]
      BY <1>11 DEF ChainSound, IndexSound
    <3>2. index'.votes[<<voter, 1>>] \in [votes : {1}, support : 0 .. 2]
      BY <1>11
    <3> QED BY <1>3, <3>1, <3>2
  <2>2. /\ index'.proposals[1].forVotes = prop'.for
        /\ index'.proposals[1].againstVotes = prop'.against
        /\ index'.proposals[1].abstainVotes = prop'.abstain
    BY <1>3, <1>10 DEF ChainSound, IndexSound
  <2> QED BY <1>9, <1>10, <1>11, <1>15, <2>1, <2>2 DEF IndexSound, Entity
<1> QED BY <1>12, <1>14, <1>16 DEF ChainSound

\* The other events leave ballots and tallies alone.
LEMMA EventKeeps ==
  ASSUME ChainSound, block' = block + 1,
         prop' \in Props, prop'.voted = prop.voted, prop'.for = prop.for,
         prop'.against = prop.against, prop'.abstain = prop.abstain,
         prop'.executed => prop'.eta # NoETA,
         prop'.eta # NoETA =>
           /\ block + 1 > EndBlock /\ prop.voted # {}
           /\ prop.for > prop.against /\ prop.for >= QuorumVotes,
         NEW status \in {"PENDING", "ACTIVE", "QUEUED", "EXECUTED",
                         "CANCELLED", "VETOED"},
         NEW eta \in Nat \cup {NoETA},
         DOMAIN index' = DOMAIN index, DOMAIN index'.proposals = {1},
         index'.votes = index.votes,
         index'.proposals[1] = [Entity EXCEPT !.status = status, !.eta = eta],
         StatusFollows'
  PROVE  ChainSound' /\ BallotsKept
<1>1. BallotsKept
  BY DEF BallotsKept
<1>2. \A k \in 0 .. 2 : Tally(k)' = Tally(k)
  BY DEF Tally, Cast, Ballot
<1>3. PropSound'
  <2>1. /\ block \in Nat \ {0} /\ StartBlock \in Nat
        /\ prop.voted # {} => block > StartBlock
        /\ prop.against = Tally(0) /\ prop.for = Tally(1)
        /\ prop.abstain = Tally(2)
    BY VoteNumbers DEF ChainSound, PropSound
  <2> QED BY <1>2, <2>1 DEF PropSound
<1>4. Entity \in Entities
  BY DEF ChainSound, IndexSound
<1>5. /\ index'.proposals[1] \in Entities
      /\ index'.proposals[1].forVotes = Entity.forVotes
      /\ index'.proposals[1].againstVotes = Entity.againstVotes
      /\ index'.proposals[1].abstainVotes = Entity.abstainVotes
  BY <1>4 DEF Entities
<1>6. IndexSound'
  BY <1>5 DEF ChainSound, IndexSound, Entity
<1> QED BY <1>1, <1>3, <1>6 DEF ChainSound

\* The fields of the proposal and of its entity.
LEMMA ChainTypes ==
  ASSUME ChainSound
  PROVE  /\ block \in Nat \ {0} /\ prop \in Props /\ Entity \in Entities
         /\ prop.for \in Nat /\ prop.against \in Nat
         /\ prop.eta \in Nat \cup {NoETA}
         /\ DOMAIN index = {"proposals", "votes", "queued", "count"}
         /\ DOMAIN index.proposals = {1}
         /\ prop.executed => prop.eta # NoETA
         /\ prop.eta # NoETA =>
              /\ block > EndBlock /\ prop.voted # {}
              /\ prop.for > prop.against /\ prop.for >= QuorumVotes
BY DEF ChainSound, PropSound, IndexSound, Props

LEMMA QueueingKeeps ==
  ASSUME ChainSound, block' = block + 1, Queueing
  PROVE  ChainSound' /\ BallotsKept
<1>1. /\ ~prop.vetoed /\ ~prop.canceled /\ block + 1 > EndBlock
      /\ prop.for > prop.against /\ prop.for >= QuorumVotes
      /\ prop.eta = NoETA
  BY ChainTypes, VoteNumbers DEF Queueing, DaoState
<1>2. PICK eta \in Nat : eta = block + 1 + TimelockDelay
  BY ChainTypes, VoteNumbers
<1>3. eta # NoETA
  BY DEF NoETA
<1>4. prop' = [prop EXCEPT !.eta = eta]
  BY <1>2 DEF Queueing
<1>5. /\ prop' \in Props /\ prop'.voted = prop.voted /\ prop'.for = prop.for
      /\ prop'.against = prop.against /\ prop'.abstain = prop.abstain
      /\ prop'.eta = eta /\ prop'.executed = prop.executed
      /\ prop'.vetoed = prop.vetoed /\ prop'.canceled = prop.canceled
  BY <1>4, ChainTypes DEF Props
<1>6. prop.voted # {}
  <2>1. prop.voted = {} => prop.for = 0
    BY DEF ChainSound, PropSound, Tally, Cast
  <2> QED BY <1>1, <2>1, ChainTypes
<1>7. index' = HandleProposalQueued(index, [id |-> 1, eta |-> eta])
  BY <1>5 DEF Queueing
<1>8. /\ DOMAIN index' = DOMAIN index /\ DOMAIN index'.proposals = {1}
      /\ index'.votes = index.votes
      /\ index'.proposals[1] = [Entity EXCEPT !.status = "QUEUED", !.eta = eta]
  BY <1>7, ChainTypes DEF HandleProposalQueued, Entity, Entities
<1>9. index'.proposals[1].status = "QUEUED" /\ index'.proposals[1].eta = eta
  BY <1>8, ChainTypes DEF Entities
<1>10. ~prop.executed
  BY <1>1, ChainTypes
<1>11. StatusFollows'
  BY <1>1, <1>3, <1>5, <1>9, <1>10 DEF StatusFollows, Entity
<1> QED
  BY <1>1, <1>2, <1>3, <1>5, <1>6, <1>8, <1>11, EventKeeps

LEMMA ExecutingKeeps ==
  ASSUME ChainSound, block' = block + 1, Executing
  PROVE  ChainSound' /\ BallotsKept
<1>1. ~prop.vetoed /\ ~prop.canceled /\ prop.eta # NoETA /\ ~prop.executed
  BY ChainTypes, VoteNumbers DEF Executing, DaoState
<1>2. prop' = [prop EXCEPT !.executed = TRUE]
  BY DEF Executing
<1>3. /\ prop' \in Props /\ prop'.voted = prop.voted /\ prop'.for = prop.for
      /\ prop'.against = prop.against /\ prop'.abstain = prop.abstain
      /\ prop'.eta = prop.eta /\ prop'.executed = TRUE
      /\ prop'.vetoed = prop.vetoed /\ prop'.canceled = prop.canceled
  BY <1>2, ChainTypes DEF Props
<1>4. index' = HandleProposalExecuted(index, [id |-> 1])
  BY DEF Executing
<1>5. /\ DOMAIN index' = DOMAIN index /\ DOMAIN index'.proposals = {1}
      /\ index'.votes = index.votes
      /\ index'.proposals[1] = [Entity EXCEPT !.status = "EXECUTED",
                                              !.eta = NoETA]
  BY <1>4, ChainTypes DEF HandleProposalExecuted, Entity, Entities
<1>6. index'.proposals[1].status = "EXECUTED"
  BY <1>5, ChainTypes DEF Entities
<1>7. StatusFollows'
  BY <1>1, <1>3, <1>6 DEF StatusFollows, Entity
<1>8. block + 1 > EndBlock
  BY <1>1, ChainTypes, VoteNumbers
<1> QED
  BY <1>1, <1>3, <1>5, <1>7, <1>8, ChainTypes, EventKeeps

LEMMA CancelingKeeps ==
  ASSUME ChainSound, block' = block + 1, Canceling
  PROVE  ChainSound' /\ BallotsKept
<1>2. prop' = [prop EXCEPT !.canceled = TRUE]
  BY DEF Canceling
<1>3. /\ prop' \in Props /\ prop'.voted = prop.voted /\ prop'.for = prop.for
      /\ prop'.against = prop.against /\ prop'.abstain = prop.abstain
      /\ prop'.eta = prop.eta /\ prop'.executed = prop.executed
      /\ prop'.vetoed = prop.vetoed /\ prop'.canceled = TRUE
  BY <1>2, ChainTypes DEF Props
<1>4. index' = HandleProposalCanceled(index, [id |-> 1])
  BY DEF Canceling
<1>5. /\ DOMAIN index' = DOMAIN index /\ DOMAIN index'.proposals = {1}
      /\ index'.votes = index.votes
      /\ index'.proposals[1] = [Entity EXCEPT !.status = "CANCELLED"]
  BY <1>4, ChainTypes DEF HandleProposalCanceled, Entity, Entities
<1>6. /\ index'.proposals[1].status = "CANCELLED"
      /\ index'.proposals[1] = [Entity EXCEPT !.status = "CANCELLED",
                                              !.eta = Entity.eta]
      /\ Entity.eta \in Nat \cup {NoETA}
  BY <1>5, ChainTypes, ZenonT(60) DEF Entities
<1>7. StatusFollows'
  BY <1>3, <1>6, ChainTypes DEF StatusFollows, Entity, Props
<1>8. prop.eta # NoETA => block + 1 > EndBlock
  BY ChainTypes, VoteNumbers
<1> QED
  BY <1>3, <1>5, <1>6, <1>7, <1>8, ChainTypes, EventKeeps

LEMMA VetoingKeeps ==
  ASSUME ChainSound, block' = block + 1, Vetoing
  PROVE  ChainSound' /\ BallotsKept
<1>2. prop' = [prop EXCEPT !.vetoed = TRUE]
  BY DEF Vetoing
<1>3. /\ prop' \in Props /\ prop'.voted = prop.voted /\ prop'.for = prop.for
      /\ prop'.against = prop.against /\ prop'.abstain = prop.abstain
      /\ prop'.eta = prop.eta /\ prop'.executed = prop.executed
      /\ prop'.vetoed = TRUE /\ prop'.canceled = prop.canceled
  BY <1>2, ChainTypes DEF Props
<1>4. index' = HandleProposalVetoed(index, [id |-> 1])
  BY DEF Vetoing
<1>5. /\ DOMAIN index' = DOMAIN index /\ DOMAIN index'.proposals = {1}
      /\ index'.votes = index.votes
      /\ index'.proposals[1] = [Entity EXCEPT !.status = "VETOED"]
  BY <1>4, ChainTypes DEF HandleProposalVetoed, Entity, Entities
<1>6. /\ index'.proposals[1].status = "VETOED"
      /\ index'.proposals[1] = [Entity EXCEPT !.status = "VETOED",
                                              !.eta = Entity.eta]
      /\ Entity.eta \in Nat \cup {NoETA}
  BY <1>5, ChainTypes, ZenonT(60) DEF Entities
<1>7. StatusFollows'
  BY <1>3, <1>6, ChainTypes DEF StatusFollows, Entity, Props
<1>8. prop.eta # NoETA => block + 1 > EndBlock
  BY ChainTypes, VoteNumbers
<1> QED
  BY <1>3, <1>5, <1>6, <1>7, <1>8, ChainTypes, EventKeeps

LEMMA EmptyBlockKeeps ==
  ASSUME ChainSound, block' = block + 1, UNCHANGED <<prop, index>>
  PROVE  ChainSound' /\ BallotsKept
<1>1. BallotsKept
  BY DEF BallotsKept
<1>2. PropSound'
  <2>1. /\ block \in Nat \ {0} /\ StartBlock \in Nat /\ EndBlock \in Nat
    BY VoteNumbers, ChainTypes
  <2>2. \A k \in 0 .. 2 : Tally(k)' = Tally(k)
    BY DEF Tally, Cast, Ballot
  <2> QED BY <2>1, <2>2 DEF ChainSound, PropSound
<1>3. IndexSound'
  BY DEF ChainSound, IndexSound, StatusFollows, Entity
<1> QED BY <1>1, <1>2, <1>3 DEF ChainSound

\* Division, for a divisor that is not a number.
LEMMA Quotient ==
  ASSUME NEW n \in Nat, NEW d \in Nat \ {0}
  PROVE  /\ n \div d \in Nat
         /\ (n \div d) * d <= n
         /\ n < (n \div d + 1) * d
<1>1. n \div d \in Int /\ n % d \in 0 .. d - 1
  OBVIOUS
<1>5. n = d * (n \div d) + (n % d)
  OBVIOUS
<1>2. PICK q \in Int, m \in 0 .. d - 1 :
        q = n \div d /\ m = n % d /\ n = d * q + m
  BY <1>1, <1>5
<1>3. q >= 0
  <2>1. SUFFICES ASSUME q <= -1 PROVE FALSE
    BY <1>2
  <2>2. d * q <= d * (-1)
    BY <2>1
  <2> QED BY <1>2, <2>2
<1>4. q * d = d * q /\ (q + 1) * d = d * q + d
  OBVIOUS
<1> QED BY <1>2, <1>3, <1>4

LEMMA TimesMonotone ==
  ASSUME NEW a \in Int, NEW b \in Int, NEW d \in Nat, a <= b
  PROVE  a * d <= b * d
OBVIOUS

\* A cell is on one page of its card: the one that its number says.
LEMMA CellOnOnePage ==
  ASSUME NEW l \in Nat, NEW i \in 1 .. l
  PROVE  \E n \in 0 .. (l \div PerCard + 1) - 1 :
           {m \in 0 .. (l \div PerCard + 1) - 1 :
              i \in (m * PerCard + 1) .. ((m + 1) * PerCard)} = {n}
<1>0. PerCard \in Nat \ {0}
  BY VoteNumbers
<1>1. PICK d \in Nat \ {0} : d = PerCard
  BY <1>0
<1>2. PICK n \in Nat, q \in Nat :
        /\ n = (i - 1) \div d /\ n * d <= i - 1 /\ i - 1 < (n + 1) * d
        /\ q = l \div d /\ l < (q + 1) * d
  BY Quotient
<1>3. ASSUME NEW a \in Nat, NEW b \in Nat, a < b PROVE (a + 1) * d <= b * d
  BY <1>3, TimesMonotone
<1>4. n <= q
  <2>1. SUFFICES ASSUME q < n PROVE FALSE
    OBVIOUS
  <2>2. (q + 1) * d <= n * d /\ n * d \in Nat /\ (q + 1) * d \in Nat
    BY <1>3, <2>1
  <2> QED BY <1>2, <2>2
<1>5. \A m \in Nat : i \in (m * d + 1) .. ((m + 1) * d) <=> m = n
  <2>1. TAKE m \in Nat
  <2>2. /\ m * d \in Nat /\ (m + 1) * d \in Nat
        /\ n * d \in Nat /\ (n + 1) * d \in Nat
    OBVIOUS
  <2>3. CASE m < n
    <3>1. (m + 1) * d <= n * d
      BY <1>3, <2>3
    <3> QED BY <1>2, <2>2, <2>3, <3>1
  <2>4. CASE n < m
    <3>1. (n + 1) * d <= m * d
      BY <1>3, <2>4
    <3> QED BY <1>2, <2>2, <2>4, <3>1
  <2>5. CASE m = n
    BY <1>2, <2>2, <2>5
  <2> QED BY <2>3, <2>4, <2>5
<1>6. {m \in 0 .. (q + 1) - 1 : i \in (m * d + 1) .. ((m + 1) * d)} = {n}
  BY <1>4, <1>5
<1>7. n \in 0 .. (q + 1) - 1
  BY <1>4
<1> QED BY <1>1, <1>2, <1>6, <1>7

\* The delegates on a card, each once.
LEMMA CardIsSequence ==
  ASSUME NEW S \in SUBSET {"me", "other"}
  PROVE  /\ SetToSeq(S) \in Seq(S) /\ Len(SetToSeq(S)) = Cardinality(S)
         /\ \A i, j \in DOMAIN SetToSeq(S) :
              SetToSeq(S)[i] = SetToSeq(S)[j] => i = j
         /\ Cardinality(S) = (IF "me" \in S THEN 1 ELSE 0)
                             + (IF "other" \in S THEN 1 ELSE 0)
<1>1. /\ IsFiniteSet({"me"}) /\ Cardinality({"me"}) = 1
      /\ IsFiniteSet({"other"}) /\ Cardinality({"other"}) = 1
      /\ IsFiniteSet({}) /\ Cardinality({}) = 0
  BY FS_Singleton, FS_EmptySet
<1>2. IsFiniteSet({"me"} \cup {"other"})
      /\ Cardinality({"me"} \cup {"other"}) = 2
  BY <1>1, FS_AddElement
<1>3. S \in {{}, {"me"}, {"other"}, {"me"} \cup {"other"}}
  OBVIOUS
<1>4. /\ IsFiniteSet(S)
      /\ Cardinality(S) = (IF "me" \in S THEN 1 ELSE 0)
                          + (IF "other" \in S THEN 1 ELSE 0)
  <2>1. CASE S = {}
    BY <1>1, <2>1
  <2>2. CASE S = {"me"}
    BY <1>1, <2>2
  <2>3. CASE S = {"other"}
    BY <1>1, <2>3
  <2>4. CASE S = {"me"} \cup {"other"}
    <3>1. "me" \in S /\ "other" \in S
      BY <2>4
    <3> QED BY <1>2, <2>4, <3>1
  <2> QED BY <1>3, <2>1, <2>2, <2>3, <2>4
<1>5. PICK n \in Nat : n = Cardinality(S) /\ ExistsBijection(1 .. n, S)
  BY <1>4, FS_CardinalityType
<1>6. \E f \in [1 .. n -> S] : IsInjective(f)
  BY <1>5 DEF ExistsBijection, Bijection, Injection
<1>7. SetToSeq(S) \in [1 .. n -> S] /\ IsInjective(SetToSeq(S))
  BY <1>5, <1>6 DEF SetToSeq
<1>8. SetToSeq(S) \in Seq(S) /\ Len(SetToSeq(S)) = n
  BY <1>7
<1> QED BY <1>4, <1>5, <1>7, <1>8 DEF IsInjective

\* The delegates that voted for one side, as the page knows them.
VotersFor(support) == {v[1] : v \in {w \in voters.votes : w[2] = support}}

LEMMA VotersShownOnce ==
  ASSUME VotersSound, NEW support \in 0 .. 2
  PROVE  LET cells == CardVotes(support) IN
         /\ Len(cells) = (IF <<"me", support>> \in voters.votes THEN 1 ELSE 0)
                        + (IF <<"other", support>> \in voters.votes THEN 1 ELSE 0)
         /\ \A v \in Range(cells) :
              Cardinality({n \in 0 .. NumPages(cells) - 1 :
                             v \in Content(cells, n)}) = 1
<1> DEFINE S == VotersFor(support)
           s == CardVotes(support)
<1>0. voters.votes \in SUBSET ({"me", "other"} \X (0 .. 2))
  BY DEF VotersSound
<1>1. S \in SUBSET {"me", "other"}
  BY <1>0 DEF VotersFor
<1>2. /\ "me" \in S <=> <<"me", support>> \in voters.votes
      /\ "other" \in S <=> <<"other", support>> \in voters.votes
  BY <1>0 DEF VotersFor
<1>3. s = SetToSeq(S)
  BY DEF CardVotes, VotersFor
<1> HIDE DEF S
<1>4. /\ s \in Seq(S) /\ Len(s) = Cardinality(S)
      /\ \A i, j \in DOMAIN s : s[i] = s[j] => i = j
      /\ Cardinality(S) = (IF "me" \in S THEN 1 ELSE 0)
                          + (IF "other" \in S THEN 1 ELSE 0)
  BY <1>1, <1>3, CardIsSequence
<1> HIDE DEF s
<1>5. ASSUME NEW v \in Range(s)
      PROVE  Cardinality({n \in 0 .. NumPages(s) - 1 : v \in Content(s, n)}) = 1
  <2>1. PICK i \in 1 .. Len(s) : v = s[i]
    BY <1>4 DEF Range
  <2>2. \A n \in 0 .. NumPages(s) - 1 :
          v \in Content(s, n) <=>
            i \in (n * PerCard + 1) .. ((n + 1) * PerCard)
    BY <1>4, <2>1 DEF Content
  <2>3. PICK n \in 0 .. NumPages(s) - 1 :
          {m \in 0 .. NumPages(s) - 1 :
             i \in (m * PerCard + 1) .. ((m + 1) * PerCard)} = {n}
    <3>1. PICK l \in Nat : l = Len(s)
      BY <1>4
    <3>2. i \in 1 .. l /\ NumPages(s) = l \div PerCard + 1
      BY <3>1 DEF NumPages
    <3> QED BY <3>2, CellOnOnePage
  <2>4. {m \in 0 .. NumPages(s) - 1 : v \in Content(s, m)} = {n}
    BY <2>2, <2>3
  <2> QED BY <2>4, FS_Singleton
<1>6. Len(s) = (IF <<"me", support>> \in voters.votes THEN 1 ELSE 0)
               + (IF <<"other", support>> \in voters.votes THEN 1 ELSE 0)
  BY <1>2, <1>4
<1> QED BY <1>5, <1>6 DEF s

LEMMA VoteInvInit ==
  ASSUME VoteInit
  PROVE  VoteInv
<1>0. 1 < StartBlock
  BY VoteNumbers
<1>1. prop = NewProp /\ NewProp \in Props /\ block = 1
  BY DEF VoteInit, NewProp, Props
<1>2. /\ prop.voted = {} /\ ~prop.canceled /\ ~prop.vetoed /\ ~prop.executed
      /\ prop.eta = NoETA /\ prop.for = 0 /\ prop.against = 0
      /\ prop.abstain = 0
  BY <1>1 DEF NewProp
<1>3. \A k \in 0 .. 2 : Tally(k) = 0
  BY <1>2 DEF Tally, Cast
<1>4. PropSound
  BY <1>1, <1>2, <1>3 DEF PropSound
<1>5. /\ DOMAIN index = {"proposals", "votes", "queued", "count"}
      /\ DOMAIN index.proposals = {1} /\ index.votes = <<>>
  BY DEF VoteInit, HandleProposalCreated, EmptyStore, Created
<1>6. Entity = [proposer |-> "proposer", createdBlock |-> 1,
                startBlock |-> StartBlock, endBlock |-> EndBlock,
                quorumVotes |-> QuorumVotes, forVotes |-> 0,
                againstVotes |-> 0, abstainVotes |-> 0, eta |-> NoETA,
                status |-> "PENDING"]
  BY <1>0, VoteNumbers
  DEF VoteInit, HandleProposalCreated, EmptyStore, Created, Entity
<1>7. Entity \in Entities /\ Entity.status = "PENDING" /\ Entity.eta = NoETA
      /\ Entity.forVotes = 0 /\ Entity.againstVotes = 0
      /\ Entity.abstainVotes = 0
  BY <1>6 DEF Entities
<1>8. IndexSound
  BY <1>2, <1>5, <1>7 DEF IndexSound, StatusFollows
<1>9. ReadSound
  <2>1. view = [block |-> 0, prop |-> NewProp] /\ source = "none"
        /\ snapshot = Entity
    BY DEF VoteInit, Entity, NoBlock
  <2> QED BY <1>1, <1>7, <2>1 DEF ReadSound
<1>10. VotersSound
  <2>1. voters = [answered |-> FALSE, votes |-> {}]
    BY DEF VoteInit
  <2>2. /\ card \in [visit : {"reads", "votes", "moves"},
                     delegateView : BOOLEAN, page : Nat]
        /\ card.page = 0
    <3>1. card \in [visit : {"reads", "votes", "moves"},
                    delegateView : {FALSE}, page : {0}]
      BY DEF VoteInit
    <3>2. {FALSE} \subseteq BOOLEAN /\ {0} \subseteq Nat
      OBVIOUS
    <3>3. \A B, N : B \subseteq BOOLEAN /\ N \subseteq Nat =>
            [visit : {"reads", "votes", "moves"}, delegateView : B, page : N]
            \subseteq [visit : {"reads", "votes", "moves"},
                       delegateView : BOOLEAN, page : Nat]
      OBVIOUS
    <3>4. card.page \in {0}
      BY <3>1
    <3> QED BY <3>1, <3>2, <3>3, <3>4
  <2>3. VotersFor(1) = {}
    BY <2>1 DEF VotersFor
  <2>4. Len(CardVotes(1)) \in Nat
    BY <2>3, CardIsSequence DEF CardVotes, VotersFor
  <2>5. card.page * PerCard <= Len(CardVotes(1))
    BY <2>2, <2>4, VoteNumbers
  <2> QED BY <2>1, <2>2, <2>5 DEF VotersSound
<1>11. SentSound
  BY DEF VoteInit, SentSound, NewModal, Modals
<1> QED BY <1>4, <1>8, <1>9, <1>10, <1>11 DEF VoteInv

\* A step of the chain, which the page does not see.
LEMMA ChainStepKeeps ==
  ASSUME VoteInv, block' = block + 1, ChainSound', BallotsKept,
         UNCHANGED votePage, sent' \in Seq(Transactions),
         \A i \in DOMAIN sent' :
           sent'[i].call = "castVote" /\ sent'[i].status = "mined"
           => "me" \in prop'.voted
  PROVE  VoteInv'
<1>1. ReadSound'
  <2>1. /\ view \in [block : Nat, prop : Props] /\ view.block <= block
        /\ block \in Nat /\ StartBlock \in Nat /\ EndBlock \in Nat
    BY VoteNumbers DEF VoteInv, ReadSound, PropSound
  <2>2. view'.block <= block' /\ view'.block # block'
    BY <2>1 DEF votePage
  <2> QED BY <2>1, <2>2 DEF VoteInv, ReadSound, votePage
<1>2. VotersSound'
  <2>1. \A w \in voters.votes : w[1] \in prop'.voted /\ w[2] = Ballot(w[1])'
    BY DEF VoteInv, VotersSound, BallotsKept, Ballot
  <2>2. Len(CardVotes(1))' = Len(CardVotes(1))
    BY DEF CardVotes, votePage
  <2> QED BY <2>1, <2>2 DEF VoteInv, VotersSound, votePage
<1>3. SentSound'
  BY DEF VoteInv, SentSound, votePage, BallotsKept
<1> QED BY <1>1, <1>2, <1>3 DEF VoteInv, ChainSound

\* A step of the page, which the chain does not see.
LEMMA PageOnly ==
  ASSUME VoteInv, UNCHANGED voteChain
  PROVE  /\ PropSound' /\ IndexSound'
         /\ UNCHANGED <<view, source, snapshot>> => ReadSound'
         /\ UNCHANGED <<voters, card>> => VotersSound'
         /\ UNCHANGED <<modal, sent>> => SentSound'
<1>1. PropSound'
  BY DEF VoteInv, voteChain, PropSound, Tally, Cast, Ballot
<1>2. IndexSound'
  BY DEF VoteInv, voteChain, IndexSound, Entity, StatusFollows
<1>3. UNCHANGED <<view, source, snapshot>> => ReadSound'
  BY DEF VoteInv, voteChain, ReadSound
<1>4. UNCHANGED <<voters, card>> => VotersSound'
  BY DEF VoteInv, voteChain, VotersSound, Ballot, CardVotes
<1>5. UNCHANGED <<modal, sent>> => SentSound'
  BY DEF VoteInv, voteChain, SentSound
<1> QED BY <1>1, <1>2, <1>3, <1>4, <1>5

LEMMA OthersKeep ==
  ASSUME VoteInv, Others
  PROVE  VoteInv'
<1>1. block' = block + 1 /\ UNCHANGED votePage /\ UNCHANGED sent
  BY DEF Others, NewBlock
<1>2. ChainSound
  BY DEF VoteInv, ChainSound
<1>3. \/ \E voter \in {"me", "other"}, support \in 0 .. 2 :
           Voting(voter, support)
      \/ Canceling \/ Vetoing \/ UNCHANGED <<prop, index>>
  BY DEF Others
<1>4. ChainSound' /\ BallotsKept
  BY <1>1, <1>2, <1>3, VotingKeeps, CancelingKeeps, VetoingKeeps,
     EmptyBlockKeeps
<1>5. /\ sent' \in Seq(Transactions)
      /\ \A i \in DOMAIN sent' :
           sent'[i].call = "castVote" /\ sent'[i].status = "mined"
           => "me" \in prop'.voted
  BY <1>1, <1>4 DEF VoteInv, SentSound, BallotsKept
<1> QED BY <1>1, <1>4, <1>5, ChainStepKeeps

\* A transaction of the user's gets another status.
LEMMA SentType ==
  ASSUME sent \in Seq(Transactions), NEW i \in DOMAIN sent,
         NEW status \in {"PendingSignature", "Mining", "Exception", "mined",
                         "reverted", "done"},
         sent' = [sent EXCEPT ![i].status = status]
  PROVE  /\ sent' \in Seq(Transactions) /\ DOMAIN sent' = DOMAIN sent
         /\ sent'[i].status = status /\ sent'[i].call = sent[i].call
         /\ \A j \in DOMAIN sent : j # i => sent'[j] = sent[j]
<1>1. sent[i] \in Transactions
  OBVIOUS
<1>2. PICK t : t = [sent[i] EXCEPT !.status = status]
  OBVIOUS
<1>3. t \in Transactions /\ t.status = status /\ t.call = sent[i].call
  BY <1>1, <1>2 DEF Transactions
<1>4. sent' = [sent EXCEPT ![i] = t]
  BY <1>2
<1> QED BY <1>3, <1>4

LEMMA MineVoteTxKeeps ==
  ASSUME VoteInv, NEW i \in DOMAIN sent, MineVoteTx(i)
  PROVE  VoteInv'
<1>1. block' = block + 1 /\ UNCHANGED votePage
  BY DEF MineVoteTx, NewBlock
<1>2. /\ ChainSound /\ sent \in Seq(Transactions)
      /\ \A j \in DOMAIN sent :
           sent[j].call = "castVote" /\ sent[j].status = "mined"
           => "me" \in prop.voted
  BY DEF VoteInv, ChainSound, SentSound
<1>3. sent[i] \in Transactions
  BY <1>2
<1>4. sent[i].support \in 0 .. 2
  BY <1>3 DEF Transactions
<1>5. CASE Applied(sent[i]) /\ sent' = [sent EXCEPT ![i].status = "mined"]
  <2>1. ChainSound' /\ BallotsKept
    BY <1>1, <1>2, <1>4, <1>5, VotingKeeps, QueueingKeeps, ExecutingKeeps
    DEF Applied
  <2>2. sent[i].call = "castVote" => "me" \in prop'.voted
    <3>1. sent[i].call = "castVote" => Voting("me", sent[i].support)
      BY <1>5 DEF Applied
    <3>2. prop \in Props
      BY <1>2, ChainTypes
    <3>3. DOMAIN prop = {"for", "against", "abstain", "voted", "canceled",
                         "vetoed", "executed", "eta"}
      BY <3>2 DEF Props
    <3>4. ASSUME Voting("me", sent[i].support)
          PROVE  prop'.voted = prop.voted \cup {"me"}
      BY <3>3, <3>4 DEF Voting
    <3> QED BY <3>1, <3>4
  <2>3. \A j \in DOMAIN sent' :
          sent'[j].call = "castVote" /\ sent'[j].status = "mined"
          => "me" \in prop'.voted
    BY <1>2, <1>5, <2>1, <2>2, SentType DEF BallotsKept
  <2>4. sent' \in Seq(Transactions)
    BY <1>2, <1>5, SentType
  <2> QED BY <1>1, <2>1, <2>3, <2>4, ChainStepKeeps
<1>6. CASE /\ sent' = [sent EXCEPT ![i].status = "reverted"]
           /\ UNCHANGED <<prop, index>>
  <2>1. ChainSound' /\ BallotsKept
    BY <1>1, <1>2, <1>6, EmptyBlockKeeps
  <2>3. \A j \in DOMAIN sent' :
          sent'[j].call = "castVote" /\ sent'[j].status = "mined"
          => "me" \in prop'.voted
    BY <1>2, <1>6, SentType
  <2>4. sent' \in Seq(Transactions)
    BY <1>2, <1>6, SentType
  <2> QED BY <1>1, <2>1, <2>3, <2>4, ChainStepKeeps
<1> QED BY <1>5, <1>6 DEF MineVoteTx

LEMMA FetchProposalKeeps ==
  ASSUME VoteInv, FetchProposal
  PROVE  VoteInv'
<1>0. UNCHANGED <<voteChain, view, voters, card, modal, moving, sent>>
  BY DEF FetchProposal
<1>1. Entity \in Entities
  BY DEF VoteInv, IndexSound
<1>2. Entity.status = "ACTIVE" => block > StartBlock
  BY DEF VoteInv, IndexSound, StatusFollows, PropSound, Props
<1>3. Entity.status = "QUEUED" => block > EndBlock
  BY DEF VoteInv, IndexSound, StatusFollows, PropSound, Props
<1>4. source' \in {"subgraph", "chain"} /\ snapshot' \in {snapshot, Entity}
  BY DEF FetchProposal, Entity
<1>5. ReadSound'
  BY <1>0, <1>1, <1>2, <1>3, <1>4 DEF VoteInv, ReadSound, voteChain
<1> QED BY <1>0, <1>5, PageOnly DEF VoteInv, voteChain

LEMMA FetchVotersKeeps ==
  ASSUME VoteInv, FetchVoters
  PROVE  VoteInv'
<1>0. /\ UNCHANGED <<voteChain, view, source, snapshot, card, modal, moving, sent>>
      /\ voters' = [answered |-> TRUE, votes |-> VotesAnswer]
      /\ ~voters.answered
  BY DEF FetchVoters
<1>1. /\ DOMAIN index.votes = {<<v, 1>> : v \in prop.voted}
      /\ \A v \in prop.voted :
           index.votes[<<v, 1>>] \in [votes : {1}, support : 0 .. 2]
      /\ prop.voted \subseteq {"me", "other"}
  BY DEF VoteInv, IndexSound, PropSound, Props
<1>2. VotesAnswer \in SUBSET ({"me", "other"} \X (0 .. 2))
  BY <1>1 DEF VotesAnswer
<1>3. \A w \in VotesAnswer : w[1] \in prop.voted /\ w[2] = Ballot(w[1])
  BY <1>1 DEF VotesAnswer, Ballot
<1>4. /\ card \in [visit : {"reads", "votes", "moves"},
                   delegateView : BOOLEAN, page : Nat]
      /\ card.page = 0
  BY <1>0 DEF VoteInv, VotersSound
<1>5. Len(CardVotes(1)') \in Nat
  <2>1. VotersFor(1)' \in SUBSET {"me", "other"}
    BY <1>0, <1>2 DEF VotersFor
  <2> QED BY <2>1, CardIsSequence DEF CardVotes, VotersFor
<1>6. card'.page * PerCard <= Len(CardVotes(1)')
  <2>1. 0 * PerCard = 0
    BY VoteNumbers
  <2> QED BY <1>0, <1>4, <1>5, <2>1
<1>7. VotersSound'
  <2>1. voters' \in [answered : BOOLEAN,
                     votes : SUBSET ({"me", "other"} \X (0 .. 2))]
        /\ voters'.votes = VotesAnswer /\ voters'.answered
    BY <1>0, <1>2
  <2>2. \A w \in voters'.votes : w[1] \in prop'.voted /\ w[2] = Ballot(w[1])'
    BY <1>0, <1>3, <2>1 DEF Ballot, voteChain
  <2> QED BY <1>0, <1>4, <1>6, <2>1, <2>2 DEF VotersSound
<1> QED BY <1>0, <1>7, PageOnly DEF VoteInv

LEMMA SeeBlockKeeps ==
  ASSUME VoteInv, SeeBlock
  PROVE  VoteInv'
<1>0. /\ UNCHANGED <<voteChain, source, snapshot, voters, card, moving, sent>>
      /\ view' = [block |-> block, prop |-> prop]
      /\ modal' = Rendered(modal)
  BY DEF SeeBlock
<1>1. ReadSound'
  BY <1>0 DEF VoteInv, ReadSound, PropSound, voteChain
<1>2. SentSound'
  <2>1. modal \in Modals
    BY DEF VoteInv, SentSound
  <2>2. modal' \in Modals /\ modal'.success = modal.success
    BY <1>0, <2>1 DEF Rendered, Modals
  <2> QED BY <1>0, <2>2 DEF VoteInv, SentSound, voteChain
<1> QED BY <1>0, <1>1, <1>2, PageOnly DEF VoteInv

LEMMA CardKept ==
  ASSUME VoteInv, voters.answered,
         UNCHANGED <<voteChain, view, source, snapshot, voters, modal, moving, sent>>,
         card' \in [visit : {"reads", "votes", "moves"},
                    delegateView : BOOLEAN, page : Nat],
         card'.page * PerCard <= Len(CardVotes(1))
  PROVE  VoteInv'
<1>1. Len(CardVotes(1))' = Len(CardVotes(1))
  BY DEF CardVotes
<1>2. VotersSound'
  BY <1>1 DEF VoteInv, VotersSound, Ballot, voteChain
<1> QED BY <1>2, PageOnly DEF VoteInv

\* The arrows stay between the first page and the last one.
LEMMA TurnPageKeeps ==
  ASSUME VoteInv, TurnPage \/ ToggleView
  PROVE  VoteInv'
<1>0. /\ UNCHANGED <<voteChain, view, source, snapshot, voters, modal, moving, sent>>
      /\ voters.answered
  BY DEF TurnPage, ToggleView, Ready
<1>1. /\ card \in [visit : {"reads", "votes", "moves"},
                   delegateView : BOOLEAN, page : Nat]
      /\ card.page * PerCard <= Len(CardVotes(1))
      /\ card.page \in Nat /\ PerCard \in Nat /\ Len(CardVotes(1)) \in Nat
  <2>1. VotersFor(1) \in SUBSET {"me", "other"}
    BY DEF VoteInv, VotersSound, VotersFor
  <2>2. Len(CardVotes(1)) \in Nat
    BY <2>1, CardIsSequence DEF CardVotes, VotersFor
  <2> QED BY <2>2, VoteNumbers DEF VoteInv, VotersSound
<1>2. CASE ToggleView
  <2>1. card' = [card EXCEPT !.delegateView = ~@, !.page = 0]
    BY <1>2 DEF ToggleView
  <2>2. /\ card' \in [visit : {"reads", "votes", "moves"},
                      delegateView : BOOLEAN, page : Nat]
        /\ card'.page = 0
    BY <1>1, <2>1
  <2>3. card'.page * PerCard <= Len(CardVotes(1))
    BY <1>1, <2>2
  <2> QED BY <1>0, <2>2, <2>3, CardKept
<1>3. CASE TurnPage
  <2>1. \/ /\ (card.page + 1) * PerCard <= Len(CardVotes(1))
           /\ card' = [card EXCEPT !.page = @ + 1]
        \/ card.page # 0 /\ card' = [card EXCEPT !.page = @ - 1]
    BY <1>3 DEF TurnPage
  <2>2. CASE /\ (card.page + 1) * PerCard <= Len(CardVotes(1))
             /\ card' = [card EXCEPT !.page = @ + 1]
    <3>1. /\ card' \in [visit : {"reads", "votes", "moves"},
                        delegateView : BOOLEAN, page : Nat]
          /\ card'.page = card.page + 1
      BY <1>1, <2>2
    <3> QED BY <1>0, <2>2, <3>1, CardKept
  <2>3. CASE card.page # 0 /\ card' = [card EXCEPT !.page = @ - 1]
    <3>1. /\ card' \in [visit : {"reads", "votes", "moves"},
                        delegateView : BOOLEAN, page : Nat]
          /\ card'.page = card.page - 1
      BY <1>1, <2>3
    <3>2. (card.page - 1) * PerCard <= card.page * PerCard
      BY <1>1, TimesMonotone
    <3>3. (card.page - 1) * PerCard \in Int /\ card.page * PerCard \in Int
      BY <1>1
    <3>4. card'.page * PerCard <= Len(CardVotes(1))
      BY <1>1, <3>1, <3>2, <3>3
    <3> QED BY <1>0, <3>1, <3>4, CardKept
  <2> QED BY <2>1, <2>2, <2>3
<1> QED BY <1>2, <1>3

LEMMA ModalType ==
  ASSUME VoteInv
  PROVE  /\ modal \in Modals
         /\ \A m \in Modals :
              Rendered(m) \in Modals /\ Rendered(m).success = m.success
BY DEF VoteInv, SentSound, Rendered, Modals

\* The dialog and the user's transactions.
LEMMA ModalKeeps ==
  ASSUME VoteInv, OpenModal \/ CloseModal \/ DismissModal
  PROVE  VoteInv'
<1>0. UNCHANGED <<voteChain, view, source, snapshot, voters, card, moving, sent>>
  BY DEF OpenModal, CloseModal, DismissModal
<1>1. PICK m \in Modals : m.success = modal.success /\ modal' \in {m, Rendered(m)}
  <2>1. CASE OpenModal
    <3>1. PICK m : m = [modal EXCEPT !.show = TRUE]
      OBVIOUS
    <3>2. m \in Modals /\ m.success = modal.success
      BY <3>1, ModalType DEF Modals
    <3> QED BY <2>1, <3>1, <3>2 DEF OpenModal
  <2>2. CASE CloseModal
    <3>1. PICK m : m = [modal EXCEPT !.show = FALSE, !.failed = FALSE,
                                     !.timer = FALSE]
      OBVIOUS
    <3>2. m \in Modals /\ m.success = modal.success
      BY <3>1, ModalType DEF Modals
    <3> QED BY <2>2, <3>1, <3>2 DEF CloseModal
  <2>3. CASE DismissModal
    <3>1. PICK m : m = [modal EXCEPT !.show = FALSE, !.loading = FALSE,
                                     !.failed = FALSE]
      OBVIOUS
    <3>2. m \in Modals /\ m.success = modal.success
      BY <3>1, ModalType DEF Modals
    <3> QED BY <2>3, <3>1, <3>2 DEF DismissModal
  <2> QED BY <2>1, <2>2, <2>3
<1>2. modal' \in Modals /\ modal'.success = modal.success
  BY <1>1, ModalType
<1>3. SentSound'
  BY <1>0, <1>2 DEF VoteInv, SentSound, voteChain
<1> QED BY <1>0, <1>3, PageOnly DEF VoteInv

LEMMA SendKeeps ==
  ASSUME VoteInv, (\E support \in MySupports : SubmitVote(support)) \/ MoveState
  PROVE  VoteInv'
<1>0. UNCHANGED <<voteChain, view, source, snapshot, voters, card, moving>>
  BY DEF SubmitVote, MoveState, votePage
<1>1. modal' \in Modals /\ modal'.success = modal.success
  BY ModalType DEF SubmitVote, MoveState, votePage, Modals
<1>2. PICK call \in {"castVote", "queue", "execute"}, support \in 0 .. 2 :
        sent' = Append(sent, [call |-> call, support |-> support,
                              status |-> "PendingSignature"])
  <2>1. ASSUME NEW support \in MySupports, SubmitVote(support)
        PROVE  /\ support \in 0 .. 2
               /\ sent' = Append(sent, [call |-> "castVote",
                                        support |-> support,
                                        status |-> "PendingSignature"])
    BY <2>1, VoteNumbers DEF SubmitVote, Send
  <2>2. ASSUME MoveState
        PROVE  \E call \in {"castVote", "queue", "execute"},
                  support \in 0 .. 2 :
                 sent' = Append(sent, [call |-> call, support |-> support,
                                       status |-> "PendingSignature"])
    <3>1. PICK call \in {"queue", "execute"} :
            sent' = Append(sent, [call |-> call, support |-> 0,
                                  status |-> "PendingSignature"])
      BY <2>2 DEF MoveState, Send
    <3>2. call \in {"castVote", "queue", "execute"} /\ 0 \in 0 .. 2
      OBVIOUS
    <3> QED BY <3>1, <3>2, Zenon
  <2>3. CASE \E support \in MySupports : SubmitVote(support)
    <3>1. PICK support \in MySupports : SubmitVote(support)
      BY <2>3
    <3>2. "castVote" \in {"castVote", "queue", "execute"}
      OBVIOUS
    <3> QED BY <2>1, <3>1, <3>2, Zenon
  <2> QED BY <2>2, <2>3
<1>3. PICK t \in Transactions : sent' = Append(sent, t) /\ t.status # "mined"
  BY <1>2 DEF Transactions
<1>4. sent \in Seq(Transactions)
  BY DEF VoteInv, SentSound
<1>5. /\ sent' \in Seq(Transactions)
      /\ \A i \in DOMAIN sent' :
           (i \in DOMAIN sent /\ sent'[i] = sent[i]) \/ sent'[i] = t
  BY <1>3, <1>4
<1>6. SentSound'
  BY <1>0, <1>1, <1>3, <1>5 DEF VoteInv, SentSound, voteChain
<1> QED BY <1>0, <1>6, PageOnly DEF VoteInv

\* Success is told of a vote that was mined.
LEMMA HookKeeps ==
  ASSUME VoteInv, NEW i \in DOMAIN sent, AnswerWallet(i) \/ ReceiveReceipt(i)
  PROVE  VoteInv'
<1>0. /\ UNCHANGED <<voteChain, view, source, snapshot, voters, card>>
      /\ sent \in Seq(Transactions)
  BY DEF AnswerWallet, ReceiveReceipt, VoteInv, SentSound
<1>1. PICK old \in {"Mining", "Exception", "Success", "Fail"},
           new \in {"Mining", "Exception", "done"} :
        /\ sent' = [sent EXCEPT ![i].status = new]
        /\ StateChanges(i, old)
        /\ old = "Success" => sent[i].status = "mined"
  <2>1. CASE AnswerWallet(i)
    BY <2>1 DEF AnswerWallet
  <2>2. CASE ReceiveReceipt(i)
    BY <2>2 DEF ReceiveReceipt
  <2> QED BY <2>1, <2>2
<1>2. modal' \in Modals /\ (modal'.success => "me" \in prop.voted)
  <2>1. CASE sent[i].call # "castVote"
    <3>1. modal' = Rendered(modal)
      BY <1>1, <2>1 DEF StateChanges
    <3> QED BY <3>1, ModalType DEF VoteInv, SentSound
  <2>2. CASE sent[i].call = "castVote"
    <3>1. modal' = HandleVoteStateChange(modal, old)
      BY <1>1, <2>2 DEF StateChanges
    <3>2. CASE old = "Success"
      <4>1. "me" \in prop.voted
        BY <1>1, <2>2, <3>2 DEF VoteInv, SentSound
      <4>2. PICK m : m = [modal EXCEPT !.loading = FALSE, !.success = TRUE]
        OBVIOUS
      <4>3. m \in Modals
        BY <4>2, ModalType DEF Modals
      <4>4. modal' = Rendered(m)
        BY <3>1, <3>2, <4>2 DEF HandleVoteStateChange
      <4> QED BY <4>1, <4>3, <4>4, ModalType
    <3>3. CASE old = "Mining"
      <4>1. modal' = [modal EXCEPT !.loading = TRUE]
        BY <3>1, <3>3 DEF HandleVoteStateChange
      <4>2. modal' \in Modals /\ modal'.success = modal.success
        BY <4>1, ModalType DEF Modals
      <4> QED BY <4>2 DEF VoteInv, SentSound
    <3>4. CASE old \in {"Fail", "Exception"}
      <4>1. modal' = [modal EXCEPT !.loading = FALSE, !.failed = TRUE]
        BY <3>1, <3>4 DEF HandleVoteStateChange
      <4>2. modal' \in Modals /\ modal'.success = modal.success
        BY <4>1, ModalType DEF Modals
      <4> QED BY <4>2 DEF VoteInv, SentSound
    <3> QED BY <1>1, <3>2, <3>3, <3>4
  <2> QED BY <2>1, <2>2
<1>3. /\ sent' \in Seq(Transactions)
      /\ DOMAIN sent' = DOMAIN sent
      /\ \A j \in DOMAIN sent :
           sent'[j] = sent[j] \/ sent'[j].status = new
  BY <1>0, <1>1, SentType
<1>4. SentSound'
  BY <1>0, <1>2, <1>3 DEF VoteInv, SentSound, voteChain
<1> QED BY <1>0, <1>4, PageOnly DEF VoteInv

LEMMA VoteInvKept ==
  ASSUME VoteInv, VoteNext
  PROVE  VoteInv'
BY OthersKeep, FetchProposalKeeps, FetchVotersKeeps, SeeBlockKeeps,
   TurnPageKeeps, ModalKeeps, SendKeeps, HookKeeps, MineVoteTxKeeps
DEF VoteNext

-----------------------------------------------------------------------------
(* What the page says.                                                     *)

LEMMA StatusAgreesHolds ==
  ASSUME VoteInv
  PROVE  StatusAgrees
<1>0. block \in Nat /\ EndBlock \in Nat
  BY VoteNumbers DEF VoteInv, PropSound
<1> SUFFICES ASSUME source = "subgraph", snapshot = Entity,
                      view.block = block,
                      ~(prop.voted = {} /\ block > EndBlock),
                      ~(prop.vetoed /\ prop.canceled)
               PROVE  GetProposalState(block, Entity) = DaoState(prop, block)
  BY Zenon DEF StatusAgrees, Status, Entity
<1>1. ChainSound /\ NoETA = -1
  BY DEF VoteInv, ChainSound, NoETA
<1>2. /\ block \in Nat \ {0} /\ prop \in Props /\ Entity \in Entities
      /\ prop.for \in Nat /\ prop.against \in Nat
      /\ prop.eta \in Nat \cup {NoETA}
      /\ prop.executed => prop.eta # NoETA
      /\ prop.eta # NoETA =>
           /\ block > EndBlock /\ prop.voted # {}
           /\ prop.for > prop.against /\ prop.for >= QuorumVotes
      /\ prop.voted # {} => block > StartBlock
  BY <1>1, ChainTypes DEF VoteInv, PropSound
<1>3. /\ Entity.startBlock = StartBlock /\ Entity.endBlock = EndBlock
      /\ Entity.quorumVotes = QuorumVotes
      /\ Entity.forVotes = prop.for /\ Entity.againstVotes = prop.against
  BY DEF VoteInv, IndexSound, Entities
<1>4. StatusFollows
  BY DEF VoteInv, IndexSound
<1>5. block # NoBlock
  BY <1>2 DEF NoBlock
<1>6. CASE prop.vetoed
  BY <1>2, <1>4, <1>6 DEF StatusFollows, GetProposalState, DaoState, Props
<1>7. CASE prop.canceled /\ ~prop.vetoed
  BY <1>2, <1>4, <1>7 DEF StatusFollows, GetProposalState, DaoState, Props
<1>8. CASE ~prop.canceled /\ ~prop.vetoed
  <2>1. CASE prop.executed
    BY <1>2, <1>4, <1>8, <2>1, VoteNumbers
    DEF StatusFollows, GetProposalState, DaoState, Props
  <2>2. CASE ~prop.executed /\ prop.eta # NoETA
    BY <1>2, <1>4, <1>5, <1>8, <2>2, VoteNumbers
    DEF StatusFollows, GetProposalState, DaoState, Props
  <2>3. CASE ~prop.executed /\ prop.eta = NoETA
    BY <1>2, <1>3, <1>4, <1>5, <1>8, <2>3, VoteNumbers
    DEF StatusFollows, GetProposalState, DaoState, Props
  <2> QED BY <2>1, <2>2, <2>3
<1> QED BY <1>6, <1>7, <1>8

LEMMA VoteOfferedInTimeHolds ==
  ASSUME VoteInv
  PROVE  VoteOfferedInTime
<1>1. block \in Nat
  BY DEF VoteInv, PropSound
<1> QED
  BY <1>1, VoteNumbers
  DEF VoteOfferedInTime, VoteOffered, IsActiveForVoting, DaoState

\* What the DAO says of a proposal that is neither canceled nor vetoed.
LEMMA DaoDates ==
  ASSUME NEW p \in Props, NEW b \in Nat, ~p.canceled, ~p.vetoed
  PROVE  /\ b <= StartBlock => DaoState(p, b) = "PENDING"
         /\ StartBlock < b /\ b <= EndBlock => DaoState(p, b) = "ACTIVE"
         /\ EndBlock < b => DaoState(p, b) \notin {"PENDING", "ACTIVE"}
BY VoteNumbers DEF DaoState, Props

\* What the page makes of the number of a block.
LEMMA CopyDates ==
  ASSUME NEW clock \in BOOLEAN, view.block = block, block \in Nat \ {0}
  PROVE  /\ StartOrEndTimeCopy(clock) = "Ends" =>
              StartBlock <= block /\ block < EndBlock
         /\ StartOrEndTimeCopy(clock) = "Ended" => EndBlock <= block
         /\ block < StartBlock => CountdownCopy(clock) = "Starts"
         /\ StartBlock < block /\ block < EndBlock =>
              CountdownCopy(clock) = "Ends"
         /\ EndBlock < block => CountdownCopy(clock) = "Expires"
<1>1. block # NoBlock
  BY DEF NoBlock
<1> QED
  BY <1>1, VoteNumbers
  DEF StartOrEndTimeCopy, CountdownCopy, IsActiveForVoting

\* What the status says of the block, from either source.
LEMMA StatusDates ==
  ASSUME VoteInv, Known, view.block = block, ~prop.canceled, ~prop.vetoed,
         block # StartBlock, block # EndBlock
  PROVE  /\ Status = "PENDING" => block < StartBlock
         /\ Status = "ACTIVE" =>
              \/ StartBlock < block /\ block < EndBlock
              \/ /\ block > EndBlock
                 /\ prop.voted = {} \/ snapshot # Entity
         /\ Status = "QUEUED" => EndBlock < block
<1>0. /\ block \in Nat \ {0} /\ prop \in Props /\ view.prop = prop
      /\ snapshot \in Entities
      /\ snapshot.status = "ACTIVE" => block > StartBlock
      /\ snapshot.status = "QUEUED" => block > EndBlock
  BY DEF VoteInv, PropSound, ReadSound
<1>1. CASE source = "chain"
  <2>1. Status = DaoState(prop, block)
    BY <1>0, <1>1 DEF Status
  <2>2. DaoState(prop, block) = "QUEUED" => EndBlock < block
    BY <1>0, VoteNumbers, DaoDates
  <2> QED BY <1>0, <2>1, <2>2, VoteNumbers, DaoDates
<1>2. CASE source = "subgraph"
  <2>1. Status = GetProposalState(block, snapshot)
    BY <1>2 DEF Status
  <2>2. /\ snapshot.startBlock = StartBlock /\ snapshot.endBlock = EndBlock
        /\ block # NoBlock
    BY <1>0 DEF Entities, NoBlock
  <2>3. CASE snapshot = Entity
    <3>1. \/ Status = DaoState(prop, block)
          \/ prop.voted = {} /\ block > EndBlock
      BY <1>0, <1>2, <2>3, StatusAgreesHolds DEF StatusAgrees, Entity
    <3>2. CASE Status = DaoState(prop, block)
      <4>1. DaoState(prop, block) = "QUEUED" => EndBlock < block
        BY <1>0, VoteNumbers, DaoDates
      <4> QED BY <1>0, <3>2, <4>1, VoteNumbers, DaoDates
    <3>3. CASE prop.voted = {} /\ block > EndBlock
      <4>1. Status # "PENDING"
        BY <1>0, <2>1, <2>2, <3>3, VoteNumbers DEF GetProposalState, Entities
      <4> QED BY <3>3, <4>1
    <3> QED BY <3>1, <3>2, <3>3
  <2>4. CASE snapshot # Entity
    <3>1. Status = "PENDING" => block < StartBlock
      BY <1>0, <2>1, <2>2, VoteNumbers DEF GetProposalState, Entities
    <3>2. Status = "ACTIVE" => StartBlock < block
      BY <1>0, <2>1, <2>2, VoteNumbers DEF GetProposalState, Entities
    <3>3. Status = "QUEUED" => EndBlock < block
      BY <1>0, <2>1, <2>2, VoteNumbers DEF GetProposalState, Entities
    <3> QED BY <1>0, <2>4, <3>1, <3>2, <3>3, VoteNumbers
  <2> QED BY <2>3, <2>4
<1> QED BY <1>1, <1>2 DEF Known

LEMMA DatesAgreeHolds ==
  ASSUME VoteInv
  PROVE  DatesAgree
<1> SUFFICES ASSUME view.block = block, ~prop.canceled, ~prop.vetoed,
                    NEW clock \in BOOLEAN
             PROVE  LET copy == StartOrEndTimeCopy(clock)
                        pill == CountdownCopy(clock)
                        next == DaoState(prop, block + 1)
                    IN /\ copy = "Ends" => next = "ACTIVE"
                       /\ copy = "Ended" => next \notin {"PENDING", "ACTIVE"}
                       /\ /\ Known /\ HasCountdown
                          /\ block \notin {StartBlock, EndBlock}
                          => \/ Status = "PENDING" /\ pill = "Starts"
                             \/ Status = "ACTIVE" /\ pill = "Ends"
                             \/ Status = "QUEUED" /\ pill = "Expires"
                             \/ /\ block > EndBlock
                                /\ prop.voted = {} \/ snapshot # Entity
  BY DEF DatesAgree, Entity
<1>0. block \in Nat \ {0} /\ block + 1 \in Nat /\ prop \in Props
  BY DEF VoteInv, PropSound
<1>1. StartOrEndTimeCopy(clock) = "Ends" => DaoState(prop, block + 1) = "ACTIVE"
  <2>1. StartOrEndTimeCopy(clock) = "Ends" =>
          StartBlock < block + 1 /\ block + 1 <= EndBlock
    BY <1>0, CopyDates, VoteNumbers
  <2> QED BY <1>0, <2>1, DaoDates
<1>2. StartOrEndTimeCopy(clock) = "Ended" =>
        DaoState(prop, block + 1) \notin {"PENDING", "ACTIVE"}
  <2>1. StartOrEndTimeCopy(clock) = "Ended" => EndBlock < block + 1
    BY <1>0, CopyDates, VoteNumbers
  <2> QED BY <1>0, <2>1, DaoDates
<1>3. ASSUME Known, HasCountdown, block \notin {StartBlock, EndBlock}
      PROVE  \/ Status = "PENDING" /\ CountdownCopy(clock) = "Starts"
             \/ Status = "ACTIVE" /\ CountdownCopy(clock) = "Ends"
             \/ Status = "QUEUED" /\ CountdownCopy(clock) = "Expires"
             \/ /\ block > EndBlock
                /\ prop.voted = {} \/ snapshot # Entity
  <2>1. Status \in {"PENDING", "ACTIVE", "QUEUED"}
    BY <1>3 DEF HasCountdown
  <2>2. /\ block < StartBlock => CountdownCopy(clock) = "Starts"
        /\ StartBlock < block /\ block < EndBlock =>
             CountdownCopy(clock) = "Ends"
        /\ EndBlock < block => CountdownCopy(clock) = "Expires"
    BY <1>0, CopyDates
  <2> QED BY <1>3, <2>1, <2>2, StatusDates
<1> QED BY <1>1, <1>2, <1>3

\* The number above a card is the number of delegates on it.
LEMMA VotersShownHolds ==
  ASSUME VoteInv
  PROVE  VotersShown
<1>0. /\ VotersSound /\ IndexSound /\ PropSound /\ ReadSound
  BY DEF VoteInv
<1>1. ASSUME NEW support \in 0 .. 2, Ready,
             IF source = "subgraph" THEN snapshot = Entity ELSE view.prop = prop,
             {v[1] : v \in voters.votes} = prop.voted
      PROVE  VoteCount(support) = Len(CardVotes(support))
  <2>1. VoteCount(support) = Tally(support)
    <3>1. /\ prop.against = Tally(0) /\ prop.for = Tally(1)
          /\ prop.abstain = Tally(2)
          /\ Entity.forVotes = prop.for /\ Entity.againstVotes = prop.against
          /\ Entity.abstainVotes = prop.abstain
      BY <1>0 DEF PropSound, IndexSound
    <3>2. CASE support = 0
      BY <1>1, <3>1, <3>2 DEF VoteCount
    <3>3. CASE support = 1
      BY <1>1, <3>1, <3>3 DEF VoteCount
    <3>4. CASE support = 2
      BY <1>1, <3>1, <3>4 DEF VoteCount
    <3> QED BY <3>2, <3>3, <3>4
  <2>2. /\ voters.votes \in SUBSET ({"me", "other"} \X (0 .. 2))
        /\ \A w \in voters.votes : w[1] \in prop.voted /\ w[2] = Ballot(w[1])
    BY <1>0 DEF VotersSound
  <2>3. \A v \in {"me", "other"} :
          <<v, support>> \in voters.votes <=>
            v \in prop.voted /\ Ballot(v) = support
    <3> TAKE v \in {"me", "other"}
    <3>1. ASSUME <<v, support>> \in voters.votes
          PROVE  v \in prop.voted /\ Ballot(v) = support
      BY <2>2, <3>1
    <3>2. ASSUME v \in prop.voted, Ballot(v) = support
          PROVE  <<v, support>> \in voters.votes
      <4>1. PICK w \in voters.votes : w[1] = v
        BY <1>1, <3>2
      <4>2. w = <<w[1], w[2]>>
        BY <2>2
      <4> QED BY <2>2, <3>2, <4>1, <4>2
    <3> QED BY <3>1, <3>2
  <2>4. Len(CardVotes(support)) = Tally(support)
    BY <1>0, <2>3, VotersShownOnce DEF Tally, Cast
  <2> QED BY <2>1, <2>4
<1>2. card.page < NumPages(CardVotes(1))
  <2>1. /\ card.page \in Nat /\ card.page * PerCard <= Len(CardVotes(1))
        /\ PerCard \in Nat \ {0}
    BY <1>0, VoteNumbers DEF VotersSound
  <2>2. Len(CardVotes(1)) \in Nat
    BY <1>0, VotersShownOnce
  <2>3. PICK l \in Nat, q \in Nat :
          /\ l = Len(CardVotes(1)) /\ q = l \div PerCard
          /\ l < (q + 1) * PerCard
    BY <2>1, <2>2, Quotient
  <2>4. card.page <= q
    <3>1. SUFFICES ASSUME q + 1 <= card.page PROVE FALSE
      BY <2>1
    <3>2. (q + 1) * PerCard <= card.page * PerCard
      BY <2>1, <3>1, TimesMonotone
    <3>3. (q + 1) * PerCard \in Nat /\ card.page * PerCard \in Nat
      BY <2>1
    <3> QED BY <2>1, <2>3, <3>2, <3>3
  <2> QED BY <2>1, <2>3, <2>4 DEF NumPages
<1>3. \A support \in 0 .. 2 :
        \A v \in Range(CardVotes(support)) :
          Cardinality({n \in 0 .. NumPages(CardVotes(support)) - 1 :
                         v \in Content(CardVotes(support), n)}) = 1
  BY <1>0, VotersShownOnce
<1> QED BY <1>1, <1>2, <1>3 DEF VotersShown, Entity

LEMMA VoteTypeOKHolds ==
  ASSUME VoteInv
  PROVE  VoteTypeOK
<1>1. block \in Nat \ {0} /\ view.block \in NoBlock .. block
  BY DEF VoteInv, PropSound, ReadSound, NoBlock
<1>2. source = "subgraph" =>
        Status \in {"UNDETERMINED", "PENDING", "ACTIVE", "CANCELLED",
                    "DEFEATED", "SUCCEEDED", "QUEUED", "EXPIRED", "EXECUTED",
                    "VETOED"}
  <2>1. snapshot \in Entities
    BY DEF VoteInv, ReadSound
  <2> QED BY <2>1 DEF Status, GetProposalState, Entities
<1>3. \A field \in DOMAIN modal : modal[field] \in BOOLEAN
  BY ModalType DEF Modals
<1>4. \A i \in DOMAIN sent :
        sent[i].status \in {"PendingSignature", "Mining", "Exception",
                            "mined", "reverted", "done"}
  <2>1. sent \in Seq(Transactions)
    BY DEF VoteInv, SentSound
  <2>2. \A t \in Transactions :
          t.status \in {"PendingSignature", "Mining", "Exception", "mined",
                        "reverted", "done"}
    BY DEF Transactions
  <2> QED BY <2>1, <2>2
<1> QED BY <1>1, <1>2, <1>3, <1>4, Zenon DEF VoteTypeOK

\* The page of a proposal (pages/Vote with the hooks of wrappers/nDao.ts):
\* its status, dates, offers, cards of voters and messages of success are
\* what the DAO says, as far as what the page has read is not outdated.
THEOREM VotePageSaysWhatIs == Spec => []VotePageExact
<1>1. Init => VoteInv
  BY VoteInvInit DEF Init
<1>2. VoteInv /\ [Next]_vars => VoteInv'
  <2> SUFFICES ASSUME VoteInv, [Next]_vars PROVE VoteInv'
    OBVIOUS
  <2>1. CASE VoteNext
    BY <2>1, VoteInvKept
  <2>2. CASE UNCHANGED voteVars
    BY <2>2, PageOnly DEF voteVars, votePage, VoteInv
  <2> QED
    BY <2>1, <2>2 DEF Next, vars, OnAuction, OnVote, OnList, OnCreate,
                      OnDelegate, OnActivity
<1>3. VoteInv => VotePageExact
  BY VoteTypeOKHolds, StatusAgreesHolds, VoteOfferedInTimeHolds,
     DatesAgreeHolds, VotersShownHolds
  DEF VotePageExact, SuccessIsVoted, VoteInv, SentSound
<1> QED BY <1>1, <1>2, <1>3, PTL DEF Spec

-----------------------------------------------------------------------------
(* The auction page.                                                       *)

Takers == Bidders \cup {NoBidder}
AuctionRecs ==
  [id : Nat, amount : Nat, bidder : Takers, end : Nat, settled : BOOLEAN]
Offers == [id : Nat, sender : Bidders, value : Nat]
Lots == [auction : AuctionRecs, bids : SUBSET Offers]
Events ==
  [type : {"bid"}, bid : Offers, id : Nat]
  \cup [type : {"created"}, id : Nat, end : Nat]
  \cup [type : {"extended"}, id : Nat, end : Nat]
  \cup [type : {"settled"}, id : Nat, winner : Takers, amount : Nat]
Stores ==
  [active : AuctionRecs \cup {NoAuction}, bids : SUBSET Offers,
   last : Nat \cup {None}, shown : Nat \cup {None}, past : SUBSET Nat]

\* The bids of an auction, whose values tell them apart: the highest is the
\* one that the auction shows.
LotSound(id) ==
  LET lot == chain[id] IN
  /\ lot.auction.id = id
  /\ \A b \in lot.bids : b.id = id /\ b.value <= lot.auction.amount
  /\ \A b, c \in lot.bids : b.value = c.value => b = c
  /\ IF lot.bids = {}
     THEN lot.auction.amount = 0 /\ lot.auction.bidder = NoBidder
     ELSE /\ lot.auction.amount >= Reserve
          /\ \E b \in lot.bids : /\ b.value = lot.auction.amount
                                 /\ b.sender = lot.auction.bidder

HouseSound ==
  /\ now \in Nat /\ current \in 1 .. LastAuction
  /\ chain \in [DOMAIN chain -> Lots]
  /\ current \in DOMAIN chain /\ DOMAIN chain \subseteq 1 .. current
  /\ \A id \in DOMAIN chain : LotSound(id)
  /\ lost \subseteq DOMAIN chain

\* Events say what happened, and auctions are announced in order and before
\* the page knows them.
SocketSound ==
  /\ socket \in Seq(SUBSET Events)
  /\ \A i \in DOMAIN socket : \A e \in socket[i] :
       /\ e.id \in DOMAIN chain
       /\ e.type = "bid" => e.bid \in chain[e.id].bids
       /\ e.type = "settled" =>
            /\ chain[e.id].auction.settled
            /\ e.winner = chain[e.id].auction.bidder
            /\ e.amount = chain[e.id].auction.amount
       /\ e.type = "created" =>
            /\ e.id > store.active.id /\ e.id > store.last
            /\ \A k \in DOMAIN todo : todo[k].do = "active" => e.id > todo[k].auction.id
  /\ \A i, j \in DOMAIN socket : \A e \in socket[i], f \in socket[j] :
       e.type = "created" /\ f.type = "created" =>
         (i < j => e.id < f.id) /\ (i = j => e = f)

Dispatches ==
  [do : {"active"}, auction : [type : {"created"}, id : Nat, end : Nat]]
  \cup [do : {"url", "show", "last", "push"}, id : Nat]
  \cup [do : {"prev", "next"}]

\* What is left of a key.
KeyLeft ==
  /\ Len(todo) \in 1 .. 3
  /\ todo[Len(todo)].do = "push"
  /\ Len(todo) > 1 => todo[Len(todo) - 1].do \in {"prev", "next"}
  /\ Len(todo) = 3 => todo[1].do = "push"

\* What is left of processAuctionCreated, for the auction n.
CreatedLeft(n) ==
  /\ n \in DOMAIN chain /\ n > store.last /\ load = "live"
  /\ Len(todo) \in 1 .. 4
  /\ todo[Len(todo)].do = "last" /\ todo[Len(todo)].id = n
  /\ Len(todo) > 1 => /\ todo[Len(todo) - 1].do = "show"
                      /\ todo[Len(todo) - 1].id = n
  /\ Len(todo) > 2 => /\ todo[Len(todo) - 2].do = "url"
                      /\ todo[Len(todo) - 2].id = n
  /\ IF Len(todo) = 4
     THEN /\ todo[1].do = "active" /\ todo[1].auction.id = n
          /\ store.active.id = store.last
     ELSE store.active.id = n

\* The store knows no auction before it is loaded and one auction from then
\* on, the last one unless the next one is being announced.
StoreSound ==
  /\ store \in Stores /\ todo \in Seq(Dispatches)
  /\ load \in {"start", "query", "subscribe", "live"}
  /\ load = "start" =>
       /\ store.active = NoAuction /\ store.last = None /\ store.shown = None
       /\ lost = {}
  /\ load # "start" =>
       store.active \in AuctionRecs /\ store.active.id \in DOMAIN chain /\ store.last \in DOMAIN chain
  /\ load # "live" => socket = <<>>
  /\ load \in {"start", "query"} => blocks = {} /\ store.bids = {}
  /\ \A b \in blocks \cup store.bids : b.id \in DOMAIN chain /\ b \in chain[b.id].bids
  /\ \A b \in store.bids : b.id = store.active.id
  /\ store.bids # {} =>
       \E m \in store.bids : \A b \in store.bids : m.value >= b.value
  /\ \/ todo = <<>> /\ store.active.id = store.last
     \/ KeyLeft /\ store.active.id = store.last /\ load # "start"
     \/ \E n \in DOMAIN chain : CreatedLeft(n)

\* The page will hear, or has heard, of the current auction.
Awaited ==
  \E i \in DOMAIN socket : \E e \in socket[i] :
    e.type = "created" /\ e.id = current
Activating == Len(todo) = 4 /\ todo[1].auction.id = current
Held == store.active.id = current

EndEvents(i) ==
  {e \in socket[i] : e.type \in {"created", "extended"} /\ e.id = current}

EndFollows ==
  /\ \A i \in DOMAIN socket : \A e, f \in EndEvents(i) : e = f
  /\ \A i \in DOMAIN socket : \A e \in EndEvents(i) :
       (\A j \in DOMAIN socket : j > i => EndEvents(j) = {}) => e.end = Auction.end
  /\ (\A i \in DOMAIN socket : EndEvents(i) = {}) =>
       Auction.end = IF Activating THEN todo[1].auction.end
                     ELSE store.active.end

SettlementFollows ==
  /\ Auction.settled =>
       \/ Held /\ store.active.settled
       \/ \E i \in DOMAIN socket : \E e \in socket[i] :
            e.type = "settled" /\ e.id = current
  /\ Held /\ store.active.settled => Auction.settled

BidsFollow ==
  /\ \A b \in chain[current].bids :
       \/ Held /\ (b \in blocks \cup store.bids \cup missed \/ load = "query")
       \/ \E i \in DOMAIN socket : \E e \in socket[i] : e.type = "bid" /\ e.bid = b
  /\ Held /\ store.bids = chain[current].bids \ missed =>
       /\ store.active.amount = Auction.amount
       /\ store.active.bidder = Auction.bidder

Follows ==
  load # "start" /\ current \notin lost =>
    /\ Held \/ Activating \/ Awaited
    /\ \A i, j \in DOMAIN socket : \A e \in socket[i], f \in socket[j] :
         /\ e.id = current /\ e.type # "created"
         /\ f.id = current /\ f.type = "created"
         => j < i
    /\ EndFollows /\ SettlementFollows /\ BidsFollow

AuctionInv == HouseSound /\ SocketSound /\ StoreSound /\ Follows

\* The bids that loadState did not ask for are the lowest of their auctions,
\* and they are nowhere else.  The auction that was fetched shows one of its
\* bids.
MissedSound ==
  /\ load \in {"start", "query"} => missed = {}
  /\ \A b \in missed :
       /\ b.id \in DOMAIN chain /\ b \in chain[b.id].bids
       /\ \A c \in chain[b.id].bids : c.value < b.value => c \in missed
       /\ b \notin blocks \cup store.bids
  /\ \A i \in DOMAIN socket : \A e \in socket[i] :
       e.type = "bid" => e.bid \notin missed
  /\ load = "query" =>
       \/ store.active.bidder = NoBidder /\ store.active.amount = 0
       \/ \E b \in chain[store.active.id].bids :
            b.sender = store.active.bidder /\ b.value = store.active.amount

LEMMA AuctionNumbers ==
  /\ Reserve \in Nat /\ Percentage \in Nat /\ Reserve * Percentage >= 100
  /\ TimeBuffer \in Nat /\ Duration \in Nat /\ MaxValue \in Nat
  /\ LastAuction \in Nat /\ SettleWait \in Nat /\ 1 <= LastAuction
  /\ NoBidder \notin Bidders /\ Me \in Bidders
  /\ Routes \subseteq Int
BY WebAuctionAssumption, WebBidAssumption

LEMMA NextIdGrows ==
  ASSUME NEW n \in Nat
  PROVE  NextId(n) \in Nat /\ NextId(n) > n
BY DEF NextId

\* A bid that is accepted is higher than all before.
LEMMA BidsRise ==
  ASSUME HouseSound, NEW v \in Nat, Acceptable(v)
  PROVE  /\ v >= Reserve
         /\ \A b \in chain[current].bids : v > b.value
<1>1. /\ chain[current] \in Lots /\ Auction \in AuctionRecs
      /\ LotSound(current)
  BY DEF HouseSound, Lots, Auction
<1>2. v >= Reserve /\ v >= Auction.amount + (Auction.amount * Percentage) \div 100
  BY DEF Acceptable
<1>3. ASSUME chain[current].bids # {} PROVE v > Auction.amount
  <2> DEFINE a == Auction.amount
  <2>1. a \in Nat /\ a >= Reserve
    BY <1>1, <1>3 DEF LotSound, Auction, AuctionRecs
  <2>2. \A x, y, z \in Nat : x >= y => x * z >= y * z
    BY SMT
  <2>3. a * Percentage \in Nat /\ a * Percentage >= 100
    BY <2>1, <2>2, AuctionNumbers
  <2>4. \A n \in Nat : n >= 100 => n \div 100 >= 1
    BY SMT
  <2>5. (a * Percentage) \div 100 \in Nat /\ (a * Percentage) \div 100 >= 1
    BY <2>3, <2>4
  <2> QED BY <1>2, <2>1, <2>5
<1>4. \A b \in chain[current].bids : b.value \in Nat /\ b.value <= Auction.amount
  BY <1>1 DEF LotSound, Auction, Lots, Offers
<1>5. Auction.amount \in Nat
  BY <1>1 DEF AuctionRecs
<1> QED BY <1>2, <1>3, <1>4, <1>5

\* The steps of the auction house that change an auction.
Bidden(bidder, value) ==
  /\ DOMAIN chain' = DOMAIN chain /\ chain' \in [DOMAIN chain -> Lots]
  /\ \A id \in DOMAIN chain \ {current} : chain'[id] = chain[id]
  /\ chain'[current].bids =
       chain[current].bids \cup {[id |-> current, sender |-> bidder, value |-> value]}
  /\ chain'[current].auction.id = Auction.id
  /\ chain'[current].auction.amount = value
  /\ chain'[current].auction.bidder = bidder
  /\ chain'[current].auction.settled = Auction.settled
  /\ chain'[current].auction.end =
       IF Auction.end - now < TimeBuffer THEN now + TimeBuffer ELSE Auction.end

LEMMA CreateBidChain ==
  ASSUME HouseSound, NEW bidder \in Bidders, NEW v \in Nat, CreateBid(bidder, v)
  PROVE  Bidden(bidder, v)
<1> DEFINE bid == [id |-> current, sender |-> bidder, value |-> v]
           end == IF Auction.end - now < TimeBuffer THEN now + TimeBuffer ELSE Auction.end
           lot == [chain[current] EXCEPT
                     !.bids = chain[current].bids \cup {bid},
                     !.auction = [chain[current].auction EXCEPT
                        !.amount = v, !.bidder = bidder, !.end = end]]
<1>1. /\ chain[current] \in Lots /\ chain[current].auction \in AuctionRecs
      /\ chain[current].bids \in SUBSET Offers
      /\ current \in DOMAIN chain /\ chain \in [DOMAIN chain -> Lots]
      /\ current \in Nat /\ now \in Nat /\ Auction = chain[current].auction
  BY DEF HouseSound, Lots, Auction
<1>2. bid \in Offers
  BY <1>1 DEF Offers
<1>3. end \in Nat
  BY <1>1, AuctionNumbers DEF AuctionRecs
<1>4. bidder \in Takers
  BY DEF Takers
<1>5. lot \in Lots /\ lot.bids = chain[current].bids \cup {bid}
      /\ lot.auction.id = Auction.id /\ lot.auction.amount = v
      /\ lot.auction.bidder = bidder /\ lot.auction.settled = Auction.settled
      /\ lot.auction.end = end
  <2> HIDE DEF bid, end
  <2>1. [chain[current].auction EXCEPT !.amount = v, !.bidder = bidder, !.end = end]
          \in AuctionRecs
    BY <1>1, <1>3, <1>4 DEF AuctionRecs
  <2>2. chain[current].bids \cup {bid} \in SUBSET Offers
    BY <1>1, <1>2
  <2>3. lot \in Lots /\ lot.bids = chain[current].bids \cup {bid}
        /\ lot.auction = [chain[current].auction EXCEPT !.amount = v, !.bidder = bidder, !.end = end]
    BY <1>1, <2>1, <2>2 DEF Lots
  <2> HIDE DEF lot
  <2> QED BY <1>1, <2>3 DEF AuctionRecs
<1>6. chain' = [chain EXCEPT ![current] = lot]
  BY <1>1, ZenonT(60) DEF CreateBid, AuctionRecs, Lots
<1> HIDE DEF lot
<1> QED BY <1>1, <1>5, <1>6 DEF Bidden

LEMMA LotStays ==
  ASSUME NEW id, LotSound(id), chain[id].auction.id = chain'[id].auction.id,
         chain[id].bids = chain'[id].bids,
         chain[id].auction.amount = chain'[id].auction.amount,
         chain[id].auction.bidder = chain'[id].auction.bidder
  PROVE  LotSound(id)'
BY DEF LotSound

LEMMA SettledChain ==
  ASSUME HouseSound, NEW c, c = [chain EXCEPT ![current].auction.settled = TRUE]
  PROVE  /\ DOMAIN c = DOMAIN chain /\ c \in [DOMAIN chain -> Lots]
         /\ \A id \in DOMAIN chain \ {current} : c[id] = chain[id]
         /\ c[current].bids = chain[current].bids
         /\ c[current].auction \in AuctionRecs
         /\ c[current].auction.id = Auction.id
         /\ c[current].auction.amount = Auction.amount
         /\ c[current].auction.bidder = Auction.bidder
         /\ c[current].auction.settled = TRUE
         /\ c[current].auction.end = Auction.end
<1> DEFINE lot == [chain[current] EXCEPT
                     !.auction = [chain[current].auction EXCEPT !.settled = TRUE]]
<1>1. /\ chain[current] \in Lots /\ chain[current].auction \in AuctionRecs
      /\ current \in DOMAIN chain /\ chain \in [DOMAIN chain -> Lots]
      /\ Auction = chain[current].auction
  BY DEF HouseSound, Lots, Auction
<1>2. /\ [chain[current].auction EXCEPT !.settled = TRUE] \in AuctionRecs
      /\ [chain[current].auction EXCEPT !.settled = TRUE].id = Auction.id
      /\ [chain[current].auction EXCEPT !.settled = TRUE].amount = Auction.amount
      /\ [chain[current].auction EXCEPT !.settled = TRUE].bidder = Auction.bidder
      /\ [chain[current].auction EXCEPT !.settled = TRUE].settled = TRUE
      /\ [chain[current].auction EXCEPT !.settled = TRUE].end = Auction.end
  BY <1>1 DEF AuctionRecs
<1>3. lot \in Lots /\ lot.bids = chain[current].bids
      /\ lot.auction = [chain[current].auction EXCEPT !.settled = TRUE]
  BY <1>1, <1>2 DEF Lots
<1>4. c = [chain EXCEPT ![current] = lot]
  BY <1>1 DEF Lots
<1> HIDE DEF lot
<1> QED BY <1>1, <1>2, <1>3, <1>4

\* An auction that starts.
Fresh(lot, n) ==
  /\ lot.bids = {}
  /\ lot.auction \in AuctionRecs
  /\ lot.auction.id = n /\ lot.auction.amount = 0
  /\ lot.auction.bidder = NoBidder /\ lot.auction.settled = FALSE
  /\ lot.auction.end = now + Duration

LEMMA StartedChain ==
  ASSUME NEW c, c \in [DOMAIN c -> Lots], NEW n \in Nat, now \in Nat
  PROVE  /\ WithAuction(c, n) \in [DOMAIN c \cup {n} -> Lots]
         /\ \A id \in DOMAIN c \ {n} : WithAuction(c, n)[id] = c[id]
         /\ Fresh(WithAuction(c, n)[n], n)
<1> DEFINE new == [NoAuction EXCEPT !.id = n, !.end = now + Duration]
           lot == [auction |-> new, bids |-> {}]
           Drafts == [id : {n, None}, amount : {0}, bidder : {NoBidder}, end : Nat,
                   settled : {FALSE}]
<1>0. now + Duration \in Nat /\ 0 \in Nat
  BY AuctionNumbers
<1>1. NoAuction \in Drafts
  BY DEF NoAuction
<1>2. /\ new \in Drafts /\ new.id = n /\ new.end = now + Duration
  BY <1>0, <1>1
<1>3. new \in AuctionRecs /\ new.amount = 0 /\ new.bidder = NoBidder
  <2>1. NoBidder \in Takers
    BY DEF Takers
  <2> HIDE DEF new
  <2>2. /\ new.id \in Nat /\ new.amount = 0 /\ new.bidder = NoBidder
        /\ new.end \in Nat /\ new.settled \in {FALSE}
    BY <1>0, <1>2
  <2>3. new.settled \in BOOLEAN
    BY <2>2
  <2>4. new.amount \in Nat /\ new.bidder \in Takers
    BY <1>0, <2>1, <2>2
  <2> HIDE DEF Drafts
  <2>5. new = [id |-> new.id, amount |-> new.amount, bidder |-> new.bidder,
               end |-> new.end, settled |-> new.settled]
    BY <1>2 DEF Drafts
  <2> QED BY <2>2, <2>3, <2>4, <2>5 DEF AuctionRecs
<1>4. lot \in Lots /\ lot.bids = {} /\ lot.auction = new
  <2> HIDE DEF new
  <2> QED BY <1>3 DEF Lots
<1>5. WithAuction(c, n) = [i \in DOMAIN c \cup {n} |-> IF i = n THEN lot ELSE c[i]]
  BY DEF WithAuction
<1>6. new.settled = FALSE
  <2> HIDE DEF new
  <2> QED BY <1>2
<1> HIDE DEF lot, new
<1>7. Fresh(lot, n)
  BY <1>2, <1>3, <1>4, <1>6 DEF Fresh
<1> QED BY <1>4, <1>5, <1>7

\* What happened stays.
ChainGrows ==
  /\ DOMAIN chain \subseteq DOMAIN chain'
  /\ \A id \in DOMAIN chain :
       /\ chain[id].bids \subseteq chain'[id].bids
       /\ chain[id].auction.settled =>
            /\ chain'[id].auction.settled
            /\ chain'[id].auction.amount = chain[id].auction.amount
            /\ chain'[id].auction.bidder = chain[id].auction.bidder

LEMMA EmitLoses ==
  ASSUME NEW events, NEW S, \A e \in events : e.id \in S, Emit(events)
  PROVE  lost' \subseteq lost \cup S
BY DEF Emit

LEMMA HouseBid ==
  ASSUME HouseSound, NEW bidder \in Bidders, NEW v \in Nat, CreateBid(bidder, v)
  PROVE  HouseSound' /\ ChainGrows
<1> DEFINE bid == [id |-> current, sender |-> bidder, value |-> v]
<1>1. Bidden(bidder, v)
  BY CreateBidChain
<1>2. Acceptable(v) /\ ~Auction.settled /\ current' = current /\ now' = now
  BY DEF CreateBid
<1>3. v >= Reserve /\ \A b \in chain[current].bids : v > b.value
  BY <1>2, BidsRise
<1>4. LotSound(current)'
  <2>1. /\ chain'[current].bids = chain[current].bids \cup {bid}
        /\ chain'[current].auction.amount = v /\ chain'[current].auction.bidder = bidder
        /\ chain'[current].auction.id = current
    BY <1>1 DEF Bidden, HouseSound, LotSound, Auction
  <2>2. /\ \A b \in chain[current].bids : b.id = current /\ b.value \in Nat
        /\ \A b, c \in chain[current].bids : b.value = c.value => b = c
    BY DEF HouseSound, LotSound, Lots, Offers
  <2>3. bid.id = current /\ bid.sender = bidder /\ bid.value = v
    OBVIOUS
  <2> HIDE DEF bid
  <2>4. \A b \in chain'[current].bids : b.id = current /\ b.value <= v
    BY <1>3, <2>1, <2>2, <2>3
  <2>5. \A b, c \in chain'[current].bids : b.value = c.value => b = c
    BY <1>3, <2>1, <2>2, <2>3
  <2>6. \E b \in chain'[current].bids : b.value = v /\ b.sender = bidder
    BY <2>1, <2>3
  <2> QED BY <1>2, <1>3, <2>1, <2>4, <2>5, <2>6 DEF LotSound
<1>5. \A id \in DOMAIN chain : LotSound(id)'
  <2> SUFFICES ASSUME NEW id \in DOMAIN chain, id # current PROVE LotSound(id)'
    BY <1>2, <1>4
  <2>1. LotSound(id) /\ chain'[id] = chain[id]
    BY <1>1 DEF HouseSound, Bidden
  <2> QED BY <2>1, LotStays
<1>6. lost' \subseteq lost \cup {current}
  <2> DEFINE events == {[type |-> "bid", bid |-> bid, id |-> current]}
                \cup (IF Auction.end - now < TimeBuffer
                     THEN {[type |-> "extended", id |-> current,
                            end |-> now + TimeBuffer]}
                     ELSE {})
  <2>1. \A e \in events : e.id \in {current}
    OBVIOUS
  <2>2. Emit(events)
    BY DEF CreateBid
  <2> HIDE DEF events
  <2> QED BY <2>1, <2>2, EmitLoses
<1>7. HouseSound'
  BY <1>1, <1>2, <1>5, <1>6 DEF HouseSound, Bidden
<1>8. ChainGrows
  BY <1>1, <1>2 DEF ChainGrows, Bidden, Auction
<1> QED BY <1>7, <1>8

LEMMA HouseSettles ==
  ASSUME HouseSound, SettleAuction
  PROVE  HouseSound' /\ ChainGrows
<1>1. /\ chain' = [chain EXCEPT ![current].auction.settled = TRUE]
      /\ current' = current /\ now' = now /\ Emit({SettledEvent})
      /\ ~Auction.settled
  BY DEF SettleAuction
<1>2. lost' \subseteq lost \cup {current}
  <2>1. \A e \in {SettledEvent} : e.id \in {current}
    BY DEF SettledEvent
  <2> QED BY <1>1, <2>1, EmitLoses
<1> DEFINE c == chain'
<1>3. /\ DOMAIN c = DOMAIN chain /\ c \in [DOMAIN chain -> Lots]
      /\ \A id \in DOMAIN chain \ {current} : c[id] = chain[id]
      /\ c[current].bids = chain[current].bids
      /\ c[current].auction.id = Auction.id
      /\ c[current].auction.amount = Auction.amount
      /\ c[current].auction.bidder = Auction.bidder
  BY <1>1, SettledChain
<1>4. \A id \in DOMAIN chain : LotSound(id)'
  BY <1>1, <1>3, LotStays DEF HouseSound, Auction
<1>5. HouseSound'
  BY <1>1, <1>2, <1>3, <1>4 DEF HouseSound
<1>6. ChainGrows
  BY <1>1, <1>3 DEF ChainGrows, Auction
<1> QED BY <1>5, <1>6

\* The auction of an id starts.
LEMMA HouseStarts ==
  ASSUME HouseSound, NEW c \in [DOMAIN chain -> Lots], NEW n \in Nat,
         n > current, n <= LastAuction,
         \A id \in DOMAIN chain :
           /\ c[id].bids = chain[id].bids
           /\ c[id].auction.id = chain[id].auction.id
           /\ c[id].auction.amount = chain[id].auction.amount
           /\ c[id].auction.bidder = chain[id].auction.bidder
           /\ chain[id].auction.settled => c[id].auction.settled,
         chain' = WithAuction(c, n), current' = n, now' = now,
         lost' \subseteq lost \cup {current, n}
  PROVE  HouseSound' /\ ChainGrows
<1>1. /\ now \in Nat /\ current \in Nat /\ current \in DOMAIN chain
      /\ DOMAIN chain \subseteq 1 .. current /\ n \notin DOMAIN chain
      /\ lost \subseteq DOMAIN chain
  BY DEF HouseSound
<1>2. /\ chain' \in [DOMAIN chain \cup {n} -> Lots]
      /\ \A id \in DOMAIN chain : chain'[id] = c[id]
      /\ chain'[n].bids = {} /\ chain'[n].auction.id = n
      /\ chain'[n].auction.amount = 0 /\ chain'[n].auction.bidder = NoBidder
  <2>1. /\ WithAuction(c, n) \in [DOMAIN c \cup {n} -> Lots]
        /\ \A id \in DOMAIN c \ {n} : WithAuction(c, n)[id] = c[id]
        /\ Fresh(WithAuction(c, n)[n], n)
    BY <1>1, StartedChain
  <2> QED BY <1>1, <2>1 DEF Fresh
<1>3. DOMAIN chain' = DOMAIN chain \cup {n}
  BY <1>2
<1>4. LotSound(n)'
  BY <1>2 DEF LotSound
<1>5. \A id \in DOMAIN chain : LotSound(id)'
  <2> SUFFICES ASSUME NEW id \in DOMAIN chain PROVE LotSound(id)'
    OBVIOUS
  <2>1. LotSound(id)
    BY DEF HouseSound
  <2> QED BY <1>2, <2>1, LotStays
<1>6. HouseSound'
  BY <1>1, <1>2, <1>3, <1>4, <1>5 DEF HouseSound
<1>7. ChainGrows
  BY <1>2, <1>3 DEF ChainGrows
<1> QED BY <1>6, <1>7

LEMMA HouseUnpauses ==
  ASSUME HouseSound, Unpause
  PROVE  HouseSound' /\ ChainGrows
<1>1. /\ chain' = WithAuction(chain, NextId(current)) /\ current' = NextId(current)
      /\ now' = now /\ Emit({CreatedEvent(NextId(current))})
      /\ NextId(current) <= LastAuction
  BY DEF Unpause
<1>2. NextId(current) \in Nat /\ NextId(current) > current
      /\ chain \in [DOMAIN chain -> Lots]
  BY NextIdGrows DEF HouseSound
<1>3. lost' \subseteq lost \cup {current, NextId(current)}
  <2>1. \A e \in {CreatedEvent(NextId(current))} : e.id \in {NextId(current)}
    BY DEF CreatedEvent
  <2>2. lost' \subseteq lost \cup {NextId(current)}
    BY <1>1, <2>1, EmitLoses
  <2> QED BY <2>2
<1> QED BY <1>1, <1>2, <1>3, HouseStarts

LEMMA HouseGoesOn ==
  ASSUME HouseSound, SettleCurrentAndCreateNewAuction
  PROVE  HouseSound' /\ ChainGrows
<1> DEFINE c == [chain EXCEPT ![current].auction.settled = TRUE]
<1>1. /\ chain' = WithAuction(c, NextId(current)) /\ current' = NextId(current)
      /\ now' = now /\ Emit({SettledEvent, CreatedEvent(NextId(current))})
      /\ NextId(current) <= LastAuction
  BY DEF SettleCurrentAndCreateNewAuction
<1>2. NextId(current) \in Nat /\ NextId(current) > current
  BY NextIdGrows DEF HouseSound
<1>3. lost' \subseteq lost \cup {current, NextId(current)}
  <2>1. \A e \in {SettledEvent, CreatedEvent(NextId(current))} :
          e.id \in {current, NextId(current)}
    BY DEF CreatedEvent, SettledEvent
  <2> QED BY <1>1, <2>1, EmitLoses
<1>4. /\ DOMAIN c = DOMAIN chain /\ c \in [DOMAIN chain -> Lots]
      /\ \A id \in DOMAIN chain \ {current} : c[id] = chain[id]
      /\ c[current].bids = chain[current].bids
      /\ c[current].auction.id = Auction.id
      /\ c[current].auction.amount = Auction.amount
      /\ c[current].auction.bidder = Auction.bidder
      /\ c[current].auction.settled = TRUE
  BY SettledChain
<1> HIDE DEF c
<1>5. \A id \in DOMAIN chain :
           /\ c[id].bids = chain[id].bids
           /\ c[id].auction.id = chain[id].auction.id
           /\ c[id].auction.amount = chain[id].auction.amount
           /\ c[id].auction.bidder = chain[id].auction.bidder
           /\ chain[id].auction.settled => c[id].auction.settled
  BY <1>4 DEF Auction
<1> QED BY <1>1, <1>2, <1>3, <1>4, <1>5, HouseStarts

-----------------------------------------------------------------------------

\* What a transaction puts into the socket of a page that listens.
LEMMA EmitSends ==
  ASSUME socket \in Seq(SUBSET Events), NEW events \in SUBSET Events, Emit(events)
  PROVE  \/ /\ load = "live" /\ lost' = lost /\ Len(socket) \in Nat
            /\ DOMAIN socket = 1 .. Len(socket)
            /\ socket' \in Seq(SUBSET Events)
            /\ DOMAIN socket' = 1 .. Len(socket) + 1
            /\ \A i \in 1 .. Len(socket) : socket'[i] = socket[i]
            /\ socket'[Len(socket) + 1] = events
         \/ load # "live" /\ socket' = socket
<1>1. CASE load = "live"
  <2>1. socket' = Append(socket, events) /\ lost' = lost
    BY <1>1 DEF Emit
  <2>2. Len(socket) \in Nat /\ DOMAIN socket = 1 .. Len(socket)
    OBVIOUS
  <2>3. /\ socket' \in Seq(SUBSET Events) /\ Len(socket') = Len(socket) + 1
        /\ \A i \in 1 .. Len(socket) : socket'[i] = socket[i]
        /\ socket'[Len(socket) + 1] = events
    BY <2>1, <2>2
  <2>4. DOMAIN socket' = 1 .. Len(socket) + 1
    BY <2>3
  <2> QED BY <1>1, <2>1, <2>2, <2>3, <2>4
<1>2. CASE load # "live"
  BY <1>2 DEF Emit
<1> QED BY <1>1, <1>2

\* The auction that is about to be activated has started.
LEMMA Activated ==
  ASSUME HouseSound, StoreSound, NEW k \in DOMAIN todo, todo[k].do = "active"
  PROVE  /\ load = "live" /\ k = 1 /\ Len(todo) = 4
         /\ CreatedLeft(todo[1].auction.id)
<1>1. /\ Len(todo) \in Nat /\ DOMAIN todo = 1 .. Len(todo)
  BY DEF StoreSound
<1>2. todo # <<>>
  BY <1>1
<1>3. ~KeyLeft
  <2> SUFFICES ASSUME KeyLeft PROVE FALSE
    OBVIOUS
  <2>1. Len(todo) \in 1 .. 3 /\ k \in 1 .. Len(todo)
    BY <1>1 DEF KeyLeft
  <2>2. \A m \in 1 .. 3 : \A j \in 1 .. m :
          j = m \/ (j = m - 1 /\ m > 1) \/ (j = 1 /\ m = 3)
    BY SMT
  <2> QED BY <2>1, <2>2 DEF KeyLeft
<1>4. PICK n \in DOMAIN chain : CreatedLeft(n)
  BY <1>2, <1>3 DEF StoreSound
<1>5. Len(todo) = 4 /\ k = 1
  <2>1. Len(todo) \in 1 .. 4 /\ k \in 1 .. Len(todo)
    BY <1>1, <1>4 DEF CreatedLeft
  <2>2. \A m \in 1 .. 4 : \A j \in 1 .. m :
          \/ j = m \/ (j = m - 1 /\ m > 1)
          \/ (j = m - 2 /\ m > 2) \/ (j = 1 /\ m = 4)
    BY SMT
  <2> QED BY <1>4, <2>1, <2>2 DEF CreatedLeft
<1> QED BY <1>4, <1>5 DEF CreatedLeft

LEMMA HouseSocket ==
  ASSUME HouseSound, SocketSound, StoreSound, ChainGrows,
         store' = store, todo' = todo,
         NEW events \in SUBSET Events, Emit(events),
         \A e \in events :
           /\ e.id \in DOMAIN chain'
           /\ e.type = "bid" => e.bid \in chain'[e.id].bids
           /\ e.type = "settled" =>
                /\ chain'[e.id].auction.settled
                /\ e.winner = chain'[e.id].auction.bidder
                /\ e.amount = chain'[e.id].auction.amount
           /\ e.type = "created" => e.id \in Nat /\ e.id > current,
         \A e, f \in events : e.type = "created" /\ f.type = "created" => e = f
  PROVE  SocketSound'
<1>1. /\ current \in Nat /\ DOMAIN chain \subseteq 1 .. current
      /\ DOMAIN chain \subseteq DOMAIN chain'
  BY DEF HouseSound, ChainGrows
<1>2. socket \in Seq(SUBSET Events)
  BY DEF SocketSound
<1>3. ASSUME NEW i \in DOMAIN socket, NEW e \in socket[i]
      PROVE  /\ e.id \in DOMAIN chain'
             /\ e.type = "bid" => e.bid \in chain'[e.id].bids
             /\ e.type = "settled" =>
                  /\ chain'[e.id].auction.settled
                  /\ e.winner = chain'[e.id].auction.bidder
                  /\ e.amount = chain'[e.id].auction.amount
  BY <1>3 DEF SocketSound, ChainGrows
<1>4. CASE socket' = socket
  <2>1. socket' \in Seq(SUBSET Events)
    BY <1>2, <1>4
  <2>2. \A i \in DOMAIN socket : \A e \in socket[i] : e.type = "created" =>
          /\ e.id > store.active.id /\ e.id > store.last
          /\ \A k \in DOMAIN todo : todo[k].do = "active" => e.id > todo[k].auction.id
    BY DEF SocketSound
  <2>3. \A i, j \in DOMAIN socket : \A e \in socket[i], f \in socket[j] :
          e.type = "created" /\ f.type = "created" =>
            (i < j => e.id < f.id) /\ (i = j => e = f)
    BY DEF SocketSound
  <2> QED BY <1>3, <1>4, <2>1, <2>2, <2>3 DEF SocketSound
<1>5. CASE load = "live" /\ socket' # socket
  <2>1. /\ Len(socket) \in Nat /\ DOMAIN socket = 1 .. Len(socket)
        /\ socket' \in Seq(SUBSET Events)
        /\ DOMAIN socket' = 1 .. Len(socket) + 1
        /\ \A i \in 1 .. Len(socket) : socket'[i] = socket[i]
        /\ socket'[Len(socket) + 1] = events
    BY <1>2, <1>5, EmitSends
  <2>2. store.active.id \in DOMAIN chain /\ store.last \in DOMAIN chain
    BY <1>5 DEF StoreSound
  <2>3. \A k \in DOMAIN todo : todo[k].do = "active" =>
          todo[k].auction.id \in DOMAIN chain
    BY Activated DEF CreatedLeft
  <2>4. \A n \in DOMAIN chain : n \in Nat /\ n <= current
    BY <1>1
  <2>5. ASSUME NEW e \in events, e.type = "created"
        PROVE  /\ e.id > store.active.id /\ e.id > store.last
               /\ \A k \in DOMAIN todo : todo[k].do = "active" => e.id > todo[k].auction.id
               /\ \A n \in DOMAIN chain : e.id > n
    <3>1. e.id \in Nat /\ e.id > current
      BY <2>5
    <3>2. \A n \in DOMAIN chain : e.id > n
      BY <1>1, <2>4, <3>1
    <3> QED BY <2>2, <2>3, <3>2
  <2>6. ASSUME NEW i \in DOMAIN socket', NEW e \in socket'[i]
        PROVE  /\ e.id \in DOMAIN chain'
               /\ e.type = "bid" => e.bid \in chain'[e.id].bids
               /\ e.type = "settled" =>
                    /\ chain'[e.id].auction.settled
                    /\ e.winner = chain'[e.id].auction.bidder
                    /\ e.amount = chain'[e.id].auction.amount
               /\ e.type = "created" =>
                    /\ e.id > store.active.id /\ e.id > store.last
                    /\ \A k \in DOMAIN todo : todo[k].do = "active" => e.id > todo[k].auction.id
    <3>1. CASE i \in DOMAIN socket
      <4>1. socket'[i] = socket[i]
        BY <2>1, <3>1
      <4>2. e.type = "created" =>
              /\ e.id > store.active.id /\ e.id > store.last
              /\ \A k \in DOMAIN todo : todo[k].do = "active" => e.id > todo[k].auction.id
        BY <2>6, <3>1, <4>1 DEF SocketSound
      <4> QED BY <1>3, <2>6, <3>1, <4>1, <4>2
    <3>2. CASE i = Len(socket) + 1
      BY <2>1, <2>5, <2>6, <3>2
    <3> QED BY <2>1, <3>1, <3>2
  <2>7. ASSUME NEW i \in DOMAIN socket', NEW j \in DOMAIN socket',
               NEW e \in socket'[i], NEW f \in socket'[j],
               e.type = "created", f.type = "created"
        PROVE  (i < j => e.id < f.id) /\ (i = j => e = f)
    <3>1. i \in 1 .. Len(socket) \/ i = Len(socket) + 1
      BY <2>1
    <3>2. j \in 1 .. Len(socket) \/ j = Len(socket) + 1
      BY <2>1
    <3>3. CASE i \in 1 .. Len(socket) /\ j \in 1 .. Len(socket)
      <4>1. e \in socket[i] /\ f \in socket[j] /\ i \in DOMAIN socket /\ j \in DOMAIN socket
        BY <2>1, <2>7, <3>3
      <4> QED BY <2>7, <4>1 DEF SocketSound
    <3>4. CASE i \in 1 .. Len(socket) /\ j = Len(socket) + 1
      <4>1. e \in socket[i] /\ f \in events /\ i \in DOMAIN socket
        BY <2>1, <2>7, <3>4
      <4>2. e.id \in DOMAIN chain
        BY <4>1 DEF SocketSound
      <4>3. f.id > e.id /\ i # j
        BY <2>1, <2>5, <2>7, <3>4, <4>1, <4>2
      <4>4. e.id \in Nat /\ f.id \in Nat
        BY <2>4, <2>7, <4>1, <4>2
      <4> QED BY <4>3, <4>4
    <3>5. CASE i = Len(socket) + 1 /\ j \in 1 .. Len(socket)
      BY <2>1, <3>5
    <3>6. CASE i = Len(socket) + 1 /\ j = Len(socket) + 1
      BY <2>1, <2>7, <3>6
    <3> QED BY <3>1, <3>2, <3>3, <3>4, <3>5, <3>6
  <2> QED BY <2>1, <2>6, <2>7 DEF SocketSound
<1> QED BY <1>2, <1>4, <1>5, EmitSends

LEMMA HouseStore ==
  ASSUME HouseSound, StoreSound, ChainGrows, UNCHANGED <<store, todo, load, blocks>>,
         NEW events, Emit(events)
  PROVE  StoreSound'
<1>1. load = "start" => lost' = lost
  BY DEF Emit
<1>2. load # "live" => socket' = socket
  BY DEF Emit
<1>3. DOMAIN chain \subseteq DOMAIN chain'
  BY DEF ChainGrows
<1>4. \A b \in blocks \cup store.bids : b.id \in DOMAIN chain' /\ b \in chain'[b.id].bids
  BY DEF ChainGrows, StoreSound
<1>5. KeyLeft' = KeyLeft
  BY DEF KeyLeft
<1>6. ASSUME NEW n, CreatedLeft(n) PROVE CreatedLeft(n)'
  BY <1>3, <1>6 DEF CreatedLeft
<1>7. \/ todo' = <<>> /\ store'.active.id = store'.last
      \/ KeyLeft' /\ store'.active.id = store'.last /\ load' # "start"
      \/ \E n \in DOMAIN chain' : CreatedLeft(n)'
  BY <1>3, <1>5, <1>6 DEF StoreSound
<1>8. store' \in Stores /\ todo' \in Seq(Dispatches)
      /\ load' \in {"start", "query", "subscribe", "live"}
      /\ (load' = "start" =>
          store'.active = NoAuction /\ store'.last = None /\ store'.shown = None
          /\ lost' = {})
      /\ (load' # "start" =>
          store'.active \in AuctionRecs /\ store'.active.id \in DOMAIN chain' /\ store'.last \in DOMAIN chain')
      /\ (load' # "live" => socket' = <<>>)
      /\ (load' \in {"start", "query"} => blocks' = {} /\ store'.bids = {})
      /\ (\A b \in store'.bids : b.id = store'.active.id)
      /\ (store'.bids # {} =>
          \E m \in store'.bids : \A b \in store'.bids : m.value >= b.value)
  BY <1>1, <1>2, <1>3 DEF StoreSound
<1> QED BY <1>4, <1>7, <1>8 DEF StoreSound

-----------------------------------------------------------------------------
(* The page follows the auction house.                                     *)

LEMMA Deaf ==
  ASSUME StoreSound, load # "live"
  PROVE  ~Activating /\ DOMAIN socket = {} /\ ~Awaited
<1>1. socket = <<>>
  BY DEF StoreSound
<1>2. DOMAIN socket = {}
  BY <1>1
<1>3. ~Awaited
  BY <1>2 DEF Awaited
<1>4. Len(todo) # 4
  <2>1. CASE todo = <<>>
    <3>1. Len(todo) = 0
      BY <2>1
    <3> QED BY <3>1
  <2>2. CASE KeyLeft
    <3>1. \A m \in 1 .. 3 : m # 4
      BY SMT
    <3> QED BY <2>2, <3>1 DEF KeyLeft
  <2>3. \A n \in DOMAIN chain : ~CreatedLeft(n)
    BY DEF CreatedLeft
  <2> QED BY <2>1, <2>2, <2>3 DEF StoreSound
<1> QED BY <1>2, <1>3, <1>4 DEF Activating

LEMMA FollowsBid ==
  ASSUME HouseSound, SocketSound, StoreSound, Follows, MissedSound,
         UNCHANGED <<store, todo, load, blocks, missed>>,
         NEW bidder \in Bidders, NEW v \in Nat, CreateBid(bidder, v)
  PROVE  Follows'
<1> SUFFICES ASSUME load # "start", current \notin lost'
             PROVE  /\ (Held \/ Activating \/ Awaited)'
                    /\ \A i, j \in DOMAIN socket' : \A e \in socket'[i], f \in socket'[j] :
                         /\ e.id = current /\ e.type # "created"
                         /\ f.id = current /\ f.type = "created"
                         => j < i
                    /\ EndFollows' /\ SettlementFollows' /\ BidsFollow'
  <2>1. current' = current /\ load' = load
    BY DEF CreateBid
  <2> QED BY <2>1 DEF Follows
<1> DEFINE bid == [id |-> current, sender |-> bidder, value |-> v]
           bidding == [type |-> "bid", bid |-> bid, id |-> current]
           extending == [type |-> "extended", id |-> current, end |-> now + TimeBuffer]
           extended == Auction.end - now < TimeBuffer
           events == {bidding} \cup (IF extended THEN {extending} ELSE {})
<1>1. Emit(events) /\ current' = current /\ ~Auction.settled
  BY DEF CreateBid
<1>2. /\ Bidden(bidder, v) /\ current \in Nat /\ now \in Nat
      /\ Auction \in AuctionRecs /\ current \in DOMAIN chain
  BY CreateBidChain DEF HouseSound, Lots, Auction
<1>3. /\ Auction'.end = IF extended THEN now + TimeBuffer ELSE Auction.end
      /\ Auction'.amount = v /\ Auction'.settled = Auction.settled
      /\ chain'[current'].bids = chain[current].bids \cup {bid}
  BY <1>1, <1>2 DEF Bidden, Auction
<1>4. /\ bidding.type = "bid" /\ bidding.bid = bid /\ bidding.id = current
      /\ extending.type = "extended" /\ extending.id = current
      /\ extending.end = now + TimeBuffer
  OBVIOUS
<1>5. bid \in Offers
  BY <1>2 DEF Offers
<1>6. events \in SUBSET Events
  <2>1. bidding \in Events
    BY <1>2, <1>5 DEF Events
  <2>2. extending \in Events
    BY <1>2, AuctionNumbers DEF Events
  <2> QED BY <2>1, <2>2
<1>7. \A e \in events : e = bidding \/ (e = extending /\ extended)
  OBVIOUS
<1>8. bidding \in events /\ (extended => extending \in events)
  OBVIOUS
<1>9. \A b \in chain[current].bids : bid # b
  <2>1. \A b \in chain[current].bids : b.value \in Nat /\ v > b.value
    <3>1. Acceptable(v)
      BY DEF CreateBid
    <3> QED BY <3>1, BidsRise DEF HouseSound, Lots, Offers
  <2>2. bid.value = v
    OBVIOUS
  <2> QED BY <2>1, <2>2
<1>15. bid \notin missed
  <2>1. bid.id = current
    OBVIOUS
  <2> QED BY <1>9, <2>1 DEF MissedSound
<1> HIDE DEF events, bidding, extending, extended, bid
<1>10. current \notin lost /\ socket \in Seq(SUBSET Events)
  BY <1>1, <1>2 DEF Emit, SocketSound
<1>11. /\ Held \/ Activating \/ Awaited
       /\ \A i, j \in DOMAIN socket : \A e \in socket[i], f \in socket[j] :
            /\ e.id = current /\ e.type # "created"
            /\ f.id = current /\ f.type = "created"
            => j < i
       /\ EndFollows /\ SettlementFollows /\ BidsFollow
  BY <1>10 DEF Follows
<1>12. Held' = Held /\ Activating' = Activating
  BY <1>1 DEF Held, Activating
<1>13. CASE load # "live"
  <2>1. socket' = socket /\ DOMAIN socket = {} /\ ~Activating /\ ~Awaited
    BY <1>13, <1>6, <1>1, <1>10, EmitSends, Deaf
  <2>2. Held
    BY <1>11, <2>1
  <2>3. load = "query" /\ ~extended
    <3>1. current \notin {e.id : e \in {f \in events :
                             /\ load # "start"
                             /\ f.type = "bid" => load = "subscribe"}}
      BY <1>1, <1>13 DEF Emit
    <3>2. load # "subscribe"
      BY <3>1, <1>4, <1>8
    <3>3. ~extended
      BY <3>1, <1>4, <1>8
    <3> QED BY <1>13, <3>2, <3>3 DEF StoreSound
  <2>4. EndFollows'
    BY <1>3, <1>11, <1>12, <2>1, <2>3 DEF EndFollows
  <2>5. SettlementFollows'
    BY <1>1, <1>3, <1>11, <1>12, <2>1 DEF SettlementFollows
  <2>6. store.bids # (chain[current].bids \cup {bid}) \ missed
    <3>1. \A b \in store.bids : b \in chain[current].bids
      BY <2>2 DEF StoreSound, Held
    <3> QED BY <3>1, <1>9, <1>15
  <2>7. BidsFollow'
    BY <1>1, <1>3, <1>12, <2>1, <2>2, <2>3, <2>6 DEF BidsFollow
  <2> QED BY <1>11, <1>12, <2>1, <2>2, <2>4, <2>5, <2>7
<1>14. CASE load = "live"
  <2>1. /\ Len(socket) \in Nat /\ DOMAIN socket = 1 .. Len(socket)
        /\ DOMAIN socket' = 1 .. Len(socket) + 1
        /\ \A i \in 1 .. Len(socket) : socket'[i] = socket[i]
        /\ socket'[Len(socket) + 1] = events
    BY <1>1, <1>6, <1>10, <1>14, EmitSends, SMTT(30)
  <2>2. PICK n \in Nat : n = Len(socket)
    BY <2>1
  <2>3. /\ DOMAIN socket = 1 .. n /\ DOMAIN socket' = 1 .. n + 1
        /\ \A i \in 1 .. n : socket'[i] = socket[i]
        /\ socket'[n + 1] = events
    BY <2>1, <2>2
  <2>4. \A i \in 1 .. n + 1 : i \in 1 .. n \/ i = n + 1
    BY <2>2
  <2>5. \A i \in 1 .. n : i \in 1 .. n + 1 /\ i < n + 1 /\ i # n + 1
    BY <2>2
  <2>6. Awaited' = Awaited
    <3>1. \A e \in events : e.type # "created"
      BY <1>4, <1>7
    <3> QED BY <3>1, <1>1, <2>3, <2>4, <2>5 DEF Awaited
  <2>7. \A i, j \in DOMAIN socket' : \A e \in socket'[i], f \in socket'[j] :
            /\ e.id = current /\ e.type # "created"
            /\ f.id = current /\ f.type = "created"
            => j < i
    <3>1. \A e \in events : e.type # "created"
      BY <1>4, <1>7
    <3>2. n + 1 \in Nat
      BY <2>2
    <3> QED BY <3>1, <3>2, <1>11, <2>3, <2>4, <2>5
  <2>8. \A i \in 1 .. n : EndEvents(i)' = EndEvents(i)
    BY <1>1, <2>3 DEF EndEvents
  <2>9. EndEvents(n + 1)' = IF extended THEN {extending} ELSE {}
    <3>1. CASE extended
      BY <3>1, <1>1, <1>4, <1>7, <1>8, <2>3 DEF EndEvents
    <3>2. CASE ~extended
      BY <3>2, <1>1, <1>4, <1>7, <1>8, <2>3 DEF EndEvents
    <3> QED BY <3>1, <3>2
  <2>10. EndFollows'
    <3>1. \A i \in DOMAIN socket' : \A e, f \in EndEvents(i)' : e = f
      BY <1>11, <2>3, <2>4, <2>8, <2>9 DEF EndFollows
    <3>2. ASSUME NEW i \in DOMAIN socket', NEW e \in EndEvents(i)',
                 \A j \in DOMAIN socket' : j > i => EndEvents(j)' = {}
          PROVE  e.end = Auction'.end
      <4>1. CASE i = n + 1
        BY <4>1, <3>2, <1>3, <1>4, <2>9
      <4>2. CASE i \in 1 .. n
        <5>1. n + 1 \in DOMAIN socket' /\ n + 1 > i
          BY <2>3, <2>5, <4>2
        <5>2. EndEvents(n + 1)' = {}
          BY <3>2, <5>1
        <5>3. ~extended
          BY <5>2, <2>9
        <5>4. \A j \in 1 .. n : j > i => EndEvents(j) = {}
          BY <3>2, <2>3, <2>5, <2>8
        <5>5. e \in EndEvents(i)
          BY <3>2, <4>2, <2>8
        <5>6. e.end = Auction.end
          BY <1>11, <2>3, <4>2, <5>4, <5>5 DEF EndFollows
        <5> QED BY <5>3, <5>6, <1>3
      <4> QED BY <4>1, <4>2, <2>3, <2>4
    <3>3. ASSUME \A i \in DOMAIN socket' : EndEvents(i)' = {}
          PROVE  Auction'.end = IF Activating' THEN todo[1].auction.end
                                ELSE store.active.end
      <4>1. ~extended
        BY <3>3, <2>3, <2>9, <2>2
      <4>2. \A i \in DOMAIN socket : EndEvents(i) = {}
        BY <3>3, <2>3, <2>5, <2>8
      <4> QED BY <1>3, <1>11, <1>12, <4>1, <4>2 DEF EndFollows
    <3> QED BY <3>1, <3>2, <3>3 DEF EndFollows
  <2>11. SettlementFollows'
    BY <1>1, <1>3, <1>11, <1>12 DEF SettlementFollows
  <2>12. Held => store.bids # (chain[current].bids \cup {bid}) \ missed
    <3>1. Held => \A b \in store.bids : b \in chain[current].bids
      BY DEF StoreSound, Held
    <3> QED BY <3>1, <1>9, <1>15
  <2>13. BidsFollow'
    <3>1. ASSUME NEW b \in chain'[current'].bids
          PROVE  \/ Held' /\ (b \in blocks' \cup store'.bids \cup missed' \/ load' = "query")
                 \/ \E i \in DOMAIN socket' : \E e \in socket'[i] :
                      e.type = "bid" /\ e.bid = b
      <4>1. CASE b = bid
        BY <4>1, <1>4, <1>8, <2>2, <2>3
      <4>2. CASE b \in chain[current].bids
        <5>1. CASE Held /\ (b \in blocks \cup store.bids \cup missed \/ load = "query")
          BY <5>1, <1>12
        <5>2. CASE \E i \in DOMAIN socket : \E e \in socket[i] :
                      e.type = "bid" /\ e.bid = b
          BY <5>2, <2>3, <2>5
        <5> QED BY <4>2, <5>1, <5>2, <1>11 DEF BidsFollow
      <4> QED BY <3>1, <4>1, <4>2, <1>3
    <3> QED BY <3>1, <1>3, <1>12, <2>12 DEF BidsFollow
  <2> QED BY <1>11, <1>12, <2>6, <2>7, <2>10, <2>11, <2>13
<1> QED BY <1>13, <1>14

LEMMA FollowsSettle ==
  ASSUME HouseSound, SocketSound, StoreSound, Follows,
         UNCHANGED <<store, todo, load, blocks, missed>>, SettleAuction
  PROVE  Follows'
<1> SUFFICES ASSUME load # "start", current \notin lost'
             PROVE  /\ (Held \/ Activating \/ Awaited)'
                    /\ \A i, j \in DOMAIN socket' : \A e \in socket'[i], f \in socket'[j] :
                         /\ e.id = current /\ e.type # "created"
                         /\ f.id = current /\ f.type = "created"
                         => j < i
                    /\ EndFollows' /\ SettlementFollows' /\ BidsFollow'
  <2>1. current' = current /\ load' = load
    BY DEF SettleAuction
  <2> QED BY <2>1 DEF Follows
<1>1. /\ chain' = [chain EXCEPT ![current].auction.settled = TRUE]
      /\ current' = current /\ Emit({SettledEvent}) /\ ~Auction.settled
  BY DEF SettleAuction
<1>2. /\ chain'[current].bids = chain[current].bids
      /\ Auction'.end = Auction.end /\ Auction'.amount = Auction.amount
      /\ Auction'.bidder = Auction.bidder
  BY <1>1, SettledChain DEF Auction
<1>3. SettledEvent.type = "settled" /\ SettledEvent.id = current
  BY DEF SettledEvent
<1>4. SettledEvent \in Events
  BY DEF SettledEvent, Events, HouseSound, Lots, AuctionRecs, Auction
<1>5. load = "live"
  <2>1. SUFFICES ASSUME load # "live" PROVE FALSE
    OBVIOUS
  <2>2. current \in {e.id : e \in {f \in {SettledEvent} :
                             /\ load # "start"
                             /\ f.type = "bid" => load = "subscribe"}}
    BY <1>3
  <2> QED BY <1>1, <2>1, <2>2 DEF Emit
<1>6. current \notin lost /\ socket \in Seq(SUBSET Events)
  BY <1>1, <1>5 DEF Emit, SocketSound
<1>7. /\ Held \/ Activating \/ Awaited
      /\ \A i, j \in DOMAIN socket : \A e \in socket[i], f \in socket[j] :
            /\ e.id = current /\ e.type # "created"
            /\ f.id = current /\ f.type = "created"
            => j < i
      /\ EndFollows /\ SettlementFollows /\ BidsFollow
  BY <1>6 DEF Follows
<1>8. Held' = Held /\ Activating' = Activating
  BY <1>1 DEF Held, Activating
<1>9. {SettledEvent} \in SUBSET Events
  BY <1>4
<1>10. PICK n \in Nat :
         /\ DOMAIN socket = 1 .. n /\ DOMAIN socket' = 1 .. n + 1
         /\ \A i \in 1 .. n : socket'[i] = socket[i]
         /\ socket'[n + 1] = {SettledEvent}
  BY <1>1, <1>5, <1>6, <1>9, EmitSends
<1>11. \A i \in 1 .. n + 1 : i \in 1 .. n \/ i = n + 1
  BY <1>10
<1>12. \A i \in 1 .. n : i \in 1 .. n + 1 /\ i < n + 1 /\ i # n + 1
  BY <1>10
<1>13. n + 1 \in 1 .. n + 1
  BY <1>10
<1>14. \A i \in 1 .. n : EndEvents(i)' = EndEvents(i)
  BY <1>1, <1>10 DEF EndEvents
<1>15. EndEvents(n + 1)' = {}
  BY <1>3, <1>10 DEF EndEvents
<1>16. Awaited' = Awaited
  BY <1>1, <1>3, <1>10, <1>11, <1>12 DEF Awaited
<1>17. \A i, j \in DOMAIN socket' : \A e \in socket'[i], f \in socket'[j] :
            /\ e.id = current /\ e.type # "created"
            /\ f.id = current /\ f.type = "created"
            => j < i
  BY <1>3, <1>7, <1>10, <1>11, <1>12
<1>18. EndFollows'
  <2>1. \A i \in DOMAIN socket' : \A e, f \in EndEvents(i)' : e = f
    BY <1>7, <1>10, <1>11, <1>14, <1>15 DEF EndFollows
  <2>2. ASSUME NEW i \in DOMAIN socket', NEW e \in EndEvents(i)',
               \A j \in DOMAIN socket' : j > i => EndEvents(j)' = {}
        PROVE  e.end = Auction'.end
    <3>1. i \in 1 .. n
      BY <2>2, <1>10, <1>11, <1>15
    <3>2. \A j \in 1 .. n : j > i => EndEvents(j) = {}
      BY <2>2, <1>10, <1>12, <1>14
    <3> QED BY <2>2, <3>1, <3>2, <1>2, <1>7, <1>10, <1>14 DEF EndFollows
  <2>3. ASSUME \A i \in DOMAIN socket' : EndEvents(i)' = {}
        PROVE  Auction'.end = IF Activating' THEN todo[1].auction.end
                              ELSE store.active.end
    <3>1. \A i \in DOMAIN socket : EndEvents(i) = {}
      BY <2>3, <1>10, <1>12, <1>14
    <3> QED BY <3>1, <1>2, <1>7, <1>8 DEF EndFollows
  <2> QED BY <2>1, <2>2, <2>3 DEF EndFollows
<1>19. SettlementFollows'
  <2>1. Auction'.settled
    BY <1>1, SettledChain DEF Auction
  <2>2. SettledEvent \in socket'[n + 1]
    BY <1>10
  <2> QED BY <1>1, <1>3, <1>10, <1>13, <2>1, <2>2 DEF SettlementFollows
<1>20. BidsFollow'
  BY <1>1, <1>2, <1>7, <1>8, <1>10, <1>12 DEF BidsFollow
<1> QED BY <1>7, <1>8, <1>16, <1>17, <1>18, <1>19, <1>20

LEMMA FollowsStart ==
  ASSUME HouseSound, SocketSound, StoreSound,
         UNCHANGED <<store, todo, load, blocks, missed>>,
         NEW n \in Nat, n > current, current' = n, Fresh(chain'[n], n),
         NEW events \in SUBSET Events, Emit(events), CreatedEvent(n) \in events,
         \A e \in events : e.id = n => e = CreatedEvent(n)
  PROVE  Follows'
<1> SUFFICES ASSUME load # "start", n \notin lost'
             PROVE  /\ (Held \/ Activating \/ Awaited)'
                    /\ \A i, j \in DOMAIN socket' : \A e \in socket'[i], f \in socket'[j] :
                         /\ e.id = n /\ e.type # "created"
                         /\ f.id = n /\ f.type = "created"
                         => j < i
                    /\ EndFollows' /\ SettlementFollows' /\ BidsFollow'
  BY DEF Follows
<1>1. /\ CreatedEvent(n).type = "created" /\ CreatedEvent(n).id = n
      /\ CreatedEvent(n).end = now + Duration
  BY DEF CreatedEvent
<1>2. load = "live"
  <2>1. SUFFICES ASSUME load # "live" PROVE FALSE
    OBVIOUS
  <2>2. n \in {e.id : e \in {f \in events :
                             /\ load # "start"
                             /\ f.type = "bid" => load = "subscribe"}}
    BY <1>1
  <2> QED BY <2>1, <2>2 DEF Emit
<1>3. n \notin DOMAIN chain
  BY DEF HouseSound
<1>4. ~Held'
  <2>1. store.active.id \in DOMAIN chain
    BY <1>2 DEF StoreSound
  <2> QED BY <1>3, <2>1 DEF Held
<1>5. ~Activating'
  <2>1. SUFFICES ASSUME Len(todo) = 4, todo[1].auction.id = n PROVE FALSE
    BY DEF Activating
  <2>2. todo # <<>> /\ ~KeyLeft
    <3>1. \A m \in 1 .. 3 : m # 4
      BY SMT
    <3>2. Len(<<>>) = 0
      OBVIOUS
    <3> QED BY <2>1, <3>1, <3>2 DEF KeyLeft
  <2>3. PICK m \in DOMAIN chain : CreatedLeft(m)
    BY <2>2 DEF StoreSound
  <2> QED BY <1>3, <2>1, <2>3 DEF CreatedLeft
<1>6. socket \in Seq(SUBSET Events)
  BY DEF SocketSound
<1>7. PICK k \in Nat :
         /\ DOMAIN socket = 1 .. k /\ DOMAIN socket' = 1 .. k + 1
         /\ \A i \in 1 .. k : socket'[i] = socket[i]
         /\ socket'[k + 1] = events
  BY <1>2, <1>6, EmitSends
<1>8. \A i \in 1 .. k + 1 : i \in 1 .. k \/ i = k + 1
  BY <1>7
<1>9. k + 1 \in DOMAIN socket'
  BY <1>7
<1>10. ASSUME NEW i \in DOMAIN socket', NEW e \in socket'[i], e.id = n
       PROVE  i = k + 1 /\ e = CreatedEvent(n)
  <2>1. i \notin 1 .. k
    <3>1. SUFFICES ASSUME i \in 1 .. k PROVE FALSE
      OBVIOUS
    <3>2. e \in socket[i]
      BY <1>7, <1>10, <3>1
    <3>3. e.id \in DOMAIN chain
      BY <1>7, <3>1, <3>2 DEF SocketSound
    <3> QED BY <1>3, <1>10, <3>3
  <2> QED BY <1>7, <1>8, <1>10, <2>1
<1>11. Awaited'
  BY <1>1, <1>7, <1>9 DEF Awaited
<1>12. /\ \A i \in DOMAIN socket' : i # k + 1 => EndEvents(i)' = {}
       /\ EndEvents(k + 1)' = {CreatedEvent(n)}
  BY <1>1, <1>7, <1>9, <1>10 DEF EndEvents
<1>13. /\ Auction'.end = now + Duration /\ Auction'.settled = FALSE
       /\ chain'[current'].bids = {}
  BY DEF Auction, Fresh
<1>14. EndFollows'
  <2>1. \A i \in DOMAIN socket' : \A e, f \in EndEvents(i)' : e = f
    BY <1>12
  <2>2. \A i \in DOMAIN socket' : \A e \in EndEvents(i)' : e.end = Auction'.end
    BY <1>1, <1>12, <1>13
  <2>3. \E i \in DOMAIN socket' : EndEvents(i)' # {}
    BY <1>9, <1>12
  <2> QED BY <2>1, <2>2, <2>3 DEF EndFollows
<1>15. SettlementFollows'
  BY <1>4, <1>13 DEF SettlementFollows
<1>16. BidsFollow'
  BY <1>4, <1>13 DEF BidsFollow
<1>17. \A i, j \in DOMAIN socket' : \A e \in socket'[i], f \in socket'[j] :
                         /\ e.id = n /\ e.type # "created"
                         /\ f.id = n /\ f.type = "created"
                         => j < i
  BY <1>1, <1>10
<1> QED BY <1>11, <1>14, <1>15, <1>16, <1>17

LEMMA BidKeeps ==
  ASSUME AuctionInv, MissedSound, UNCHANGED <<store, todo, load, blocks, missed>>,
         NEW bidder \in Bidders, NEW v \in Nat, CreateBid(bidder, v)
  PROVE  AuctionInv'
<1> DEFINE bid == [id |-> current, sender |-> bidder, value |-> v]
           extending == [type |-> "extended", id |-> current, end |-> now + TimeBuffer]
           extended == Auction.end - now < TimeBuffer
           events == {[type |-> "bid", bid |-> bid, id |-> current]}
                     \cup (IF extended THEN {extending} ELSE {})
<1>1. HouseSound /\ SocketSound /\ StoreSound /\ Follows
  BY DEF AuctionInv
<1>2. HouseSound' /\ ChainGrows
  BY <1>1, HouseBid
<1>3. Emit(events)
  BY DEF CreateBid
<1>4. Bidden(bidder, v) /\ current \in DOMAIN chain /\ current \in Nat /\ now \in Nat
  BY <1>1, CreateBidChain DEF HouseSound
<1>5. bid \in Offers /\ bid \in chain'[current].bids
  BY <1>4 DEF Bidden, Offers
<1>6. events \in SUBSET Events
  <2>1. [type |-> "bid", bid |-> bid, id |-> current] \in Events
    BY <1>4, <1>5 DEF Events
  <2>2. extending \in Events
    BY <1>4, AuctionNumbers DEF Events
  <2> QED BY <2>1, <2>2
<1>7. \A e \in events :
           /\ e.id = current /\ e.type \in {"bid", "extended"}
           /\ e.type = "bid" => e.bid = bid
  OBVIOUS
<1> HIDE DEF events, bid
<1>8. \A e \in events :
           /\ e.id \in DOMAIN chain'
           /\ e.type = "bid" => e.bid \in chain'[e.id].bids
           /\ e.type = "settled" =>
                /\ chain'[e.id].auction.settled
                /\ e.winner = chain'[e.id].auction.bidder
                /\ e.amount = chain'[e.id].auction.amount
           /\ e.type = "created" => e.id \in Nat /\ e.id > current
  BY <1>4, <1>5, <1>7 DEF Bidden
<1>9. \A e, f \in events : e.type = "created" /\ f.type = "created" => e = f
  BY <1>7
<1>10. SocketSound'
  BY <1>1, <1>2, <1>3, <1>6, <1>8, <1>9, HouseSocket
<1>11. StoreSound'
  BY <1>1, <1>2, <1>3, HouseStore
<1>12. Follows'
  BY <1>1, FollowsBid
<1> QED BY <1>2, <1>10, <1>11, <1>12 DEF AuctionInv

LEMMA SettleKeeps ==
  ASSUME AuctionInv, UNCHANGED <<store, todo, load, blocks, missed>>, SettleAuction
  PROVE  AuctionInv'
<1>1. HouseSound /\ SocketSound /\ StoreSound /\ Follows
  BY DEF AuctionInv
<1>2. HouseSound' /\ ChainGrows
  BY <1>1, HouseSettles
<1>3. Emit({SettledEvent}) /\ chain' = [chain EXCEPT ![current].auction.settled = TRUE]
  BY DEF SettleAuction
<1>4. SettledEvent \in Events /\ current \in DOMAIN chain
  BY <1>1 DEF SettledEvent, Events, HouseSound, Lots, AuctionRecs, Auction
<1>5. /\ SettledEvent.type = "settled" /\ SettledEvent.id = current
      /\ SettledEvent.winner = Auction.bidder /\ SettledEvent.amount = Auction.amount
  BY DEF SettledEvent
<1>6. \A e \in {SettledEvent} :
           /\ e.id \in DOMAIN chain'
           /\ e.type = "bid" => e.bid \in chain'[e.id].bids
           /\ e.type = "settled" =>
                /\ chain'[e.id].auction.settled
                /\ e.winner = chain'[e.id].auction.bidder
                /\ e.amount = chain'[e.id].auction.amount
           /\ e.type = "created" => e.id \in Nat /\ e.id > current
  BY <1>1, <1>3, <1>4, <1>5, SettledChain
<1>7. {SettledEvent} \in SUBSET Events
      /\ \A e, f \in {SettledEvent} : e.type = "created" /\ f.type = "created" => e = f
  BY <1>4
<1>8. SocketSound'
  BY <1>1, <1>2, <1>3, <1>6, <1>7, HouseSocket
<1>9. StoreSound'
  BY <1>1, <1>2, <1>3, HouseStore
<1>10. Follows'
  BY <1>1, FollowsSettle
<1> QED BY <1>2, <1>8, <1>9, <1>10 DEF AuctionInv

LEMMA UnpauseKeeps ==
  ASSUME AuctionInv, UNCHANGED <<store, todo, load, blocks, missed>>, Unpause
  PROVE  AuctionInv'
<1>1. HouseSound /\ SocketSound /\ StoreSound /\ Follows
  BY DEF AuctionInv
<1>2. HouseSound' /\ ChainGrows
  BY <1>1, HouseUnpauses
<1> DEFINE n == NextId(current)
<1>3. /\ Emit({CreatedEvent(n)}) /\ chain' = WithAuction(chain, n) /\ current' = n
  BY DEF Unpause
<1>4. n \in Nat /\ n > current /\ now \in Nat /\ chain \in [DOMAIN chain -> Lots]
  BY <1>1, NextIdGrows DEF HouseSound
<1> HIDE DEF n
<1>5. Fresh(chain'[n], n) /\ n \in DOMAIN chain'
  <2>1. /\ WithAuction(chain, n) \in [DOMAIN chain \cup {n} -> Lots]
        /\ Fresh(WithAuction(chain, n)[n], n)
    BY <1>4, StartedChain
  <2> QED BY <1>3, <2>1
<1>6. /\ CreatedEvent(n).type = "created" /\ CreatedEvent(n).id = n
      /\ CreatedEvent(n) \in Events
  BY <1>4, AuctionNumbers DEF CreatedEvent, Events
<1>7. {CreatedEvent(n)} \in SUBSET Events
      /\ \A e, f \in {CreatedEvent(n)} : e.type = "created" /\ f.type = "created" => e = f
  BY <1>6
<1>8. \A e \in {CreatedEvent(n)} :
           /\ e.id \in DOMAIN chain'
           /\ e.type = "bid" => e.bid \in chain'[e.id].bids
           /\ e.type = "settled" =>
                /\ chain'[e.id].auction.settled
                /\ e.winner = chain'[e.id].auction.bidder
                /\ e.amount = chain'[e.id].auction.amount
           /\ e.type = "created" => e.id \in Nat /\ e.id > current
  BY <1>4, <1>5, <1>6
<1>9. SocketSound'
  BY <1>1, <1>2, <1>3, <1>7, <1>8, HouseSocket
<1>10. StoreSound'
  BY <1>1, <1>2, <1>3, HouseStore
<1>11. Follows'
  <2>1. CreatedEvent(n) \in {CreatedEvent(n)}
        /\ \A e \in {CreatedEvent(n)} : e.id = n => e = CreatedEvent(n)
    OBVIOUS
  <2> QED BY <2>1, <1>1, <1>3, <1>4, <1>5, <1>7, FollowsStart
<1> QED BY <1>2, <1>9, <1>10, <1>11 DEF AuctionInv

LEMMA GoingOnKeeps ==
  ASSUME AuctionInv, UNCHANGED <<store, todo, load, blocks, missed>>,
         SettleCurrentAndCreateNewAuction
  PROVE  AuctionInv'
<1>1. HouseSound /\ SocketSound /\ StoreSound /\ Follows
  BY DEF AuctionInv
<1>2. HouseSound' /\ ChainGrows
  BY <1>1, HouseGoesOn
<1> DEFINE n == NextId(current)
           c == [chain EXCEPT ![current].auction.settled = TRUE]
           events == {SettledEvent, CreatedEvent(n)}
<1>3. /\ Emit(events) /\ chain' = WithAuction(c, n) /\ current' = n
  BY DEF SettleCurrentAndCreateNewAuction
<1>4. n \in Nat /\ n > current /\ now \in Nat /\ current \in DOMAIN chain /\ current \in Nat
  BY <1>1, NextIdGrows DEF HouseSound
<1>5. /\ DOMAIN c = DOMAIN chain /\ c \in [DOMAIN c -> Lots]
      /\ c[current].auction.amount = Auction.amount
      /\ c[current].auction.bidder = Auction.bidder
      /\ c[current].auction.settled = TRUE
  <2> HIDE DEF n
  <2> QED BY <1>1, SettledChain
<1> HIDE DEF n, c
<1>6. /\ Fresh(chain'[n], n) /\ n \in DOMAIN chain' /\ current \in DOMAIN chain'
      /\ chain'[current] = c[current] /\ current # n
  <2>1. /\ WithAuction(c, n) \in [DOMAIN c \cup {n} -> Lots]
        /\ \A id \in DOMAIN c \ {n} : WithAuction(c, n)[id] = c[id]
        /\ Fresh(WithAuction(c, n)[n], n)
    BY <1>4, <1>5, StartedChain
  <2>2. current # n
    BY <1>4
  <2>3. current \in DOMAIN c \ {n}
    BY <1>4, <1>5, <2>2
  <2> QED BY <1>3, <1>5, <2>1, <2>2, <2>3
<1>7. /\ SettledEvent.type = "settled" /\ SettledEvent.id = current
      /\ SettledEvent.winner = Auction.bidder /\ SettledEvent.amount = Auction.amount
  BY DEF SettledEvent
<1>8. SettledEvent \in Events
  BY <1>1 DEF SettledEvent, Events, HouseSound, Lots, AuctionRecs, Auction
<1>9. /\ CreatedEvent(n).type = "created" /\ CreatedEvent(n).id = n
      /\ CreatedEvent(n) \in Events
  BY <1>4, AuctionNumbers DEF CreatedEvent, Events
<1>10. \A e \in events :
           /\ e.id \in DOMAIN chain'
           /\ e.type = "bid" => e.bid \in chain'[e.id].bids
           /\ e.type = "settled" =>
                /\ chain'[e.id].auction.settled
                /\ e.winner = chain'[e.id].auction.bidder
                /\ e.amount = chain'[e.id].auction.amount
           /\ e.type = "created" => e.id \in Nat /\ e.id > current
  <2>1. \A e \in events : e = SettledEvent \/ e = CreatedEvent(n)
    OBVIOUS
  <2> QED BY <2>1, <1>4, <1>5, <1>6, <1>7, <1>9
<1>11. /\ events \in SUBSET Events /\ CreatedEvent(n) \in events
       /\ \A e, f \in events : e.type = "created" /\ f.type = "created" => e = f
       /\ \A e \in events : e.id = n => e = CreatedEvent(n)
  BY <1>6, <1>7, <1>8, <1>9
<1> HIDE DEF events
<1>12. SocketSound'
  BY <1>1, <1>2, <1>3, <1>10, <1>11, HouseSocket
<1>13. StoreSound'
  BY <1>1, <1>2, <1>3, HouseStore
<1>14. Follows'
  BY <1>1, <1>3, <1>4, <1>6, <1>11, FollowsStart
<1> QED BY <1>2, <1>12, <1>13, <1>14 DEF AuctionInv

LEMMA TickKeeps ==
  ASSUME AuctionInv, UNCHANGED <<store, todo, load, blocks, missed>>, Tick
  PROVE  AuctionInv'
<1>1. HouseSound' = HouseSound
  <2>1. \A id : LotSound(id)' = LotSound(id)
    BY DEF Tick, LotSound
  <2>2. HouseSound'
    BY <2>1 DEF Tick, HouseSound, AuctionInv
  <2> QED BY <2>2 DEF AuctionInv
<1>2. SocketSound' = SocketSound
  BY DEF Tick, SocketSound
<1>3. StoreSound' = StoreSound
  <2>1. \A n : CreatedLeft(n)' = CreatedLeft(n)
    BY DEF Tick, CreatedLeft
  <2> QED BY <2>1 DEF Tick, StoreSound, KeyLeft
<1>4. Follows' = Follows
  <2>1. \A i : EndEvents(i)' = EndEvents(i)
    BY DEF Tick, EndEvents
  <2>2. /\ Auction' = Auction /\ Held' = Held /\ Activating' = Activating
        /\ Awaited' = Awaited
    BY DEF Tick, Auction, Held, Activating, Awaited
  <2>3. EndFollows' = EndFollows
    BY <2>1, <2>2 DEF Tick, EndFollows
  <2>4. SettlementFollows' = SettlementFollows
    BY <2>2 DEF Tick, SettlementFollows
  <2>5. BidsFollow' = BidsFollow
    BY <2>2 DEF Tick, BidsFollow
  <2> QED BY <2>2, <2>3, <2>4, <2>5 DEF Tick, Follows
<1> QED BY <1>1, <1>2, <1>3, <1>4 DEF AuctionInv

LEMMA ChainStays ==
  ASSUME HouseSound, UNCHANGED chainVars, lost' \subseteq DOMAIN chain
  PROVE  HouseSound'
<1>1. \A id : LotSound(id)' = LotSound(id)
  BY DEF chainVars, LotSound
<1> QED BY <1>1 DEF chainVars, HouseSound

\* What an answer or an event leaves alone.
SocketRests == UNCHANGED <<chainVars, socket>>

LEMMA SocketStays ==
  ASSUME SocketSound, SocketRests,
         \A i \in DOMAIN socket : \A e \in socket[i] : e.type = "created" =>
           /\ e.id > store'.active.id /\ e.id > store'.last
           /\ \A k \in DOMAIN todo' : todo'[k].do = "active" => e.id > todo'[k].auction.id
  PROVE  SocketSound'
<1>1. socket' = socket /\ chain' = chain
  BY DEF SocketRests, chainVars
<1> QED BY <1>1 DEF SocketSound

\* Which auction is on display makes no difference.
LEMMA DisplayKeeps ==
  ASSUME AuctionInv, UNCHANGED <<chainVars, socket, load, blocks, historyVars>>,
         store' \in Stores, store'.active = store.active, store'.bids = store.bids,
         store'.last = store.last \/ store'.last = store.active.id,
         load = "start" => store'.last = None /\ store'.shown = None,
         todo' \in Seq(Dispatches),
         \/ todo' = todo
         \/ /\ Len(todo) # 4 /\ Len(todo') # 4
            /\ \A k \in DOMAIN todo' : todo'[k].do # "active",
         \/ todo' = <<>> /\ store.active.id = store'.last
         \/ KeyLeft' /\ store.active.id = store'.last /\ load # "start"
         \/ \E n \in DOMAIN chain : CreatedLeft(n)'
  PROVE  AuctionInv'
<1>1. /\ chain' = chain /\ current' = current /\ now' = now /\ socket' = socket
      /\ load' = load /\ blocks' = blocks /\ lost' = lost /\ missed' = missed
  BY DEF chainVars, historyVars
<1>2. HouseSound /\ SocketSound /\ StoreSound /\ Follows
  BY DEF AuctionInv
<1>3. HouseSound'
  BY <1>1, <1>2, ChainStays DEF HouseSound
<1>4. SocketSound'
  <2> SUFFICES ASSUME NEW i \in DOMAIN socket, NEW e \in socket[i], e.type = "created"
               PROVE  /\ e.id > store'.active.id /\ e.id > store'.last
                      /\ \A k \in DOMAIN todo' :
                           todo'[k].do = "active" => e.id > todo'[k].auction.id
    BY <1>1, <1>2, SocketStays DEF SocketRests
  <2>1. /\ e.id > store.active.id /\ e.id > store.last
        /\ \A k \in DOMAIN todo : todo[k].do = "active" => e.id > todo[k].auction.id
    BY <1>2 DEF SocketSound
  <2> QED BY <2>1
<1>5. StoreSound'
  <2>1. load # "start" => store'.last \in DOMAIN chain
    BY <1>2 DEF StoreSound
  <2>2. \/ todo' = <<>> /\ store'.active.id = store'.last
        \/ KeyLeft' /\ store'.active.id = store'.last /\ load' # "start"
        \/ \E n \in DOMAIN chain' : CreatedLeft(n)'
    BY <1>1
  <2>3. /\ load \in {"start", "query", "subscribe", "live"}
        /\ load = "start" => store'.active = NoAuction /\ lost = {}
        /\ load # "start" => store'.active \in AuctionRecs /\ store'.active.id \in DOMAIN chain
        /\ load # "live" => socket = <<>>
        /\ load \in {"start", "query"} => blocks = {} /\ store'.bids = {}
        /\ \A b \in blocks \cup store'.bids : b.id \in DOMAIN chain /\ b \in chain[b.id].bids
        /\ \A b \in store'.bids : b.id = store'.active.id
        /\ store'.bids # {} =>
             \E m \in store'.bids : \A b \in store'.bids : m.value >= b.value
    BY <1>2 DEF StoreSound
  <2> QED BY <1>1, <2>1, <2>2, <2>3 DEF StoreSound
<1>6. Follows'
  <2>1. Activating' = Activating /\ (Activating => todo' = todo)
    BY <1>1 DEF Activating
  <2>2. Held' = Held /\ Awaited' = Awaited /\ Auction' = Auction
    BY <1>1 DEF Held, Awaited, Auction
  <2>3. \A i : EndEvents(i)' = EndEvents(i)
    BY <1>1 DEF EndEvents
  <2>4. EndFollows => EndFollows'
    BY <1>1, <2>1, <2>2, <2>3 DEF EndFollows
  <2>5. SettlementFollows => SettlementFollows'
    BY <1>1, <2>2 DEF SettlementFollows
  <2>6. BidsFollow => BidsFollow'
    BY <1>1, <2>2 DEF BidsFollow
  <2> QED BY <1>1, <1>2, <2>1, <2>2, <2>4, <2>5, <2>6 DEF Follows
<1> QED BY <1>3, <1>4, <1>5, <1>6 DEF AuctionInv

LEMMA FetchKeeps ==
  ASSUME AuctionInv, UNCHANGED chainVars, FetchAuction
  PROVE  AuctionInv'
<1>1. HouseSound /\ SocketSound /\ StoreSound /\ Follows
  BY DEF AuctionInv
<1>2. /\ load = "start" /\ load' = "query" /\ todo = <<>> /\ todo' = <<>>
      /\ store' = [store EXCEPT !.active = Auction, !.last = current]
      /\ blocks' = blocks /\ socket' = socket /\ lost' = lost /\ missed' = missed
      /\ chain' = chain /\ current' = current /\ now' = now
  <2>1. load = "start" /\ load' = "query" /\ todo = <<>> /\ todo' = <<>>
        /\ blocks' = blocks /\ socket' = socket /\ lost' = lost /\ missed' = missed
        /\ chain' = chain /\ current' = current /\ now' = now
    BY DEF FetchAuction, pageVars, chainVars, historyVars
  <2>2. store' = SetLastAuctionTokenId(SetFullAuction(store, Auction), current)
    BY DEF FetchAuction
  <2> QED BY <1>1, <2>1, <2>2 DEF SetLastAuctionTokenId, SetFullAuction, StoreSound, Stores
<1>3. /\ Auction \in AuctionRecs /\ current \in Nat /\ current \in DOMAIN chain
      /\ LotSound(current) /\ Auction.id = current
  BY <1>1 DEF HouseSound, Lots, Auction, LotSound
<1>4. /\ store' \in Stores /\ store'.active = Auction /\ store'.last = current
      /\ store'.bids = {}
  BY <1>1, <1>2, <1>3 DEF StoreSound, Stores
<1>5. socket = <<>> /\ blocks = {} /\ lost = {}
  BY <1>1, <1>2 DEF StoreSound
<1>6. HouseSound'
  BY <1>1, <1>2, <1>5, ChainStays
<1>7. DOMAIN socket = {}
  BY <1>5
<1>8. SocketSound'
  BY <1>1, <1>2, <1>7, SocketStays DEF SocketRests, chainVars
<1>9. StoreSound'
  BY <1>1, <1>2, <1>3, <1>4, <1>5 DEF StoreSound
<1>10. Follows'
  <2>1. Held' /\ Auction' = Auction
    BY <1>2, <1>3, <1>4 DEF Held, Auction
  <2>2. ~Activating'
    <3>1. Len(<<>>) = 0
      OBVIOUS
    <3> QED BY <1>2, <3>1 DEF Activating
  <2>3. EndFollows'
    BY <1>2, <1>4, <1>7, <2>1, <2>2 DEF EndFollows
  <2>4. SettlementFollows'
    BY <1>2, <1>4, <2>1 DEF SettlementFollows
  <2>5. BidsFollow'
    BY <1>2, <1>4, <2>1 DEF BidsFollow
  <2> QED BY <1>2, <1>7, <2>1, <2>3, <2>4, <2>5 DEF Follows
<1> QED BY <1>6, <1>8, <1>9, <1>10 DEF AuctionInv

LEMMA QueryKeeps ==
  ASSUME AuctionInv, MissedSound, UNCHANGED chainVars, QueryBids
  PROVE  AuctionInv'
<1>1. HouseSound /\ SocketSound /\ StoreSound /\ Follows
  BY DEF AuctionInv
<1>2. /\ load = "query" /\ load' = "subscribe" /\ todo = <<>> /\ todo' = <<>>
      /\ blocks' = blocks \cup (Placed \ missed')
      /\ lost' = lost \cup {b.id : b \in {c \in missed' :
                    c.id # store.active.id \/ c.value > store.active.amount}}
      /\ store' = store /\ socket' = socket
      /\ chain' = chain /\ current' = current /\ now' = now
      /\ missed' \subseteq Placed
  BY DEF QueryBids, pageVars, chainVars
<1>10. \A b \in Placed : b.id \in DOMAIN chain /\ b \in chain[b.id].bids
  BY <1>1 DEF Placed, HouseSound, LotSound
<1>3. HouseSound'
  <2>1. lost' \subseteq DOMAIN chain
    BY <1>1, <1>2, <1>10 DEF HouseSound
  <2> QED BY <1>1, <1>2, <2>1, ChainStays
<1>4. socket = <<>> /\ DOMAIN socket = {}
  <2>1. socket = <<>>
    BY <1>1, <1>2 DEF StoreSound
  <2> QED BY <2>1
<1>5. SocketSound'
  BY <1>1, <1>2, <1>4, SocketStays DEF SocketRests, chainVars
<1>6. \A b \in blocks' : b.id \in DOMAIN chain /\ b \in chain[b.id].bids
  <2>2. \A b \in blocks : b.id \in DOMAIN chain /\ b \in chain[b.id].bids
    BY <1>1 DEF StoreSound
  <2> QED BY <1>2, <1>10, <2>2
<1>7. store.active.id = store.last
  <2>1. ~KeyLeft
    <3>1. Len(<<>>) = 0 /\ 0 \notin 1 .. 3
      OBVIOUS
    <3> QED BY <1>2, <3>1 DEF KeyLeft
  <2>2. \A n \in DOMAIN chain : ~CreatedLeft(n)
    BY <1>2 DEF CreatedLeft
  <2> QED BY <1>1, <2>1, <2>2 DEF StoreSound
<1>8. StoreSound'
  <2>1. /\ store' \in Stores /\ todo' \in Seq(Dispatches)
        /\ store.active \in AuctionRecs /\ store.active.id \in DOMAIN chain
        /\ store.last \in DOMAIN chain /\ store.bids = {}
    BY <1>1, <1>2 DEF StoreSound
  <2> QED BY <1>2, <1>4, <1>6, <1>7, <2>1 DEF StoreSound
<1>9. Follows'
  <2> SUFFICES ASSUME current \notin lost'
               PROVE  /\ Held' /\ EndFollows' /\ SettlementFollows' /\ BidsFollow'
    BY <1>2, <1>4 DEF Follows
  <2>1. /\ Held' = Held /\ Activating' = Activating /\ Awaited' = Awaited
        /\ Auction' = Auction
    BY <1>2 DEF Held, Activating, Awaited, Auction
  <2>2. \A i : EndEvents(i)' = EndEvents(i)
    BY <1>2 DEF EndEvents
  <2>3. Held /\ EndFollows /\ SettlementFollows
    BY <1>1, <1>2, Deaf DEF Follows
  <2>4. EndFollows'
    BY <1>2, <2>1, <2>2, <2>3 DEF EndFollows
  <2>5. SettlementFollows'
    BY <1>2, <2>1, <2>3 DEF SettlementFollows
  <2>6. chain[current].bids \subseteq blocks' \cup missed'
    BY <1>1, <1>2 DEF HouseSound, Placed
  <2>7. ASSUME store.bids = chain[current].bids \ missed'
        PROVE  store.active.amount = Auction.amount /\ store.active.bidder = Auction.bidder
    <3>1. /\ LotSound(current) /\ chain[current] \in Lots /\ chain[current].bids \in SUBSET Offers
          /\ Auction.amount \in Nat
      BY <1>1 DEF HouseSound, Lots, Auction, AuctionRecs
    <3>2. \A b \in chain[current].bids : b \in missed'
      <4>1. store.bids = {}
        BY <1>1, <1>2 DEF StoreSound
      <4> QED BY <2>7, <4>1
    <3>3. \A b \in chain[current].bids : ~(b.value > store.active.amount)
      <4> SUFFICES ASSUME NEW b \in chain[current].bids, b.value > store.active.amount
                   PROVE  FALSE
        OBVIOUS
      <4>1. b.id = current
        BY <3>1 DEF LotSound
      <4>2. b.id \in lost'
        BY <1>2, <3>2
      <4> QED BY <4>1, <4>2
    <3>4. \/ store.active.bidder = NoBidder /\ store.active.amount = 0
          \/ \E b \in chain[current].bids :
               b.sender = store.active.bidder /\ b.value = store.active.amount
      BY <1>2, <2>3 DEF MissedSound, Held
    <3>5. CASE chain[current].bids = {}
      BY <3>1, <3>4, <3>5 DEF LotSound, Auction
    <3>6. CASE chain[current].bids # {}
      <4>1. PICK top \in chain[current].bids :
              top.value = Auction.amount /\ top.sender = Auction.bidder
        BY <3>1, <3>6 DEF LotSound, Auction
      <4>2. top.value \in Nat /\ top.value >= Reserve
        BY <3>1, <3>6, <4>1 DEF LotSound, Auction
      <4>3. ~(top.value > 0) => FALSE
        <5>1. Reserve # 0
          <6>1. 0 * Percentage = 0
            BY AuctionNumbers
          <6> QED BY <6>1, AuctionNumbers
        <5> QED BY <4>2, <5>1, AuctionNumbers
      <4>4. ~(store.active.bidder = NoBidder /\ store.active.amount = 0)
        BY <3>3, <4>1, <4>3
      <4>5. PICK b \in chain[current].bids :
               b.sender = store.active.bidder /\ b.value = store.active.amount
        BY <3>4, <4>4
      <4>6. b.value \in Nat /\ b.value <= Auction.amount
        BY <3>1, <4>5 DEF LotSound, Auction, Offers
      <4>7. b.value = top.value
        BY <3>3, <4>1, <4>2, <4>5, <4>6
      <4>8. b = top
        BY <3>1, <4>7 DEF LotSound
      <4> QED BY <4>1, <4>5, <4>8
    <3> QED BY <3>5, <3>6
  <2>8. BidsFollow'
    BY <1>2, <2>1, <2>3, <2>6, <2>7 DEF BidsFollow
  <2> QED BY <2>1, <2>3, <2>4, <2>5, <2>8
<1> QED BY <1>3, <1>5, <1>8, <1>9 DEF AuctionInv

LEMMA SubscribeKeeps ==
  ASSUME AuctionInv, UNCHANGED chainVars, Subscribe
  PROVE  AuctionInv'
<1>1. HouseSound /\ SocketSound /\ StoreSound /\ Follows
  BY DEF AuctionInv
<1>2. /\ load = "subscribe" /\ load' = "live" /\ todo = <<>> /\ todo' = <<>>
      /\ blocks' = blocks
      /\ store' = store /\ socket' = socket /\ lost' = lost /\ missed' = missed
      /\ chain' = chain /\ current' = current /\ now' = now
  BY DEF Subscribe, pageVars, chainVars, historyVars
<1>3. HouseSound'
  BY <1>1, <1>2, ChainStays DEF HouseSound
<1>4. DOMAIN socket = {}
  <2>1. socket = <<>>
    BY <1>1, <1>2 DEF StoreSound
  <2> QED BY <2>1
<1>5. SocketSound'
  BY <1>1, <1>2, <1>4, SocketStays DEF SocketRests, chainVars
<1>6. store.active.id = store.last
  <2>1. ~KeyLeft
    <3>1. Len(<<>>) = 0 /\ 0 \notin 1 .. 3
      OBVIOUS
    <3> QED BY <1>2, <3>1 DEF KeyLeft
  <2>2. \A n \in DOMAIN chain : ~CreatedLeft(n)
    BY <1>2 DEF CreatedLeft
  <2> QED BY <1>1, <2>1, <2>2 DEF StoreSound
<1>7. StoreSound'
  <2>1. /\ store' \in Stores /\ todo' \in Seq(Dispatches)
        /\ store.active \in AuctionRecs /\ store.active.id \in DOMAIN chain
        /\ store.last \in DOMAIN chain
        /\ \A b \in blocks \cup store.bids : b.id \in DOMAIN chain /\ b \in chain[b.id].bids
        /\ \A b \in store.bids : b.id = store.active.id
        /\ store.bids # {} =>
             \E m \in store.bids : \A b \in store.bids : m.value >= b.value
    BY <1>1, <1>2 DEF StoreSound
  <2> QED BY <1>2, <1>6, <2>1 DEF StoreSound
<1>8. Follows'
  <2>1. /\ Held' = Held /\ Activating' = Activating /\ Awaited' = Awaited
        /\ Auction' = Auction
    BY <1>2 DEF Held, Activating, Awaited, Auction
  <2>2. \A i : EndEvents(i)' = EndEvents(i)
    BY <1>2 DEF EndEvents
  <2>3. EndFollows => EndFollows'
    BY <1>2, <2>1, <2>2 DEF EndFollows
  <2>4. SettlementFollows => SettlementFollows'
    BY <1>2, <2>1 DEF SettlementFollows
  <2>5. BidsFollow => BidsFollow'
    BY <1>2, <2>1 DEF BidsFollow
  <2> QED BY <1>1, <1>2, <2>1, <2>3, <2>4, <2>5 DEF Follows
<1> QED BY <1>3, <1>5, <1>7, <1>8 DEF AuctionInv

LEMMA AtRest ==
  ASSUME StoreSound, todo = <<>>
  PROVE  store.active.id = store.last /\ ~Activating /\ todo \in Seq(Dispatches)
<1>1. Len(todo) = 0 /\ 0 \notin 1 .. 3 /\ 0 \notin 1 .. 4 /\ 0 # 4
  OBVIOUS
<1>2. ~KeyLeft /\ ~Activating /\ \A n \in DOMAIN chain : ~CreatedLeft(n)
  BY <1>1 DEF KeyLeft, Activating, CreatedLeft
<1> QED BY <1>2 DEF StoreSound

LEMMA ShownAuction ==
  ASSUME store \in Stores
  PROVE  Shown.id = None \/ (Shown.id = store.shown /\ store.shown \in Nat)
<1>1. NoAuction.id = None
  BY DEF NoAuction
<1>2. \A n : EmptyAuction(n).id = n
  BY DEF EmptyAuction, NoAuction
<1>3. ASSUME store.active.id # None, store.shown = store.active.id
      PROVE  [store.active EXCEPT !.settled = FALSE].id = store.shown
  <2>1. store.active \in AuctionRecs
    BY <1>1, <1>3 DEF Stores
  <2> QED BY <1>3, <2>1 DEF AuctionRecs
<1>4. store.shown \in Nat \cup {None}
  BY DEF Stores
<1> QED BY <1>1, <1>2, <1>3, <1>4 DEF Shown, UseOnDisplayAuction

\* A store with another auction on display.
LEMMA ShowsAnother ==
  ASSUME store \in Stores, NEW n \in Nat \cup {None}
  PROVE  /\ [store EXCEPT !.shown = n] \in Stores
         /\ [store EXCEPT !.shown = n].active = store.active
         /\ [store EXCEPT !.shown = n].bids = store.bids
         /\ [store EXCEPT !.shown = n].last = store.last
         /\ [store EXCEPT !.shown = n].shown = n
BY DEF Stores

LEMMA PastKeeps ==
  ASSUME AuctionInv, UNCHANGED chainVars, FetchPastAuctions
  PROVE  AuctionInv'
<1>1. HouseSound /\ StoreSound
  BY DEF AuctionInv
<1>2. /\ load' = load /\ blocks' = blocks /\ todo' = todo /\ todo = <<>>
      /\ socket' = socket /\ historyVars' = historyVars
      /\ store' = AddPastAuctions(store, DOMAIN chain)
  BY DEF FetchPastAuctions, pageVars
<1>3. DOMAIN chain \in SUBSET Nat
  BY <1>1 DEF HouseSound
<1>4. /\ store' \in Stores /\ store'.active = store.active /\ store'.bids = store.bids
      /\ store'.last = store.last /\ store'.shown = store.shown
  BY <1>1, <1>2, <1>3 DEF AddPastAuctions, Stores, StoreSound
<1>5. load = "start" => store.last = None /\ store.shown = None
  BY <1>1 DEF StoreSound
<1>6. store.active.id = store.last /\ todo \in Seq(Dispatches)
  BY <1>1, <1>2, AtRest
<1> QED BY <1>2, <1>4, <1>5, <1>6, DisplayKeeps

LEMMA EffectKeeps ==
  ASSUME AuctionInv, UNCHANGED chainVars, RunEffect, route \in Int
  PROVE  AuctionInv'
<1>1. StoreSound
  BY DEF AuctionInv
<1>2. /\ load' = load /\ blocks' = blocks /\ todo' = todo
      /\ socket' = socket /\ historyVars' = historyVars
      /\ store' = [store EXCEPT !.shown = Effect]
  BY DEF RunEffect, loadVars, SetOnDisplayAuctionTokenId
<1>3. Effect \in Nat \cup {None} /\ (load = "start" => Effect = None)
  <2>1. /\ store.last \in Nat \cup {None} /\ store.shown \in Nat \cup {None}
        /\ load = "start" => store.last = None /\ store.shown = None
    BY <1>1 DEF StoreSound, Stores
  <2>2. CASE store.last \in {None, 0}
    BY <2>1, <2>2 DEF Effect
  <2>3. CASE store.last \notin {None, 0}
    <3>1. route # None /\ ~OutOfBounds => route \in Nat
      BY <2>1, <2>3 DEF OutOfBounds
    <3> QED BY <2>1, <2>3, <3>1 DEF Effect
  <2> QED BY <2>2, <2>3
<1>4. store \in Stores
  BY <1>1 DEF StoreSound
<1>5. /\ store' \in Stores /\ store'.active = store.active /\ store'.bids = store.bids
      /\ store'.last = store.last /\ store'.shown = Effect
  BY <1>2, <1>3, <1>4, ShowsAnother
<1>6. load = "start" => store'.last = None /\ store'.shown = None
  BY <1>1, <1>3, <1>5 DEF StoreSound
<1>7. \A n : CreatedLeft(n)' = CreatedLeft(n)
  BY <1>2, <1>5 DEF CreatedLeft, chainVars
<1>8. KeyLeft' = KeyLeft
  BY <1>2 DEF KeyLeft
<1>9. \/ todo' = <<>> /\ store.active.id = store'.last
      \/ KeyLeft' /\ store.active.id = store'.last /\ load # "start"
      \/ \E n \in DOMAIN chain : CreatedLeft(n)'
  BY <1>1, <1>2, <1>5, <1>7, <1>8 DEF StoreSound
<1>10. todo' \in Seq(Dispatches)
  BY <1>1, <1>2 DEF StoreSound
<1> QED BY <1>2, <1>5, <1>6, <1>9, <1>10, DisplayKeeps

\* The user navigates on a page that is loaded and at rest.
LEMMA NavigableStore ==
  ASSUME StoreSound, Navigable
  PROVE  /\ load # "start" /\ todo = <<>> /\ Shown.id = store.shown
         /\ store.shown \in Nat /\ store.active.id = store.last
         /\ store.last \in Nat /\ store \in Stores
<1>1. todo = <<>> /\ Shown.id # None /\ store.last # None
  BY DEF Navigable
<1>2. store \in Stores
  BY DEF StoreSound
<1>3. Shown.id = store.shown /\ store.shown \in Nat
  BY <1>1, <1>2, ShownAuction
<1>4. load # "start"
  BY <1>1 DEF StoreSound
<1>5. store.last \in Nat
  BY <1>1, <1>2 DEF Stores
<1> QED BY <1>1, <1>2, <1>3, <1>4, <1>5, AtRest

LEMMA PrevNext ==
  ASSUME store \in Stores
  PROVE  \E m, n \in Nat \cup {None} :
           /\ SetPrevOnDisplayAuctionTokenId(store) = [store EXCEPT !.shown = m]
           /\ SetNextOnDisplayAuctionTokenId(store) = [store EXCEPT !.shown = n]
           /\ store.shown = None => m = None /\ n = None
<1>1. store.shown \in Nat \cup {None}
  BY DEF Stores
<1>2. store = [store EXCEPT !.shown = store.shown]
  BY DEF Stores
<1>3. \E m \in Nat \cup {None} :
           /\ SetPrevOnDisplayAuctionTokenId(store) = [store EXCEPT !.shown = m]
           /\ store.shown = None => m = None
  <2>1. CASE store.shown \in {None, 0}
    BY <2>1, <1>1, <1>2 DEF SetPrevOnDisplayAuctionTokenId
  <2>2. CASE store.shown \notin {None, 0}
    <3>1. store.shown - 1 \in Nat /\ store.shown # None
      BY <2>2, <1>1
    <3> QED BY <2>2, <3>1 DEF SetPrevOnDisplayAuctionTokenId
  <2> QED BY <2>1, <2>2
<1>4. \E n \in Nat \cup {None} :
           /\ SetNextOnDisplayAuctionTokenId(store) = [store EXCEPT !.shown = n]
           /\ store.shown = None => n = None
  <2>1. CASE store.shown \in {None, store.last}
    BY <2>1, <1>1, <1>2 DEF SetNextOnDisplayAuctionTokenId
  <2>2. CASE store.shown \notin {None, store.last}
    <3>1. store.shown + 1 \in Nat /\ store.shown # None
      BY <2>2, <1>1
    <3> QED BY <2>2, <3>1 DEF SetNextOnDisplayAuctionTokenId
  <2> QED BY <2>1, <2>2
<1> QED BY <1>3, <1>4

LEMMA ClickKeeps ==
  ASSUME AuctionInv, UNCHANGED chainVars, ClickPrev \/ ClickNext
  PROVE  AuctionInv'
<1>1. StoreSound
  BY DEF AuctionInv
<1>2. Navigable
  BY DEF ClickPrev, ClickNext
<1>3. /\ load # "start" /\ todo = <<>> /\ store.active.id = store.last
      /\ store \in Stores
  BY <1>1, <1>2, NavigableStore
<1>4. /\ load' = load /\ blocks' = blocks /\ todo' = todo
      /\ socket' = socket /\ historyVars' = historyVars
  BY DEF ClickPrev, ClickNext, loadVars
<1>5. PICK n \in Nat \cup {None} : store' = [store EXCEPT !.shown = n]
  BY <1>3, PrevNext DEF ClickPrev, ClickNext
<1>6. /\ store' \in Stores /\ store'.active = store.active /\ store'.bids = store.bids
      /\ store'.last = store.last
  BY <1>3, <1>5, ShowsAnother
<1>7. todo \in Seq(Dispatches)
  BY <1>1 DEF StoreSound
<1> QED BY <1>3, <1>4, <1>6, <1>7, DisplayKeeps

LEMMA SeqEqual ==
  ASSUME NEW S, NEW s \in Seq(S), NEW t \in Seq(S), Len(s) = Len(t),
         \A i \in 1 .. Len(s) : s[i] = t[i]
  PROVE  s = t
OBVIOUS

LEMMA JoinOneTwo ==
  ASSUME NEW a, NEW b, NEW c
  PROVE  <<a>> \o <<b, c>> = <<a, b, c>>
<1> DEFINE S == {a, b, c}
<1>1. <<a>> \in Seq(S) /\ <<b, c>> \in Seq(S) /\ <<a, b, c>> \in Seq(S)
  OBVIOUS
<1>2. /\ Len(<<a>> \o <<b, c>>) = 3 /\ Len(<<a, b, c>>) = 3
      /\ <<a>> \o <<b, c>> \in Seq(S)
      /\ (<<a>> \o <<b, c>>)[1] = a
      /\ (<<a>> \o <<b, c>>)[2] = b
      /\ (<<a>> \o <<b, c>>)[3] = c
  BY <1>1
<1>3. \A i \in 1 .. 3 : i = 1 \/ i = 2 \/ i = 3
  OBVIOUS
<1>4. \A i \in 1 .. 3 : (<<a>> \o <<b, c>>)[i] = <<a, b, c>>[i]
  BY <1>2, <1>3
<1> HIDE DEF S
<1> QED BY <1>1, <1>2, <1>4, SeqEqual

LEMMA LeftKeeps ==
  ASSUME AuctionInv, UNCHANGED chainVars, HandleArrowLeft
  PROVE  AuctionInv'
<1>1. StoreSound
  BY DEF AuctionInv
<1>2. /\ load # "start" /\ todo = <<>> /\ store.active.id = store.last
      /\ Shown.id \in Nat /\ store.last \in Nat /\ store \in Stores
  BY <1>1, NavigableStore DEF HandleArrowLeft
<1>3. /\ load' = load /\ blocks' = blocks /\ store' = store
      /\ socket' = socket /\ historyVars' = historyVars
  BY DEF HandleArrowLeft, loadVars
<1> DEFINE last == [do |-> "push", id |-> store.last]
           prev == [do |-> "prev"]
           push == [do |-> "push", id |-> Shown.id - 1]
<1>4. \/ todo' = <<>>
      \/ todo' = <<last>>
      \/ Shown.id # 0 /\ todo' = <<prev, push>>
      \/ Shown.id # 0 /\ todo' = <<last, prev, push>>
  <2> DEFINE a == IF IsLastAuction THEN <<last>> ELSE <<>>
             b == IF Shown.id = 0 THEN <<>> ELSE <<prev, push>>
  <2>1. todo' = a \o b
    BY DEF HandleArrowLeft
  <2> HIDE DEF last, prev, push
  <2>2. CASE Shown.id = 0
    <3>1. <<last>> \o <<>> = <<last>> /\ <<>> \o <<>> = <<>>
      OBVIOUS
    <3> QED BY <2>1, <2>2, <3>1
  <2>3. CASE Shown.id # 0
    <3>1. <<last>> \o <<prev, push>> = <<last, prev, push>>
      BY JoinOneTwo
    <3>2. <<>> \o <<prev, push>> = <<prev, push>>
      OBVIOUS
    <3> QED BY <2>1, <2>3, <3>1, <3>2
  <2> QED BY <2>2, <2>3
<1>5. /\ last \in Dispatches /\ prev \in Dispatches
      /\ Shown.id # 0 => push \in Dispatches
  BY <1>2 DEF Dispatches
<1>6. /\ last.do = "push" /\ prev.do = "prev" /\ push.do = "push"
  OBVIOUS
<1> HIDE DEF last, prev, push
<1>7. /\ todo' \in Seq(Dispatches) /\ Len(todo') # 4
      /\ \A k \in DOMAIN todo' : todo'[k].do # "active"
      /\ todo' = <<>> \/ KeyLeft'
  <2>1. CASE todo' = <<>>
    BY <2>1
  <2>2. CASE todo' = <<last>>
    <3>1. /\ Len(todo') = 1 /\ DOMAIN todo' = {1} /\ todo'[1] = last
          /\ todo' \in Seq(Dispatches)
      BY <2>2, <1>5
    <3> QED BY <3>1, <1>6 DEF KeyLeft
  <2>3. CASE Shown.id # 0 /\ todo' = <<prev, push>>
    <3>1. /\ Len(todo') = 2 /\ DOMAIN todo' = {1, 2} /\ todo'[1] = prev
          /\ todo'[2] = push /\ todo' \in Seq(Dispatches)
      BY <2>3, <1>5
    <3> QED BY <3>1, <1>6 DEF KeyLeft
  <2>4. CASE Shown.id # 0 /\ todo' = <<last, prev, push>>
    <3>1. /\ Len(todo') = 3 /\ DOMAIN todo' = {1, 2, 3} /\ todo'[1] = last
          /\ todo'[2] = prev /\ todo'[3] = push /\ todo' \in Seq(Dispatches)
      BY <2>4, <1>5
    <3> QED BY <3>1, <1>6 DEF KeyLeft
  <2> QED BY <1>4, <2>1, <2>2, <2>3, <2>4
<1>8. Len(todo) # 4
  BY <1>2
<1> QED BY <1>2, <1>3, <1>7, <1>8, DisplayKeeps

LEMMA RightKeeps ==
  ASSUME AuctionInv, UNCHANGED chainVars, HandleArrowRight
  PROVE  AuctionInv'
<1>1. StoreSound
  BY DEF AuctionInv
<1>2. /\ load # "start" /\ todo = <<>> /\ store.active.id = store.last
      /\ Shown.id \in Nat /\ store \in Stores
  BY <1>1, NavigableStore DEF HandleArrowRight
<1>3. /\ load' = load /\ blocks' = blocks /\ store' = store
      /\ socket' = socket /\ historyVars' = historyVars
  BY DEF HandleArrowRight, loadVars
<1> DEFINE next == [do |-> "next"]
           push == [do |-> "push", id |-> Shown.id + 1]
<1>4. todo' = <<next, push>>
  BY DEF HandleArrowRight
<1>5. next \in Dispatches /\ push \in Dispatches
  BY <1>2 DEF Dispatches
<1>6. next.do = "next" /\ push.do = "push"
  OBVIOUS
<1> HIDE DEF next, push
<1>7. /\ Len(todo') = 2 /\ DOMAIN todo' = {1, 2} /\ todo'[1] = next
      /\ todo'[2] = push /\ todo' \in Seq(Dispatches)
  BY <1>4, <1>5
<1>8. KeyLeft' /\ Len(todo') # 4 /\ \A k \in DOMAIN todo' : todo'[k].do # "active"
  BY <1>6, <1>7 DEF KeyLeft
<1>9. Len(todo) # 4
  BY <1>2
<1> QED BY <1>2, <1>3, <1>7, <1>8, <1>9, DisplayKeeps

LEMMA Small ==
  /\ 1 .. 0 = {} /\ 1 .. 1 = {1} /\ 1 .. 2 = {1, 2} /\ 1 .. 3 = {1, 2, 3}
  /\ 1 + 1 = 2 /\ 2 + 1 = 3 /\ 3 + 1 = 4 /\ 2 - 1 = 1 /\ 3 - 1 = 2 /\ 3 - 2 = 1
  /\ 4 - 1 = 3 /\ 4 - 2 = 2
  /\ 1 # 4 /\ 2 # 4 /\ 3 # 4 /\ 0 # 4 /\ 1 # 3 /\ 2 # 3
OBVIOUS

LEMMA TailFacts ==
  ASSUME NEW S, NEW s \in Seq(S), s # <<>>
  PROVE  \E m \in Nat :
           /\ Len(s) = m + 1 /\ DOMAIN s = 1 .. m + 1 /\ Head(s) = s[1]
           /\ Tail(s) \in Seq(S) /\ Len(Tail(s)) = m /\ DOMAIN Tail(s) = 1 .. m
           /\ \A k \in 1 .. m : Tail(s)[k] = s[k + 1] /\ k + 1 \in DOMAIN s
<1>1. Len(s) \in Nat /\ Len(s) # 0 /\ DOMAIN s = 1 .. Len(s)
  BY SMTT(30)
<1>2. PICK m \in Nat : Len(s) = m + 1
  <2>1. Len(s) - 1 \in Nat /\ Len(s) = (Len(s) - 1) + 1
    BY <1>1
  <2> QED BY <2>1
<1>3. Tail(s) \in Seq(S) /\ Len(Tail(s)) = m /\ Head(s) = s[1]
  BY <1>2
<1>4. \A k \in 1 .. m : Tail(s)[k] = s[k + 1] /\ k + 1 \in DOMAIN s
  BY <1>1, <1>2
<1> QED BY <1>1, <1>2, <1>3, <1>4

\* The steps of a key.
LEMMA KeyTail ==
  ASSUME todo \in Seq(Dispatches), KeyLeft, todo' = Tail(todo)
  PROVE  /\ todo[1].do \in {"push", "prev", "next"}
         /\ todo' \in Seq(Dispatches) /\ Len(todo) # 4 /\ Len(todo') # 4
         /\ \A k \in DOMAIN todo' : todo'[k].do # "active"
         /\ todo' = <<>> \/ KeyLeft'
<1>1. Len(todo) \in 1 .. 3 /\ todo # <<>>
  <2>1. Len(<<>>) = 0 /\ 0 \notin 1 .. 3
    OBVIOUS
  <2> QED BY <2>1 DEF KeyLeft
<1>2. PICK m \in Nat :
        /\ Len(todo) = m + 1 /\ DOMAIN todo = 1 .. m + 1
        /\ todo' \in Seq(Dispatches) /\ Len(todo') = m /\ DOMAIN todo' = 1 .. m
        /\ \A k \in 1 .. m : todo'[k] = todo[k + 1] /\ k + 1 \in DOMAIN todo
  BY <1>1, TailFacts
<1>3. m = 0 \/ m = 1 \/ m = 2
  BY <1>1, <1>2
<1>4. Len(todo) # 4 /\ Len(todo') # 4
  BY <1>2, <1>3
<1>5. CASE m = 0
  <2>1. todo' = <<>> /\ Len(todo) = 1
    BY <1>2, <1>5
  <2>2. todo[1].do = "push" /\ DOMAIN todo' = {}
    BY <2>1 DEF KeyLeft
  <2> QED BY <1>2, <1>4, <2>1, <2>2
<1>6. CASE m = 1
  <2>1. Len(todo) = 2 /\ Len(todo') = 1 /\ DOMAIN todo' = {1} /\ todo'[1] = todo[2]
    BY <1>2, <1>6
  <2>2. todo[2].do = "push" /\ todo[1].do \in {"prev", "next"}
    BY <2>1 DEF KeyLeft
  <2> QED BY <1>2, <1>4, <2>1, <2>2 DEF KeyLeft
<1>7. CASE m = 2
  <2>1. /\ Len(todo) = 3 /\ Len(todo') = 2 /\ DOMAIN todo' = {1, 2}
        /\ todo'[1] = todo[2] /\ todo'[2] = todo[3]
    BY <1>2, <1>7, Small
  <2>2. todo[3].do = "push" /\ todo[2].do \in {"prev", "next"} /\ todo[1].do = "push"
    BY <2>1, Small DEF KeyLeft
  <2>3. KeyLeft'
    BY <2>1, <2>2, Small DEF KeyLeft
  <2>4. \A k \in DOMAIN todo' : todo'[k].do # "active"
    BY <2>1, <2>2
  <2> QED BY <1>2, <1>4, <2>1, <2>2, <2>3, <2>4
<1> QED BY <1>3, <1>5, <1>6, <1>7

\* The steps of processAuctionCreated.
LEMMA CreatedTail ==
  ASSUME todo \in Seq(Dispatches), NEW n, CreatedLeft(n), todo' = Tail(todo)
  PROVE  /\ todo' \in Seq(Dispatches) /\ Len(todo') # 4
         /\ \A k \in DOMAIN todo' : todo'[k].do # "active"
         /\ \/ /\ Len(todo) = 4 /\ Len(todo') = 3
               /\ todo[1].do = "active" /\ todo[1].auction.id = n
               /\ todo'[1].do = "url" /\ todo'[1].id = n
               /\ todo'[2].do = "show" /\ todo'[2].id = n
               /\ todo'[3].do = "last" /\ todo'[3].id = n
            \/ /\ Len(todo) = 3 /\ Len(todo') = 2
               /\ todo[1].do = "url" /\ todo[1].id = n
               /\ todo'[1].do = "show" /\ todo'[1].id = n
               /\ todo'[2].do = "last" /\ todo'[2].id = n
            \/ /\ Len(todo) = 2 /\ Len(todo') = 1
               /\ todo[1].do = "show" /\ todo[1].id = n
               /\ todo'[1].do = "last" /\ todo'[1].id = n
            \/ /\ Len(todo) = 1 /\ todo' = <<>>
               /\ todo[1].do = "last" /\ todo[1].id = n
<1>1. Len(todo) \in 1 .. 4 /\ todo # <<>>
  <2>1. Len(<<>>) = 0 /\ 0 \notin 1 .. 4
    OBVIOUS
  <2> QED BY <2>1 DEF CreatedLeft
<1>2. PICK m \in Nat :
        /\ Len(todo) = m + 1 /\ DOMAIN todo = 1 .. m + 1
        /\ todo' \in Seq(Dispatches) /\ Len(todo') = m /\ DOMAIN todo' = 1 .. m
        /\ \A k \in 1 .. m : todo'[k] = todo[k + 1] /\ k + 1 \in DOMAIN todo
  BY <1>1, TailFacts
<1>3. m = 0 \/ m = 1 \/ m = 2 \/ m = 3
  BY <1>1, <1>2
<1>4. CASE m = 0
  <2>1. todo' = <<>> /\ Len(todo) = 1 /\ Len(todo') # 4
    BY <1>2, <1>4
  <2>2. todo[1].do = "last" /\ todo[1].id = n /\ DOMAIN todo' = {}
    BY <2>1 DEF CreatedLeft
  <2> QED BY <1>2, <2>1, <2>2
<1>5. CASE m = 1
  <2>1. Len(todo) = 2 /\ Len(todo') = 1 /\ DOMAIN todo' = {1} /\ todo'[1] = todo[2]
    BY <1>2, <1>5
  <2>2. todo[2].do = "last" /\ todo[2].id = n /\ todo[1].do = "show" /\ todo[1].id = n
    BY <2>1, Small DEF CreatedLeft
  <2>3. Len(todo') # 4 /\ \A k \in DOMAIN todo' : todo'[k].do # "active"
    BY <2>1, <2>2, Small
  <2> QED BY <1>2, <2>1, <2>2, <2>3
<1>6. CASE m = 2
  <2>1. /\ Len(todo) = 3 /\ Len(todo') = 2 /\ DOMAIN todo' = {1, 2}
        /\ todo'[1] = todo[2] /\ todo'[2] = todo[3]
    BY <1>2, <1>6, Small
  <2>2. /\ todo[3].do = "last" /\ todo[3].id = n /\ todo[2].do = "show" /\ todo[2].id = n
        /\ todo[1].do = "url" /\ todo[1].id = n
    BY <2>1, Small DEF CreatedLeft
  <2>3. Len(todo') # 4 /\ \A k \in DOMAIN todo' : todo'[k].do # "active"
    BY <2>1, <2>2, Small
  <2> QED BY <1>2, <2>1, <2>2, <2>3
<1>7. CASE m = 3
  <2>1. /\ Len(todo) = 4 /\ Len(todo') = 3 /\ DOMAIN todo' = {1, 2, 3}
        /\ todo'[1] = todo[2] /\ todo'[2] = todo[3] /\ todo'[3] = todo[4]
    BY <1>2, <1>7, Small
  <2>2. /\ todo[4].do = "last" /\ todo[4].id = n /\ todo[3].do = "show" /\ todo[3].id = n
        /\ todo[2].do = "url" /\ todo[2].id = n
        /\ todo[1].do = "active" /\ todo[1].auction.id = n
    BY <2>1, Small DEF CreatedLeft
  <2>3. Len(todo') # 4 /\ \A k \in DOMAIN todo' : todo'[k].do # "active"
    BY <2>1, <2>2, Small
  <2> QED BY <1>2, <2>1, <2>2, <2>3
<1> QED BY <1>3, <1>4, <1>5, <1>6, <1>7

LEMMA MemberOfSeq ==
  ASSUME NEW S, NEW s \in Seq(S), NEW i \in DOMAIN s
  PROVE  s[i] \in S
OBVIOUS

\* The store turns to an auction that starts.
LEMMA ActivateKeeps ==
  ASSUME AuctionInv, MissedSound,
         UNCHANGED <<chainVars, socket, load, blocks, historyVars>>,
         NEW n \in DOMAIN chain, CreatedLeft(n), Len(todo) = 4, todo' = Tail(todo),
         store' = SetActiveAuction(store, todo[1].auction)
  PROVE  AuctionInv'
<1>1. /\ chain' = chain /\ current' = current /\ now' = now /\ socket' = socket
      /\ load' = load /\ blocks' = blocks /\ lost' = lost /\ missed' = missed
  BY DEF chainVars, historyVars
<1>2. HouseSound /\ SocketSound /\ StoreSound /\ Follows
  BY DEF AuctionInv
<1>3. /\ load = "live" /\ n > store.last /\ store.active.id = store.last
      /\ todo[1].do = "active" /\ todo[1].auction.id = n
      /\ store.last \in DOMAIN chain /\ store.last \in Nat /\ n \in Nat
      /\ todo \in Seq(Dispatches) /\ store \in Stores
  BY <1>2 DEF CreatedLeft, StoreSound, HouseSound
<1>4. /\ todo' \in Seq(Dispatches) /\ Len(todo') = 3
      /\ \A k \in DOMAIN todo' : todo'[k].do # "active"
      /\ todo'[1].do = "url" /\ todo'[1].id = n
      /\ todo'[2].do = "show" /\ todo'[2].id = n
      /\ todo'[3].do = "last" /\ todo'[3].id = n
  BY <1>3, CreatedTail
<1>5. todo[1].auction.end \in Nat
  <2>1. todo[1] \in Dispatches
    <3>1. todo \in Seq(Dispatches) /\ 1 \in DOMAIN todo
      <4>1. todo \in Seq(Dispatches) /\ DOMAIN todo = 1 .. Len(todo)
        BY <1>3
      <4> QED BY <4>1
    <3> QED BY <3>1, MemberOfSeq
  <2> QED BY <1>3, <2>1 DEF Dispatches
<1> DEFINE new == [id |-> n, amount |-> 0, bidder |-> NoBidder,
                   end |-> todo[1].auction.end, settled |-> FALSE]
<1>6. new \in AuctionRecs
  BY <1>3, <1>5 DEF AuctionRecs, Takers
<1>7. /\ new.id = n /\ new.amount = 0 /\ new.bidder = NoBidder
      /\ new.end = todo[1].auction.end /\ new.settled = FALSE
  OBVIOUS
<1>8. store' = [store EXCEPT !.active = new, !.bids = {}]
  BY <1>3 DEF SetActiveAuction
<1> HIDE DEF new
<1>9. /\ store' \in Stores /\ store'.active = new /\ store'.bids = {}
      /\ store'.last = store.last
  BY <1>3, <1>6, <1>8 DEF Stores
<1>10. HouseSound'
  BY <1>1, <1>2, ChainStays DEF HouseSound
<1>11. SocketSound'
  <2> SUFFICES ASSUME NEW i \in DOMAIN socket, NEW e \in socket[i], e.type = "created"
               PROVE  /\ e.id > store'.active.id /\ e.id > store'.last
                      /\ \A k \in DOMAIN todo' :
                           todo'[k].do = "active" => e.id > todo'[k].auction.id
    BY <1>1, <1>2, SocketStays DEF SocketRests, chainVars
  <2>1. 1 \in DOMAIN todo
    <3>1. DOMAIN todo = 1 .. 4 /\ 1 \in 1 .. 4
      BY <1>3
    <3> QED BY <3>1
  <2>2. e.id > store.last /\ e.id > n
    BY <1>2, <1>3, <2>1 DEF SocketSound
  <2> QED BY <1>4, <1>7, <1>9, <2>2
<1>12. StoreSound'
  <2>1. CreatedLeft(n)'
    <3>1. 3 \in 1 .. 4 /\ 3 # 4 /\ 3 - 1 = 2 /\ 3 - 2 = 1
      OBVIOUS
    <3> QED BY <1>1, <1>3, <1>4, <1>7, <1>9, <3>1, ZenonT(60) DEF CreatedLeft
  <2>2. \A b \in blocks : b.id \in DOMAIN chain /\ b \in chain[b.id].bids
    BY <1>2 DEF StoreSound
  <2> QED BY <1>1, <1>3, <1>4, <1>6, <1>7, <1>9, <2>1, <2>2 DEF StoreSound
<1>13. Follows'
  <2> SUFFICES ASSUME current \notin lost
               PROVE  /\ (Held \/ Activating \/ Awaited)'
                      /\ EndFollows' /\ SettlementFollows' /\ BidsFollow'
    BY <1>1, <1>2, <1>3 DEF Follows
  <2>1. /\ Held \/ Activating \/ Awaited
        /\ EndFollows /\ SettlementFollows /\ BidsFollow
    BY <1>2, <1>3 DEF Follows
  <2>2. n <= current /\ current \in Nat
    BY <1>2 DEF HouseSound
  <2>3. ~Held
    BY <1>3, <2>2 DEF Held
  <2>4. Activating = (n = current)
    BY <1>3 DEF Activating
  <2>5. Held' = (n = current) /\ ~Activating' /\ Awaited' = Awaited /\ Auction' = Auction
    <3>1. 3 # 4
      OBVIOUS
    <3> QED BY <1>1, <1>4, <1>7, <1>9, <3>1 DEF Held, Activating, Awaited, Auction
  <2>6. \A i : EndEvents(i)' = EndEvents(i)
    BY <1>1 DEF EndEvents
  <2>7. EndFollows'
    <3>1. CASE n = current
      <4>1. store'.active.end = todo[1].auction.end /\ Activating
        BY <1>7, <1>9, <2>4, <3>1
      <4>2. (\A i \in DOMAIN socket : EndEvents(i) = {}) => Auction.end = todo[1].auction.end
        BY <2>1, <4>1 DEF EndFollows
      <4> QED BY <1>1, <2>1, <2>5, <2>6, <4>1, <4>2 DEF EndFollows
    <3>2. CASE n # current
      <4>1. Awaited
        BY <2>1, <2>3, <2>4, <3>2
      <4>2. \E i \in DOMAIN socket : EndEvents(i) # {}
        BY <4>1 DEF Awaited, EndEvents
      <4> QED BY <1>1, <2>1, <2>5, <2>6, <4>2 DEF EndFollows
    <3> QED BY <3>1, <3>2
  <2>8. SettlementFollows'
    BY <1>1, <1>7, <1>9, <2>1, <2>3, <2>5 DEF SettlementFollows
  <2>9. BidsFollow'
    <3>1. chain[current].bids = {} => Auction.amount = 0 /\ Auction.bidder = NoBidder
      BY <1>2 DEF HouseSound, LotSound, Auction
    <3>2. \A b \in chain[current].bids : b \notin missed
      BY <2>1, <2>3 DEF BidsFollow, MissedSound
    <3>3. {} = chain[current].bids \ missed => chain[current].bids = {}
      BY <3>2
    <3> QED BY <1>1, <1>7, <1>9, <2>1, <2>3, <2>5, <3>1, <3>3 DEF BidsFollow
  <2> QED BY <2>1, <2>3, <2>4, <2>5, <2>7, <2>8, <2>9
<1> QED BY <1>10, <1>11, <1>12, <1>13 DEF AuctionInv

LEMMA DispatchKeeps ==
  ASSUME AuctionInv, MissedSound, UNCHANGED chainVars, Dispatch
  PROVE  AuctionInv'
<1>1. StoreSound /\ todo # <<>> /\ todo' = Tail(todo)
  BY DEF AuctionInv, Dispatch
<1>2. /\ load' = load /\ blocks' = blocks /\ socket' = socket
      /\ UNCHANGED <<chainVars, socket, load, blocks, historyVars>> /\ chain' = chain
  BY DEF Dispatch, loadVars, chainVars
<1>3. store \in Stores /\ todo \in Seq(Dispatches)
  BY <1>1 DEF StoreSound
<1>4. Head(todo) = todo[1]
  BY <1>1, <1>3, TailFacts
<1>5. /\ todo[1].do = "active" => store' = SetActiveAuction(store, todo[1].auction)
      /\ todo[1].do = "show" => store' = [store EXCEPT !.shown = todo[1].id]
      /\ todo[1].do = "last" => store' = [store EXCEPT !.last = todo[1].id]
      /\ todo[1].do = "prev" => store' = SetPrevOnDisplayAuctionTokenId(store)
      /\ todo[1].do = "next" => store' = SetNextOnDisplayAuctionTokenId(store)
      /\ todo[1].do \in {"url", "push"} => store' = store
  BY <1>4 DEF Dispatch, SetOnDisplayAuctionTokenId, SetLastAuctionTokenId
<1>6. load = "start" => store.last = None /\ store.shown = None
  BY <1>1 DEF StoreSound
<1>7. CASE KeyLeft /\ store.active.id = store.last /\ load # "start"
  <2>1. /\ todo[1].do \in {"push", "prev", "next"}
        /\ todo' \in Seq(Dispatches) /\ Len(todo) # 4 /\ Len(todo') # 4
        /\ \A k \in DOMAIN todo' : todo'[k].do # "active"
        /\ todo' = <<>> \/ KeyLeft'
    BY <1>1, <1>3, <1>7, KeyTail
  <2>2. store' = store \/ \E n \in Nat \cup {None} : store' = [store EXCEPT !.shown = n]
    BY <1>3, <1>5, <2>1, PrevNext
  <2>3. /\ store' \in Stores /\ store'.active = store.active /\ store'.bids = store.bids
        /\ store'.last = store.last
    BY <1>3, <2>2, ShowsAnother, ZenonT(60)
  <2> QED BY <1>2, <1>7, <2>1, <2>3, DisplayKeeps
<1>8. ASSUME NEW n \in DOMAIN chain, CreatedLeft(n)
      PROVE  AuctionInv'
  <2>1. /\ todo' \in Seq(Dispatches) /\ Len(todo') # 4
        /\ \A k \in DOMAIN todo' : todo'[k].do # "active"
    BY <1>1, <1>3, <1>8, CreatedTail
  <2>2. n \in Nat /\ load = "live" /\ n > store.last
    BY <1>8 DEF CreatedLeft, AuctionInv, HouseSound
  <2>3. CASE Len(todo) = 4
    <3>1. todo[1].do = "active"
      BY <1>8, <2>3 DEF CreatedLeft
    <3> QED BY <1>1, <1>2, <1>5, <1>8, <2>3, <3>1, ActivateKeeps
  <2>4. CASE Len(todo) # 4
    <3>1. store.active.id = n
      BY <1>8, <2>4 DEF CreatedLeft
    <3>2. /\ Len(todo) = 3 => /\ Len(todo') = 2
                              /\ todo[1].do = "url"
                              /\ todo'[1].do = "show" /\ todo'[1].id = n
                              /\ todo'[2].do = "last" /\ todo'[2].id = n
          /\ Len(todo) = 2 => /\ Len(todo') = 1
                              /\ todo[1].do = "show" /\ todo[1].id = n
                              /\ todo'[1].do = "last" /\ todo'[1].id = n
          /\ Len(todo) = 1 => /\ todo' = <<>>
                              /\ todo[1].do = "last" /\ todo[1].id = n
          /\ Len(todo) = 1 \/ Len(todo) = 2 \/ Len(todo) = 3
      <4>1. Len(todo) = 4 \/ Len(todo) = 3 \/ Len(todo) = 2 \/ Len(todo) = 1
        BY <1>1, <1>3, <1>8, CreatedTail
      <4>2. CASE Len(todo) = 3
        BY <1>1, <1>3, <1>8, <4>2, CreatedTail, Small
      <4>3. CASE Len(todo) = 2
        BY <1>1, <1>3, <1>8, <4>3, CreatedTail, Small
      <4>4. CASE Len(todo) = 1
        BY <1>1, <1>3, <1>8, <4>4, CreatedTail, Small
      <4> QED BY <2>4, <4>1, <4>2, <4>3, <4>4
    <3>3. CASE Len(todo) = 3
      <4>1. store' = store
        BY <1>5, <3>2, <3>3
      <4>2. CreatedLeft(n)'
        <5>1. 2 \in 1 .. 4 /\ 2 # 4 /\ 2 - 1 = 1 /\ ~(2 > 2)
          OBVIOUS
        <5> QED BY <1>2, <1>8, <2>2, <3>1, <3>2, <3>3, <4>1, <5>1 DEF CreatedLeft
      <4> QED BY <1>2, <1>3, <1>6, <2>1, <2>4, <4>1, <4>2, DisplayKeeps
    <3>4. CASE Len(todo) = 2
      <4>1. store' = [store EXCEPT !.shown = n]
        BY <1>5, <3>2, <3>4
      <4>2. /\ store' \in Stores /\ store'.active = store.active
            /\ store'.bids = store.bids /\ store'.last = store.last
        BY <1>3, <2>2, <4>1, ShowsAnother
      <4>3. CreatedLeft(n)'
        <5>1. 1 \in 1 .. 4 /\ 1 # 4 /\ ~(1 > 1) /\ ~(1 > 2)
          OBVIOUS
        <5> QED BY <1>2, <1>8, <2>2, <3>1, <3>2, <3>4, <4>2, <5>1 DEF CreatedLeft
      <4> QED BY <1>2, <2>1, <2>2, <2>4, <4>2, <4>3, DisplayKeeps
    <3>5. CASE Len(todo) = 1
      <4>1. store' = [store EXCEPT !.last = n]
        BY <1>5, <3>2, <3>5
      <4>2. /\ store' \in Stores /\ store'.active = store.active
            /\ store'.bids = store.bids /\ store'.last = store.active.id
        BY <1>3, <2>2, <3>1, <4>1 DEF Stores
      <4> QED BY <1>2, <2>1, <2>2, <2>4, <3>2, <3>5, <4>2, DisplayKeeps
    <3> QED BY <3>2, <3>3, <3>4, <3>5
  <2> QED BY <2>3, <2>4
<1> QED BY <1>1, <1>7, <1>8 DEF StoreSound

\* The bids of the store, and the highest of them, which its auction shows.
LEMMA MaxBidIs ==
  ASSUME NEW bids, NEW m \in bids,
         \A b \in bids : m.value >= b.value
  PROVE  /\ MaxBid(bids) \in bids
         /\ \A b \in bids : MaxBid(bids).value >= b.value
BY DEF MaxBid

LEMMA TopRises ==
  ASSUME NEW bids \in SUBSET Offers, NEW b \in Offers,
         bids # {} => \E m \in bids : \A c \in bids : m.value >= c.value
  PROVE  \E m \in bids \cup {b} : \A c \in bids \cup {b} : m.value >= c.value
<1>1. \A c \in bids \cup {b} : c.value \in Nat
  BY DEF Offers
<1>2. CASE bids = {}
  BY <1>1, <1>2
<1>3. CASE bids # {}
  <2>1. PICK m \in bids : \A c \in bids : m.value >= c.value
    BY <1>3
  <2>2. m.value \in Nat /\ b.value \in Nat
    BY <1>1
  <2>3. CASE m.value >= b.value
    BY <2>1, <2>3
  <2>4. CASE ~(m.value >= b.value)
    <3>1. \A x, y, z \in Nat : ~(x >= y) /\ x >= z => y >= z /\ y >= y
      BY SMT
    <3>2. \A c \in bids \cup {b} : b.value >= c.value
      BY <1>1, <2>1, <2>2, <2>4, <3>1
    <3> QED BY <3>2
  <2> QED BY <2>3, <2>4
<1> QED BY <1>2, <1>3

\* The highest bid of an auction is the one that it shows.
LEMMA TopOfLot ==
  ASSUME NEW id \in DOMAIN chain, HouseSound, NEW m \in chain[id].bids,
         \A b \in chain[id].bids : m.value >= b.value
  PROVE  m.value = chain[id].auction.amount /\ m.sender = chain[id].auction.bidder
<1>1. LotSound(id) /\ chain[id] \in Lots
  BY DEF HouseSound
<1>2. PICK b \in chain[id].bids :
        b.value = chain[id].auction.amount /\ b.sender = chain[id].auction.bidder
  BY <1>1 DEF LotSound
<1>3. m.value \in Nat /\ b.value \in Nat
  BY <1>1 DEF Lots, Offers
<1>4. m.value >= b.value /\ m.value <= b.value
  BY <1>1, <1>2 DEF LotSound
<1>5. m.value = b.value
  BY <1>3, <1>4
<1> QED BY <1>1, <1>2, <1>5 DEF LotSound

\* A bid whose block could not be fetched.
LEMMA DroppedKeeps ==
  ASSUME AuctionInv, NEW b \in blocks, todo = <<>>, todo' = todo,
         blocks' = blocks \ {b}, store' = store, lost' = lost \cup {b.id},
         UNCHANGED <<chainVars, socket, load, missed>>
  PROVE  AuctionInv'
<1>1. /\ chain' = chain /\ current' = current /\ now' = now /\ socket' = socket
      /\ load' = load /\ missed' = missed
  BY DEF chainVars
<1>2. HouseSound /\ SocketSound /\ StoreSound /\ Follows
  BY DEF AuctionInv
<1>3. b.id \in DOMAIN chain /\ load # "start"
  BY <1>2 DEF StoreSound
<1>4. HouseSound'
  BY <1>2, <1>3, ChainStays DEF HouseSound
<1>5. SocketSound'
  BY <1>1, <1>2 DEF SocketSound
<1>6. StoreSound'
  <2>1. store.active.id = store.last
    BY <1>2, AtRest
  <2>2. /\ store \in Stores /\ todo \in Seq(Dispatches)
        /\ load \in {"start", "query", "subscribe", "live"}
        /\ store.active \in AuctionRecs /\ store.active.id \in DOMAIN chain
        /\ store.last \in DOMAIN chain
        /\ load # "live" => socket = <<>>
        /\ load \in {"start", "query"} => blocks = {} /\ store.bids = {}
        /\ \A c \in blocks \cup store.bids : c.id \in DOMAIN chain /\ c \in chain[c.id].bids
        /\ \A c \in store.bids : c.id = store.active.id
        /\ store.bids # {} =>
             \E m \in store.bids : \A c \in store.bids : m.value >= c.value
    BY <1>2, <1>3 DEF StoreSound
  <2> QED BY <1>1, <1>3, <2>1, <2>2 DEF StoreSound
<1>7. Follows'
  <2> SUFFICES ASSUME current \notin lost, current # b.id
               PROVE  /\ (Held \/ Activating \/ Awaited)'
                      /\ EndFollows' /\ SettlementFollows' /\ BidsFollow'
    BY <1>1, <1>2, <1>3 DEF Follows
  <2>1. /\ Held \/ Activating \/ Awaited
        /\ EndFollows /\ SettlementFollows /\ BidsFollow
    BY <1>2, <1>3 DEF Follows
  <2>2. /\ Held' = Held /\ Activating' = Activating /\ Awaited' = Awaited
        /\ Auction' = Auction
    BY <1>1 DEF Held, Activating, Awaited, Auction
  <2>3. \A i : EndEvents(i)' = EndEvents(i)
    BY <1>1 DEF EndEvents
  <2>4. EndFollows'
    BY <1>1, <2>1, <2>2, <2>3 DEF EndFollows
  <2>5. SettlementFollows'
    BY <1>1, <2>1, <2>2 DEF SettlementFollows
  <2>6. \A c \in chain[current].bids : c # b
    BY <1>2 DEF HouseSound, LotSound
  <2>7. BidsFollow'
    BY <1>1, <2>1, <2>2, <2>6 DEF BidsFollow
  <2> QED BY <2>1, <2>2, <2>4, <2>5, <2>7
<1> QED BY <1>4, <1>5, <1>6, <1>7 DEF AuctionInv

\* What appendBid does with a bid.
LEMMA AppendBidCases ==
  ASSUME store \in Stores, NEW b, b \in Offers,
         store.bids # {} =>
           \E m \in store.bids : \A c \in store.bids : m.value >= c.value
  PROVE  \/ /\ b.id # store.active.id \/ b \in store.bids
            /\ AppendBid(store, b) = store
         \/ /\ b.id = store.active.id
            /\ \E m \in store.bids \cup {b} :
                 /\ \A c \in store.bids \cup {b} : m.value >= c.value
                 /\ AppendBid(store, b) =
                      [store EXCEPT !.bids = store.bids \cup {b},
                         !.active = [store.active EXCEPT !.amount = m.value,
                                                        !.bidder = m.sender]]
<1>1. b.id \in Nat /\ None \notin Nat
  BY DEF Offers, None
<1>2. CASE ~AuctionsEqual(store, b) \/ b \in store.bids
  <2>1. b.id # store.active.id \/ b \in store.bids
    BY <1>1, <1>2 DEF AuctionsEqual
  <2> QED BY <1>2, <2>1 DEF AppendBid
<1>3. CASE AuctionsEqual(store, b) /\ b \notin store.bids
  <2>1. PICK n \in store.bids \cup {b} : \A c \in store.bids \cup {b} : n.value >= c.value
    BY TopRises DEF Stores
  <2> DEFINE m == MaxBid(store.bids \cup {b})
  <2>2. m \in store.bids \cup {b} /\ \A c \in store.bids \cup {b} : m.value >= c.value
    BY <2>1, MaxBidIs
  <2>3. AppendBid(store, b) =
          [store EXCEPT !.bids = @ \cup {b}, !.active.amount = m.value,
                        !.active.bidder = m.sender]
    BY <1>3 DEF AppendBid
  <2> HIDE DEF m
  <2>4. AppendBid(store, b) =
                      [store EXCEPT !.bids = store.bids \cup {b},
                         !.active = [store.active EXCEPT !.amount = m.value,
                                                        !.bidder = m.sender]]
    BY <2>3 DEF Stores
  <2>5. b.id = store.active.id
    BY <1>3 DEF AuctionsEqual
  <2> QED BY <2>2, <2>4, <2>5
<1> QED BY <1>2, <1>3

LEMMA AppendKeeps ==
  ASSUME AuctionInv, MissedSound, NEW b \in blocks, todo = <<>>, todo' = todo,
         blocks' = blocks \ {b}, store' = AppendBid(store, b),
         UNCHANGED <<chainVars, socket, load, historyVars>>
  PROVE  AuctionInv'
<1>1. /\ chain' = chain /\ current' = current /\ now' = now /\ socket' = socket
      /\ load' = load /\ lost' = lost /\ missed' = missed
  BY DEF chainVars, historyVars
<1>2. HouseSound /\ SocketSound /\ StoreSound /\ Follows
  BY DEF AuctionInv
<1>3. /\ b.id \in DOMAIN chain /\ b \in chain[b.id].bids /\ load \notin {"start", "query"}
      /\ store.active \in AuctionRecs /\ store \in Stores
  BY <1>2 DEF StoreSound
<1>4. b \in Offers
  BY <1>2, <1>3 DEF HouseSound, Lots
<1>5. store.bids # {} => \E m \in store.bids : \A c \in store.bids : m.value >= c.value
  BY <1>2 DEF StoreSound
<1>6. /\ store.active.id = store.last /\ todo \in Seq(Dispatches)
      /\ store.active.id \in DOMAIN chain /\ store.last \in DOMAIN chain
      /\ load \in {"start", "query", "subscribe", "live"}
      /\ load # "live" => socket = <<>>
      /\ \A c \in blocks \cup store.bids : c.id \in DOMAIN chain /\ c \in chain[c.id].bids
      /\ \A c \in store.bids : c.id = store.active.id
  BY <1>2, <1>3, AtRest DEF StoreSound
<1>7. HouseSound'
  BY <1>1, <1>2, ChainStays DEF HouseSound
<1>8. /\ Activating' = Activating /\ Awaited' = Awaited /\ Auction' = Auction
      /\ ~Activating
  BY <1>1, <1>2, AtRest DEF Activating, Awaited, Auction
<1>9. \A i : EndEvents(i)' = EndEvents(i)
  BY <1>1 DEF EndEvents
<1>10. CASE (b.id # store.active.id \/ b \in store.bids) /\ store' = store
  <2>1. SocketSound'
    BY <1>1, <1>2, <1>10 DEF SocketSound
  <2>2. StoreSound'
    BY <1>1, <1>3, <1>5, <1>6, <1>10 DEF StoreSound
  <2>3. Held' = Held
    BY <1>1, <1>10 DEF Held
  <2>4. EndFollows => EndFollows'
    BY <1>1, <1>8, <1>9, <1>10 DEF EndFollows
  <2>5. SettlementFollows => SettlementFollows'
    BY <1>1, <1>8, <1>10, <2>3 DEF SettlementFollows
  <2>6. Held => \A c \in chain[current].bids : c = b => b \in store.bids
    BY <1>2, <1>10 DEF HouseSound, LotSound, Held
  <2>7. BidsFollow => BidsFollow'
    BY <1>1, <1>8, <1>10, <2>3, <2>6 DEF BidsFollow
  <2>8. Follows'
    BY <1>1, <1>2, <1>8, <2>3, <2>4, <2>5, <2>7 DEF Follows
  <2> QED BY <1>7, <2>1, <2>2, <2>8 DEF AuctionInv
<1>11. ASSUME b.id = store.active.id, NEW m \in store.bids \cup {b},
              \A c \in store.bids \cup {b} : m.value >= c.value,
              store' = [store EXCEPT !.bids = store.bids \cup {b},
                         !.active = [store.active EXCEPT !.amount = m.value,
                                                        !.bidder = m.sender]]
       PROVE  AuctionInv'
  <2>1. m \in Offers /\ store.bids \cup {b} \in SUBSET Offers
    BY <1>3, <1>4 DEF Stores
  <2>2. m.value \in Nat /\ m.sender \in Takers
    BY <2>1 DEF Offers, Takers
  <2> DEFINE new == [store.active EXCEPT !.amount = m.value, !.bidder = m.sender]
  <2>3. /\ new \in AuctionRecs /\ new.id = store.active.id /\ new.end = store.active.end
        /\ new.settled = store.active.settled /\ new.amount = m.value
        /\ new.bidder = m.sender
    BY <1>3, <2>2 DEF AuctionRecs
  <2>4. store' = [store EXCEPT !.bids = store.bids \cup {b}, !.active = new]
    BY <1>11
  <2> HIDE DEF new
  <2>5. /\ store' \in Stores /\ store'.active = new /\ store'.bids = store.bids \cup {b}
        /\ store'.last = store.last
    BY <1>3, <2>1, <2>3, <2>4 DEF Stores
  <2>6. SocketSound'
    <3> SUFFICES ASSUME NEW i \in DOMAIN socket, NEW e \in socket[i], e.type = "created"
                 PROVE  /\ e.id > store'.active.id /\ e.id > store'.last
                        /\ \A k \in DOMAIN todo' :
                             todo'[k].do = "active" => e.id > todo'[k].auction.id
      BY <1>1, <1>2, SocketStays DEF SocketRests, chainVars
    <3> QED BY <1>2, <2>3, <2>5 DEF SocketSound
  <2>7. StoreSound'
    <3>1. \E n \in store'.bids : \A c \in store'.bids : n.value >= c.value
      BY <1>11, <2>5
    <3>2. \A c \in store'.bids : c.id = store'.active.id
      BY <1>6, <1>11, <2>3, <2>5
    <3>3. \A c \in blocks' \cup store'.bids : c.id \in DOMAIN chain /\ c \in chain[c.id].bids
      BY <1>3, <1>6, <2>5
    <3> QED BY <1>1, <1>3, <1>6, <2>3, <2>5, <3>1, <3>2, <3>3 DEF StoreSound
  <2>8. Held' = Held
    BY <1>1, <2>3, <2>5 DEF Held
  <2>9. EndFollows => EndFollows'
    BY <1>1, <1>8, <1>9, <2>3, <2>5 DEF EndFollows
  <2>10. SettlementFollows => SettlementFollows'
    BY <1>1, <1>8, <2>3, <2>5, <2>8 DEF SettlementFollows
  <2>11. Held /\ store'.bids = chain[current].bids \ missed =>
           m.value = Auction.amount /\ m.sender = Auction.bidder
    <3> SUFFICES ASSUME Held, store'.bids = chain[current].bids \ missed
                 PROVE  m.value = Auction.amount /\ m.sender = Auction.bidder
      OBVIOUS
    <3>2. current \in DOMAIN chain /\ chain[current].bids \in SUBSET Offers
      BY <1>2 DEF HouseSound, Lots
    <3>3. /\ m \in chain[current].bids /\ m \notin missed
          /\ \A c \in chain[current].bids \ missed : m.value >= c.value
      BY <1>11, <2>5
    <3>4. \A c \in chain[current].bids \cap missed : m.value >= c.value
      <4> SUFFICES ASSUME NEW c \in chain[current].bids, c \in missed
                   PROVE  m.value >= c.value
        OBVIOUS
      <4>1. c.id = current
        BY <1>2, <3>2 DEF HouseSound, LotSound
      <4>2. ~(m.value < c.value)
        BY <3>3, <4>1 DEF MissedSound
      <4>3. m.value \in Nat /\ c.value \in Nat
        BY <3>2, <3>3 DEF Offers
      <4> QED BY <4>2, <4>3
    <3>1. m \in chain[current].bids /\ \A c \in chain[current].bids : m.value >= c.value
      BY <3>3, <3>4
    <3> QED BY <1>2, <3>1, <3>2, TopOfLot DEF Auction
  <2>12. BidsFollow => BidsFollow'
    BY <1>1, <1>8, <2>3, <2>5, <2>8, <2>11 DEF BidsFollow
  <2>13. Follows'
    BY <1>1, <1>2, <1>8, <2>8, <2>9, <2>10, <2>12 DEF Follows
  <2> QED BY <1>7, <2>6, <2>7, <2>13 DEF AuctionInv
<1> QED BY <1>3, <1>4, <1>5, <1>10, <1>11, AppendBidCases

\* One event leaves the head of the socket, which moves up by s.
Taken(e, s) ==
  \E n \in Nat :
    /\ s \in {0, 1} /\ DOMAIN socket = 1 .. n /\ 1 <= n /\ e \in socket[1]
    /\ socket' \in Seq(SUBSET Events) /\ DOMAIN socket' = 1 .. n - s
    /\ \A i \in 1 .. n - s :
         /\ i + s \in 1 .. n
         /\ socket'[i] = socket[i + s] \ (IF i + s = 1 THEN {e} ELSE {})
    /\ s = 1 => socket[1] = {e}

LEMMA ReplacedFirst ==
  ASSUME NEW S, NEW q \in Seq(S), 1 \in DOMAIN q, NEW x \in S
  PROVE  [q EXCEPT ![1] = x] \in Seq(S) /\ DOMAIN [q EXCEPT ![1] = x] = DOMAIN q
OBVIOUS

LEMMA ReceiveTakes ==
  ASSUME SocketSound, NEW e, Receive(e)
  PROVE  \E s \in {0, 1} : Taken(e, s)
<1>1. /\ socket # <<>> /\ e \in Head(socket) /\ socket \in Seq(SUBSET Events)
      /\ socket' = IF Head(socket) = {e} THEN Tail(socket)
                   ELSE [socket EXCEPT ![1] = socket[1] \ {e}]
  BY DEF Receive, SocketSound
<1>2. PICK m \in Nat :
           /\ Len(socket) = m + 1 /\ DOMAIN socket = 1 .. m + 1
           /\ Head(socket) = socket[1]
           /\ Tail(socket) \in Seq(SUBSET Events) /\ DOMAIN Tail(socket) = 1 .. m
           /\ \A k \in 1 .. m : Tail(socket)[k] = socket[k + 1] /\ k + 1 \in DOMAIN socket
  BY <1>1, TailFacts
<1>3. /\ m + 1 \in Nat /\ 1 <= m + 1 /\ (m + 1) - 1 = m /\ (m + 1) - 0 = m + 1
      /\ \A k \in 1 .. m : k + 1 # 1
      /\ \A k \in 1 .. m + 1 : k + 0 = k
      /\ 1 \in 1 .. m + 1
  BY <1>2
<1>4. CASE socket[1] = {e}
  <2>1. socket' = Tail(socket)
    BY <1>1, <1>2, <1>4
  <2>2. \A k \in 1 .. m : socket'[k] = socket[k + 1] \ (IF k + 1 = 1 THEN {e} ELSE {})
    BY <1>2, <1>3, <2>1
  <2>3. Taken(e, 1)
    BY <1>1, <1>2, <1>3, <1>4, <2>1, <2>2 DEF Taken
  <2> QED BY <2>3
<1>5. CASE socket[1] # {e}
  <2>1. socket' = [socket EXCEPT ![1] = socket[1] \ {e}]
    BY <1>1, <1>2, <1>5
  <2>2. socket[1] \ {e} \in SUBSET Events
    BY <1>1, <1>2, <1>3
  <2>3. socket' \in Seq(SUBSET Events) /\ DOMAIN socket' = 1 .. m + 1
    <3>1. 1 \in DOMAIN socket /\ socket \in Seq(SUBSET Events)
      BY <1>1, <1>2, <1>3
    <3>2. [socket EXCEPT ![1] = socket[1] \ {e}] \in Seq(SUBSET Events)
          /\ DOMAIN [socket EXCEPT ![1] = socket[1] \ {e}] = DOMAIN socket
      BY <2>2, <3>1, ReplacedFirst
    <3> QED BY <1>2, <2>1, <3>2
  <2>4. \A k \in 1 .. m + 1 :
          socket'[k] = socket[k + 0] \ (IF k + 0 = 1 THEN {e} ELSE {})
    BY <1>2, <1>3, <2>1
  <2>5. Taken(e, 0)
    BY <1>1, <1>2, <1>3, <2>3, <2>4 DEF Taken
  <2> QED BY <2>5
<1> QED BY <1>4, <1>5

\* What is still in the socket was in it behind e.
LEMMA StillThere ==
  ASSUME NEW e, NEW s, Taken(e, s), NEW i \in DOMAIN socket', NEW f \in socket'[i]
  PROVE  /\ i + s \in DOMAIN socket /\ f \in socket[i + s] /\ i + s \in Nat /\ i + s >= 1
         /\ i + s = 1 => f # e
         /\ i \in Nat /\ s \in Nat
<1>1. PICK n \in Nat :
        /\ s \in {0, 1} /\ DOMAIN socket = 1 .. n
        /\ DOMAIN socket' = 1 .. n - s
        /\ \A k \in 1 .. n - s :
             /\ k + s \in 1 .. n
             /\ socket'[k] = socket[k + s] \ (IF k + s = 1 THEN {e} ELSE {})
  BY DEF Taken
<1>2. i \in 1 .. n - s /\ s \in Nat
  BY <1>1
<1> QED BY <1>1, <1>2

\* Nothing else is lost.
LEMMA NothingElse ==
  ASSUME NEW e, NEW s, Taken(e, s), NEW i \in DOMAIN socket, NEW f \in socket[i]
  PROVE  \/ i = 1 /\ f = e
         \/ /\ i - s \in DOMAIN socket' /\ f \in socket'[i - s]
            /\ i \in Nat /\ s \in Nat
<1>1. PICK n \in Nat :
        /\ s \in {0, 1} /\ DOMAIN socket = 1 .. n
        /\ DOMAIN socket' = 1 .. n - s
        /\ \A k \in 1 .. n - s :
             /\ k + s \in 1 .. n
             /\ socket'[k] = socket[k + s] \ (IF k + s = 1 THEN {e} ELSE {})
        /\ s = 1 => socket[1] = {e}
  BY DEF Taken
<1>2. CASE s = 0
  <2>1. i \in 1 .. n - s /\ i + s = i /\ i - s = i /\ i \in Nat
    BY <1>1, <1>2
  <2>2. socket'[i] = socket[i] \ (IF i = 1 THEN {e} ELSE {})
    BY <1>1, <2>1
  <2> QED BY <1>1, <1>2, <2>1, <2>2
<1>3. CASE s = 1
  <2>1. CASE i = 1
    BY <1>1, <1>3, <2>1
  <2>2. CASE i # 1
    <3>1. i - s \in 1 .. n - s /\ (i - s) + s = i /\ i \in Nat
      BY <1>1, <1>3, <2>2
    <3>2. socket'[i - s] = socket[i]
      <4>1. socket'[i - s] = socket[(i - s) + s] \ (IF (i - s) + s = 1 THEN {e} ELSE {})
        BY <1>1, <3>1
      <4> QED BY <2>2, <3>1, <4>1
    <3> QED BY <1>1, <1>3, <3>1, <3>2
  <2> QED BY <2>1, <2>2
<1> QED BY <1>1, <1>2, <1>3

LEMMA TakenFirst ==
  ASSUME NEW e, NEW s, Taken(e, s)
  PROVE  1 \in DOMAIN socket /\ e \in socket[1] /\ socket' \in Seq(SUBSET Events)
BY DEF Taken

\* What the events of the socket say stays true.
LEMMA TakenSocket ==
  ASSUME SocketSound, NEW e, NEW s, Taken(e, s), chain' = chain,
         \A i \in DOMAIN socket' : \A f \in socket'[i] : f.type = "created" =>
           /\ f.id > store'.active.id /\ f.id > store'.last
           /\ \A k \in DOMAIN todo' : todo'[k].do = "active" => f.id > todo'[k].auction.id
  PROVE  SocketSound'
<1>1. socket' \in Seq(SUBSET Events)
  BY TakenFirst
<1>2. ASSUME NEW i \in DOMAIN socket', NEW f \in socket'[i]
      PROVE  /\ f.id \in DOMAIN chain
             /\ f.type = "bid" => f.bid \in chain[f.id].bids
             /\ f.type = "settled" =>
                  /\ chain[f.id].auction.settled
                  /\ f.winner = chain[f.id].auction.bidder
                  /\ f.amount = chain[f.id].auction.amount
  <2>1. i + s \in DOMAIN socket /\ f \in socket[i + s]
    BY StillThere, <1>2
  <2> QED BY <2>1 DEF SocketSound
<1>3. ASSUME NEW i \in DOMAIN socket', NEW j \in DOMAIN socket',
             NEW f \in socket'[i], NEW g \in socket'[j],
             f.type = "created", g.type = "created"
      PROVE  (i < j => f.id < g.id) /\ (i = j => f = g)
  <2>1. i + s \in DOMAIN socket /\ f \in socket[i + s] /\ i \in Nat /\ s \in Nat
    BY StillThere, <1>3
  <2>2. j + s \in DOMAIN socket /\ g \in socket[j + s] /\ j \in Nat
    BY StillThere, <1>3
  <2>3. (i < j => i + s < j + s) /\ (i = j => i + s = j + s)
    BY <2>1, <2>2
  <2>4. (i + s < j + s => f.id < g.id) /\ (i + s = j + s => f = g)
    BY <1>3, <2>1, <2>2 DEF SocketSound
  <2> QED BY <2>3, <2>4
<1> QED BY <1>1, <1>2, <1>3 DEF SocketSound

\* The events that say when the current auction ends.
LEMMA TakenEnds ==
  ASSUME SocketSound, NEW e, NEW s, Taken(e, s), EndFollows, ~Activating,
         chain' = chain, current' = current
  PROVE  /\ \A i \in DOMAIN socket' : \A f, g \in EndEvents(i)' : f = g
         /\ \A i \in DOMAIN socket' : \A f \in EndEvents(i)' :
              (\A j \in DOMAIN socket' : j > i => EndEvents(j)' = {}) => f.end = Auction.end
         /\ (\A i \in DOMAIN socket' : EndEvents(i)' = {}) =>
              Auction.end = IF e.type \in {"created", "extended"} /\ e.id = current
                            THEN e.end ELSE store.active.end
<1>1. ASSUME NEW i \in DOMAIN socket', NEW f \in EndEvents(i)'
      PROVE  /\ i + s \in DOMAIN socket /\ f \in EndEvents(i + s)
             /\ i \in Nat /\ s \in Nat /\ i + s >= 1
  <2>1. f \in socket'[i] /\ f.type \in {"created", "extended"} /\ f.id = current
    BY <1>1 DEF EndEvents
  <2>2. i + s \in DOMAIN socket /\ f \in socket[i + s] /\ i + s >= 1 /\ i \in Nat /\ s \in Nat
    BY StillThere, <2>1
  <2> QED BY <2>1, <2>2 DEF EndEvents
<1>2. ASSUME NEW i \in DOMAIN socket, NEW f \in EndEvents(i)
      PROVE  \/ i = 1 /\ f = e
             \/ /\ i - s \in DOMAIN socket' /\ f \in EndEvents(i - s)'
                /\ i \in Nat /\ s \in Nat
  <2>1. f \in socket[i] /\ f.type \in {"created", "extended"} /\ f.id = current
    BY <1>2 DEF EndEvents
  <2>2. \/ i = 1 /\ f = e
        \/ i - s \in DOMAIN socket' /\ f \in socket'[i - s] /\ i \in Nat /\ s \in Nat
    BY NothingElse, <2>1
  <2> QED BY <2>1, <2>2 DEF EndEvents
<1>3. \A i \in DOMAIN socket' : \A f, g \in EndEvents(i)' : f = g
  BY <1>1 DEF EndFollows
<1>4. ASSUME NEW i \in DOMAIN socket', NEW f \in EndEvents(i)',
             \A j \in DOMAIN socket' : j > i => EndEvents(j)' = {}
      PROVE  f.end = Auction.end
  <2>1. /\ i + s \in DOMAIN socket /\ f \in EndEvents(i + s)
        /\ i \in Nat /\ s \in Nat /\ i + s >= 1
    BY <1>1, <1>4
  <2>2. ASSUME NEW j \in DOMAIN socket, j > i + s, NEW g \in EndEvents(j) PROVE FALSE
    <3>1. \/ j = 1 /\ g = e
          \/ /\ j - s \in DOMAIN socket' /\ g \in EndEvents(j - s)'
             /\ j \in Nat
      BY <1>2, <2>2
    <3>2. CASE j = 1
      BY <2>1, <2>2, <3>2
    <3>3. CASE j \in Nat /\ j - s \in DOMAIN socket' /\ g \in EndEvents(j - s)'
      <4>1. j - s > i
        BY <2>1, <2>2, <3>3
      <4> QED BY <1>4, <3>3, <4>1
    <3> QED BY <3>1, <3>2, <3>3
  <2>3. \A j \in DOMAIN socket : j > i + s => EndEvents(j) = {}
    BY <2>2
  <2> QED BY <2>1, <2>3 DEF EndFollows
<1>5. ASSUME \A i \in DOMAIN socket' : EndEvents(i)' = {}
      PROVE  Auction.end = IF e.type \in {"created", "extended"} /\ e.id = current
                           THEN e.end ELSE store.active.end
  <2>1. 1 \in DOMAIN socket /\ e \in socket[1]
    BY TakenFirst
  <2>2. \A i \in DOMAIN socket : \A f \in EndEvents(i) : i = 1 /\ f = e
    BY <1>2, <1>5
  <2>3. CASE e.type \in {"created", "extended"} /\ e.id = current
    <3>1. e \in EndEvents(1)
      BY <2>1, <2>3 DEF EndEvents
    <3>2. \A j \in DOMAIN socket : j > 1 => EndEvents(j) = {}
      <4>1. \A j \in DOMAIN socket : j > 1 => j # 1
        OBVIOUS
      <4> QED BY <2>2, <4>1
    <3> QED BY <2>1, <2>3, <3>1, <3>2 DEF EndFollows
  <2>4. CASE ~(e.type \in {"created", "extended"} /\ e.id = current)
    <3>1. \A i \in DOMAIN socket : EndEvents(i) = {}
      BY <2>2, <2>4 DEF EndEvents
    <3> QED BY <2>4, <3>1 DEF EndFollows
  <2> QED BY <2>3, <2>4
<1> QED BY <1>3, <1>4, <1>5

\* What an event does to the store and the blocks.
Heard(e) ==
  /\ load' = load /\ chain' = chain /\ current' = current
  /\ store'.active.id = store.active.id /\ store'.bids = store.bids
  /\ blocks \subseteq blocks'
  /\ e.type = "bid" => e.bid \in blocks'
  /\ IF e.type = "created" /\ e.id = current
     THEN Activating' /\ todo'[1].auction.end = e.end ELSE ~Activating'
  /\ store'.active.end = IF e.type = "extended" /\ e.id = store.active.id
                         THEN e.end ELSE store.active.end
  /\ IF e.type = "settled" /\ e.id = store.active.id
     THEN /\ store'.active.settled = TRUE
          /\ store'.active.amount = e.amount /\ store'.active.bidder = e.winner
     ELSE /\ store'.active.settled = store.active.settled
          /\ store'.active.amount = store.active.amount
          /\ store'.active.bidder = store.active.bidder

LEMMA TakenFollows ==
  ASSUME HouseSound, SocketSound, StoreSound, Follows, todo = <<>>,
         NEW e, NEW s, Taken(e, s), Heard(e), historyVars' = historyVars
  PROVE  Follows'
<1>1. /\ load' = load /\ chain' = chain /\ current' = current
      /\ store'.active.id = store.active.id /\ store'.bids = store.bids
      /\ blocks \subseteq blocks' /\ (e.type = "bid" => e.bid \in blocks')
      /\ lost' = lost /\ missed' = missed
  BY DEF Heard, historyVars
<1> SUFFICES ASSUME load # "start", current \notin lost
             PROVE  /\ (Held \/ Activating \/ Awaited)'
                    /\ \A i, j \in DOMAIN socket' : \A f \in socket'[i], g \in socket'[j] :
                         /\ f.id = current /\ f.type # "created"
                         /\ g.id = current /\ g.type = "created"
                         => j < i
                    /\ EndFollows' /\ SettlementFollows' /\ BidsFollow'
  BY <1>1 DEF Follows
<1> DEFINE Starts == e.type = "created" /\ e.id = current
<1>2. /\ Held \/ Activating \/ Awaited
      /\ \A i, j \in DOMAIN socket : \A f \in socket[i], g \in socket[j] :
                         /\ f.id = current /\ f.type # "created"
                         /\ g.id = current /\ g.type = "created"
                         => j < i
      /\ EndFollows /\ SettlementFollows /\ BidsFollow
  BY DEF Follows
<1>3. ~Activating /\ Held' = Held /\ Auction' = Auction
  BY <1>1, AtRest DEF Held, Auction
<1>4. 1 \in DOMAIN socket /\ e \in socket[1]
  BY TakenFirst
<1>5. ASSUME Awaited, ~Starts PROVE Awaited'
  <2>0. PICK i \in DOMAIN socket :
          \E f \in socket[i] : f.type = "created" /\ f.id = current
    BY <1>5 DEF Awaited
  <2>1. PICK f \in socket[i] : f.type = "created" /\ f.id = current
    BY <2>0
  <2>2. f # e
    BY <1>5, <2>1
  <2>3. i - s \in DOMAIN socket' /\ f \in socket'[i - s]
    BY <2>2, NothingElse
  <2> QED BY <1>1, <2>1, <2>3 DEF Awaited
<1>6. Starts => Activating' /\ todo'[1].auction.end = e.end
  BY DEF Heard
<1>7. ~Starts => ~Activating'
  BY DEF Heard
<1>8. (Held \/ Activating \/ Awaited)'
  BY <1>2, <1>3, <1>5, <1>6
\* Nothing is heard of the auction before its start.
<1>9. ASSUME e.id = current, e.type # "created" PROVE Held
  <2>1. ~Awaited
    <3> SUFFICES ASSUME NEW j \in DOMAIN socket, NEW g \in socket[j],
                        g.type = "created", g.id = current
                 PROVE  FALSE
      BY DEF Awaited
    <3>1. j < 1
      BY <1>2, <1>4, <1>9
    <3>2. socket \in Seq(SUBSET Events)
      BY DEF SocketSound
    <3>3. j \in 1 .. Len(socket) /\ Len(socket) \in Nat
      BY <3>2
    <3> QED BY <3>1, <3>3
  <2> QED BY <1>2, <1>3, <2>1
<1>10. ASSUME NEW i \in DOMAIN socket', NEW j \in DOMAIN socket',
              NEW f \in socket'[i], NEW g \in socket'[j],
              f.id = current, f.type # "created", g.id = current, g.type = "created"
       PROVE  j < i
  <2>1. i + s \in DOMAIN socket /\ f \in socket[i + s] /\ i \in Nat /\ s \in Nat
    BY StillThere
  <2>2. j + s \in DOMAIN socket /\ g \in socket[j + s] /\ j \in Nat
    BY StillThere
  <2>3. j + s < i + s
    BY <1>2, <1>10, <2>1, <2>2
  <2> QED BY <2>1, <2>2, <2>3
<1> HIDE DEF Starts
<1>11. EndFollows'
  <2>1. /\ \A i \in DOMAIN socket' : \A f, g \in EndEvents(i)' : f = g
        /\ \A i \in DOMAIN socket' : \A f \in EndEvents(i)' :
             (\A j \in DOMAIN socket' : j > i => EndEvents(j)' = {}) => f.end = Auction.end
        /\ (\A i \in DOMAIN socket' : EndEvents(i)' = {}) =>
             Auction.end = IF e.type \in {"created", "extended"} /\ e.id = current
                           THEN e.end ELSE store.active.end
    BY <1>1, <1>2, <1>3, TakenEnds
  <2>2. ASSUME \A i \in DOMAIN socket' : EndEvents(i)' = {}
        PROVE  Auction.end = IF Activating' THEN todo'[1].auction.end ELSE store'.active.end
    <3>1. CASE Starts
      BY <1>6, <2>1, <2>2, <3>1 DEF Starts
    <3>2. CASE ~Starts
      <4>1. ~Awaited'
        <5> SUFFICES ASSUME Awaited' PROVE FALSE
          OBVIOUS
        <5>0. PICK i \in DOMAIN socket' :
                \E f \in socket'[i] : f.type = "created" /\ f.id = current
          BY <1>1 DEF Awaited
        <5>1. PICK f \in socket'[i] : f.type = "created" /\ f.id = current
          BY <5>0
        <5>2. f \in EndEvents(i)'
          BY <1>1, <5>1 DEF EndEvents
        <5> QED BY <2>2, <5>2
      <4>2. Held
        BY <1>2, <1>3, <1>5, <3>2, <4>1
      <4>3. store.active.id = current
        BY <4>2 DEF Held
      <4>4. store'.active.end = IF e.type = "extended" /\ e.id = current
                                THEN e.end ELSE store.active.end
        BY <4>3 DEF Heard
      <4>5. Auction.end = IF e.type = "extended" /\ e.id = current
                          THEN e.end ELSE store.active.end
        BY <2>1, <2>2, <3>2 DEF Starts
      <4> QED BY <1>7, <3>2, <4>4, <4>5
    <3> QED BY <3>1, <3>2
  <2> QED BY <1>3, <2>1, <2>2 DEF EndFollows
<1>12. SettlementFollows'
  <2>1. ASSUME Auction.settled
        PROVE  \/ Held' /\ store'.active.settled
               \/ \E i \in DOMAIN socket' : \E f \in socket'[i] :
                    f.type = "settled" /\ f.id = current
    <3>1. CASE Held /\ store.active.settled
      BY <1>3, <3>1 DEF Heard
    <3>2. ASSUME NEW i \in DOMAIN socket, NEW f \in socket[i],
                 f.type = "settled", f.id = current
          PROVE  \/ Held' /\ store'.active.settled
                 \/ \E k \in DOMAIN socket' : \E g \in socket'[k] :
                      g.type = "settled" /\ g.id = current
      <4>1. CASE f = e
        <5>1. Held /\ e.id = store.active.id
          BY <1>9, <3>2, <4>1 DEF Held
        <5> QED BY <1>3, <3>2, <4>1, <5>1 DEF Heard
      <4>2. CASE i - s \in DOMAIN socket' /\ f \in socket'[i - s]
        BY <3>2, <4>2
      <4> QED BY <4>1, <4>2, NothingElse
    <3> QED BY <1>2, <2>1, <3>1, <3>2 DEF SettlementFollows
  <2>2. ASSUME Held, store'.active.settled PROVE Auction.settled
    <3>1. CASE e.type = "settled" /\ e.id = store.active.id
      BY <1>4, <2>2, <3>1 DEF SocketSound, Held, Auction
    <3>2. CASE ~(e.type = "settled" /\ e.id = store.active.id)
      <4>1. store.active.settled
        BY <2>2, <3>2 DEF Heard
      <4> QED BY <1>2, <2>2, <4>1 DEF SettlementFollows
    <3> QED BY <3>1, <3>2
  <2> QED BY <1>1, <1>3, <2>1, <2>2 DEF SettlementFollows
<1>13. BidsFollow'
  <2>1. ASSUME NEW b \in chain[current].bids
        PROVE  \/ Held /\ (b \in blocks' \cup store.bids \cup missed \/ load = "query")
               \/ \E i \in DOMAIN socket' : \E f \in socket'[i] : f.type = "bid" /\ f.bid = b
    <3>1. CASE Held /\ (b \in blocks \cup store.bids \cup missed \/ load = "query")
      BY <1>1, <3>1
    <3>2. ASSUME NEW i \in DOMAIN socket, NEW f \in socket[i], f.type = "bid", f.bid = b
          PROVE  \/ Held /\ b \in blocks'
                 \/ \E k \in DOMAIN socket' : \E g \in socket'[k] :
                      g.type = "bid" /\ g.bid = b
      <4>1. CASE f = e
        <5>1. e.id \in DOMAIN chain /\ b \in chain[e.id].bids
          BY <3>2, <4>1 DEF SocketSound
        <5>2. b.id = e.id /\ b.id = current
          BY <5>1 DEF HouseSound, LotSound
        <5>3. Held
          BY <1>9, <3>2, <4>1, <5>2
        <5> QED BY <1>1, <3>2, <4>1, <5>3
      <4>2. CASE i - s \in DOMAIN socket' /\ f \in socket'[i - s]
        BY <3>2, <4>2
      <4> QED BY <4>1, <4>2, NothingElse
    <3> QED BY <1>2, <3>1, <3>2 DEF BidsFollow
  <2>2. ASSUME Held, store.bids = chain[current].bids \ missed
        PROVE  store'.active.amount = Auction.amount /\ store'.active.bidder = Auction.bidder
    <3>1. CASE e.type = "settled" /\ e.id = store.active.id
      <4>1. e.id = current
        BY <2>2, <3>1 DEF Held
      <4>2. e.winner = Auction.bidder /\ e.amount = Auction.amount
        BY <1>4, <3>1, <4>1 DEF SocketSound, Auction
      <4> QED BY <3>1, <4>2 DEF Heard
    <3>2. CASE ~(e.type = "settled" /\ e.id = store.active.id)
      BY <1>2, <2>2, <3>2 DEF BidsFollow, Heard
    <3> QED BY <3>1, <3>2
  <2> QED BY <1>1, <1>3, <2>1, <2>2 DEF BidsFollow
<1> QED BY <1>8, <1>10, <1>11, <1>12, <1>13

LEMMA EventFields ==
  ASSUME NEW e \in Events
  PROVE  /\ e.type \in {"bid", "created", "extended", "settled"} /\ e.id \in Nat
         /\ e.type = "created" => e.end \in Nat /\ e \in [type : {"created"}, id : Nat, end : Nat]
         /\ e.type = "extended" => e.end \in Nat
         /\ e.type = "settled" => e.winner \in Takers /\ e.amount \in Nat
BY DEF Events

\* A store that has the same auction, whatever is known of its end.
LEMMA SameAuctionStore ==
  ASSUME StoreSound, load = "live", todo = <<>>, todo' = todo, load' = load,
         chain' = chain, store' \in Stores, store'.active \in AuctionRecs,
         store'.active.id = store.active.id, store'.last = store.last,
         store'.bids = store.bids,
         \A b \in blocks' : b \in blocks \/ (b.id \in DOMAIN chain /\ b \in chain[b.id].bids)
  PROVE  StoreSound'
<1>1. /\ store.active.id = store.last /\ todo \in Seq(Dispatches)
      /\ store.active.id \in DOMAIN chain /\ store.last \in DOMAIN chain
      /\ \A b \in blocks \cup store.bids : b.id \in DOMAIN chain /\ b \in chain[b.id].bids
      /\ \A b \in store.bids : b.id = store.active.id
      /\ store.bids # {} =>
           \E m \in store.bids : \A b \in store.bids : m.value >= b.value
  BY AtRest DEF StoreSound
<1>2. \A b \in blocks' \cup store'.bids : b.id \in DOMAIN chain /\ b \in chain[b.id].bids
  BY <1>1
<1> QED BY <1>1, <1>2 DEF StoreSound

\* ProcessAuctionCreated has four dispatches.
LEMMA CreatedDispatches ==
  ASSUME NEW e \in [type : {"created"}, id : Nat, end : Nat],
         todo' = <<[do |-> "active", auction |-> e], [do |-> "url", id |-> e.id],
                   [do |-> "show", id |-> e.id], [do |-> "last", id |-> e.id]>>
  PROVE  /\ todo' \in Seq(Dispatches) /\ Len(todo') = 4 /\ DOMAIN todo' = 1 .. 4
         /\ todo'[1].do = "active" /\ todo'[1].auction = e
         /\ todo'[2].do = "url" /\ todo'[2].id = e.id
         /\ todo'[3].do = "show" /\ todo'[3].id = e.id
         /\ todo'[4].do = "last" /\ todo'[4].id = e.id
<1> DEFINE a == [do |-> "active", auction |-> e]
           b == [do |-> "url", id |-> e.id]
           c == [do |-> "show", id |-> e.id]
           d == [do |-> "last", id |-> e.id]
<1>1. /\ a \in Dispatches /\ b \in Dispatches /\ c \in Dispatches /\ d \in Dispatches
  BY DEF Dispatches
<1>2. /\ a.do = "active" /\ a.auction = e /\ b.do = "url" /\ b.id = e.id
      /\ c.do = "show" /\ c.id = e.id /\ d.do = "last" /\ d.id = e.id
  OBVIOUS
<1>3. todo' = <<a, b, c, d>>
  OBVIOUS
<1> HIDE DEF a, b, c, d
<1>4. /\ todo' \in Seq(Dispatches) /\ Len(todo') = 4
      /\ todo'[1] = a /\ todo'[2] = b /\ todo'[3] = c /\ todo'[4] = d
  BY <1>1, <1>3
<1>5. DOMAIN todo' = 1 .. 4
  BY <1>4
<1> QED BY <1>2, <1>4, <1>5

LEMMA ReceiveKeeps ==
  ASSUME AuctionInv, UNCHANGED chainVars, NEW e, Receive(e)
  PROVE  AuctionInv'
<1>1. HouseSound /\ SocketSound /\ StoreSound /\ Follows
  BY DEF AuctionInv
<1>2. /\ chain' = chain /\ current' = current /\ now' = now
      /\ load' = load /\ lost' = lost /\ historyVars' = historyVars /\ todo = <<>> /\ socket # <<>>
  BY DEF chainVars, historyVars, Receive
<1>3. load = "live"
  BY <1>1, <1>2 DEF StoreSound
<1>4. PICK s \in {0, 1} : Taken(e, s)
  BY <1>1, ReceiveTakes
<1>5. 1 \in DOMAIN socket /\ e \in socket[1]
  BY <1>4, TakenFirst
<1>6. e \in Events
  <2>1. socket \in Seq(SUBSET Events)
    BY <1>1 DEF SocketSound
  <2>2. socket[1] \in SUBSET Events
    BY <1>5, <2>1
  <2> QED BY <1>5, <2>2
<1>7. /\ e.type \in {"bid", "created", "extended", "settled"} /\ e.id \in Nat
      /\ e.type = "created" => e.end \in Nat /\ e \in [type : {"created"}, id : Nat, end : Nat]
      /\ e.type = "extended" => e.end \in Nat
      /\ e.type = "settled" => e.winner \in Takers /\ e.amount \in Nat
  BY <1>6, EventFields
<1>8. /\ store \in Stores /\ store.active \in AuctionRecs
      /\ store.active.id \in DOMAIN chain /\ store.last \in DOMAIN chain
      /\ store.active.id = store.last /\ ~Activating
  BY <1>1, <1>2, <1>3, AtRest DEF StoreSound
<1>9. HouseSound'
  BY <1>1, <1>2, ChainStays DEF HouseSound
<1>10. \A i \in DOMAIN socket' : \A f \in socket'[i] : f.type = "created" =>
           /\ f.id > store.active.id /\ f.id > store.last
           /\ e.type = "created" => f.id > e.id
  <2> SUFFICES ASSUME NEW i \in DOMAIN socket', NEW f \in socket'[i], f.type = "created"
               PROVE  /\ f.id > store.active.id /\ f.id > store.last
                      /\ e.type = "created" => f.id > e.id
    OBVIOUS
  <2>1. /\ i + s \in DOMAIN socket /\ f \in socket[i + s] /\ i + s \in Nat
        /\ i + s >= 1 /\ (i + s = 1 => f # e)
    BY <1>4, StillThere
  <2>2. f.id > store.active.id /\ f.id > store.last
    BY <1>1, <2>1 DEF SocketSound
  <2>3. ASSUME e.type = "created" PROVE f.id > e.id
    <3>1. i + s # 1
      BY <1>1, <1>5, <2>1, <2>3 DEF SocketSound
    <3>2. 1 < i + s
      BY <2>1, <3>1
    <3>3. e.id < f.id
      BY <1>1, <1>5, <2>1, <2>3, <3>2 DEF SocketSound
    <3>4. f.id \in Nat
      BY <1>1, <2>1 DEF SocketSound, HouseSound
    <3> QED BY <1>7, <3>3, <3>4
  <2> QED BY <2>2, <2>3
<1>11. ASSUME todo' = todo, store'.active.id = store.active.id, store'.last = store.last
       PROVE  SocketSound'
  <2>1. DOMAIN todo' = {}
    BY <1>2, <1>11
  <2> QED BY <1>1, <1>2, <1>4, <1>10, <1>11, <2>1, TakenSocket
<1>12. todo' = todo => ~Activating'
  BY <1>2, <1>8 DEF Activating
<1>13. CASE e.type = "bid"
  <2>1. blocks' = blocks \cup {e.bid} /\ store' = store /\ todo' = todo
    BY <1>13 DEF Receive
  <2>2. e.bid.id \in DOMAIN chain /\ e.bid \in chain[e.bid.id].bids
    <3>1. e.id \in DOMAIN chain /\ e.bid \in chain[e.id].bids
      BY <1>1, <1>5, <1>13 DEF SocketSound
    <3>2. e.bid.id = e.id
      BY <1>1, <3>1 DEF HouseSound, LotSound
    <3> QED BY <3>1, <3>2
  <2>3. StoreSound'
    BY <1>1, <1>2, <1>3, <1>8, <2>1, <2>2, SameAuctionStore
  <2>4. Heard(e)
    BY <1>2, <1>12, <1>13, <2>1 DEF Heard
  <2>5. Follows'
    BY <1>1, <1>2, <1>4, <2>4, TakenFollows
  <2> QED BY <1>9, <1>11, <2>1, <2>3, <2>5 DEF AuctionInv
<1>14. CASE e.type = "extended"
  <2>1. blocks' = blocks /\ store' = SetAuctionExtended(store, e) /\ todo' = todo
    BY <1>14 DEF Receive
  <2>2. AuctionsEqual(store, e) = (e.id = store.active.id)
    BY <1>7 DEF AuctionsEqual, None
  <2>3. /\ store' \in Stores /\ store'.active \in AuctionRecs
        /\ store'.active.id = store.active.id /\ store'.bids = store.bids
        /\ store'.last = store.last
        /\ store'.active.end = IF e.id = store.active.id THEN e.end ELSE store.active.end
        /\ store'.active.settled = store.active.settled
        /\ store'.active.amount = store.active.amount
        /\ store'.active.bidder = store.active.bidder
    <3>1. CASE e.id # store.active.id
      BY <1>8, <2>1, <2>2, <3>1 DEF SetAuctionExtended
    <3>2. CASE e.id = store.active.id
      <4> DEFINE new == [store.active EXCEPT !.end = e.end]
      <4>1. store' = [store EXCEPT !.active = new]
        BY <1>8, <2>1, <2>2, <3>2 DEF SetAuctionExtended, Stores
      <4>2. /\ new \in AuctionRecs /\ new.id = store.active.id /\ new.end = e.end
            /\ new.settled = store.active.settled /\ new.amount = store.active.amount
            /\ new.bidder = store.active.bidder
        BY <1>7, <1>8, <1>14 DEF AuctionRecs
      <4> HIDE DEF new
      <4>3. /\ store' \in Stores /\ store'.active = new /\ store'.bids = store.bids
            /\ store'.last = store.last
        BY <1>8, <4>1, <4>2 DEF Stores
      <4> QED BY <3>2, <4>2, <4>3
    <3> QED BY <3>1, <3>2
  <2>4. StoreSound'
    BY <1>1, <1>2, <1>3, <2>1, <2>3, SameAuctionStore
  <2>5. Heard(e)
    BY <1>2, <1>12, <1>14, <2>1, <2>3 DEF Heard
  <2>6. Follows'
    BY <1>1, <1>2, <1>4, <2>5, TakenFollows
  <2> QED BY <1>9, <1>11, <2>1, <2>3, <2>4, <2>6 DEF AuctionInv
<1>15. CASE e.type = "settled"
  <2>1. blocks' = blocks /\ store' = SetAuctionSettled(store, e) /\ todo' = todo
    BY <1>15 DEF Receive
  <2>2. AuctionsEqual(store, e) = (e.id = store.active.id)
    BY <1>7 DEF AuctionsEqual, None
  <2>3. /\ store' \in Stores /\ store'.active \in AuctionRecs
        /\ store'.active.id = store.active.id /\ store'.bids = store.bids
        /\ store'.last = store.last
        /\ store'.active.end = store.active.end
        /\ IF e.id = store.active.id
           THEN /\ store'.active.settled = TRUE
                /\ store'.active.amount = e.amount /\ store'.active.bidder = e.winner
           ELSE /\ store'.active.settled = store.active.settled
                /\ store'.active.amount = store.active.amount
                /\ store'.active.bidder = store.active.bidder
    <3>1. CASE e.id # store.active.id
      BY <1>8, <2>1, <2>2, <3>1 DEF SetAuctionSettled
    <3>2. CASE e.id = store.active.id
      <4> DEFINE new == [store.active EXCEPT !.settled = TRUE, !.bidder = e.winner,
                                             !.amount = e.amount]
      <4>1. store' = [store EXCEPT !.active = new]
        BY <1>8, <2>1, <2>2, <3>2 DEF SetAuctionSettled, Stores
      <4>2. /\ new \in AuctionRecs /\ new.id = store.active.id
            /\ new.end = store.active.end
            /\ new.settled = TRUE /\ new.amount = e.amount /\ new.bidder = e.winner
        BY <1>7, <1>8, <1>15 DEF AuctionRecs
      <4> HIDE DEF new
      <4>3. /\ store' \in Stores /\ store'.active = new /\ store'.bids = store.bids
            /\ store'.last = store.last
        BY <1>8, <4>1, <4>2 DEF Stores
      <4> QED BY <3>2, <4>2, <4>3
    <3> QED BY <3>1, <3>2
  <2>4. StoreSound'
    BY <1>1, <1>2, <1>3, <2>1, <2>3, SameAuctionStore
  <2>5. Heard(e)
    BY <1>2, <1>12, <1>15, <2>1, <2>3 DEF Heard
  <2>6. Follows'
    BY <1>1, <1>2, <1>4, <2>5, TakenFollows
  <2> QED BY <1>9, <1>11, <2>1, <2>3, <2>4, <2>6 DEF AuctionInv
<1>16. CASE e.type = "created"
  <2>1. /\ blocks' = blocks /\ store' = store
        /\ todo' = <<[do |-> "active", auction |-> e], [do |-> "url", id |-> e.id],
                     [do |-> "show", id |-> e.id], [do |-> "last", id |-> e.id]>>
    BY <1>16 DEF Receive, ProcessAuctionCreated
  <2>2. /\ todo' \in Seq(Dispatches) /\ Len(todo') = 4 /\ DOMAIN todo' = 1 .. 4
        /\ todo'[1].do = "active" /\ todo'[1].auction = e
        /\ todo'[2].do = "url" /\ todo'[2].id = e.id
        /\ todo'[3].do = "show" /\ todo'[3].id = e.id
        /\ todo'[4].do = "last" /\ todo'[4].id = e.id
    BY <1>7, <1>16, <2>1, CreatedDispatches
  <2>3. \A k \in DOMAIN todo' : todo'[k].do = "active" => k = 1
    <3>1. \A k \in 1 .. 4 : k = 1 \/ k = 2 \/ k = 3 \/ k = 4
      OBVIOUS
    <3> QED BY <2>2, <3>1
  <2>4. SocketSound'
    BY <1>1, <1>2, <1>4, <1>10, <1>16, <2>1, <2>2, <2>3, TakenSocket
  <2>5. StoreSound'
    <3>1. CreatedLeft(e.id)'
      <4>1. e.id \in DOMAIN chain /\ e.id > store.last
        BY <1>1, <1>5, <1>16 DEF SocketSound
      <4> QED BY <1>2, <1>3, <1>8, <2>1, <2>2, <4>1, Small DEF CreatedLeft
    <3>2. e.id \in DOMAIN chain'
      BY <1>1, <1>2, <1>5 DEF SocketSound
    <3>3. /\ \A b \in blocks \cup store.bids : b.id \in DOMAIN chain /\ b \in chain[b.id].bids
          /\ \A b \in store.bids : b.id = store.active.id
          /\ store.bids # {} =>
               \E m \in store.bids : \A b \in store.bids : m.value >= b.value
      BY <1>1 DEF StoreSound
    <3> QED BY <1>2, <1>3, <1>8, <2>1, <2>2, <3>1, <3>2, <3>3 DEF StoreSound
  <2>6. Heard(e)
    <3>1. IF e.id = current THEN Activating' /\ todo'[1].auction.end = e.end ELSE ~Activating'
      BY <1>2, <2>2 DEF Activating
    <3> QED BY <1>2, <1>16, <2>1, <3>1 DEF Heard
  <2>7. Follows'
    BY <1>1, <1>2, <1>4, <2>6, TakenFollows
  <2> QED BY <1>9, <2>4, <2>5, <2>7 DEF AuctionInv
<1> QED BY <1>7, <1>13, <1>14, <1>15, <1>16

\* The address of the page, the user's transaction and the bids that were
\* not asked for.
SessionSound ==
  /\ route \in Int
  /\ tx \in [state : {"none", "signing", "pending", "mined", "failed"},
             id : Nat \cup {None}, value : Nat]
  /\ MissedSound

LEMMA AuctionInvInit ==
  AuctionInit => AuctionInv /\ SessionSound
<1> SUFFICES ASSUME AuctionInit PROVE AuctionInv /\ SessionSound
  OBVIOUS
<1>1. /\ now = 0 /\ current = 1 /\ chain = WithAuction(<<>>, 1)
      /\ socket = <<>> /\ blocks = {} /\ route \in Routes
      /\ todo = <<>> /\ lost = {} /\ missed = {} /\ tx = NoTx
  BY DEF AuctionInit, WebAuctionInit
<1>2. /\ chain \in [{1} -> Lots] /\ Fresh(chain[1], 1)
  <2>1. DOMAIN <<>> = {} /\ <<>> \in [{} -> Lots]
    OBVIOUS
  <2>2. /\ WithAuction(<<>>, 1) \in [DOMAIN <<>> \cup {1} -> Lots]
        /\ Fresh(WithAuction(<<>>, 1)[1], 1)
    BY <1>1, <2>1, StartedChain
  <2> QED BY <1>1, <2>1, <2>2
<1>3. Auction \in AuctionRecs /\ Auction.id = 1 /\ chain[current].bids = {}
  BY <1>1, <1>2 DEF Fresh, Auction
<1>4. HouseSound
  <2>1. LotSound(1)
    BY <1>2 DEF Fresh, LotSound
  <2> QED BY <1>1, <1>2, <2>1, AuctionNumbers DEF HouseSound
<1>5. DOMAIN socket = {}
  BY <1>1
<1>6. SocketSound
  BY <1>1, <1>5 DEF SocketSound
<1>7. Len(todo) # 4 /\ todo \in Seq(Dispatches)
  BY <1>1
<1>8. CASE NotLoaded
  <2>1. /\ load = "start" /\ store = InitialState
    BY <1>8 DEF NotLoaded
  <2>2. /\ store.active = NoAuction /\ store.bids = {} /\ store.last = None
        /\ store.shown = None /\ store \in Stores
    BY <2>1 DEF InitialState, Stores
  <2>3. StoreSound
    BY <1>1, <1>7, <2>1, <2>2 DEF StoreSound, NoAuction
  <2>4. Follows
    BY <2>1 DEF Follows
  <2>5. AuctionInv
    BY <1>4, <1>6, <2>3, <2>4 DEF AuctionInv
  <2>6. MissedSound
    BY <1>1, <1>5, <2>1 DEF MissedSound
  <2> QED BY <1>1, <2>5, <2>6, AuctionNumbers DEF SessionSound, NoTx, None
<1>9. CASE Loaded
  <2>1. /\ load = "live" /\ store = [InitialState EXCEPT !.active = Auction, !.last = 1]
    BY <1>1, <1>9 DEF Loaded, SetLastAuctionTokenId, SetFullAuction, InitialState
  <2>2. /\ store.active = Auction /\ store.bids = {} /\ store.last = 1
        /\ store \in Stores
    BY <1>3, <2>1 DEF InitialState, Stores
  <2>3. StoreSound
    BY <1>1, <1>2, <1>3, <1>7, <2>1, <2>2 DEF StoreSound
  <2>4. /\ EndFollows /\ SettlementFollows /\ BidsFollow /\ Held
    BY <1>1, <1>3, <1>5, <1>7, <2>2
    DEF EndFollows, SettlementFollows, BidsFollow, Held, Activating
  <2>5. Follows
    BY <1>5, <2>4 DEF Follows
  <2>6. AuctionInv
    BY <1>4, <1>6, <2>3, <2>5 DEF AuctionInv
  <2>7. MissedSound
    BY <1>1, <1>5, <2>1 DEF MissedSound
  <2> QED BY <1>1, <2>6, <2>7, AuctionNumbers DEF SessionSound, NoTx, None
<1> QED BY <1>8, <1>9 DEF AuctionInit

LEMMA PageKeeps ==
  ASSUME AuctionInv, SessionSound, UNCHANGED chainVars, Page \/ Navigate
  PROVE  AuctionInv'
<1>1. route \in Int /\ MissedSound
  BY DEF SessionSound
<1>2. CASE FetchAuction
  BY <1>2, FetchKeeps
<1>3. CASE QueryBids
  BY <1>1, <1>3, QueryKeeps
<1>4. CASE Subscribe
  BY <1>4, SubscribeKeeps
<1>5. CASE FetchPastAuctions
  BY <1>5, PastKeeps
<1>6. ASSUME NEW e, Receive(e) PROVE AuctionInv'
  BY <1>6, ReceiveKeeps
<1>7. ASSUME NEW b \in blocks, ProcessBid(b) PROVE AuctionInv'
  <2>1. /\ todo = <<>> /\ todo' = todo /\ blocks' = blocks \ {b}
        /\ UNCHANGED <<chainVars, socket, load, missed>>
        /\ \/ store' = AppendBid(store, b) /\ lost' = lost
           \/ lost' = lost \cup {b.id} /\ store' = store
    BY <1>7 DEF ProcessBid, pageVars
  <2>2. CASE store' = AppendBid(store, b) /\ lost' = lost
    BY <1>1, <2>1, <2>2, AppendKeeps DEF historyVars
  <2>3. CASE lost' = lost \cup {b.id} /\ store' = store
    BY <2>1, <2>3, DroppedKeeps
  <2> QED BY <2>1, <2>2, <2>3
<1>8. CASE RunEffect
  BY <1>1, <1>8, EffectKeeps
<1>9. CASE Dispatch
  BY <1>1, <1>9, DispatchKeeps
<1>10. CASE Navigate
  BY <1>10, ClickKeeps, LeftKeeps, RightKeeps DEF Navigate
<1> QED BY <1>2, <1>3, <1>4, <1>5, <1>6, <1>7, <1>8, <1>9, <1>10 DEF Page

LEMMA HouseKeeps ==
  ASSUME AuctionInv, SessionSound, House
  PROVE  AuctionInv'
<1>1. UNCHANGED <<store, todo, load, blocks, missed>> /\ MissedSound
  BY DEF House, loadVars, pageVars, SessionSound
<1>2. ASSUME NEW b \in Bidders, NEW v \in 1 .. MaxValue, CreateBid(b, v)
      PROVE  AuctionInv'
  <2>1. v \in Nat
    BY AuctionNumbers
  <2> QED BY <1>1, <1>2, <2>1, BidKeeps
<1> QED BY <1>1, <1>2, SettleKeeps, UnpauseKeeps, GoingOnKeeps, TickKeeps DEF House

LEMMA MineKeeps ==
  ASSUME AuctionInv, SessionSound, MineBid
  PROVE  AuctionInv'
<1>1. UNCHANGED <<store, todo, load, blocks, missed>> /\ MissedSound
  BY DEF MineBid, loadVars, pageVars, SessionSound
<1>2. CASE CreateBid(Me, tx.value)
  <2>1. tx.value \in Nat /\ Me \in Bidders
    BY AuctionNumbers DEF SessionSound
  <2> QED BY <1>1, <1>2, <2>1, BidKeeps
<1>3. CASE UNCHANGED <<chainVars, socket, lost>>
  <2>1. \A id : LotSound(id)' = LotSound(id) /\ CreatedLeft(id)' = CreatedLeft(id)
    BY <1>1, <1>3 DEF chainVars, LotSound, CreatedLeft
  <2>2. HouseSound' = HouseSound /\ SocketSound' = SocketSound
    BY <1>1, <1>3, <2>1 DEF chainVars, HouseSound, SocketSound
  <2>3. StoreSound' = StoreSound
    BY <1>1, <1>3, <2>1 DEF chainVars, StoreSound, KeyLeft
  <2>4. \A i : EndEvents(i)' = EndEvents(i)
    BY <1>3 DEF chainVars, EndEvents
  <2>5. Follows' = Follows
    BY <1>1, <1>3, <2>4
    DEF chainVars, Follows, Held, Activating, Awaited, EndFollows, SettlementFollows,
        BidsFollow, Auction
  <2> QED BY <2>2, <2>3, <2>5 DEF AuctionInv
<1> QED BY <1>2, <1>3 DEF MineBid

\* What the auction page is about stays as it is.
LEMMA AuctionRests ==
  ASSUME AuctionInv, UNCHANGED <<chainVars, loadVars, pageVars, socket, store, historyVars>>
  PROVE  AuctionInv'
<1>1. UNCHANGED <<chain, current, now, load, blocks, todo, socket, store, lost, missed>>
  BY DEF chainVars, loadVars, pageVars, historyVars
<1>2. \A id : LotSound(id)' = LotSound(id) /\ CreatedLeft(id)' = CreatedLeft(id)
  BY <1>1 DEF LotSound, CreatedLeft
<1>3. HouseSound' = HouseSound /\ SocketSound' = SocketSound
  BY <1>1, <1>2 DEF HouseSound, SocketSound
<1>4. StoreSound' = StoreSound
  BY <1>1, <1>2 DEF StoreSound, KeyLeft
<1>5. \A i : EndEvents(i)' = EndEvents(i)
  BY <1>1 DEF EndEvents
<1>6. Follows' = Follows
  BY <1>1, <1>5
  DEF Follows, Held, Activating, Awaited, EndFollows, SettlementFollows, BidsFollow,
      Auction
<1> QED BY <1>3, <1>4, <1>6 DEF AuctionInv

\* The bids that were not asked for: while the auctions go on.
LEMMA MissedHouse ==
  ASSUME MissedSound, AuctionInv, ChainGrows,
         UNCHANGED <<store, load, blocks, missed>>,
         \A id \in DOMAIN chain : \A c \in chain'[id].bids :
           c \in chain[id].bids \/ \A b \in chain[id].bids : ~(c.value < b.value),
         \A i \in DOMAIN socket' : \A e \in socket'[i] :
           \/ i \in DOMAIN socket /\ e \in socket[i]
           \/ e.type = "bid" => e.bid \notin missed
  PROVE  MissedSound'
<1>1. \A b \in missed :
        /\ b.id \in DOMAIN chain' /\ b \in chain'[b.id].bids
        /\ \A c \in chain'[b.id].bids : c.value < b.value => c \in missed
        /\ b \notin blocks \cup store.bids
  BY DEF MissedSound, ChainGrows
<1>2. \A i \in DOMAIN socket' : \A e \in socket'[i] : e.type = "bid" => e.bid \notin missed
  BY DEF MissedSound
<1>3. load = "query" =>
        \/ store.active.bidder = NoBidder /\ store.active.amount = 0
        \/ \E b \in chain'[store.active.id].bids :
             b.sender = store.active.bidder /\ b.value = store.active.amount
  <2>1. load = "query" => store.active.id \in DOMAIN chain
    BY DEF AuctionInv, StoreSound
  <2> QED BY <2>1 DEF MissedSound, ChainGrows
<1>4. load \in {"start", "query"} => missed = {}
  BY DEF MissedSound
<1> QED BY <1>1, <1>2, <1>3, <1>4 DEF MissedSound

LEMMA MissedBid ==
  ASSUME MissedSound, AuctionInv, UNCHANGED <<store, load, blocks, missed>>,
         NEW bidder \in Bidders, NEW v \in Nat, CreateBid(bidder, v)
  PROVE  MissedSound'
<1> DEFINE bid == [id |-> current, sender |-> bidder, value |-> v]
           bidding == [type |-> "bid", bid |-> bid, id |-> current]
           extending == [type |-> "extended", id |-> current, end |-> now + TimeBuffer]
           events == {bidding} \cup (IF Auction.end - now < TimeBuffer
                                     THEN {extending} ELSE {})
<1>1. HouseSound /\ SocketSound
  BY DEF AuctionInv
<1>2. Bidden(bidder, v) /\ ChainGrows
  BY <1>1, CreateBidChain, HouseBid
<1>3. \A b \in chain[current].bids : b.value \in Nat /\ v > b.value
  <2>1. Acceptable(v)
    BY DEF CreateBid
  <2> QED BY <1>1, <2>1, BidsRise DEF HouseSound, Lots, Offers
<1>4. bid.id = current /\ bid.value = v
  OBVIOUS
<1>5. /\ bidding.bid = bid /\ extending.type = "extended"
      /\ \A e \in events : e = bidding \/ e = extending
  OBVIOUS
<1>6. events \in SUBSET Events
  <2>1. current \in Nat /\ now \in Nat
    BY <1>1 DEF HouseSound
  <2>2. bid \in Offers
    BY <2>1 DEF Offers
  <2>3. bidding \in Events
    BY <2>1, <2>2 DEF Events
  <2>4. extending \in Events
    BY <2>1, AuctionNumbers DEF Events
  <2> QED BY <2>3, <2>4
<1>7. Emit(events)
  BY DEF CreateBid
<1> HIDE DEF bid, bidding, extending, events
<1>8. bid \notin chain[current].bids
  BY <1>3, <1>4
<1>9. bid \notin missed
  BY <1>4, <1>8 DEF MissedSound
<1>10. \A id \in DOMAIN chain : \A c \in chain'[id].bids :
           c \in chain[id].bids \/ \A b \in chain[id].bids : ~(c.value < b.value)
  <2>1. chain'[current].bids = chain[current].bids \cup {bid}
    BY <1>2 DEF Bidden, bid
  <2>2. \A b \in chain[current].bids : ~(bid.value < b.value)
    BY <1>3, <1>4
  <2> QED BY <1>2, <2>1, <2>2 DEF Bidden
<1>11. \A i \in DOMAIN socket' : \A e \in socket'[i] :
           \/ i \in DOMAIN socket /\ e \in socket[i]
           \/ e.type = "bid" => e.bid \notin missed
  <2>1. socket \in Seq(SUBSET Events)
    BY <1>1 DEF SocketSound
  <2>2. \/ /\ Len(socket) \in Nat /\ DOMAIN socket = 1 .. Len(socket)
           /\ DOMAIN socket' = 1 .. Len(socket) + 1
           /\ \A i \in 1 .. Len(socket) : socket'[i] = socket[i]
           /\ socket'[Len(socket) + 1] = events
        \/ socket' = socket
    BY <1>6, <1>7, <2>1, EmitSends
  <2>3. \A e \in events : e.type = "bid" => e.bid \notin missed
    BY <1>5, <1>9
  <2>4. \A n \in Nat : \A i \in 1 .. n + 1 : i \in 1 .. n \/ i = n + 1
    OBVIOUS
  <2> QED BY <2>2, <2>3, <2>4
<1> QED BY <1>2, <1>10, <1>11, MissedHouse

\* The other transactions have no bid.
LEMMA MissedQuiet ==
  ASSUME MissedSound, AuctionInv, ChainGrows,
         UNCHANGED <<store, load, blocks, missed>>,
         \A id \in DOMAIN chain : chain'[id].bids = chain[id].bids,
         NEW events \in SUBSET Events, Emit(events),
         \A e \in events : e.type # "bid"
  PROVE  MissedSound'
<1>1. socket \in Seq(SUBSET Events)
  BY DEF AuctionInv, SocketSound
<1>2. \/ /\ Len(socket) \in Nat /\ DOMAIN socket = 1 .. Len(socket)
         /\ DOMAIN socket' = 1 .. Len(socket) + 1
         /\ \A i \in 1 .. Len(socket) : socket'[i] = socket[i]
         /\ socket'[Len(socket) + 1] = events
      \/ socket' = socket
  BY <1>1, EmitSends
<1>4. \A n \in Nat : \A i \in 1 .. n + 1 : i \in 1 .. n \/ i = n + 1
  OBVIOUS
<1>5. \A i \in DOMAIN socket' : \A e \in socket'[i] :
           \/ i \in DOMAIN socket /\ e \in socket[i]
           \/ e.type = "bid" => e.bid \notin missed
  BY <1>2, <1>4
<1> QED BY <1>5, MissedHouse

LEMMA MissedTransactions ==
  ASSUME MissedSound, AuctionInv, SessionSound, House \/ MineBid
  PROVE  MissedSound'
<1>1. UNCHANGED <<store, load, blocks, missed>>
  BY DEF House, MineBid, loadVars
<1>2. HouseSound
  BY DEF AuctionInv
<1>3. ASSUME NEW b \in Bidders, NEW v \in Nat, CreateBid(b, v) PROVE MissedSound'
  BY <1>1, <1>3, MissedBid
<1>4. CASE MineBid
  <2>1. tx.value \in Nat /\ Me \in Bidders
    BY AuctionNumbers DEF SessionSound
  <2>2. CASE UNCHANGED <<chainVars, socket, lost>>
    BY <1>1, <2>2 DEF MissedSound, chainVars
  <2> QED BY <1>3, <1>4, <2>1, <2>2 DEF MineBid
<1>5. \A v \in 1 .. MaxValue : v \in Nat
  BY AuctionNumbers
<1>6. CASE Tick
  BY <1>1, <1>6 DEF Tick, MissedSound
<1>7. CASE SettleAuction
  <2>1. /\ chain' = [chain EXCEPT ![current].auction.settled = TRUE]
        /\ Emit({SettledEvent})
    BY <1>7 DEF SettleAuction
  <2>2. /\ \A id \in DOMAIN chain \ {current} : chain'[id] = chain[id]
        /\ chain'[current].bids = chain[current].bids
    BY <1>2, <2>1, SettledChain
  <2>3. {SettledEvent} \in SUBSET Events /\ \A e \in {SettledEvent} : e.type # "bid"
    BY <1>2 DEF SettledEvent, Events, HouseSound, Lots, AuctionRecs, Auction
  <2>4. \A id \in DOMAIN chain : chain'[id].bids = chain[id].bids
    BY <2>2
  <2>5. ChainGrows
    BY <1>2, <1>7, HouseSettles
  <2> QED BY <1>1, <2>1, <2>3, <2>4, <2>5, MissedQuiet
<1>8. NextId(current) \in Nat /\ NextId(current) > current /\ now \in Nat
  BY <1>2, NextIdGrows DEF HouseSound
<1>9. {CreatedEvent(NextId(current))} \in SUBSET Events
      /\ CreatedEvent(NextId(current)).type = "created"
  BY <1>8, AuctionNumbers DEF CreatedEvent, Events
<1>10. NextId(current) \notin DOMAIN chain
  BY <1>2, <1>8 DEF HouseSound
<1>11. CASE Unpause
  <2>1. /\ chain' = WithAuction(chain, NextId(current))
        /\ Emit({CreatedEvent(NextId(current))})
    BY <1>11 DEF Unpause
  <2>2. \A id \in DOMAIN chain \ {NextId(current)} : chain'[id] = chain[id]
    BY <1>2, <1>8, <2>1, StartedChain DEF HouseSound
  <2>3. \A id \in DOMAIN chain : chain'[id].bids = chain[id].bids
    BY <1>10, <2>2
  <2>4. \A e \in {CreatedEvent(NextId(current))} : e.type # "bid"
    BY <1>9
  <2>5. ChainGrows
    BY <1>2, <1>11, HouseUnpauses
  <2> QED BY <1>1, <1>9, <2>1, <2>3, <2>4, <2>5, MissedQuiet
<1>12. CASE SettleCurrentAndCreateNewAuction
  <2> DEFINE c == [chain EXCEPT ![current].auction.settled = TRUE]
             events == {SettledEvent, CreatedEvent(NextId(current))}
  <2>1. chain' = WithAuction(c, NextId(current)) /\ Emit(events)
    BY <1>12 DEF SettleCurrentAndCreateNewAuction
  <2>2. /\ DOMAIN c = DOMAIN chain /\ c \in [DOMAIN chain -> Lots]
        /\ \A id \in DOMAIN chain \ {current} : c[id] = chain[id]
        /\ c[current].bids = chain[current].bids
    BY <1>2, SettledChain
  <2> HIDE DEF c
  <2>3. \A id \in DOMAIN c \ {NextId(current)} : chain'[id] = c[id]
    BY <1>8, <2>1, <2>2, StartedChain
  <2>4. \A id \in DOMAIN chain : chain'[id].bids = chain[id].bids
    BY <1>10, <2>2, <2>3
  <2>5. SettledEvent \in Events /\ SettledEvent.type = "settled"
    BY <1>2 DEF SettledEvent, Events, HouseSound, Lots, AuctionRecs, Auction
  <2>6. events \in SUBSET Events /\ \A e \in events : e.type # "bid"
    BY <1>9, <2>5
  <2>7. ChainGrows
    BY <1>2, <1>12, HouseGoesOn
  <2> HIDE DEF events
  <2> QED BY <1>1, <2>1, <2>4, <2>6, <2>7, MissedQuiet
<1> QED BY <1>3, <1>4, <1>5, <1>6, <1>7, <1>11, <1>12 DEF House

\* What the page does with the bids it has.
LEMMA MissedPage ==
  ASSUME MissedSound, UNCHANGED <<chain, load, missed>>,
         \A b \in missed : b \notin blocks' \cup store'.bids,
         \A i \in DOMAIN socket' : \A e \in socket'[i] :
           e.type = "bid" => e.bid \notin missed,
         load = "query" => store'.active = store.active
  PROVE  MissedSound'
BY DEF MissedSound

LEMMA MissedPlain ==
  ASSUME MissedSound, UNCHANGED <<chain, load, missed, blocks, socket>>,
         store'.bids = store.bids, store'.active = store.active
  PROVE  MissedSound'
BY DEF MissedSound

LEMMA MissedStep ==
  ASSUME AuctionInv, SessionSound, AuctionNext
  PROVE  MissedSound'
<1>1. /\ MissedSound /\ HouseSound /\ SocketSound /\ StoreSound
      /\ store \in Stores
  BY DEF SessionSound, AuctionInv, StoreSound
<1>2. CASE House \/ MineBid
  BY <1>1, <1>2, MissedTransactions
<1>3. CASE FormStep \/ FormUpdate
  <2>1. FormOnly
    BY <1>3
    DEF FormStep, FormUpdate, BidInputHandler, PlaceBidHandler, Sign, Reject,
        SettleAuctionHandler, Receipt, SuccessfulBid, SettleReceipt, CheckEnded
  <2>2. UNCHANGED <<chain, load, missed, blocks, socket, store>>
    BY <2>1 DEF FormOnly, chainVars, loadVars, historyVars
  <2> QED BY <1>1, <2>2, MissedPlain
<1>4. CASE PageStep /\ (Page \/ Navigate)
  <2>0. chain' = chain
    BY <1>4 DEF PageStep, chainVars
  <2>1. CASE FetchAuction
    <3>1. /\ load = "start" /\ load' = "query" /\ missed' = missed
          /\ store' = SetLastAuctionTokenId(SetFullAuction(store, Auction), current)
          /\ socket' = socket
      BY <2>1 DEF FetchAuction, historyVars
    <3>2. missed = {}
      BY <1>1, <3>1 DEF MissedSound
    <3>3. store'.active = Auction
      BY <1>1, <3>1 DEF SetLastAuctionTokenId, SetFullAuction, Stores
    <3>4. LotSound(current)
      BY <1>1 DEF HouseSound
    <3>5. \/ Auction.bidder = NoBidder /\ Auction.amount = 0
          \/ \E b \in chain[Auction.id].bids :
               b.sender = Auction.bidder /\ b.value = Auction.amount
      BY <3>4 DEF LotSound, Auction
    <3> QED BY <2>0, <3>1, <3>2, <3>3, <3>5 DEF MissedSound
  <2>2. CASE QueryBids
    <3>1. /\ load = "query" /\ load' = "subscribe" /\ store' = store /\ socket' = socket
          /\ blocks' = blocks \cup (Placed \ missed') /\ missed' \subseteq Placed
          /\ \A b \in missed', c \in Placed : Earlier(c, b) => c \in missed'
      BY <2>2 DEF QueryBids
    <3>2. blocks = {} /\ store.bids = {} /\ socket = <<>>
      BY <1>1, <3>1 DEF StoreSound
    <3>3. DOMAIN socket = {}
      BY <3>2
    <3>4. \A b \in Placed : b.id \in DOMAIN chain /\ b \in chain[b.id].bids
      BY <1>1 DEF Placed, HouseSound, LotSound
    <3>5. ASSUME NEW b \in missed', NEW c \in chain[b.id].bids, c.value < b.value
          PROVE  c \in missed'
      <4>1. b.id \in DOMAIN chain
        BY <3>1, <3>4
      <4>2. c \in Placed /\ c.id = b.id
        BY <1>1, <4>1 DEF Placed, HouseSound, LotSound
      <4> QED BY <3>1, <3>5, <4>2 DEF Earlier
    <3>6. load' # "start" /\ load' # "query"
      BY <3>1
    <3> QED BY <2>0, <3>1, <3>2, <3>3, <3>4, <3>5, <3>6 DEF MissedSound
  <2>3. CASE Subscribe
    <3>1. /\ load' = "live"
          /\ UNCHANGED <<chain, blocks, store, socket, missed>>
      BY <2>0, <2>3 DEF Subscribe, historyVars
    <3> QED BY <1>1, <3>1 DEF MissedSound
  <2>4. ASSUME NEW e, Receive(e) PROVE MissedSound'
    <3>1. /\ load' = load /\ missed' = missed /\ socket # <<>>
      BY <2>4 DEF Receive, historyVars
    <3>2. load = "live"
      BY <1>1, <3>1 DEF StoreSound
    <3>3. PICK s \in {0, 1} : Taken(e, s)
      BY <1>1, <2>4, ReceiveTakes
    <3>4. 1 \in DOMAIN socket /\ e \in socket[1]
      BY <3>3, TakenFirst
    <3>5. \A i \in DOMAIN socket' : \A f \in socket'[i] : f.type = "bid" => f.bid \notin missed
      <4> SUFFICES ASSUME NEW i \in DOMAIN socket', NEW f \in socket'[i], f.type = "bid"
                   PROVE  f.bid \notin missed
        OBVIOUS
      <4>1. i + s \in DOMAIN socket /\ f \in socket[i + s]
        BY <3>3, StillThere
      <4> QED BY <1>1, <4>1 DEF MissedSound
    <3>6. e \in Events
      <4>1. socket \in Seq(SUBSET Events)
        BY <1>1 DEF SocketSound
      <4>2. socket[1] \in SUBSET Events
        BY <3>4, <4>1
      <4> QED BY <3>4, <4>2
    <3>7. e.type \in {"bid", "created", "extended", "settled"}
      BY <3>6, EventFields
    <3>8. store'.bids = store.bids
      <4>1. store' = store \/ store' = SetAuctionExtended(store, e)
            \/ store' = SetAuctionSettled(store, e)
        BY <2>4, <3>7 DEF Receive, ProcessAuctionCreated
      <4> QED BY <1>1, <4>1 DEF SetAuctionExtended, SetAuctionSettled, Stores
    <3>9. \A b \in missed : b \notin blocks' \cup store'.bids
      <4>1. blocks' = blocks \/ (e.type = "bid" /\ blocks' = blocks \cup {e.bid})
        BY <2>4, <3>7 DEF Receive, ProcessAuctionCreated
      <4>2. e.type = "bid" => e.bid \notin missed
        BY <1>1, <3>4 DEF MissedSound
      <4>3. \A b \in missed : b \notin blocks \cup store.bids
        BY <1>1 DEF MissedSound
      <4> QED BY <3>8, <4>1, <4>2, <4>3
    <3> QED BY <1>1, <2>0, <3>1, <3>2, <3>5, <3>9, MissedPage
  <2>5. ASSUME NEW b \in blocks, ProcessBid(b) PROVE MissedSound'
    <3>1. /\ UNCHANGED <<load, missed, socket>> /\ blocks' = blocks \ {b}
          /\ store' = store \/ store' = AppendBid(store, b)
      BY <2>5 DEF ProcessBid
    <3>2. load # "query"
      BY <1>1 DEF StoreSound
    <3>3. b \in Offers
      BY <1>1 DEF StoreSound, HouseSound, Lots
    <3>4. store'.bids \subseteq store.bids \cup {b}
      BY <1>1, <3>1 DEF AppendBid, Stores
    <3>5. \A c \in missed : c \notin blocks \cup store.bids
      BY <1>1 DEF MissedSound
    <3>6. \A c \in missed : c \notin blocks' \cup store'.bids
      BY <3>1, <3>4, <3>5
    <3>7. \A i \in DOMAIN socket' : \A f \in socket'[i] : f.type = "bid" => f.bid \notin missed
      BY <1>1, <3>1 DEF MissedSound
    <3> QED BY <1>1, <2>0, <3>1, <3>2, <3>6, <3>7, MissedPage
  <2>6. CASE Dispatch
    <3>1. UNCHANGED <<load, missed, blocks, socket>> /\ todo # <<>>
      BY <2>6 DEF Dispatch, loadVars, historyVars
    <3>2. todo \in Seq(Dispatches)
      BY <1>1 DEF StoreSound
    <3>3. Head(todo) \in Dispatches /\ Head(todo) = todo[1] /\ 1 \in DOMAIN todo
      BY <3>1, <3>2
    <3>4. Head(todo).do \in {"active", "url", "show", "last", "prev", "next", "push"}
      BY <3>3 DEF Dispatches
    <3>5. CASE Head(todo).do = "active"
      <4>1. load = "live"
        BY <1>1, <3>3, <3>5, Activated
      <4>2. store'.bids = {}
        <5>1. store' = SetActiveAuction(store, Head(todo).auction)
          BY <2>6, <3>5 DEF Dispatch
        <5> QED BY <1>1, <5>1 DEF SetActiveAuction, Stores
      <4>3. \A b \in missed : b \notin blocks' \cup store'.bids
        BY <1>1, <3>1, <4>2 DEF MissedSound
      <4>4. \A i \in DOMAIN socket' : \A f \in socket'[i] :
              f.type = "bid" => f.bid \notin missed
        BY <1>1, <3>1 DEF MissedSound
      <4> QED BY <1>1, <2>0, <3>1, <4>1, <4>3, <4>4, MissedPage
    <3>6. CASE Head(todo).do # "active"
      <4>1. \E m, n \in Nat \cup {None} :
           /\ SetPrevOnDisplayAuctionTokenId(store) = [store EXCEPT !.shown = m]
           /\ SetNextOnDisplayAuctionTokenId(store) = [store EXCEPT !.shown = n]
        BY <1>1, PrevNext
      <4>2. store'.active = store.active /\ store'.bids = store.bids
        BY <1>1, <2>6, <3>4, <3>6, <4>1, ZenonT(60)
        DEF Dispatch, Stores, SetOnDisplayAuctionTokenId, SetLastAuctionTokenId
      <4> QED BY <1>1, <2>0, <3>1, <4>2, MissedPlain
    <3> QED BY <3>5, <3>6
  <2>7. CASE FetchPastAuctions \/ RunEffect \/ HandleArrowLeft \/ HandleArrowRight
    <3>1. UNCHANGED <<load, missed, blocks, socket>>
      BY <2>7
      DEF FetchPastAuctions, RunEffect, HandleArrowLeft, HandleArrowRight,
          loadVars, historyVars
    <3>2. store'.active = store.active /\ store'.bids = store.bids
      BY <1>1, <2>7
      DEF FetchPastAuctions, AddPastAuctions, RunEffect, SetOnDisplayAuctionTokenId,
          HandleArrowLeft, HandleArrowRight, Stores
    <3> QED BY <1>1, <2>0, <3>1, <3>2, MissedPlain
  <2>8. CASE ClickPrev \/ ClickNext
    <3>1. UNCHANGED <<load, missed, blocks, socket>>
      BY <2>8 DEF ClickPrev, ClickNext, loadVars, historyVars
    <3>2. \E m, n \in Nat \cup {None} :
           /\ SetPrevOnDisplayAuctionTokenId(store) = [store EXCEPT !.shown = m]
           /\ SetNextOnDisplayAuctionTokenId(store) = [store EXCEPT !.shown = n]
      BY <1>1, PrevNext
    <3>3. store'.active = store.active /\ store'.bids = store.bids
      BY <1>1, <2>8, <3>2 DEF ClickPrev, ClickNext, Stores
    <3> QED BY <1>1, <2>0, <3>1, <3>3, MissedPlain
  <2> QED
    BY <1>4, <2>1, <2>2, <2>3, <2>4, <2>5, <2>6, <2>7, <2>8 DEF Page, Navigate
<1> QED BY <1>2, <1>3, <1>4 DEF AuctionNext, PageStep

LEMMA SessionStep ==
  ASSUME AuctionInv, SessionSound, AuctionNext
  PROVE  SessionSound'
<1>1. StoreSound
  BY DEF AuctionInv
<1>2. route' \in Int
  <2>1. CASE route' = route
    BY <2>1 DEF SessionSound
  <2>2. CASE Dispatch
    <3>1. CASE Head(todo).do = "push"
      <4>1. todo # <<>> /\ todo \in Seq(Dispatches)
        BY <1>1, <2>2 DEF Dispatch, StoreSound
      <4>2. Head(todo) \in Dispatches
        BY <4>1
      <4>3. Head(todo).id \in Nat
        BY <3>1, <4>2 DEF Dispatches
      <4>4. route' = Head(todo).id
        BY <2>2, <3>1, Zenon DEF Dispatch
      <4> QED BY <4>3, <4>4
    <3>2. CASE Head(todo).do # "push"
      <4>1. todo # <<>> /\ todo \in Seq(Dispatches)
        BY <1>1, <2>2 DEF Dispatch, StoreSound
      <4>2. Head(todo) \in Dispatches
        BY <4>1
      <4>3. Head(todo).do \in {"active", "url", "show", "last", "prev", "next"}
        BY <3>2, <4>2 DEF Dispatches
      <4>4. route' = route
        BY <2>2, <4>3 DEF Dispatch
      <4> QED BY <2>1, <4>4
    <3> QED BY <3>1, <3>2
  <2>3. CASE ClickPrev \/ ClickNext
    <3>1. Shown.id \in Nat
      BY <1>1, <2>3, NavigableStore DEF ClickPrev, ClickNext
    <3> QED BY <2>3, <3>1 DEF ClickPrev, ClickNext
  <2> QED BY <2>1, <2>2, <2>3
    DEF AuctionNext, PageStep, House, FormStep, FormUpdate, MineBid, Page, Navigate,
        FetchAuction, QueryBids, Subscribe, FetchPastAuctions, Receive, ProcessBid,
        RunEffect, HandleArrowLeft, HandleArrowRight, pageVars, FormOnly,
        BidInputHandler, PlaceBidHandler, Sign, Reject, SettleAuctionHandler,
        Receipt, SuccessfulBid, SettleReceipt, CheckEnded
<1>3. tx' \in [state : {"none", "signing", "pending", "mined", "failed"},
               id : Nat \cup {None}, value : Nat]
  <2>1. CASE tx' = tx
    BY <2>1 DEF SessionSound
  <2>2. CASE tx' = NoTx
    BY <2>2 DEF NoTx
  <2>3. ASSUME NEW v \in Reserve .. MaxValue, NEW percentage \in Readings,
               PlaceBidHandler(v, percentage)
        PROVE  tx' \in [state : {"none", "signing", "pending", "mined", "failed"},
                        id : Nat \cup {None}, value : Nat]
    <3>1. v \in Nat /\ current \in Nat
      BY AuctionNumbers DEF AuctionInv, HouseSound
    <3> QED BY <2>3, <3>1 DEF PlaceBidHandler
  <2>4. CASE \E s \in {"pending", "mined", "failed"} : tx' = [tx EXCEPT !.state = s]
    BY <2>4 DEF SessionSound
  <2> QED BY <2>1, <2>2, <2>3, <2>4
    DEF AuctionNext, PageStep, House, FormStep, FormUpdate, MineBid, formVars,
        BidInputHandler, Sign, Reject, SettleAuctionHandler,
        Receipt, SuccessfulBid, SettleReceipt, CheckEnded
<1> QED BY <1>2, <1>3, MissedStep DEF SessionSound

LEMMA AuctionStep ==
  ASSUME AuctionInv, SessionSound, AuctionNext
  PROVE  AuctionInv'
<1>1. CASE PageStep
  BY <1>1, PageKeeps DEF PageStep
<1>2. CASE House
  BY <1>2, HouseKeeps
<1>3. CASE FormStep \/ FormUpdate
  BY <1>3, AuctionRests
  DEF FormStep, FormUpdate, FormOnly,
      BidInputHandler, PlaceBidHandler, Sign, Reject, SettleAuctionHandler,
      Receipt, SuccessfulBid, SettleReceipt, CheckEnded
<1>4. CASE MineBid
  BY <1>4, MineKeeps
<1> QED BY <1>1, <1>2, <1>3, <1>4 DEF AuctionNext

LEMMA FollowsWhenQuiet ==
  AuctionInv /\ MissedSound => StoreFollowsChain
<1> SUFFICES ASSUME AuctionInv, MissedSound, Quiet, current \notin lost
             PROVE  /\ store.active = Auction
                    /\ store.bids = chain[current].bids \ missed
                    /\ store.last = current
  BY DEF StoreFollowsChain
<1>1. HouseSound /\ SocketSound /\ StoreSound /\ Follows
  BY DEF AuctionInv
<1>2. load = "live" /\ socket = <<>> /\ blocks = {} /\ todo = <<>>
  BY DEF Quiet
<1>3. DOMAIN socket = {}
  BY <1>2
<1>4. /\ store.active.id = store.last /\ ~Activating
      /\ store.active \in AuctionRecs
  BY <1>1, <1>2, AtRest DEF StoreSound
<1>5. EndFollows /\ SettlementFollows /\ BidsFollow /\ Held
  BY <1>1, <1>2, <1>3, <1>4 DEF Follows, Awaited
<1>6. store.active.id = current /\ Auction.id = current /\ Auction \in AuctionRecs
  BY <1>1, <1>5 DEF Held, HouseSound, LotSound, Auction, Lots
<1>7. Auction.end = store.active.end
  BY <1>3, <1>4, <1>5 DEF EndFollows
<1>8. Auction.settled = store.active.settled
  <2>1. Auction.settled <=> store.active.settled
    BY <1>3, <1>5 DEF SettlementFollows
  <2>2. Auction.settled \in BOOLEAN /\ store.active.settled \in BOOLEAN
    BY <1>4, <1>6 DEF AuctionRecs
  <2> QED BY <2>1, <2>2
<1>9. store.bids = chain[current].bids \ missed
  <2>1. \A b \in chain[current].bids \ missed : b \in store.bids
    BY <1>2, <1>3, <1>5 DEF BidsFollow
  <2>2. \A b \in store.bids : b \in chain[current].bids /\ b \notin missed
    BY <1>1, <1>6 DEF StoreSound, MissedSound
  <2>3. chain[current].bids \in SUBSET Offers /\ store.bids \in SUBSET Offers
    BY <1>1 DEF HouseSound, Lots, StoreSound, Stores
  <2> QED BY <2>1, <2>2, <2>3
<1>10. store.active.amount = Auction.amount /\ store.active.bidder = Auction.bidder
  BY <1>5, <1>9 DEF BidsFollow
<1>11. store.active = Auction
  BY <1>4, <1>6, <1>7, <1>8, <1>10 DEF AuctionRecs
<1> QED BY <1>4, <1>6, <1>9, <1>11

\* The bidder and the amount that the store has of its auction are those of
\* one bid.
ShowsABid ==
  store.active.bidder # NoBidder =>
    \E b \in chain[store.active.id].bids :
      b.sender = store.active.bidder /\ b.value = store.active.amount

\* The bidder of an auction placed the bid that the auction shows.
LEMMA LotShowsABid ==
  ASSUME HouseSound, NEW id \in DOMAIN chain,
         chain[id].auction.bidder # NoBidder
  PROVE  \E b \in chain[id].bids :
           /\ b.sender = chain[id].auction.bidder
           /\ b.value = chain[id].auction.amount
<1>1. LotSound(id)
  BY DEF HouseSound
<1> QED BY <1>1 DEF LotSound

LEMMA HouseGrows ==
  ASSUME AuctionInv, House \/ MineBid, SessionSound
  PROVE  ChainGrows \/ chain' = chain
<1>1. HouseSound
  BY DEF AuctionInv
<1>2. ASSUME NEW b \in Bidders, NEW v \in Nat, CreateBid(b, v) PROVE ChainGrows
  BY <1>1, <1>2, HouseBid
<1>3. CASE MineBid
  <2>1. tx.value \in Nat /\ Me \in Bidders
    BY AuctionNumbers DEF SessionSound
  <2> QED BY <1>2, <1>3, <2>1 DEF MineBid, chainVars
<1>4. \A v \in 1 .. MaxValue : v \in Nat
  BY AuctionNumbers
<1>5. Tick => chain' = chain
  BY DEF Tick
<1> QED
  BY <1>1, <1>2, <1>3, <1>4, <1>5, HouseSettles, HouseUnpauses, HouseGoesOn DEF House

LEMMA GrowthShows ==
  ASSUME AuctionInv, ShowsABid, store' = store, ChainGrows \/ chain' = chain
  PROVE  ShowsABid'
<1>1. CASE store.active.bidder # NoBidder
  <2>1. load # "start"
    BY <1>1 DEF AuctionInv, StoreSound, NoAuction
  <2>2. store.active.id \in DOMAIN chain
    BY <2>1 DEF AuctionInv, StoreSound
  <2> QED BY <1>1, <2>2 DEF ShowsABid, ChainGrows
<1>2. CASE store.active.bidder = NoBidder
  BY <1>2 DEF ShowsABid
<1> QED BY <1>1, <1>2

\* Events and answers.
LEMMA ReceiveShows ==
  ASSUME AuctionInv, ShowsABid, chain' = chain, NEW e, Receive(e)
  PROVE  ShowsABid'
<1>1. HouseSound /\ SocketSound /\ StoreSound
  BY DEF AuctionInv
<1>2. PICK s \in {0, 1} : Taken(e, s)
  BY <1>1, ReceiveTakes
<1>3. 1 \in DOMAIN socket /\ e \in socket[1] /\ socket \in Seq(SUBSET Events)
  BY <1>1, <1>2 DEF Taken, SocketSound
<1>4. e \in Events /\ e.type \in {"bid", "created", "extended", "settled"}
  BY <1>3, EventFields
<1>5. /\ e.id \in DOMAIN chain
      /\ e.type = "settled" => /\ e.winner = chain[e.id].auction.bidder
                               /\ e.amount = chain[e.id].auction.amount
  BY <1>1, <1>3 DEF SocketSound
<1>6. store \in Stores
  BY <1>1 DEF StoreSound
<1>7. CASE store' = store
  BY <1>7 DEF ShowsABid
<1>8. CASE e.type = "extended"
  <2>1. store' = SetAuctionExtended(store, e)
    BY <1>8 DEF Receive
  <2>2. CASE AuctionsEqual(store, e)
    <3>1. store' = [store EXCEPT !.active = [store.active EXCEPT !.end = e.end]]
      BY <2>1, <2>2, <1>6 DEF SetAuctionExtended, Stores
    <3>2. /\ store'.active.bidder = store.active.bidder
          /\ store'.active.amount = store.active.amount
          /\ store'.active.id = store.active.id
      <4>1. /\ store.active \in AuctionRecs
            /\ store'.active = [store.active EXCEPT !.end = e.end]
        BY <1>1, <1>6, <2>2, <3>1 DEF StoreSound, Stores, AuctionsEqual, NoAuction
      <4> QED BY <4>1 DEF AuctionRecs
    <3> QED BY <3>2 DEF ShowsABid
  <2>3. CASE ~AuctionsEqual(store, e)
    BY <1>7, <2>1, <2>3 DEF SetAuctionExtended
  <2> QED BY <2>2, <2>3
<1>9. CASE e.type = "settled"
  <2>1. store' = SetAuctionSettled(store, e)
    BY <1>9 DEF Receive
  <2>2. CASE AuctionsEqual(store, e)
    <3>1. store' = [store EXCEPT !.active = [store.active EXCEPT
                      !.settled = TRUE, !.bidder = e.winner, !.amount = e.amount]]
      BY <2>1, <2>2, <1>6 DEF SetAuctionSettled, Stores
    <3>2. /\ store'.active.bidder = e.winner
          /\ store'.active.amount = e.amount
          /\ store'.active.id = store.active.id /\ store.active.id = e.id
      <4>1. /\ store.active \in AuctionRecs /\ store.active.id = e.id
            /\ store'.active = [store.active EXCEPT
                      !.settled = TRUE, !.bidder = e.winner, !.amount = e.amount]
        BY <1>1, <1>6, <2>2, <3>1 DEF StoreSound, Stores, AuctionsEqual, NoAuction
      <4> QED BY <4>1 DEF AuctionRecs
    <3> QED BY <1>1, <1>5, <1>9, <3>2, LotShowsABid DEF ShowsABid
  <2>3. CASE ~AuctionsEqual(store, e)
    BY <1>7, <2>1, <2>3 DEF SetAuctionSettled
  <2> QED BY <2>2, <2>3
<1>10. CASE e.type \in {"bid", "created"}
  BY <1>7, <1>10 DEF Receive, ProcessAuctionCreated
<1> QED BY <1>4, <1>8, <1>9, <1>10

LEMMA AppendShows ==
  ASSUME AuctionInv, ShowsABid, chain' = chain, NEW b \in blocks,
         store' = AppendBid(store, b)
  PROVE  ShowsABid'
<1>1. /\ store \in Stores /\ b.id \in DOMAIN chain /\ b \in chain[b.id].bids
      /\ \A c \in store.bids : c.id = store.active.id /\ c \in chain[c.id].bids
      /\ store.bids # {} =>
           \E m \in store.bids : \A c \in store.bids : m.value >= c.value
      /\ HouseSound
  BY DEF AuctionInv, StoreSound
<1>2. b \in Offers
  BY <1>1 DEF HouseSound, Lots
<1>3. CASE store' = store
  BY <1>3 DEF ShowsABid
<1>4. ASSUME NEW m \in store.bids \cup {b}, b.id = store.active.id,
             store' = [store EXCEPT !.bids = store.bids \cup {b},
                         !.active = [store.active EXCEPT !.amount = m.value,
                                                        !.bidder = m.sender]]
      PROVE  ShowsABid'
  <2>1. store.active \in AuctionRecs
    BY <1>1, <1>2, <1>4 DEF Stores, Offers, NoAuction, None
  <2>2. store'.active = [store.active EXCEPT !.amount = m.value, !.bidder = m.sender]
    BY <1>1, <1>4 DEF Stores
  <2>3. /\ store'.active.amount = m.value /\ store'.active.bidder = m.sender
        /\ store'.active.id = store.active.id
    BY <2>1, <2>2 DEF AuctionRecs
  <2>4. m \in chain[store.active.id].bids
    BY <1>1, <1>4
  <2> QED BY <2>3, <2>4 DEF ShowsABid
<1> QED BY <1>1, <1>2, <1>3, <1>4, AppendBidCases

LEMMA DispatchShows ==
  ASSUME AuctionInv, ShowsABid, chain' = chain, Dispatch
  PROVE  ShowsABid'
<1>1. /\ store \in Stores /\ todo # <<>> /\ todo \in Seq(Dispatches)
  BY DEF AuctionInv, StoreSound, Dispatch
<1>2. Head(todo) \in Dispatches
  BY <1>1
<1>3. Head(todo).do \in {"active", "url", "show", "last", "prev", "next", "push"}
  BY <1>2 DEF Dispatches
<1>4. CASE Head(todo).do = "active"
  <2>1. store' = SetActiveAuction(store, Head(todo).auction)
    BY <1>4 DEF Dispatch
  <2>2. store'.active.bidder = NoBidder
    BY <1>1, <2>1 DEF SetActiveAuction, Stores
  <2> QED BY <2>2 DEF ShowsABid
<1>5. CASE Head(todo).do # "active"
  <2>1. \E m, n \in Nat \cup {None} :
           /\ SetPrevOnDisplayAuctionTokenId(store) = [store EXCEPT !.shown = m]
           /\ SetNextOnDisplayAuctionTokenId(store) = [store EXCEPT !.shown = n]
    BY <1>1, PrevNext
  <2>2. store'.active = store.active
    BY <1>1, <1>3, <1>5, <2>1, ZenonT(60)
    DEF Dispatch, Stores, SetOnDisplayAuctionTokenId, SetLastAuctionTokenId
  <2> QED BY <2>2 DEF ShowsABid
<1> QED BY <1>4, <1>5

LEMMA PageShows ==
  ASSUME AuctionInv, ShowsABid, UNCHANGED chainVars, Page \/ Navigate
  PROVE  ShowsABid'
<1>1. chain' = chain /\ store \in Stores /\ HouseSound
  BY DEF chainVars, AuctionInv, StoreSound
<1>2. CASE store'.active = store.active
  BY <1>1, <1>2 DEF ShowsABid
<1>3. CASE FetchAuction
  <2>1. store' = [store EXCEPT !.active = Auction, !.last = current]
    BY <1>1, <1>3
    DEF FetchAuction, SetLastAuctionTokenId, SetFullAuction, Stores
  <2>2. store'.active = Auction
    BY <1>1, <2>1 DEF Stores
  <2>3. current \in DOMAIN chain /\ LotSound(current)
    BY <1>1 DEF HouseSound
  <2> QED BY <1>1, <2>2, <2>3, LotShowsABid DEF ShowsABid, LotSound, Auction
<1>4. ASSUME NEW e, Receive(e) PROVE ShowsABid'
  BY <1>1, <1>4, ReceiveShows
<1>5. ASSUME NEW b \in blocks, ProcessBid(b) PROVE ShowsABid'
  BY <1>1, <1>2, <1>5, AppendShows DEF ProcessBid
<1>6. CASE Dispatch
  BY <1>1, <1>6, DispatchShows
<1>7. CASE QueryBids \/ Subscribe \/ HandleArrowLeft \/ HandleArrowRight
  BY <1>2, <1>7 DEF QueryBids, Subscribe, HandleArrowLeft, HandleArrowRight
<1>8. CASE FetchPastAuctions \/ RunEffect
  <2>1. store'.active = store.active
    BY <1>1, <1>8
    DEF FetchPastAuctions, AddPastAuctions, RunEffect, SetOnDisplayAuctionTokenId, Stores
  <2> QED BY <1>2, <2>1
<1>9. CASE ClickPrev \/ ClickNext
  <2>1. \E m, n \in Nat \cup {None} :
           /\ SetPrevOnDisplayAuctionTokenId(store) = [store EXCEPT !.shown = m]
           /\ SetNextOnDisplayAuctionTokenId(store) = [store EXCEPT !.shown = n]
    BY <1>1, PrevNext
  <2>2. store'.active = store.active
    BY <1>1, <1>9, <2>1 DEF ClickPrev, ClickNext, Stores
  <2> QED BY <1>2, <2>2
<1> QED
  BY <1>3, <1>4, <1>5, <1>6, <1>7, <1>8, <1>9 DEF Page, Navigate

LEMMA AuctionShows ==
  ASSUME AuctionInv, SessionSound, ShowsABid, AuctionNext
  PROVE  ShowsABid'
<1>1. CASE PageStep
  BY <1>1, PageShows DEF PageStep
<1>2. CASE House \/ MineBid
  <2>1. store' = store
    BY <1>2 DEF House, MineBid
  <2> QED BY <1>2, <2>1, HouseGrows, GrowthShows
<1>3. CASE FormStep \/ FormUpdate
  <2>1. store' = store /\ chain' = chain
    BY <1>3
    DEF FormStep, FormUpdate, FormOnly, chainVars,
        BidInputHandler, PlaceBidHandler, Sign, Reject, SettleAuctionHandler,
        Receipt, SuccessfulBid, SettleReceipt, CheckEnded
  <2> QED BY <2>1 DEF ShowsABid
<1> QED BY <1>1, <1>2, <1>3 DEF AuctionNext

LEMMA ShowsInit ==
  AuctionInit => ShowsABid
<1> SUFFICES ASSUME AuctionInit, store.active.bidder # NoBidder
             PROVE  \E b \in chain[store.active.id].bids :
                      /\ b.sender = store.active.bidder
                      /\ b.value = store.active.amount
  BY DEF ShowsABid
<1>1. AuctionInv
  BY AuctionInvInit
<1>2. CASE NotLoaded
  BY <1>2 DEF NotLoaded, InitialState, NoAuction
<1>3. CASE Loaded
  <2>1. store.active = Auction
    BY <1>3 DEF Loaded, SetLastAuctionTokenId, SetFullAuction, InitialState
  <2>2. HouseSound /\ current \in DOMAIN chain /\ LotSound(current)
    BY <1>1 DEF AuctionInv, HouseSound
  <2> QED BY <2>1, <2>2, LotShowsABid DEF LotSound, Auction
<1> QED BY <1>2, <1>3 DEF AuctionInit

LEMMA AuctionInvAlways ==
  Spec => [](AuctionInv /\ SessionSound /\ ShowsABid)
<1>1. Init => AuctionInv /\ SessionSound /\ ShowsABid
  BY AuctionInvInit, ShowsInit DEF Init
<1>2. AuctionInv /\ SessionSound /\ ShowsABid /\ [Next]_vars
        => AuctionInv' /\ SessionSound' /\ ShowsABid'
  <2> SUFFICES ASSUME AuctionInv, SessionSound, ShowsABid, [Next]_vars
               PROVE  AuctionInv' /\ SessionSound' /\ ShowsABid'
    OBVIOUS
  <2>1. CASE AuctionNext
    BY <2>1, AuctionStep, SessionStep, AuctionShows
  <2>2. CASE UNCHANGED bidVars
    <3>1. UNCHANGED <<chainVars, loadVars, pageVars, socket, store, historyVars, formVars>>
      BY <2>2 DEF bidVars
    <3>2. AuctionInv'
      BY <3>1, AuctionRests
    <3>3. SessionSound'
      <4>1. UNCHANGED <<route, tx, load, missed, chain, blocks, store, socket>>
        BY <3>1 DEF chainVars, loadVars, pageVars, historyVars, formVars
      <4> QED BY <4>1 DEF SessionSound, MissedSound
    <3>4. ShowsABid'
      BY <3>1 DEF ShowsABid, chainVars
    <3> QED BY <3>2, <3>3, <3>4
  <2> QED
    BY <2>1, <2>2 DEF Next, vars, OnAuction, OnVote, OnList, OnCreate,
                      OnDelegate, OnActivity
<1> QED BY <1>1, <1>2, PTL DEF Spec

\* The auction page: whatever bids, settlements and new auctions there are
\* while the page loads and listens, in whatever order the events of a
\* transaction and the blocks of bids come and whatever is done on the page
\* meanwhile, once all has been delivered the store has the auction of the
\* auction house, with its amount and its bidder, and all of its bids but
\* those that were older than the 8,000 blocks that loadState searches,
\* unless an event of this auction was missed, a block could not be fetched
\* or a bid that the search left out was later than loadState's fetch.
THEOREM StoreHasTheAuction == Spec => []StoreFollowsChain
<1>1. AuctionInv /\ SessionSound => StoreFollowsChain
  BY FollowsWhenQuiet DEF SessionSound
<1> QED BY <1>1, AuctionInvAlways, PTL

\* The form, which is new when it is mounted, and its bid.
BidFormSound ==
  /\ form \in [input : 0 .. MaxValue, status : {"None", "Mining", "Success", "Fail", "Exception"},
               settle : {"None", "Mining", "Success", "Fail"},
               loading : BOOLEAN, edited : BOOLEAN]
  /\ ended \in BOOLEAN /\ tx.value \in 0 .. MaxValue
  /\ ~Mounted => form.status = "None"
  /\ form.status = "Mining" =>
       /\ tx.state \in {"pending", "mined", "failed"}
       /\ ~form.edited => form.input = tx.value

\* While the user's transaction is on its way, the user has no bid that is
\* as high in its auction, and none in a later one.
TxSound ==
  tx.state # "none" =>
    /\ user = "bids"
    /\ tx.id \in DOMAIN chain /\ tx.id <= store.last
    /\ \A id \in DOMAIN chain : \A b \in chain[id].bids :
         id >= tx.id /\ b.sender = Me =>
           id = tx.id /\ (tx.state = "mined" \/ b.value < tx.value)

LEMMA MountedSame ==
  ASSUME store' = store
  PROVE  Mounted' = Mounted
BY DEF Mounted, IsLastAuction, Shown, UseOnDisplayAuction, EmptyAuction

LEMMA FormTypeKept ==
  ASSUME BidFormSound, SessionSound, AuctionNext
  PROVE  /\ form' \in [input : 0 .. MaxValue,
                       status : {"None", "Mining", "Success", "Fail", "Exception"},
                       settle : {"None", "Mining", "Success", "Fail"},
                       loading : BOOLEAN, edited : BOOLEAN]
         /\ ended' \in BOOLEAN
<1> DEFINE Forms == [input : 0 .. MaxValue,
                     status : {"None", "Mining", "Success", "Fail", "Exception"},
                     settle : {"None", "Mining", "Success", "Fail"},
                     loading : BOOLEAN, edited : BOOLEAN]
<1>1. form \in Forms /\ tx.value \in 0 .. MaxValue /\ ended \in BOOLEAN
  BY DEF BidFormSound
<1>2. NewBidForm \in Forms /\ 0 \in 0 .. MaxValue
  BY AuctionNumbers DEF NewBidForm
<1>3. \A st \in {"Mining", "Success", "Fail", "Exception"} :
        BidStatus(form, st) \in Forms
  <2> SUFFICES ASSUME NEW st \in {"Mining", "Success", "Fail", "Exception"}
               PROVE  BidStatus(form, st) \in Forms
    OBVIOUS
  <2>1. (IF st = "Mining" THEN tx.value ELSE 0) \in 0 .. MaxValue
    BY <1>1, <1>2
  <2>2. (IF ended \/ st = "Success" THEN form.loading ELSE st = "Mining") \in BOOLEAN
    BY <1>1
  <2> QED BY <1>1, <2>1, <2>2 DEF BidStatus
<1>4. CASE PageStep
  BY <1>1, <1>2, <1>4 DEF PageStep, FormFollows
<1>5. CASE House \/ MineBid
  BY <1>1, <1>5 DEF House, MineBid, formVars
<1>6. CASE FormStep
  <2>1. ASSUME NEW v \in Reserve .. MaxValue, BidInputHandler(v)
        PROVE  form' \in Forms
    <3>1. v \in 0 .. MaxValue /\ form' = [form EXCEPT !.input = v, !.edited = TRUE]
      BY <2>1, AuctionNumbers DEF BidInputHandler
    <3> QED BY <1>1, <3>1
  <2>2. SettleAuctionHandler => form' \in Forms
    BY <1>1 DEF SettleAuctionHandler
  <2>3. Sign \/ Reject => form' \in Forms
    BY <1>1, <1>3 DEF Sign, Reject
  <2>4. ended' = ended
    BY <1>6 DEF FormStep, BidInputHandler, PlaceBidHandler, Sign, Reject,
                SettleAuctionHandler
  <2> QED
    BY <1>1, <1>6, <2>1, <2>2, <2>3, <2>4 DEF FormStep, PlaceBidHandler
<1>7. CASE FormUpdate
  <2>1. Receipt => form' \in Forms
    BY <1>1, <1>3 DEF Receipt
  <2>2. SuccessfulBid => form' \in Forms
    <3>1. [form EXCEPT !.status = "Success", !.loading = FALSE, !.input = 0,
                       !.edited = FALSE] \in Forms
      BY <1>1, <1>2
    <3> QED BY <3>1 DEF SuccessfulBid
  <2>3. ASSUME NEW ok \in BOOLEAN, SettleReceipt(ok) PROVE form' \in Forms
    BY <1>1, <2>3 DEF SettleReceipt
  <2>4. CheckEnded => form' \in Forms
    <3>1. \A l \in BOOLEAN : [form EXCEPT !.loading = l] \in Forms
      BY <1>1
    <3>2. (IF ended' THEN form.settle = "Mining" ELSE form.status = "Mining") \in BOOLEAN
      OBVIOUS
    <3> QED BY <1>1, <3>1, <3>2 DEF CheckEnded
  <2>5. ended' \in BOOLEAN
    BY <1>1, <1>7 DEF FormUpdate, Receipt, SuccessfulBid, SettleReceipt, CheckEnded
  <2> QED
    BY <1>7, <2>1, <2>2, <2>3, <2>4, <2>5 DEF FormUpdate
<1> QED BY <1>4, <1>5, <1>6, <1>7 DEF AuctionNext

LEMMA BidStatusFields ==
  ASSUME BidFormSound, NEW st
  PROVE  /\ BidStatus(form, st).status = st
         /\ BidStatus(form, st).edited = FALSE
         /\ st = "Mining" => BidStatus(form, st).input = tx.value
BY DEF BidFormSound, BidStatus

LEMMA FormKept ==
  ASSUME BidFormSound, SessionSound, AuctionNext
  PROVE  BidFormSound'
<1> USE DEF BidFormSound, SessionSound
<1>1. /\ form' \in [input : 0 .. MaxValue,
                    status : {"None", "Mining", "Success", "Fail", "Exception"},
                    settle : {"None", "Mining", "Success", "Fail"},
                    loading : BOOLEAN, edited : BOOLEAN]
      /\ ended' \in BOOLEAN
  BY FormTypeKept
<1>11. tx'.value \in 0 .. MaxValue
  <2>1. CASE tx'.value = tx.value
    BY <2>1
  <2>2. CASE tx' = NoTx
    BY <2>2, AuctionNumbers DEF NoTx
  <2>3. ASSUME NEW v \in Reserve .. MaxValue, NEW percentage \in Readings,
               PlaceBidHandler(v, percentage)
        PROVE  tx'.value \in 0 .. MaxValue
    BY <2>3, AuctionNumbers DEF PlaceBidHandler
  <2> QED
    BY <2>1, <2>2, <2>3
    DEF AuctionNext, PageStep, House, FormStep, FormUpdate, MineBid, formVars,
        BidInputHandler, Sign, Reject, SettleAuctionHandler,
        Receipt, SuccessfulBid, SettleReceipt, CheckEnded
<1> SUFFICES /\ ~Mounted' => form'.status = "None"
             /\ form'.status = "Mining" =>
                  /\ tx'.state \in {"pending", "mined", "failed"}
                  /\ ~form'.edited => form'.input = tx'.value
  BY <1>1, <1>11
<1>2. NewBidForm.status = "None"
  BY DEF NewBidForm
<1>3. NoTx.state = "none"
  BY DEF NoTx
<1>4. CASE PageStep
  BY <1>2, <1>4 DEF PageStep, FormFollows
<1>5. CASE House
  BY <1>5, MountedSame DEF House, formVars
<1>6. CASE MineBid
  <2>1. Mounted' = Mounted /\ form' = form
    BY <1>6, MountedSame DEF MineBid
  <2>2. tx'.state \in {"mined", "failed"} /\ tx'.value = tx.value
    BY <1>6 DEF MineBid
  <2> QED BY <2>1, <2>2
<1>7. CASE FormStep \/ FormUpdate
  <2>1. Mounted' = Mounted
    BY <1>7, MountedSame
    DEF FormStep, FormUpdate, FormOnly,
        BidInputHandler, PlaceBidHandler, Sign, Reject, SettleAuctionHandler,
        Receipt, SuccessfulBid, SettleReceipt, CheckEnded
  <2>2. CASE \E v \in Reserve .. MaxValue : BidInputHandler(v)
    BY <2>1, <2>2 DEF BidInputHandler
  <2>3. CASE \E v \in Reserve .. MaxValue :
               \E percentage \in Readings : PlaceBidHandler(v, percentage)
    BY <2>1, <2>3 DEF PlaceBidHandler
  <2>4. CASE Sign
    BY <2>1, <2>4, BidStatusFields DEF Sign
  <2>5. CASE Reject
    <3>1. form'.status # "Mining"
      BY <2>5, BidStatusFields DEF Reject
    <3> QED BY <2>1, <2>5, <3>1 DEF Reject
  <2>6. CASE Receipt
    <3>1. form'.status # "Mining"
      BY <2>6, BidStatusFields DEF Receipt
    <3> QED BY <2>1, <2>6, <3>1 DEF Receipt
  <2>7. CASE SuccessfulBid
    BY <2>1, <2>7 DEF SuccessfulBid, BidSucceeds
  <2>8. CASE SettleAuctionHandler \/ CheckEnded \/ \E ok \in BOOLEAN : SettleReceipt(ok)
    <3>1. form'.status = form.status /\ form'.edited = form.edited
          /\ form'.input = form.input /\ tx' = tx
      BY <2>8 DEF SettleAuctionHandler, CheckEnded, SettleReceipt
    <3> QED BY <2>1, <3>1
  <2> QED
    BY <1>7, <2>2, <2>3, <2>4, <2>5, <2>6, <2>7, <2>8 DEF FormStep, FormUpdate
<1> QED BY <1>4, <1>5, <1>6, <1>7 DEF AuctionNext

\* The last auction that the page knows does not go back.
LEMMA LastGrows ==
  ASSUME AuctionInv, UNCHANGED chainVars, Page \/ Navigate
  PROVE  store'.last >= store.last
<1>1. /\ store \in Stores /\ HouseSound /\ StoreSound
      /\ load = "start" => store.last = None
  BY DEF AuctionInv, StoreSound
<1>2. store.last \in Nat \cup {None} /\ None = -1
  BY <1>1 DEF Stores, None
<1>3. CASE store'.last = store.last
  BY <1>2, <1>3
<1>4. CASE FetchAuction
  <2>1. store' = [store EXCEPT !.active = Auction, !.last = current] /\ load = "start"
    BY <1>1, <1>4 DEF FetchAuction, SetLastAuctionTokenId, SetFullAuction, Stores
  <2>2. store'.last = current /\ current \in Nat
    BY <1>1, <2>1 DEF Stores, HouseSound
  <2> QED BY <1>1, <1>2, <2>1, <2>2
<1>5. CASE Dispatch
  <2>1. todo # <<>> /\ todo \in Seq(Dispatches) /\ todo' = Tail(todo)
    BY <1>1, <1>5 DEF Dispatch, StoreSound
  <2>2. Head(todo) \in Dispatches /\ Head(todo) = todo[1]
    BY <2>1
  <2>3. Head(todo).do \in {"active", "url", "show", "last", "prev", "next", "push"}
    BY <2>2 DEF Dispatches
  <2>4. CASE Head(todo).do = "last"
    <3>1. ~KeyLeft
      BY <2>1, <2>2, <2>4, KeyTail
    <3>2. PICK n \in DOMAIN chain : CreatedLeft(n)
      BY <1>1, <2>1, <3>1 DEF StoreSound
    <3>3. todo[1].id = n /\ n > store.last
      <4>1. todo[1].id = n
        BY <2>1, <2>2, <2>4, <3>2, CreatedTail
      <4> QED BY <3>2, <4>1 DEF CreatedLeft
    <3>4. store' = [store EXCEPT !.last = n]
      BY <1>5, <2>2, <2>4, <3>3 DEF Dispatch, SetLastAuctionTokenId
    <3>5. store'.last = n /\ n \in Nat
      BY <1>1, <3>4 DEF Stores, HouseSound
    <3> QED BY <1>2, <3>3, <3>5
  <2>5. CASE Head(todo).do # "last"
    <3>1. \E m, n \in Nat \cup {None} :
           /\ SetPrevOnDisplayAuctionTokenId(store) = [store EXCEPT !.shown = m]
           /\ SetNextOnDisplayAuctionTokenId(store) = [store EXCEPT !.shown = n]
      BY <1>1, PrevNext
    <3>2. store'.last = store.last
      BY <1>1, <1>5, <2>3, <2>5, <3>1, ZenonT(60)
      DEF Dispatch, Stores, SetOnDisplayAuctionTokenId, SetActiveAuction
    <3> QED BY <1>3, <3>2
  <2> QED BY <2>4, <2>5
<1>6. CASE QueryBids \/ Subscribe \/ HandleArrowLeft \/ HandleArrowRight
  BY <1>3, <1>6 DEF QueryBids, Subscribe, HandleArrowLeft, HandleArrowRight
<1>7. CASE FetchPastAuctions \/ RunEffect
  <2>1. store'.last = store.last
    BY <1>1, <1>7
    DEF FetchPastAuctions, AddPastAuctions, RunEffect, SetOnDisplayAuctionTokenId, Stores
  <2> QED BY <1>3, <2>1
<1>8. CASE ClickPrev \/ ClickNext
  <2>1. \E m, n \in Nat \cup {None} :
           /\ SetPrevOnDisplayAuctionTokenId(store) = [store EXCEPT !.shown = m]
           /\ SetNextOnDisplayAuctionTokenId(store) = [store EXCEPT !.shown = n]
    BY <1>1, PrevNext
  <2>2. store'.last = store.last
    BY <1>1, <1>8, <2>1 DEF ClickPrev, ClickNext, Stores
  <2> QED BY <1>3, <2>2
<1>9. ASSUME NEW e, Receive(e) PROVE store'.last = store.last
  <2>1. \/ store' = store \/ store' = SetAuctionExtended(store, e)
        \/ store' = SetAuctionSettled(store, e)
    <3>1. PICK s \in {0, 1} : Taken(e, s)
      BY <1>9, ReceiveTakes DEF AuctionInv
    <3>2. 1 \in DOMAIN socket /\ e \in socket[1] /\ socket \in Seq(SUBSET Events)
      BY <3>1 DEF Taken, SocketSound, AuctionInv
    <3>3. e.type \in {"bid", "created", "extended", "settled"}
      BY <3>2, EventFields
    <3> QED BY <1>9, <3>3 DEF Receive, ProcessAuctionCreated
  <2> QED BY <1>1, <2>1 DEF SetAuctionExtended, SetAuctionSettled, Stores
<1>10. ASSUME NEW b \in blocks, ProcessBid(b) PROVE store'.last = store.last
  <2>1. store' = store \/ store' = AppendBid(store, b)
    BY <1>10 DEF ProcessBid
  <2> QED BY <1>1, <2>1 DEF AppendBid, Stores
<1> QED
  BY <1>3, <1>4, <1>5, <1>6, <1>7, <1>8, <1>9, <1>10 DEF Page, Navigate

\* While the user bids, the auction house takes bids of others otherwise.
LEMMA BidsOfOthers ==
  ASSUME AuctionInv, House, user = "bids"
  PROVE  \A id \in DOMAIN chain' : \A b \in chain'[id].bids :
           (id \in DOMAIN chain /\ b \in chain[id].bids) \/ b.sender # Me
<1>1. HouseSound /\ chain \in [DOMAIN chain -> Lots] /\ current \in DOMAIN chain
      /\ current \in Nat /\ now \in Nat
  BY DEF AuctionInv, HouseSound
<1>2. ASSUME NEW c \in Bidders \ {Me}, NEW v \in 1 .. MaxValue, CreateBid(c, v)
      PROVE  \A id \in DOMAIN chain' : \A b \in chain'[id].bids :
               (id \in DOMAIN chain /\ b \in chain[id].bids) \/ b.sender # Me
  <2>1. v \in Nat
    BY AuctionNumbers
  <2>2. Bidden(c, v)
    BY <1>1, <1>2, <2>1, CreateBidChain
  <2> QED BY <2>2 DEF Bidden
<1> DEFINE c == [chain EXCEPT ![current].auction.settled = TRUE]
<1>3. /\ DOMAIN c = DOMAIN chain /\ c \in [DOMAIN chain -> Lots]
      /\ \A id \in DOMAIN chain : c[id].bids = chain[id].bids
  BY <1>1, SettledChain
<1>4. CASE SettleAuction
  BY <1>3, <1>4 DEF SettleAuction
<1>5. NextId(current) \in Nat /\ NextId(current) > current
  BY <1>1, NextIdGrows
<1>6. ASSUME NEW d \in [DOMAIN chain -> Lots],
             \A id \in DOMAIN chain : d[id].bids = chain[id].bids,
             chain' = WithAuction(d, NextId(current))
      PROVE  \A id \in DOMAIN chain' : \A b \in chain'[id].bids :
               (id \in DOMAIN chain /\ b \in chain[id].bids) \/ b.sender # Me
  <2>1. /\ chain' \in [DOMAIN d \cup {NextId(current)} -> Lots]
        /\ \A id \in DOMAIN d \ {NextId(current)} : chain'[id] = d[id]
        /\ chain'[NextId(current)].bids = {}
    <3>1. d \in [DOMAIN d -> Lots]
      BY <1>6
    <3>2. /\ WithAuction(d, NextId(current)) \in [DOMAIN d \cup {NextId(current)} -> Lots]
          /\ \A id \in DOMAIN d \ {NextId(current)} :
               WithAuction(d, NextId(current))[id] = d[id]
          /\ Fresh(WithAuction(d, NextId(current))[NextId(current)], NextId(current))
      BY <1>1, <1>5, <3>1, StartedChain
    <3> QED BY <1>6, <3>2 DEF Fresh
  <2> QED BY <1>6, <2>1
<1>7. CASE SettleCurrentAndCreateNewAuction
  BY <1>3, <1>6, <1>7 DEF SettleCurrentAndCreateNewAuction
<1>8. CASE Unpause
  BY <1>1, <1>6, <1>8 DEF Unpause
<1>9. CASE Tick
  BY <1>9 DEF Tick
<1>10. user # "watches"
  OBVIOUS
<1> QED BY <1>2, <1>4, <1>7, <1>8, <1>9, <1>10 DEF House

LEMMA TxKept ==
  ASSUME AuctionInv, SessionSound, TxSound, AuctionNext
  PROVE  TxSound'
<1>1. /\ HouseSound /\ StoreSound /\ current \in DOMAIN chain
      /\ DOMAIN chain \subseteq 1 .. current /\ current \in Nat
      /\ store.last \in Nat \cup {None}
  BY DEF AuctionInv, HouseSound, StoreSound, Stores
<1>2. NoTx.state = "none"
  BY DEF NoTx
<1>0. user' = user
  BY DEF AuctionNext, PageStep, House, MineBid, FormStep, FormUpdate, FormOnly,
         formVars, BidInputHandler, PlaceBidHandler, Sign, Reject,
         SettleAuctionHandler, Receipt, SuccessfulBid, SettleReceipt, CheckEnded
<1>3. CASE tx' = NoTx
  BY <1>2, <1>3 DEF TxSound
<1>4. ASSUME chain' = chain, store' = store, tx'.id = tx.id, tx'.value = tx.value,
             tx.state # "none", tx.state # "mined" \/ tx'.state = "mined"
      PROVE  TxSound'
  BY <1>0, <1>4 DEF TxSound
<1>5. CASE PageStep
  <2>1. chain' = chain /\ tx' = tx
    BY <1>5 DEF PageStep, chainVars
  <2>2. store'.last >= store.last
    BY <1>5, LastGrows DEF PageStep
  <2>3. store'.last \in Nat \cup {None}
    <3>1. AuctionInv'
      BY <1>5, PageKeeps DEF PageStep
    <3>2. store' \in Stores
      BY <3>1 DEF AuctionInv, StoreSound
    <3> QED BY <3>2 DEF Stores
  <2>4. \A x \in Nat, y, z \in Nat \cup {None} : x <= y /\ z >= y => x <= z
    BY DEF None
  <2>5. tx.state # "none" => tx.id \in Nat
    BY <1>1 DEF TxSound
  <2>6. tx.state # "none" => tx.id <= store'.last
    BY <1>1, <2>2, <2>3, <2>4, <2>5 DEF TxSound
  <2> QED BY <1>0, <2>1, <2>6 DEF TxSound
<1>6. CASE House
  <2>1. store' = store /\ tx' = tx
    BY <1>6 DEF House, formVars
  <2>2. DOMAIN chain \subseteq DOMAIN chain'
    BY <1>6, HouseGrows DEF ChainGrows
  <2>3. user = "bids" =>
          \A id \in DOMAIN chain' : \A b \in chain'[id].bids :
             (id \in DOMAIN chain /\ b \in chain[id].bids) \/ b.sender # Me
    BY <1>6, BidsOfOthers
  <2> QED BY <1>0, <2>1, <2>2, <2>3 DEF TxSound
<1>7. CASE MineBid
  <2>1. store' = store /\ tx.state = "pending"
    BY <1>7 DEF MineBid
  <2>2. CASE tx.id = current /\ CreateBid(Me, tx.value) /\ tx' = [tx EXCEPT !.state = "mined"]
    <3>1. tx.value \in Nat /\ Me \in Bidders
      BY AuctionNumbers DEF SessionSound
    <3>2. Bidden(Me, tx.value)
      BY <1>1, <2>2, <3>1, CreateBidChain
    <3>3. DOMAIN chain' = DOMAIN chain
      BY <3>2 DEF Bidden
    <3>4. tx'.state = "mined" /\ tx'.id = current
      BY <2>2 DEF SessionSound
    <3>5. \A id \in DOMAIN chain : id >= current => id = current
      BY <1>1
    <3> QED BY <1>0, <2>1, <2>2, <3>3, <3>4, <3>5 DEF TxSound
  <2>3. CASE tx' = [tx EXCEPT !.state = "failed"] /\ UNCHANGED <<chainVars, socket, lost>>
    <3>1. tx'.state = "failed" /\ tx'.id = tx.id /\ tx'.value = tx.value
      BY <2>3 DEF SessionSound
    <3> QED BY <1>4, <2>1, <2>3, <3>1 DEF chainVars
  <2> QED BY <1>7, <2>2, <2>3 DEF MineBid
<1>8. CASE FormStep \/ FormUpdate
  <2>1. store' = store /\ chain' = chain
    BY <1>8
    DEF FormStep, FormUpdate, FormOnly, chainVars,
        BidInputHandler, PlaceBidHandler, Sign, Reject, SettleAuctionHandler,
        Receipt, SuccessfulBid, SettleReceipt, CheckEnded
  <2>2. CASE tx' = tx
    BY <1>0, <2>1, <2>2 DEF TxSound
  <2>3. ASSUME NEW v \in Reserve .. MaxValue, NEW percentage \in Readings,
               PlaceBidHandler(v, percentage)
        PROVE  TxSound'
    <3>1. tx' = [state |-> "signing", id |-> current, value |-> v] /\ Acceptable(v)
          /\ Shown.id = store.last /\ Shown.id = current
      BY <2>3 DEF PlaceBidHandler, Mounted, IsLastAuction
    <3>2. v \in Nat
      BY AuctionNumbers
    <3>3. \A b \in chain[current].bids : v > b.value /\ b.value \in Nat
      BY <1>1, <3>1, <3>2, BidsRise DEF HouseSound, Lots, Offers
    <3>4. \A id \in DOMAIN chain : id >= current => id = current
      BY <1>1
    <3>5. tx'.id = current /\ tx'.value = v /\ tx'.state = "signing"
      BY <3>1
    <3>6. current <= store.last
      BY <1>1, <3>1
    <3>7. \A b \in chain[current].bids : b.value < v
      BY <3>2, <3>3
    <3>8. user = "bids"
      <4>1. tx = NoTx /\ tx' # tx
        BY <2>3, <3>5, <1>2 DEF PlaceBidHandler
      <4>2. ~FormUpdate
        BY <1>2, <4>1
        DEF FormUpdate, Receipt, SuccessfulBid, SettleReceipt, CheckEnded
      <4> QED BY <1>8, <4>2 DEF FormStep
    <3> QED BY <1>0, <1>1, <2>1, <3>4, <3>5, <3>6, <3>7, <3>8 DEF TxSound
  <2>4. CASE Sign
    <3>1. tx'.state = "pending" /\ tx'.id = tx.id /\ tx'.value = tx.value
          /\ tx.state = "signing"
      BY <2>4 DEF Sign, SessionSound
    <3> QED BY <1>4, <2>1, <3>1
  <2> QED
    BY <1>3, <1>8, <2>2, <2>3, <2>4
    DEF FormStep, FormUpdate, BidInputHandler, Reject, SettleAuctionHandler,
        Receipt, SuccessfulBid, SettleReceipt, CheckEnded
<1> QED BY <1>5, <1>6, <1>7, <1>8 DEF AuctionNext

LEMMA BidInvAlways ==
  Spec => [](BidFormSound /\ TxSound)
<1>1. Init => BidFormSound /\ TxSound
  <2> SUFFICES ASSUME AuctionInit PROVE BidFormSound /\ TxSound
    BY DEF Init
  <2>1. form = NewBidForm /\ ended = FALSE /\ tx = NoTx
    BY DEF AuctionInit
  <2>2. MaxValue \in Nat
    BY AuctionNumbers
  <2>3. 0 \in 0 .. MaxValue
    BY <2>2
  <2>4. tx.state = "none" /\ tx.value = 0
    BY <2>1 DEF NoTx
  <2>5. form.status = "None" /\ ended \in BOOLEAN
    BY <2>1 DEF NewBidForm
  <2>6. form \in [input : 0 .. MaxValue,
                 status : {"None", "Mining", "Success", "Fail", "Exception"},
                 settle : {"None", "Mining", "Success", "Fail"},
                 loading : BOOLEAN, edited : BOOLEAN]
    BY <2>1, <2>3 DEF NewBidForm
  <2> QED BY <2>3, <2>4, <2>5, <2>6 DEF BidFormSound, TxSound
<1>2. AuctionInv /\ SessionSound /\ BidFormSound /\ TxSound /\ [Next]_vars
        => BidFormSound' /\ TxSound'
  <2> SUFFICES ASSUME AuctionInv, SessionSound, BidFormSound, TxSound, [Next]_vars
               PROVE  BidFormSound' /\ TxSound'
    OBVIOUS
  <2>1. CASE AuctionNext
    BY <2>1, FormKept, TxKept
  <2>2. CASE UNCHANGED bidVars
    <3>1. UNCHANGED <<store, form, ended, tx, chain, user>>
      BY <2>2 DEF bidVars, formVars, chainVars
    <3>2. Mounted' = Mounted
      BY <3>1, MountedSame
    <3>3. BidFormSound'
      BY <3>1, <3>2 DEF BidFormSound
    <3>4. TxSound'
      BY <3>1 DEF TxSound
    <3> QED BY <3>3, <3>4
  <2> QED
    BY <2>1, <2>2 DEF Next, vars, OnAuction, OnVote, OnList, OnCreate,
                      OnDelegate, OnActivity
<1> QED BY <1>1, <1>2, AuctionInvAlways, PTL DEF Spec

\* The bid form (components/Bid): whatever the page shows, however late its
\* events are, when it says "Bid was placed successfully!" although nothing
\* was typed since, the transaction that the user signed was mined as a bid
\* of the auction on display.
THEOREM SuccessIsOfTheBid == Spec => SuccessIsReal
<1>1. AuctionInv /\ SessionSound /\ ShowsABid /\ BidFormSound /\ TxSound =>
        [SuccessfulBid /\ ~form.edited =>
           /\ tx = [state |-> "mined", id |-> Shown.id, value |-> form.input]
           /\ \E b \in chain[Shown.id].bids :
                b.sender = Me /\ b.value = form.input]_bidVars
  <2> SUFFICES ASSUME AuctionInv, SessionSound, ShowsABid, BidFormSound, TxSound,
                      SuccessfulBid, ~form.edited
               PROVE  /\ tx = [state |-> "mined", id |-> Shown.id, value |-> form.input]
                      /\ \E b \in chain[Shown.id].bids :
                           b.sender = Me /\ b.value = form.input
    OBVIOUS
  <2>1. /\ Shown.bidder = Me /\ form.input = Shown.amount /\ Me # NoBidder
        /\ form.status = "Mining" /\ Shown.id = store.last
    BY AuctionNumbers DEF SuccessfulBid, BidSucceeds, Mounted, IsLastAuction
  <2>2. store \in Stores
    BY DEF AuctionInv, StoreSound
  <2>3. NoAuction.bidder = NoBidder /\ \A id : EmptyAuction(id).bidder = NoBidder
    BY DEF NoAuction, EmptyAuction
  <2>4. Shown = [store.active EXCEPT !.settled = FALSE]
    BY <2>1, <2>3 DEF Shown, UseOnDisplayAuction
  <2>5. /\ Shown.bidder = store.active.bidder /\ Shown.amount = store.active.amount
        /\ Shown.id = store.active.id
    BY <2>2, <2>4 DEF Stores, AuctionRecs, NoAuction
  <2>6. PICK b \in chain[Shown.id].bids : b.sender = Me /\ b.value = form.input
    BY <2>1, <2>5 DEF ShowsABid
  <2>7. tx.state \in {"pending", "mined", "failed"} /\ form.input = tx.value
    BY <2>1 DEF BidFormSound
  <2>8. Shown.id \in DOMAIN chain
    <3>1. load # "start"
      BY <2>1, <2>5 DEF AuctionInv, StoreSound, NoAuction
    <3> QED BY <2>5, <3>1 DEF AuctionInv, StoreSound
  <2>9. Shown.id >= tx.id /\ tx.value \in Nat
    <3>1. tx.id \in Nat /\ store.last \in Nat /\ tx.id <= store.last
      BY <2>1, <2>7, <2>8 DEF TxSound, AuctionInv, HouseSound
    <3> QED BY <2>1, <3>1 DEF SessionSound
  <2>10. tx.id = Shown.id /\ tx.state = "mined"
    BY <2>6, <2>7, <2>8, <2>9 DEF TxSound
  <2> QED BY <2>6, <2>7, <2>10 DEF SessionSound
<1> QED BY <1>1, AuctionInvAlways, BidInvAlways, PTL DEF SuccessIsReal

-----------------------------------------------------------------------------

Push(id) == [do |-> "push", id |-> id]
ToPrev == [do |-> "prev"]
ToNext == [do |-> "next"]

\* The page shows no auction beyond the last one or the one that is being
\* announced, which has no bid yet.
ShownSound ==
  /\ store.shown <= store.last
       \/ \E n \in DOMAIN chain : CreatedLeft(n) /\ store.shown <= n
  /\ query => store.past = {}
  /\ \A n \in DOMAIN chain :
       CreatedLeft(n) /\ Len(todo) < 4 => store.active.amount = 0

\* The address is one of no auction.
Beyond(n) == route # None /\ (route > n \/ route < 0)

\* At rest the address is the one of the auction on display, or the effects
\* that are left will make it so.
Addressed ==
  url # None =>
    \/ Beyond(store.last)
    \/ route = None /\ url = store.last
    \/ route \in 0 .. store.last /\ url = route /\ store.shown = None
    \/ /\ route \in 0 .. store.last /\ url = store.shown
       /\ Shown.id # None \/ route = url

\* Between the steps of a key.
KeyAddressed ==
  \E b \in Nat :
    \/ /\ todo = <<Push(store.last), ToPrev, Push(b)>>
       /\ store.shown = store.last /\ b + 1 = store.shown
    \/ /\ todo = <<ToPrev, Push(b)>>
       /\ store.shown = b + 1 /\ route \in 0 .. store.last
    \/ /\ todo = <<ToNext, Push(b)>>
       /\ store.shown + 1 = b /\ store.shown \notin {None, store.last}
       /\ route \in 0 .. store.last
    \/ /\ todo = <<Push(b)>>
       /\ store.shown = b /\ route \in 0 .. store.last

\* Between those of processAuctionCreated.
CreatedAddressed ==
  \E n \in DOMAIN chain :
    /\ CreatedLeft(n)
    /\ Len(todo) < 3 => url = n
    /\ Len(todo) = 1 => store.shown = n \/ route = None

UrlSound ==
  /\ load = "start" => url = route
  /\ load # "start" /\ ~astray =>
       (todo = <<>> /\ Addressed) \/ KeyAddressed \/ CreatedAddressed

\* The auction on display is the one the store has, an id that is not
\* auctioned, or one of the subgraph's answer.
Found ==
  \/ store.shown = store.active.id
  \/ IsNounderNoun(store.shown)
  \/ store.shown \in store.past

LEMMA ShownFound ==
  store.shown \in Nat /\ store.active.id \in Nat =>
    /\ Shown.id # None <=> Found
    /\ Shown.id # None => Shown.id = store.shown
<1> SUFFICES ASSUME store.shown \in Nat, store.active.id \in Nat
             PROVE  /\ Shown.id # None <=> Found
                    /\ Shown.id # None => Shown.id = store.shown
  OBVIOUS
<1>1. store.shown # None /\ store.active.id # None
  BY DEF None
<1>2. NoAuction.id = None
  BY DEF NoAuction
<1>3. EmptyAuction(store.shown).id = store.shown
  BY DEF EmptyAuction, NoAuction
<1>4. store.shown = store.active.id =>
        [store.active EXCEPT !.settled = FALSE].id = store.active.id
  OBVIOUS
<1>5. CASE store.shown = store.active.id
  BY <1>1, <1>4, <1>5 DEF Shown, UseOnDisplayAuction, Found
<1>6. CASE store.shown # store.active.id
  BY <1>1, <1>2, <1>3, <1>6 DEF Shown, UseOnDisplayAuction, Found
<1> QED BY <1>5, <1>6

\* The numbers of a page that is loaded.
LEMMA PageNumbers ==
  ASSUME AuctionInv, SessionSound
  PROVE  /\ store \in Stores /\ store.shown \in Nat \cup {None}
         /\ store.last \in Nat \cup {None} /\ route \in Int
         /\ None = -1 /\ todo \in Seq(Dispatches)
         /\ DOMAIN chain \subseteq Nat \ {0}
         /\ load # "start" => /\ store.last \in Nat \ {0}
                              /\ store.active.id \in Nat
                              /\ store.last \notin {None, 0}
         /\ load = "start" => store.last = None /\ store.shown = None /\ todo = <<>>
<1>1. HouseSound /\ StoreSound
  BY DEF AuctionInv
<1>2. DOMAIN chain \subseteq Nat \ {0}
  BY <1>1 DEF HouseSound
<1>3. load = "start" => todo = <<>>
  BY <1>1 DEF StoreSound, CreatedLeft
<1> QED BY <1>1, <1>2, <1>3 DEF StoreSound, Stores, SessionSound, None

LEMMA OneCreated ==
  ASSUME NEW m, NEW n, CreatedLeft(m), CreatedLeft(n)
  PROVE  m = n
BY DEF CreatedLeft

\* What is left of a handler is left of one.
LEMMA NothingCreated ==
  todo = <<>> => \A n : ~CreatedLeft(n)
<1>1. Len(<<>>) = 0
  OBVIOUS
<1> QED BY <1>1 DEF CreatedLeft

LEMMA KeyNotCreated ==
  ASSUME KeyLeft
  PROVE  \A n : ~CreatedLeft(n)
BY DEF KeyLeft, CreatedLeft

LEMMA TupleFacts ==
  \A a, b, d :
    /\ <<a, b, d>> # <<>> /\ <<a, b>> # <<>> /\ <<a>> # <<>>
    /\ Head(<<a, b, d>>) = a /\ Head(<<a, b>>) = a /\ Head(<<a>>) = a
    /\ Tail(<<a, b, d>>) = <<b, d>> /\ Tail(<<a, b>>) = <<b>> /\ Tail(<<a>>) = <<>>
    /\ Len(<<a, b, d>>) = 3 /\ Len(<<a, b>>) = 2 /\ Len(<<a>>) = 1
    /\ <<a, b, d>>[3] = d /\ <<a, b>>[2] = b /\ <<a>>[1] = a
OBVIOUS

\* A handler with one, two or three dispatches left ends with the last of them.
LEMMA LastOfOne ==
  \A h, a : h = <<a>> => h # <<>> /\ h[Len(h)] = a
OBVIOUS

LEMMA LastOfTwo ==
  \A h, a, b : h = <<a, b>> => h # <<>> /\ h[Len(h)] = b
OBVIOUS

LEMMA LastOfThree ==
  \A h, a, b, d : h = <<a, b, d>> => h # <<>> /\ h[Len(h)] = d
OBVIOUS

LEMMA KeyAddressedLeft ==
  KeyAddressed => todo # <<>> /\ \A n : ~CreatedLeft(n)
<1> SUFFICES ASSUME KeyAddressed
             PROVE  todo # <<>> /\ \A n : ~CreatedLeft(n)
  OBVIOUS
<1>1. PICK b \in Nat :
        \/ todo = <<Push(store.last), ToPrev, Push(b)>>
        \/ todo = <<ToPrev, Push(b)>>
        \/ todo = <<ToNext, Push(b)>>
        \/ todo = <<Push(b)>>
  BY DEF KeyAddressed
<1>2. todo # <<>> /\ todo[Len(todo)] = Push(b)
  <2>1. CASE todo = <<Push(store.last), ToPrev, Push(b)>>
    BY <2>1, LastOfThree
  <2>2. CASE todo = <<ToPrev, Push(b)>>
    BY <2>2, LastOfTwo
  <2>3. CASE todo = <<ToNext, Push(b)>>
    BY <2>3, LastOfTwo
  <2>4. CASE todo = <<Push(b)>>
    BY <2>4, LastOfOne
  <2> QED BY <1>1, <2>1, <2>2, <2>3, <2>4
<1>3. Push(b).do = "push"
  BY DEF Push
<1> QED BY <1>2, <1>3 DEF CreatedLeft

\* At rest.
LEMMA RestAddressed ==
  ASSUME UrlSound, todo = <<>>, load # "start", ~astray
  PROVE  Addressed
BY KeyAddressedLeft, NothingCreated DEF UrlSound, CreatedAddressed

LEMMA RestShown ==
  ASSUME ShownSound, todo = <<>>
  PROVE  store.shown <= store.last
BY NothingCreated DEF ShownSound

-----------------------------------------------------------------------------

\* Steps that leave what is on display alone, while no handler runs.
LEMMA DisplayRests ==
  ASSUME AuctionInv, SessionSound, ShownSound, UrlSound, AuctionInv',
         todo = <<>>, UNCHANGED pageVars,
         load = "start" <=> load' = "start",
         store'.shown = store.shown, store'.last = store.last,
         store'.active.id = store.active.id, store.past \subseteq store'.past,
         query' => query /\ store'.past = store.past
  PROVE  ShownSound' /\ UrlSound'
<1>1. todo' = <<>> /\ route' = route /\ url' = url /\ astray' = astray
  BY DEF pageVars
<1>2. (\A n : ~CreatedLeft(n))'
  <2>1. (todo = <<>> => \A n : ~CreatedLeft(n))'
    BY NothingCreated, PTL
  <2> QED BY <1>1, <2>1
<1>3. ShownSound'
  <2>1. store'.shown <= store'.last
    BY RestShown
  <2> QED BY <1>2, <2>1 DEF ShownSound
<1>4. UrlSound'
  <2>1. CASE load = "start"
    BY <1>1, <2>1 DEF UrlSound
  <2>2. CASE load # "start" /\ astray
    BY <1>1, <2>2 DEF UrlSound
  <2>3. CASE load # "start" /\ ~astray
    <3>1. Addressed
      BY <2>3, RestAddressed
    <3>2. ASSUME store.shown \in Nat, Shown.id # None PROVE Shown'.id # None
      <4>1. store.active.id \in Nat
        BY <2>3, PageNumbers
      <4>2. Found
        BY <3>2, <4>1, ShownFound
      <4>3. Found'
        BY <4>2 DEF Found
      <4>4. store'.shown \in Nat /\ store'.active.id \in Nat
        BY <3>2, <4>1
      <4>5. (store.shown \in Nat /\ store.active.id \in Nat =>
              (Shown.id # None <=> Found))'
        BY ShownFound, PTL
      <4> QED BY <4>3, <4>4, <4>5
    <3>3. store.shown \in Nat \cup {None} /\ route \in Int /\ None \notin Nat
          /\ store.last \in Nat
      BY <2>3, PageNumbers
    <3>4. Addressed'
      <4>1. CASE url = None
        BY <1>1, <4>1 DEF Addressed
      <4>2. CASE /\ route \in 0 .. store.last /\ url = store.shown
                 /\ Shown.id # None \/ route = url
        BY <1>1, <3>2, <3>3, <4>2 DEF Addressed
      <4>3. CASE \/ Beyond(store.last)
                 \/ route = None /\ url = store.last
                 \/ route \in 0 .. store.last /\ url = route /\ store.shown = None
        BY <1>1, <4>3 DEF Addressed, Beyond
      <4> QED BY <3>1, <4>1, <4>2, <4>3 DEF Addressed
    <3> QED BY <1>1, <2>3, <3>4 DEF UrlSound
  <2> QED BY <2>1, <2>2, <2>3
<1> QED BY <1>3, <1>4

\* Steps of the others and of the form.
LEMMA OthersRest ==
  ASSUME ShownSound, UrlSound, UNCHANGED <<loadVars, pageVars, store>>,
         DOMAIN chain \subseteq DOMAIN chain', AuctionInv, AuctionInv'
  PROVE  ShownSound' /\ UrlSound'
<1>1. /\ load' = load /\ query' = query /\ todo' = todo /\ route' = route
      /\ url' = url /\ astray' = astray /\ store' = store
  BY DEF loadVars, pageVars
<1>2. Shown' = Shown
  BY <1>1 DEF Shown, UseOnDisplayAuction, EmptyAuction
<1>3. \A n \in DOMAIN chain : CreatedLeft(n) => CreatedLeft(n)'
  BY <1>1 DEF CreatedLeft
<1>4. \A n \in DOMAIN chain' : CreatedLeft(n)' => n \in DOMAIN chain /\ CreatedLeft(n)
  <2> SUFFICES ASSUME NEW n \in DOMAIN chain', CreatedLeft(n)'
               PROVE  n \in DOMAIN chain /\ CreatedLeft(n)
    OBVIOUS
  <2>1. /\ Len(todo) \in 1 .. 4 /\ todo[Len(todo)].do = "last" /\ todo[Len(todo)].id = n
    BY <1>1 DEF CreatedLeft
  <2>2. todo # <<>> /\ ~KeyLeft
    <3>1. todo = <<>> => Len(todo) = 0
      OBVIOUS
    <3>11. Len(todo) \in 1 .. 4
      BY <2>1
    <3>12. 0 \notin 1 .. 4
      OBVIOUS
    <3>2. todo # <<>>
      BY <3>1, <3>11, <3>12, Zenon
    <3>3. "last" # "push"
      OBVIOUS
    <3>4. ~KeyLeft
      BY <2>1, <3>3, Zenon DEF KeyLeft
    <3> QED BY <3>2, <3>4
  <2>3. PICK m \in DOMAIN chain : CreatedLeft(m)
    BY <2>2 DEF AuctionInv, StoreSound
  <2>4. m = n
    BY <2>1, <2>3 DEF CreatedLeft
  <2> QED BY <2>3, <2>4
<1>5. ShownSound'
  BY <1>1, <1>3, <1>4 DEF ShownSound
<1>6. KeyAddressed' = KeyAddressed /\ Addressed' = Addressed
  BY <1>1, <1>2 DEF KeyAddressed, Addressed, Beyond, Push, ToPrev, ToNext
<1>7. CreatedAddressed => CreatedAddressed'
  BY <1>1, <1>3 DEF CreatedAddressed
<1>8. UrlSound'
  BY <1>1, <1>6, <1>7 DEF UrlSound
<1> QED BY <1>5, <1>8

\* loadState knows the auction.
LEMMA FetchRests ==
  ASSUME AuctionInv, SessionSound, ShownSound, UrlSound, AuctionInv',
         UNCHANGED chainVars, FetchAuction
  PROVE  ShownSound' /\ UrlSound'
<1>1. /\ load = "start" /\ todo' = <<>> /\ url = route /\ url' = url /\ route' = route
      /\ store.shown = None /\ query' = query /\ astray' = astray
      /\ route \in Int /\ None = -1 /\ store \in Stores
  BY PageNumbers DEF FetchAuction, pageVars, UrlSound
<1>2. store' = [store EXCEPT !.active = Auction, !.last = current]
  BY <1>1 DEF FetchAuction, SetLastAuctionTokenId, SetFullAuction, Stores
<1>3. /\ store'.last = current /\ store'.shown = None /\ store'.past = store.past
      /\ current \in Nat
  BY <1>1, <1>2 DEF Stores, AuctionInv, HouseSound
<1>4. (\A n : ~CreatedLeft(n))'
  <2>1. (todo = <<>> => \A n : ~CreatedLeft(n))'
    BY NothingCreated, PTL
  <2> QED BY <1>1, <2>1
<1>5. ShownSound'
  BY <1>1, <1>3, <1>4 DEF ShownSound
<1>6. Addressed'
  <2>1. CASE route = None
    BY <1>1, <2>1 DEF Addressed
  <2>2. CASE route # None
    <3>1. Beyond(current) \/ route \in 0 .. current
      BY <1>1, <1>3, <2>2 DEF Beyond
    <3>2. Beyond(current) => Beyond(store.last)'
      BY <1>1, <1>3 DEF Beyond
    <3> QED BY <1>1, <1>3, <3>1, <3>2 DEF Addressed
  <2> QED BY <1>1, <2>1, <2>2
<1>7. UrlSound'
  <2>1. load' = "query"
    BY DEF FetchAuction
  <2> QED BY <1>1, <1>6, <2>1 DEF UrlSound
<1> QED BY <1>5, <1>7

\* A new auction is announced.
LEMMA AnnouncedRests ==
  ASSUME AuctionInv, SessionSound, ShownSound, UrlSound, AuctionInv',
         NEW e \in Events, e.type = "created", todo = <<>>, ProcessAuctionCreated(e),
         UNCHANGED <<load, query, route, url, astray, historyVars>>
  PROVE  ShownSound' /\ UrlSound'
<1>1. store' = store
  BY DEF ProcessAuctionCreated
<1>2. Len(todo') = 4 /\ todo'[4].do = "last"
  <2>1. e \in [type : {"created"}, id : Nat, end : Nat]
    BY EventFields
  <2> QED BY <2>1, CreatedDispatches DEF ProcessAuctionCreated
<1>3. ~KeyLeft' /\ todo' # <<>>
  BY <1>2 DEF KeyLeft
<1>4. StoreSound'
  BY DEF AuctionInv
<1>5. \E n \in DOMAIN chain' : CreatedLeft(n)'
  BY <1>3, <1>4 DEF StoreSound
<1>6. ShownSound'
  <2>1. store'.shown <= store'.last
    BY <1>1, RestShown
  <2>2. query' => store'.past = {}
    BY <1>1 DEF ShownSound
  <2>3. ~(Len(todo') < 4)
    BY <1>2
  <2> QED BY <2>1, <2>2, <2>3 DEF ShownSound
<1>7. UrlSound'
  <2>1. CreatedAddressed'
    BY <1>2, <1>5 DEF CreatedAddressed
  <2> QED BY <2>1 DEF UrlSound
<1> QED BY <1>6, <1>7

-----------------------------------------------------------------------------

\* The effect of the page.
LEMMA EffectRests ==
  ASSUME AuctionInv, SessionSound, ShownSound, UrlSound, AuctionInv',
         UNCHANGED chainVars, RunEffect
  PROVE  ShownSound' /\ UrlSound'
<1> DEFINE s == store.shown
           last == store.last
<1>1. /\ load' = load /\ query' = query /\ route' = route /\ todo' = todo
      /\ chain' = chain
      /\ url' = (IF OutOfBounds THEN last ELSE url)
      /\ astray' = (astray \/ (todo # <<>> /\ (Shown.id = None \/ OutOfBounds)))
      /\ store' = [store EXCEPT !.shown = Effect]
      /\ ~EffectsDone
  BY DEF RunEffect, loadVars, SetOnDisplayAuctionTokenId, chainVars
<1>2. /\ store \in Stores /\ s \in Nat \cup {None} /\ last \in Nat \cup {None}
      /\ route \in Int /\ None = -1
      /\ load # "start" => last \in Nat \ {0} /\ store.active.id \in Nat
      /\ load = "start" => last = None
      /\ DOMAIN chain \subseteq Nat \ {0}
  BY PageNumbers
<1>3. load # "start"
  <2>1. load = "start" => Effect = s /\ ~OutOfBounds
    BY <1>2 DEF Effect, OutOfBounds
  <2> QED BY <1>1, <2>1 DEF EffectsDone
<1>4. last \in Nat /\ last \notin {None, 0} /\ (OutOfBounds <=> Beyond(last))
  BY <1>2, <1>3 DEF OutOfBounds, Beyond
<1>5. /\ route = None \/ Beyond(last) => Effect = last
      /\ route \in 0 .. last /\ Shown.id = None => Effect = route
      /\ route \in 0 .. last /\ Shown.id # None => Effect = s /\ ~OutOfBounds
      /\ route = None \/ Beyond(last) \/ route \in 0 .. last
      /\ route = None => ~Beyond(last)
      /\ route \in 0 .. last => ~Beyond(last) /\ route # None
  BY <1>2, <1>4 DEF Effect, Beyond
<1>6. Effect \in Nat \cup {None} /\ (Effect = s \/ Effect <= last)
  BY <1>2, <1>4, <1>5
<1>7. /\ store'.shown = Effect /\ store'.last = last /\ store'.active = store.active
      /\ store'.past = store.past
  BY <1>1, <1>2, <1>6 DEF Stores
<1>8. \A n : CreatedLeft(n)' = CreatedLeft(n)
  BY <1>1, <1>7 DEF CreatedLeft
<1>9. ShownSound'
  <2>1. store'.shown <= store'.last \/
          \E n \in DOMAIN chain : CreatedLeft(n) /\ store'.shown <= n
    BY <1>6, <1>7 DEF ShownSound
  <2> QED BY <1>1, <1>7, <1>8, <2>1 DEF ShownSound
<1>10. ASSUME ~astray', todo = <<>> PROVE Addressed'
  <2>1. Addressed
    BY <1>1, <1>3, <1>10, RestAddressed
  <2>2. CASE Beyond(last)
    BY <1>1, <1>7, <2>2 DEF Addressed, Beyond
  <2>3. CASE route = None
    <3>1. url' = url /\ ~(route \in 0 .. last) /\ ~Beyond(last)
      BY <1>1, <1>4, <1>5, <2>3
    <3>2. url = None \/ url = last
      BY <2>1, <2>3, <3>1 DEF Addressed
    <3> QED BY <1>1, <1>7, <2>3, <3>1, <3>2 DEF Addressed
  <2>4. CASE route \in 0 .. last
    <3>1. Shown.id = None
      BY <1>1, <1>5, <2>4 DEF EffectsDone
    <3>2. store'.shown = route /\ url' = url /\ ~Beyond(last) /\ route # None
      BY <1>1, <1>4, <1>5, <1>7, <2>4, <3>1
    <3>3. url = None \/ url = route
      BY <2>1, <2>4, <3>1, <3>2 DEF Addressed
    <3> QED BY <1>1, <1>7, <2>4, <3>2, <3>3 DEF Addressed
  <2> QED BY <1>5, <2>2, <2>3, <2>4
<1>11. ASSUME ~astray', todo # <<>> PROVE CreatedAddressed'
  <2>1. Shown.id # None /\ ~OutOfBounds /\ ~astray
    BY <1>1, <1>11
  <2>2. route = None /\ Effect = last /\ s # last
    <3>1. ~(route \in 0 .. last)
      BY <1>1, <1>5, <2>1 DEF EffectsDone
    <3>2. route = None /\ Effect = last
      BY <1>4, <1>5, <2>1, <3>1
    <3> QED BY <1>1, <2>1, <3>2 DEF EffectsDone
  <2>3. ~KeyAddressed
    <3>1. ~(route \in 0 .. last)
      BY <1>5, <2>2
    <3> QED BY <2>2, <3>1 DEF KeyAddressed
  <2>4. CreatedAddressed
    BY <1>3, <1>11, <2>1, <2>3 DEF UrlSound
  <2>5. url' = url
    BY <1>1, <2>1
  <2> QED BY <1>1, <1>8, <2>2, <2>4, <2>5 DEF CreatedAddressed
<1>12. UrlSound'
  BY <1>1, <1>3, <1>10, <1>11 DEF UrlSound
<1> QED BY <1>9, <1>12

\* The user clicks.
LEMMA ClickRests ==
  ASSUME AuctionInv, SessionSound, ShownSound, UrlSound, AuctionInv',
         UNCHANGED chainVars, ClickPrev \/ ClickNext
  PROVE  ShownSound' /\ UrlSound'
<1> DEFINE s == store.shown
           last == store.last
<1>1. Navigable
  BY DEF ClickPrev, ClickNext
<1>2. /\ load # "start" /\ todo = <<>> /\ Shown.id = s /\ s \in Nat
      /\ store \in Stores
  BY <1>1, NavigableStore DEF AuctionInv
<1>3. /\ last \in Nat \ {0} /\ s <= last /\ None = -1
  BY <1>2, PageNumbers, RestShown
<1>4. /\ load' = load /\ query' = query /\ todo' = <<>> /\ astray' = FALSE
  BY <1>2 DEF ClickPrev, ClickNext, loadVars
<1>5. PICK m \in Nat : /\ store' = [store EXCEPT !.shown = m] /\ m <= last
                       /\ route' = m /\ url' = m
  <2>1. CASE ClickPrev
    <3>1. s # 0 /\ s \notin {None, 0} /\ s - 1 \in Nat /\ s - 1 <= last
      BY <1>2, <1>3, <2>1 DEF ClickPrev
    <3>2. store' = [store EXCEPT !.shown = s - 1]
      BY <2>1, <3>1 DEF ClickPrev, SetPrevOnDisplayAuctionTokenId
    <3> QED BY <1>2, <2>1, <3>1, <3>2 DEF ClickPrev
  <2>2. CASE ClickNext
    <3>1. s # last /\ s \notin {None, last} /\ s + 1 \in Nat /\ s + 1 <= last
      BY <1>2, <1>3, <2>2 DEF ClickNext, IsLastAuction
    <3>2. store' = [store EXCEPT !.shown = s + 1]
      BY <2>2, <3>1 DEF ClickNext, SetNextOnDisplayAuctionTokenId
    <3> QED BY <1>2, <2>2, <3>1, <3>2 DEF ClickNext
  <2> QED BY <2>1, <2>2
<1>6. /\ store'.shown = m /\ store'.last = last /\ store'.past = store.past
  BY <1>2, <1>5 DEF Stores
<1>7. (\A n : ~CreatedLeft(n))'
  <2>1. (todo = <<>> => \A n : ~CreatedLeft(n))'
    BY NothingCreated, PTL
  <2> QED BY <1>4, <2>1
<1>8. ShownSound'
  BY <1>4, <1>5, <1>6, <1>7 DEF ShownSound
<1>9. Addressed'
  <2>1. m \in 0 .. last
    BY <1>3, <1>5
  <2> QED BY <1>5, <1>6, <2>1 DEF Addressed
<1>10. UrlSound'
  BY <1>2, <1>4, <1>9 DEF UrlSound
<1> QED BY <1>8, <1>10

\* What a key has to do.
LEMMA LeftDispatches ==
  ASSUME AuctionInv, HandleArrowLeft
  PROVE  LET s == store.shown IN
         \/ s # store.last /\ s = 0 /\ todo' = <<>>
         \/ s # store.last /\ s # 0 /\ todo' = <<ToPrev, Push(s - 1)>>
         \/ s = store.last /\ s = 0 /\ todo' = <<Push(store.last)>>
         \/ s = store.last /\ s # 0
            /\ todo' = <<Push(store.last), ToPrev, Push(s - 1)>>
<1> DEFINE s == store.shown
           a == IF IsLastAuction THEN <<Push(store.last)>> ELSE <<>>
           b == IF Shown.id = 0 THEN <<>> ELSE <<ToPrev, Push(s - 1)>>
<1>1. Navigable
  BY DEF HandleArrowLeft
<1>2. Shown.id = s /\ Shown.id # None
  BY <1>1, NavigableStore DEF AuctionInv, Navigable
<1>3. todo' = a \o b
  BY <1>2 DEF HandleArrowLeft, Push, ToPrev
<1>4. IsLastAuction <=> s = store.last
  BY <1>2 DEF IsLastAuction
<1>5. /\ <<Push(store.last)>> \o <<ToPrev, Push(s - 1)>>
           = <<Push(store.last), ToPrev, Push(s - 1)>>
      /\ <<Push(store.last)>> \o <<>> = <<Push(store.last)>>
      /\ <<>> \o <<ToPrev, Push(s - 1)>> = <<ToPrev, Push(s - 1)>>
      /\ <<>> \o <<>> = <<>>
  <2>1. \A x, y, z : <<x>> \o <<y, z>> = <<x, y, z>> /\ <<x>> \o <<>> = <<x>>
                     /\ <<>> \o <<y, z>> = <<y, z>> /\ <<>> \o <<>> = <<>>
    <3> TAKE x, y, z
    <3>1. <<x>> \o <<y, z>> = <<x, y, z>>
      BY JoinOneTwo
    <3>2. <<x>> \o <<>> = <<x>> /\ <<>> \o <<>> = <<>>
      OBVIOUS
    <3>3. <<>> \o <<y, z>> = <<y, z>>
      OBVIOUS
    <3> QED BY <3>1, <3>2, <3>3
  <2> QED BY <2>1, Zenon
<1>6. CASE s = store.last /\ s = 0
  BY <1>2, <1>3, <1>4, <1>5, <1>6, Zenon
<1>7. CASE s = store.last /\ s # 0
  BY <1>2, <1>3, <1>4, <1>5, <1>7, Zenon
<1>8. CASE s # store.last /\ s = 0
  BY <1>2, <1>3, <1>4, <1>5, <1>8, Zenon
<1>9. CASE s # store.last /\ s # 0
  BY <1>2, <1>3, <1>4, <1>5, <1>9, Zenon
<1> QED BY <1>6, <1>7, <1>8, <1>9, Zenon

\* The user types an arrow.
LEMMA ArrowRests ==
  ASSUME AuctionInv, SessionSound, ShownSound, UrlSound, AuctionInv',
         UNCHANGED chainVars, HandleArrowLeft \/ HandleArrowRight
  PROVE  ShownSound' /\ UrlSound'
<1> DEFINE s == store.shown
           last == store.last
<1>1. Navigable
  BY DEF HandleArrowLeft, HandleArrowRight
<1>2. /\ load # "start" /\ todo = <<>> /\ Shown.id = s /\ s \in Nat
      /\ store \in Stores /\ EffectsDone
  BY <1>1, NavigableStore DEF AuctionInv, Navigable
<1>3. /\ last \in Nat \ {0} /\ last \notin {None, 0} /\ s <= last /\ None = -1
      /\ route \in Int
  BY <1>2, PageNumbers, RestShown
<1>4. /\ load' = load /\ query' = query /\ astray' = astray /\ store' = store
      /\ url' = url /\ route' = route /\ chain' = chain
  BY DEF HandleArrowLeft, HandleArrowRight, loadVars, chainVars
<1>5. s # last => route \in 0 .. last
  <2>1. route = None \/ Beyond(last) => Effect = last
    BY <1>3 DEF Effect, OutOfBounds, Beyond
  <2>2. route = None \/ Beyond(last) \/ route \in 0 .. last
    BY <1>3 DEF Beyond
  <2> QED BY <1>2, <2>1, <2>2 DEF EffectsDone
<1>6. todo' = <<>> \/ KeyAddressed'
  <2>1. CASE HandleArrowLeft
    <3>1. s # 0 => s - 1 \in Nat /\ (s - 1) + 1 = s
      BY <1>2
    <3>2. ~(s = last /\ s = 0)
      BY <1>3
    <3>3. CASE s # last /\ s # 0 /\ todo' = <<ToPrev, Push(s - 1)>>
      BY <1>4, <1>5, <3>1, <3>3 DEF KeyAddressed, Push, ToPrev
    <3>4. CASE s = last /\ s # 0 /\ todo' = <<Push(last), ToPrev, Push(s - 1)>>
      BY <1>4, <3>1, <3>4 DEF KeyAddressed, Push, ToPrev
    <3> QED BY <2>1, <3>2, <3>3, <3>4, LeftDispatches
  <2>2. CASE HandleArrowRight
    <3>1. s # last /\ s \notin {None, last} /\ s + 1 \in Nat
      BY <1>2, <1>3, <2>2 DEF HandleArrowRight, IsLastAuction
    <3>2. todo' = <<ToNext, Push(s + 1)>>
      BY <1>2, <2>2 DEF HandleArrowRight, ToNext, Push
    <3> QED BY <1>4, <1>5, <3>1, <3>2 DEF KeyAddressed, Push, ToNext
  <2> QED BY <2>1, <2>2
<1>7. (\A n : ~CreatedLeft(n))'
  <2>1. (todo = <<>> => \A n : ~CreatedLeft(n))'
    BY NothingCreated, PTL
  <2>2. (KeyAddressed => todo # <<>> /\ \A n : ~CreatedLeft(n))'
    BY KeyAddressedLeft, PTL
  <2> QED BY <1>6, <2>1, <2>2
<1>8. ShownSound'
  BY <1>3, <1>4, <1>7 DEF ShownSound
<1>9. UrlSound'
  <2>1. ~astray => Addressed
    BY <1>2, RestAddressed
  <2>2. Addressed' = Addressed
    BY <1>4 DEF Addressed, Beyond, Shown, UseOnDisplayAuction, EmptyAuction
  <2> QED BY <1>2, <1>4, <1>6, <2>1, <2>2 DEF UrlSound
<1> QED BY <1>8, <1>9

-----------------------------------------------------------------------------

\* A step of a key.
LEMMA KeyStepRests ==
  ASSUME AuctionInv, SessionSound, ShownSound, UrlSound, AuctionInv',
         UNCHANGED chainVars, Dispatch, KeyLeft
  PROVE  ShownSound' /\ UrlSound'
<1> DEFINE s == store.shown
           last == store.last
<1>1. /\ load' = load /\ query' = query /\ astray' = astray /\ chain' = chain
      /\ todo # <<>> /\ todo' = Tail(todo)
  BY DEF Dispatch, loadVars, chainVars
<1>2. /\ store \in Stores /\ s \in Nat \cup {None} /\ last \in Nat \ {0}
      /\ None = -1 /\ todo \in Seq(Dispatches) /\ load # "start"
  BY <1>1, PageNumbers
<1>3. s <= last
  BY KeyNotCreated DEF ShownSound
<1>4. /\ Head(todo).do = "prev" =>
           store' = SetPrevOnDisplayAuctionTokenId(store) /\ UNCHANGED <<route, url>>
      /\ Head(todo).do = "next" =>
           store' = SetNextOnDisplayAuctionTokenId(store) /\ UNCHANGED <<route, url>>
      /\ Head(todo).do = "push" =>
           route' = Head(todo).id /\ url' = Head(todo).id /\ store' = store
  BY DEF Dispatch
<1>5. Head(todo).do \in {"push", "prev", "next"} /\ (todo' = <<>> \/ KeyLeft')
  <2>1. Head(todo) = todo[1]
    BY <1>1, <1>2, TailFacts
  <2> QED BY <1>1, <1>2, <2>1, KeyTail
<1>6. \E m \in Nat \cup {None} : store' = [store EXCEPT !.shown = m] /\ m <= last
  <2>1. store = [store EXCEPT !.shown = s]
    BY <1>2 DEF Stores
  <2>2. CASE store' = store
    BY <1>2, <1>3, <2>1, <2>2
  <2>3. CASE Head(todo).do = "prev" /\ s \notin {None, 0}
    <3>1. s - 1 \in Nat /\ s - 1 <= last
      BY <1>2, <1>3, <2>3
    <3> QED BY <1>4, <2>3, <3>1 DEF SetPrevOnDisplayAuctionTokenId
  <2>4. CASE Head(todo).do = "next" /\ s \notin {None, last}
    <3>1. s + 1 \in Nat /\ s + 1 <= last
      BY <1>2, <1>3, <2>4
    <3> QED BY <1>4, <2>4, <3>1 DEF SetNextOnDisplayAuctionTokenId
  <2> QED BY <1>4, <1>5, <2>2, <2>3, <2>4
          DEF SetPrevOnDisplayAuctionTokenId, SetNextOnDisplayAuctionTokenId
<1>7. store'.shown <= last /\ store'.last = last /\ store'.past = store.past
  BY <1>2, <1>6 DEF Stores
<1>8. (\A n : ~CreatedLeft(n))'
  <2>1. (todo = <<>> => \A n : ~CreatedLeft(n))'
    BY NothingCreated, PTL
  <2>2. KeyLeft' => (\A n : ~CreatedLeft(n))'
    BY DEF KeyLeft, CreatedLeft
  <2> QED BY <1>5, <2>1, <2>2
<1>9. ShownSound'
  BY <1>1, <1>7, <1>8 DEF ShownSound
<1>10. ASSUME ~astray PROVE (todo' = <<>> /\ Addressed') \/ KeyAddressed'
  <2>1. KeyAddressed
    BY <1>1, <1>2, <1>10, KeyNotCreated DEF UrlSound, CreatedAddressed
  <2>2. PICK b \in Nat :
    \/ /\ todo = <<Push(store.last), ToPrev, Push(b)>>
       /\ store.shown = store.last /\ b + 1 = store.shown
    \/ /\ todo = <<ToPrev, Push(b)>>
       /\ store.shown = b + 1 /\ route \in 0 .. store.last
    \/ /\ todo = <<ToNext, Push(b)>>
       /\ store.shown + 1 = b /\ store.shown \notin {None, store.last}
       /\ route \in 0 .. store.last
    \/ /\ todo = <<Push(b)>>
       /\ store.shown = b /\ route \in 0 .. store.last
    BY <2>1 DEF KeyAddressed
  <2>3. /\ \A i : Push(i).do = "push" /\ Push(i).id = i
        /\ ToPrev.do = "prev" /\ ToNext.do = "next"
    BY DEF Push, ToPrev, ToNext
  <2>4. /\ ToPrev' = ToPrev /\ ToNext' = ToNext /\ \A i : Push(i)' = Push(i)
    BY DEF Push, ToPrev, ToNext
  <2>5. CASE /\ todo = <<Push(last), ToPrev, Push(b)>>
             /\ s = last /\ b + 1 = s
    <3>1. Head(todo) = Push(last) /\ todo' = <<ToPrev, Push(b)>>
      BY <1>1, <2>5, TupleFacts
    <3>2. route' = last /\ store' = store
      BY <1>4, <2>3, <3>1
    <3>3. last \in 0 .. last
      BY <1>2
    <3> QED BY <2>4, <2>5, <3>1, <3>2, <3>3 DEF KeyAddressed
  <2>6. CASE todo = <<ToPrev, Push(b)>> /\ s = b + 1 /\ route \in 0 .. last
    <3>1. Head(todo) = ToPrev /\ todo' = <<Push(b)>>
      BY <1>1, <2>6, TupleFacts
    <3>2. store' = SetPrevOnDisplayAuctionTokenId(store) /\ route' = route
      BY <1>4, <2>3, <3>1
    <3>3. s \notin {None, 0} /\ s - 1 = b
      BY <1>2, <2>6
    <3>4. store'.shown = b
      BY <1>2, <3>2, <3>3 DEF SetPrevOnDisplayAuctionTokenId, Stores
    <3> QED BY <1>7, <2>4, <2>6, <3>1, <3>2, <3>4 DEF KeyAddressed
  <2>7. CASE /\ todo = <<ToNext, Push(b)>> /\ s + 1 = b /\ s \notin {None, last}
             /\ route \in 0 .. last
    <3>1. Head(todo) = ToNext /\ todo' = <<Push(b)>>
      BY <1>1, <2>7, TupleFacts
    <3>2. store' = SetNextOnDisplayAuctionTokenId(store) /\ route' = route
      BY <1>4, <2>3, <3>1
    <3>4. store'.shown = b
      BY <1>2, <2>7, <3>2 DEF SetNextOnDisplayAuctionTokenId, Stores
    <3> QED BY <1>7, <2>4, <2>7, <3>1, <3>2, <3>4 DEF KeyAddressed
  <2>8. CASE todo = <<Push(b)>> /\ s = b /\ route \in 0 .. last
    <3>1. Head(todo) = Push(b) /\ todo' = <<>>
      BY <1>1, <2>8, TupleFacts
    <3>2. route' = b /\ url' = b /\ store' = store
      BY <1>4, <2>3, <3>1
    <3>3. b \in 0 .. last
      BY <1>2, <1>3, <2>8
    <3>4. Addressed'
      BY <1>7, <2>8, <3>2, <3>3 DEF Addressed
    <3> QED BY <3>1, <3>4
  <2> QED BY <2>2, <2>5, <2>6, <2>7, <2>8
<1>11. UrlSound'
  BY <1>1, <1>2, <1>10 DEF UrlSound
<1> QED BY <1>9, <1>11

\* A dispatch of processAuctionCreated.
LEMMA CreatedStep ==
  ASSUME AuctionInv, AuctionInv', UNCHANGED chainVars, Dispatch,
         NEW n \in DOMAIN chain, CreatedLeft(n)
  PROVE  \/ /\ Len(todo) = 4 /\ Len(todo') = 3 /\ CreatedLeft(n)'
            /\ store' = SetActiveAuction(store, todo[1].auction)
            /\ UNCHANGED <<route, url>>
         \/ /\ Len(todo) = 3 /\ Len(todo') = 2 /\ CreatedLeft(n)'
            /\ store' = store /\ url' = n /\ route' = route
         \/ /\ Len(todo) = 2 /\ Len(todo') = 1 /\ CreatedLeft(n)'
            /\ store' = [store EXCEPT !.shown = n]
            /\ UNCHANGED <<route, url>>
         \/ /\ Len(todo) = 1 /\ todo' = <<>>
            /\ store' = [store EXCEPT !.last = n]
            /\ UNCHANGED <<route, url>>
<1>1. StoreSound /\ StoreSound'
  BY DEF AuctionInv
<1>2. todo # <<>> /\ todo \in Seq(Dispatches) /\ todo' = Tail(todo)
  BY <1>1 DEF StoreSound, Dispatch
<1>3. Head(todo) = todo[1]
  BY <1>2, TailFacts
<1>4. /\ todo[1].do = "active" => store' = SetActiveAuction(store, todo[1].auction)
                                  /\ UNCHANGED <<route, url>>
      /\ todo[1].do = "show" => store' = [store EXCEPT !.shown = todo[1].id]
                                /\ UNCHANGED <<route, url>>
      /\ todo[1].do = "last" => store' = [store EXCEPT !.last = todo[1].id]
                                /\ UNCHANGED <<route, url>>
      /\ todo[1].do = "url" => store' = store /\ url' = todo[1].id /\ route' = route
  BY <1>3 DEF Dispatch, SetOnDisplayAuctionTokenId, SetLastAuctionTokenId
<1>5. ASSUME NEW k \in {1, 2, 3}, Len(todo') = k, todo'[k].do = "last", todo'[k].id = n
      PROVE  CreatedLeft(n)'
  <2>1. todo' = <<>> => Len(todo') = 0
    OBVIOUS
  <2>2. todo' # <<>> /\ todo'[Len(todo')].do = "last" /\ todo'[Len(todo')].id = n
    BY <1>5, <2>1
  <2>3. "last" # "push"
    OBVIOUS
  <2>4. ~KeyLeft'
    BY <2>2, <2>3, Zenon DEF KeyLeft
  <2>5. PICK m \in DOMAIN chain' : CreatedLeft(m)'
    BY <1>1, <2>2, <2>4 DEF StoreSound
  <2>6. todo'[Len(todo')].id = m
    BY <2>5 DEF CreatedLeft
  <2> QED BY <2>2, <2>5, <2>6
<1>6. \/ /\ Len(todo) = 4 /\ Len(todo') = 3
         /\ todo[1].do = "active" /\ todo[1].auction.id = n
         /\ todo'[1].do = "url" /\ todo'[1].id = n
         /\ todo'[2].do = "show" /\ todo'[2].id = n
         /\ todo'[3].do = "last" /\ todo'[3].id = n
      \/ /\ Len(todo) = 3 /\ Len(todo') = 2
         /\ todo[1].do = "url" /\ todo[1].id = n
         /\ todo'[1].do = "show" /\ todo'[1].id = n
         /\ todo'[2].do = "last" /\ todo'[2].id = n
      \/ /\ Len(todo) = 2 /\ Len(todo') = 1
         /\ todo[1].do = "show" /\ todo[1].id = n
         /\ todo'[1].do = "last" /\ todo'[1].id = n
      \/ /\ Len(todo) = 1 /\ todo' = <<>>
         /\ todo[1].do = "last" /\ todo[1].id = n
  BY <1>2, CreatedTail
<1>7. CASE Len(todo) = 4 /\ Len(todo') = 3 /\ todo[1].do = "active"
           /\ todo'[3].do = "last" /\ todo'[3].id = n
  BY <1>4, <1>5, <1>7
<1>8. CASE Len(todo) = 3 /\ Len(todo') = 2 /\ todo[1].do = "url" /\ todo[1].id = n
           /\ todo'[2].do = "last" /\ todo'[2].id = n
  BY <1>4, <1>5, <1>8
<1>9. CASE Len(todo) = 2 /\ Len(todo') = 1 /\ todo[1].do = "show" /\ todo[1].id = n
           /\ todo'[1].do = "last" /\ todo'[1].id = n
  BY <1>4, <1>5, <1>9
<1>10. CASE Len(todo) = 1 /\ todo' = <<>> /\ todo[1].do = "last" /\ todo[1].id = n
  BY <1>4, <1>10
<1> QED BY <1>6, <1>7, <1>8, <1>9, <1>10

LEMMA NothingCreatedThen ==
  (todo = <<>> => \A n : ~CreatedLeft(n))'
BY NothingCreated, PTL

LEMMA CreatedStepRests ==
  ASSUME AuctionInv, SessionSound, ShownSound, UrlSound, AuctionInv',
         UNCHANGED chainVars, Dispatch, NEW n \in DOMAIN chain, CreatedLeft(n)
  PROVE  ShownSound' /\ UrlSound'
<1> DEFINE s == store.shown
           last == store.last
<1>1. /\ load' = load /\ query' = query /\ astray' = astray /\ chain' = chain
      /\ todo # <<>>
  BY DEF Dispatch, loadVars, chainVars
<1>2. /\ store \in Stores /\ s \in Nat \cup {None} /\ last \in Nat \ {0}
      /\ None = -1 /\ load # "start" /\ n \in Nat \ {0} /\ route \in Int
  BY <1>1, PageNumbers
<1>3. n > last
  BY DEF CreatedLeft
<1>4. s <= n
  <2>1. s <= last \/ s <= n
    BY OneCreated DEF ShownSound
  <2> QED BY <1>2, <1>3, <2>1
<1>5. /\ query' => store.past = {}
      /\ Len(todo) < 4 => store.active.amount = 0
  BY <1>1 DEF ShownSound
<1>6. \A m : CreatedLeft(n)' /\ CreatedLeft(m)' => m = n
  BY DEF CreatedLeft
<1>7. ~astray /\ Len(todo) < 4 =>
         /\ Len(todo) < 3 => url = n
         /\ Len(todo) = 1 => s = n \/ route = None
  <2>1. ~KeyAddressed
    BY KeyAddressedLeft
  <2> QED BY <1>1, <1>2, <2>1, OneCreated DEF UrlSound, CreatedAddressed
<1>8. CASE /\ Len(todo) = 4 /\ Len(todo') = 3 /\ CreatedLeft(n)'
           /\ store' = SetActiveAuction(store, todo[1].auction)
  <2>1. /\ store'.shown = s /\ store'.past = store.past /\ store'.active.amount = 0
    BY <1>2, <1>8 DEF SetActiveAuction, Stores
  <2>2. ShownSound'
    BY <1>1, <1>4, <1>5, <1>8, <2>1 DEF ShownSound
  <2>3. CreatedAddressed'
    BY <1>1, <1>8 DEF CreatedAddressed
  <2> QED BY <2>2, <2>3, <1>1, <1>2 DEF UrlSound
<1>9. CASE /\ Len(todo) = 3 /\ Len(todo') = 2 /\ CreatedLeft(n)'
           /\ store' = store /\ url' = n
  <2>1. ShownSound'
    BY <1>1, <1>4, <1>5, <1>9 DEF ShownSound
  <2>2. CreatedAddressed'
    BY <1>1, <1>9 DEF CreatedAddressed
  <2> QED BY <2>1, <2>2, <1>1, <1>2 DEF UrlSound
<1>10. CASE /\ Len(todo) = 2 /\ Len(todo') = 1 /\ CreatedLeft(n)'
            /\ store' = [store EXCEPT !.shown = n] /\ url' = url
  <2>1. /\ store'.shown = n /\ store'.past = store.past /\ store'.active = store.active
    BY <1>2, <1>10 DEF Stores
  <2>2. n <= n
    BY <1>2
  <2>3. ShownSound'
    BY <1>1, <1>5, <1>10, <2>1, <2>2 DEF ShownSound
  <2>4. ~astray => CreatedAddressed'
    BY <1>1, <1>7, <1>10, <2>1 DEF CreatedAddressed
  <2> QED BY <2>3, <2>4, <1>1, <1>2 DEF UrlSound
<1>11. CASE /\ Len(todo) = 1 /\ todo' = <<>> /\ store' = [store EXCEPT !.last = n]
            /\ url' = url /\ route' = route
  <2>1. /\ store'.shown = s /\ store'.past = store.past /\ store'.active = store.active
        /\ store'.last = n
    BY <1>2, <1>11 DEF Stores
  <2>2. (\A m : ~CreatedLeft(m))'
    BY <1>11, NothingCreatedThen
  <2>3. ShownSound'
    BY <1>1, <1>4, <1>5, <2>1, <2>2 DEF ShownSound
  <2>4. ASSUME ~astray PROVE Addressed'
    <3>1. url = n /\ (s = n \/ route = None)
      BY <1>7, <1>11, <2>4
    <3>2. CASE route = None
      BY <1>11, <2>1, <3>1, <3>2 DEF Addressed
    <3>3. CASE route # None /\ s = n
      <4>1. store'.active.id = n
        BY <1>11, <2>1 DEF CreatedLeft
      <4>2. Found'
        BY <2>1, <3>3, <4>1 DEF Found
      <4>3. (store.shown \in Nat /\ store.active.id \in Nat =>
              (Shown.id # None <=> Found))'
        BY ShownFound, PTL
      <4>4. Shown'.id # None
        BY <1>2, <2>1, <3>3, <4>1, <4>2, <4>3
      <4>5. Beyond(n) \/ route \in 0 .. n
        BY <1>2, <3>3 DEF Beyond
      <4>6. Beyond(n) => Beyond(store.last)'
        BY <1>11, <2>1 DEF Beyond
      <4> QED BY <1>11, <2>1, <3>1, <3>3, <4>4, <4>5, <4>6 DEF Addressed
    <3> QED BY <1>2, <3>1, <3>2, <3>3
  <2> QED BY <2>3, <2>4, <1>1, <1>2, <1>11 DEF UrlSound
<1> QED BY <1>8, <1>9, <1>10, <1>11, CreatedStep

-----------------------------------------------------------------------------

LEMMA PageStepRests ==
  ASSUME AuctionInv, SessionSound, ShownSound, UrlSound, AuctionInv',
         UNCHANGED chainVars, Page \/ Navigate
  PROVE  ShownSound' /\ UrlSound'
<1>1. store \in Stores /\ chain' = chain
  BY PageNumbers DEF chainVars
<1>2. CASE FetchAuction
  BY <1>2, FetchRests
<1>3. CASE QueryBids \/ Subscribe
  BY <1>3, DisplayRests DEF QueryBids, Subscribe
<1>4. CASE FetchPastAuctions
  <2>1. store' = [store EXCEPT !.past = DOMAIN chain] /\ todo = <<>> /\ query
        /\ UNCHANGED pageVars /\ load' = load /\ query' = FALSE
    BY <1>4 DEF FetchPastAuctions, AddPastAuctions
  <2>2. /\ store'.shown = store.shown /\ store'.last = store.last
        /\ store'.active = store.active
    BY <1>1, <2>1 DEF Stores
  <2>3. store.past \subseteq store'.past
    BY <2>1 DEF ShownSound
  <2> QED BY <2>1, <2>2, <2>3, DisplayRests
<1>5. ASSUME NEW e, Receive(e) PROVE ShownSound' /\ UrlSound'
  <2>1. e \in Events
    <3>1. PICK s \in {0, 1} : Taken(e, s)
      BY <1>5, ReceiveTakes DEF AuctionInv
    <3> QED BY <3>1 DEF Taken, SocketSound, AuctionInv
  <2>2. e.type \in {"bid", "created", "extended", "settled"}
    BY <2>1, EventFields
  <2>3. todo = <<>> /\ UNCHANGED <<load, query, route, url, astray, historyVars>>
    BY <1>5 DEF Receive
  <2>4. CASE e.type = "created"
    BY <1>5, <2>1, <2>3, <2>4, AnnouncedRests DEF Receive
  <2>5. CASE e.type # "created"
    <3>1. todo' = todo /\ (\/ store' = store
                           \/ store' = SetAuctionExtended(store, e)
                           \/ store' = SetAuctionSettled(store, e))
      BY <1>5, <2>2, <2>5 DEF Receive
    <3>2. /\ store'.shown = store.shown /\ store'.last = store.last
          /\ store'.past = store.past /\ store'.active.id = store.active.id
      <4>1. CASE store' = store
        BY <4>1
      <4>2. CASE store' = SetAuctionExtended(store, e)
        BY <1>1, <4>2 DEF SetAuctionExtended, Stores, AuctionRecs, NoAuction
      <4>3. CASE store' = SetAuctionSettled(store, e)
        BY <1>1, <4>3 DEF SetAuctionSettled, Stores, AuctionRecs, NoAuction
      <4> QED BY <3>1, <4>1, <4>2, <4>3
    <3> QED BY <2>3, <3>1, <3>2, DisplayRests DEF pageVars
  <2> QED BY <2>4, <2>5
<1>6. ASSUME NEW b \in blocks, ProcessBid(b) PROVE ShownSound' /\ UrlSound'
  <2>1. todo = <<>> /\ UNCHANGED pageVars /\ UNCHANGED <<load, query>>
        /\ (store' = store \/ store' = AppendBid(store, b))
    BY <1>6 DEF ProcessBid
  <2>2. /\ store'.shown = store.shown /\ store'.last = store.last
        /\ store'.past = store.past /\ store'.active.id = store.active.id
    <3>1. CASE store' = store
      BY <3>1
    <3>2. CASE ~AuctionsEqual(store, b) \/ b \in store.bids
      BY <2>1, <3>2 DEF AppendBid
    <3>3. CASE ~(~AuctionsEqual(store, b) \/ b \in store.bids)
               /\ store' = AppendBid(store, b)
      <4> DEFINE max == MaxBid(store.bids \cup {b})
      <4>1. store' = [store EXCEPT !.bids = @ \cup {b},
                                   !.active.amount = max.value,
                                   !.active.bidder = max.sender]
        BY <3>3 DEF AppendBid
      <4> HIDE DEF max
      <4> QED BY <1>1, <4>1 DEF Stores, AuctionRecs, NoAuction
    <3> QED BY <2>1, <3>1, <3>2, <3>3
  <2> QED BY <2>1, <2>2, DisplayRests
<1>7. CASE RunEffect
  BY <1>7, EffectRests
<1>8. CASE Dispatch
  <2>1. todo # <<>>
    BY <1>8 DEF Dispatch
  <2>2. KeyLeft \/ \E n \in DOMAIN chain : CreatedLeft(n)
    BY <2>1 DEF AuctionInv, StoreSound
  <2> QED BY <1>8, <2>2, KeyStepRests, CreatedStepRests
<1>9. CASE Navigate
  BY <1>9, ClickRests, ArrowRests DEF Navigate
<1> QED BY <1>2, <1>3, <1>4, <1>5, <1>6, <1>7, <1>8, <1>9 DEF Page

LEMMA DisplayStep ==
  ASSUME AuctionInv, SessionSound, ShownSound, UrlSound, AuctionNext
  PROVE  ShownSound' /\ UrlSound'
<1>1. AuctionInv'
  BY AuctionStep
<1>2. CASE PageStep
  BY <1>1, <1>2, PageStepRests DEF PageStep
<1>3. CASE House \/ MineBid
  <2>1. UNCHANGED <<loadVars, pageVars, store>>
    BY <1>3 DEF House, MineBid
  <2>2. DOMAIN chain \subseteq DOMAIN chain'
    BY <1>3, HouseGrows DEF ChainGrows
  <2> QED BY <1>1, <2>1, <2>2, OthersRest
<1>4. CASE FormStep \/ FormUpdate
  <2>1. UNCHANGED <<loadVars, pageVars, store>> /\ chain' = chain
    BY <1>4
    DEF FormStep, FormUpdate, FormOnly, chainVars,
        BidInputHandler, PlaceBidHandler, Sign, Reject, SettleAuctionHandler,
        Receipt, SuccessfulBid, SettleReceipt, CheckEnded
  <2> QED BY <1>1, <2>1, OthersRest
<1> QED BY <1>2, <1>3, <1>4 DEF AuctionNext

-----------------------------------------------------------------------------

LEMMA DisplayInit ==
  AuctionInit => ShownSound /\ UrlSound
<1> SUFFICES ASSUME AuctionInit PROVE ShownSound /\ UrlSound
  OBVIOUS
<1>1. /\ todo = <<>> /\ url = route /\ current = 1 /\ None = -1
      /\ route \in Int
  BY AuctionInvInit DEF AuctionInit, WebAuctionInit, SessionSound, None
<1>2. \A n : ~CreatedLeft(n)
  BY <1>1, NothingCreated
<1>3. CASE NotLoaded
  <2>1. load = "start" /\ store.shown = None /\ store.last = None /\ store.past = {}
    BY <1>3 DEF NotLoaded, InitialState
  <2>2. ShownSound
    BY <1>1, <1>2, <2>1 DEF ShownSound
  <2> QED BY <1>1, <2>1, <2>2 DEF UrlSound
<1>4. CASE Loaded
  <2>1. load = "live" /\ store.shown = None /\ store.last = 1 /\ store.past = {}
    BY <1>1, <1>4
    DEF Loaded, SetLastAuctionTokenId, SetFullAuction, InitialState
  <2>2. ShownSound
    BY <1>1, <1>2, <2>1 DEF ShownSound
  <2>3. Addressed
    <3>1. CASE route = None
      BY <1>1, <3>1 DEF Addressed
    <3>2. CASE route # None
      <4>1. Beyond(1) \/ route \in 0 .. 1
        BY <1>1, <3>2 DEF Beyond
      <4> QED BY <1>1, <2>1, <4>1 DEF Addressed
    <3> QED BY <1>1, <3>1, <3>2
  <2> QED BY <1>1, <2>1, <2>2, <2>3 DEF UrlSound
<1> QED BY <1>3, <1>4 DEF AuctionInit

LEMMA DisplayInvAlways ==
  Spec => [](ShownSound /\ UrlSound)
<1>1. Init => ShownSound /\ UrlSound
  BY DisplayInit DEF Init
<1>2. AuctionInv /\ SessionSound /\ ShownSound /\ UrlSound /\ [Next]_vars
        => ShownSound' /\ UrlSound'
  <2> SUFFICES ASSUME AuctionInv, SessionSound, ShownSound, UrlSound, [Next]_vars
               PROVE  ShownSound' /\ UrlSound'
    OBVIOUS
  <2>1. CASE AuctionNext
    BY <2>1, DisplayStep
  <2>2. CASE UNCHANGED bidVars
    <3>1. UNCHANGED <<chainVars, loadVars, pageVars, socket, store, historyVars, formVars>>
      BY <2>2 DEF bidVars
    <3>2. AuctionInv' /\ chain' = chain
      BY <3>1, AuctionRests DEF chainVars
    <3> QED BY <3>1, <3>2, OthersRest
  <2> QED
    BY <2>1, <2>2 DEF Next, vars, OnAuction, OnVote, OnList, OnCreate,
                      OnDelegate, OnActivity
<1> QED BY <1>1, <1>2, AuctionInvAlways, PTL DEF Spec

-----------------------------------------------------------------------------

LEMMA PageTyped ==
  ASSUME AuctionInv, SessionSound, ShownSound, BidFormSound
  PROVE  AuctionTypeOK
<1>1. /\ store.last \in {None} \cup DOMAIN chain
      /\ store.shown \in Nat \cup {None} /\ store.last \in Nat \cup {None}
      /\ DOMAIN chain \subseteq 1 .. LastAuction /\ None = -1 /\ LastAuction \in Nat
      /\ lost \subseteq DOMAIN chain
  <2>1. HouseSound /\ StoreSound
    BY DEF AuctionInv
  <2>2. DOMAIN chain \subseteq 1 .. current /\ current \in 1 .. LastAuction
        /\ lost \subseteq DOMAIN chain
    BY <2>1 DEF HouseSound
  <2>3. DOMAIN chain \subseteq 1 .. LastAuction
    BY <2>2, AuctionNumbers
  <2>4. store.last \in {None} \cup DOMAIN chain
    BY <2>1 DEF StoreSound
  <2> QED BY <2>2, <2>3, <2>4, PageNumbers, AuctionNumbers
<1>2. store.shown \in None .. LastAuction
  <2>1. CASE store.shown <= store.last
    BY <1>1, <2>1
  <2>2. CASE \E n \in DOMAIN chain : store.shown <= n
    BY <1>1, <2>2
  <2> QED BY <2>1, <2>2 DEF ShownSound
<1> QED BY <1>1, <1>2 DEF AuctionTypeOK, BidFormSound, SessionSound

LEMMA LastOnDisplay ==
  ASSUME AuctionInv
  PROVE  LastIsActive
<1> SUFFICES ASSUME todo = <<>>, IsLastAuction
             PROVE  /\ Shown = [store.active EXCEPT !.settled = FALSE]
                    /\ UseAuctionBids(store, Shown.id) = store.bids
  BY DEF LastIsActive
<1>1. StoreSound /\ store \in Stores
  BY DEF AuctionInv, StoreSound
<1>2. store.active.id = store.last
  BY <1>1, AtRest
<1>3. Shown.id = store.shown /\ Shown.id = store.last /\ store.shown # None
  BY <1>1, ShownAuction DEF IsLastAuction
<1>4. Shown = [store.active EXCEPT !.settled = FALSE]
  BY <1>2, <1>3 DEF Shown, UseOnDisplayAuction
<1> QED BY <1>3, <1>4 DEF UseAuctionBids

LEMMA AddressOnDisplay ==
  ASSUME AuctionInv, SessionSound, UrlSound
  PROVE  UrlIsShown
<1> SUFFICES ASSUME todo = <<>>, EffectsDone, ~astray,
                    store.last \notin {None, 0}, url # None
             PROVE  store.shown = url
  BY DEF UrlIsShown
<1>1. /\ load # "start" /\ store \in Stores /\ store.last \in Nat
      /\ route \in Int /\ None = -1
  BY PageNumbers
<1>2. Addressed
  BY <1>1, RestAddressed
<1>3. Effect = store.shown /\ (OutOfBounds => url = store.last)
  BY DEF EffectsDone
<1>4. CASE Beyond(store.last)
  BY <1>3, <1>4 DEF Effect, OutOfBounds, Beyond
<1>5. CASE route = None /\ url = store.last
  BY <1>3, <1>5 DEF Effect
<1>6. CASE route \in 0 .. store.last /\ url = route /\ store.shown = None
  <2>1. Shown.id = None
    BY <1>6 DEF Shown, UseOnDisplayAuction, NoAuction
  <2>2. route # None /\ ~OutOfBounds
    BY <1>1, <1>6 DEF OutOfBounds
  <2> QED BY <1>3, <1>6, <2>1, <2>2 DEF Effect
<1> QED BY <1>2, <1>4, <1>5, <1>6 DEF Addressed

\* The form rounds up, the auction house down.
LEMMA RoundedUp ==
  ASSUME NEW a \in Nat
  PROVE  ComputeMinimumNextBid(a, Percentage) \in Nat
         /\ ComputeMinimumNextBid(a, Percentage) >= a + (a * Percentage) \div 100
<1> DEFINE m == a * Percentage
<1>1. m \in Nat /\ Percentage \in Nat /\ Percentage # None
  BY AuctionNumbers DEF None
<1>2. a * (100 + Percentage) = 100 * a + m
  BY <1>1
<1>3. ComputeMinimumNextBid(a, Percentage) = (100 * a + m + 99) \div 100
  BY <1>1, <1>2 DEF ComputeMinimumNextBid
<1> HIDE DEF m
<1>4. /\ (100 * a + m + 99) \div 100 \in Nat
      /\ (100 * a + m + 99) \div 100 >= a + m \div 100
  BY <1>1
<1> QED BY <1>3, <1>4 DEF m

LEMMA MinimumOnDisplay ==
  ASSUME AuctionInv, SessionSound, ShownSound
  PROVE  MinimumIsEnough
<1> SUFFICES ASSUME Mounted, [store.active EXCEPT !.end = Auction.end] = Auction,
                    NEW v \in Reserve .. 2 * MaxValue,
                    v >= ComputeMinimumNextBid(Shown.amount, Percentage)
             PROVE  Acceptable(v)
  BY DEF MinimumIsEnough
<1>1. StoreSound /\ HouseSound /\ store \in Stores
  BY DEF AuctionInv, StoreSound
<1>2. Shown.id = store.last /\ Shown.id = store.shown /\ store.shown \in Nat
      /\ store.last # None
  BY <1>1, ShownAuction DEF Mounted, IsLastAuction
<1>3. load # "start" /\ store.active \in AuctionRecs /\ store.active.id # None
  <2>1. load # "start"
    BY <1>1, <1>2 DEF StoreSound
  <2> QED BY <1>1, <2>1 DEF StoreSound, AuctionRecs, None
<1>4. Auction.amount = store.active.amount /\ store.active.amount \in Nat
  BY <1>3 DEF AuctionRecs
<1>5. Shown.amount = store.active.amount
  <2>1. CASE store.shown = store.active.id
    <3>1. Shown = [store.active EXCEPT !.settled = FALSE]
      BY <1>2, <1>3, <2>1 DEF Shown, UseOnDisplayAuction, None
    <3> QED BY <1>3, <3>1 DEF AuctionRecs
  <2>2. CASE store.shown # store.active.id
    <3>1. PICK n \in DOMAIN chain : CreatedLeft(n)
      BY <1>1, <1>2, <2>2 DEF StoreSound
    <3>2. Len(todo) < 4
      BY <1>2, <2>2, <3>1 DEF CreatedLeft
    <3>3. store.active.amount = 0
      BY <3>1, <3>2 DEF ShownSound
    <3>4. Shown.amount = 0
      BY <1>2, <2>2 DEF Shown, UseOnDisplayAuction, EmptyAuction, NoAuction
    <3> QED BY <3>3, <3>4
  <2> QED BY <2>1, <2>2
<1>6. /\ ComputeMinimumNextBid(Auction.amount, Percentage) \in Nat
      /\ ComputeMinimumNextBid(Auction.amount, Percentage) >=
           Auction.amount + (Auction.amount * Percentage) \div 100
  BY <1>4, RoundedUp
<1>7. v \in Int /\ v >= Reserve /\ v >= ComputeMinimumNextBid(Auction.amount, Percentage)
  BY <1>4, <1>5, AuctionNumbers
<1>8. (Auction.amount * Percentage) \div 100 \in Int
  BY <1>4, AuctionNumbers
<1> DEFINE q == (Auction.amount * Percentage) \div 100
           c == ComputeMinimumNextBid(Auction.amount, Percentage)
<1> HIDE DEF q, c
<1>9. v >= Auction.amount + q
  <2>1. /\ c \in Nat /\ c >= Auction.amount + q /\ v >= c /\ q \in Int
        /\ Auction.amount \in Nat
    BY <1>4, <1>6, <1>7, <1>8 DEF q, c
  <2> QED BY <1>7, <2>1
<1> QED BY <1>7, <1>9 DEF Acceptable, q

\* The auction page: however the page was opened and the user got about it,
\* by clicks, keys, an address that does not exist or a new auction that is
\* announced in between, an effect in between of any dispatches, it shows an
\* existing auction, when it rests the one of its address, the last one as
\* the store has it; and a bid of the minimum that it asks for, once it has
\* read the percentage of the auction house, is accepted.
THEOREM PageShowsTheAuction == Spec => []AuctionShownRight
<1>1. AuctionInv /\ SessionSound /\ BidFormSound /\ ShownSound /\ UrlSound
        => AuctionShownRight
  <2> SUFFICES ASSUME AuctionInv, SessionSound, BidFormSound, ShownSound, UrlSound
               PROVE  AuctionShownRight
    OBVIOUS
  <2>1. ShownExists
    BY RestShown DEF ShownExists
  <2> QED
    BY <2>1, PageTyped, LastOnDisplay, AddressOnDisplay, MinimumOnDisplay
    DEF AuctionShownRight
<1> QED BY <1>1, AuctionInvAlways, BidInvAlways, DisplayInvAlways, PTL

-----------------------------------------------------------------------------
(* The logs of all blocks.  What is gathered range by range is proved by a  *)
(* smallest counterexample.                                                *)

\* A multiple of d leaves no remainder.
LEMMA NoRemainder ==
  ASSUME NEW q \in Nat, NEW d \in Nat \ {0}
  PROVE  (q * d) % d = 0
<1>1. /\ (q * d) \div d \in Int /\ (q * d) % d \in 0 .. d - 1 /\ q * d \in Nat
  OBVIOUS
<1>2. q * d = d * ((q * d) \div d) + ((q * d) % d)
  BY <1>1
<1>3. PICK p \in Int, m \in 0 .. d - 1 :
        p = (q * d) \div d /\ m = (q * d) % d /\ q * d = d * p + m
  BY <1>1, <1>2
<1>4. (q - p) * d = m
  BY <1>3
<1>5. CASE q - p >= 1
  <2>1. 1 * d <= (q - p) * d
    BY <1>5, TimesMonotone
  <2> QED BY <1>4, <2>1
<1>6. CASE q - p <= -1
  <2>1. (q - p) * d <= (-1) * d
    BY <1>6, TimesMonotone
  <2> QED BY <1>4, <2>1
<1>7. CASE q - p = 0
  BY <1>3, <1>4, <1>7
<1> QED BY <1>5, <1>6, <1>7

\* A non-empty set of naturals has a least element.
LEMMA LeastOf ==
  ASSUME NEW T \in SUBSET Nat, T # {}
  PROVE  \E x \in T : \A y \in T : x <= y
<1> DEFINE R == {ss \in Nat \X Nat : ss[1] < ss[2]}
<1>1. IsWellFoundedOn(R, Nat)
  BY NatLessThanWellFounded, Zenon DEF OpToRel
<1> HIDE DEF R
<1>2. PICK x \in T : \A y \in T : <<y, x>> \notin R
  BY <1>1, WFMin, Zenon
<1>3. \A y, z \in Nat : y < z => <<y, z>> \in R
  BY DEF R
<1>4. ASSUME NEW y \in T PROVE x <= y
  <2>1. ~(y < x)
    BY <1>2, <1>3
  <2> QED BY <2>1
<1> QED BY <1>4

\* FlattenSeq is a recursion over the length, whose steps these are.
Steps(s, n, f) ==
  f = [i \in 1 .. n |-> IF i = 1 THEN s[i] ELSE f[i - 1] \o s[i]]

LEMMA FlattenSteps ==
  ASSUME NEW s, s \in Seq(Seq(Nat)), Len(s) > 0
  PROVE  \E f : Steps(s, Len(s), f) /\ FlattenSeq(s) = f[Len(s)]
<1> DEFINE Bad == {n \in 1 .. Len(s) : ~\E f : Steps(s, n, f)}
<1>1. Len(s) \in Nat
  OBVIOUS
<1>0. /\ Bad \in SUBSET Nat
      /\ \A n \in 1 .. Len(s) : n \notin Bad => \E f : Steps(s, n, f)
      /\ \A n \in Bad : n \in 1 .. Len(s) /\ ~\E f : Steps(s, n, f)
  OBVIOUS
<1> HIDE DEF Bad
<1>2. Bad = {}
  <2> SUFFICES ASSUME Bad # {} PROVE FALSE
    OBVIOUS
  <2>1. PICK n \in Bad : \A m \in Bad : n <= m
    BY <1>0, LeastOf
  <2>2. n \in 1 .. Len(s) /\ ~\E f : Steps(s, n, f)
    BY <1>0, <2>1
  <2>3. CASE n = 1
    <3>1. Steps(s, n, [i \in 1 .. 1 |-> s[i]])
      BY <2>3 DEF Steps
    <3> QED BY <2>2, <3>1
  <2>4. CASE n > 1
    <3>1. n - 1 \in 1 .. Len(s) /\ n - 1 \notin Bad
      BY <1>1, <2>1, <2>2, <2>4
    <3>2. PICK g : Steps(s, n - 1, g)
      BY <1>0, <3>1
    <3> DEFINE f == [i \in 1 .. n |-> IF i < n THEN g[i] ELSE g[n - 1] \o s[n]]
    <3>3. ASSUME NEW i \in 1 .. n
          PROVE  f[i] = IF i = 1 THEN s[i] ELSE f[i - 1] \o s[i]
      <4>1. CASE i = n
        <5>1. n - 1 \in 1 .. n /\ n - 1 < n /\ n \in 1 .. n /\ ~(n < n)
          BY <1>1, <2>2, <2>4
        <5>2. f[n] = g[n - 1] \o s[n] /\ f[n - 1] = g[n - 1]
          BY <5>1
        <5> QED BY <2>4, <4>1, <5>2
      <4>2. CASE i < n
        <5>1. i \in 1 .. n - 1
          BY <1>1, <2>2, <4>2
        <5>2. g[i] = IF i = 1 THEN s[i] ELSE g[i - 1] \o s[i]
          BY <3>2, <5>1 DEF Steps
        <5>3. f[i] = g[i]
          BY <4>2
        <5>4. i # 1 => f[i - 1] = g[i - 1]
          BY <1>1, <2>2, <4>2
        <5> QED BY <5>2, <5>3, <5>4
      <4> QED BY <1>1, <2>2, <4>1, <4>2
    <3>4. f = [i \in 1 .. n |-> f[i]]
      OBVIOUS
    <3> HIDE DEF f
    <3>5. Steps(s, n, f)
      BY <3>3, <3>4 DEF Steps
    <3> QED BY <2>2, <3>5
  <2> QED BY <1>1, <2>2, <2>3, <2>4
<1>3. \E f : Steps(s, Len(s), f)
  <2>1. Len(s) \in 1 .. Len(s)
    BY <1>1
  <2> QED BY <1>0, <1>2, <2>1
<1>4. FlattenSeq(s) = (CHOOSE f : Steps(s, Len(s), f))[Len(s)]
  BY DEF FlattenSeq, Steps
<1> QED BY <1>3, <1>4

\* The proposals are created in order, and no block is later than the head.
CreatedSound ==
  /\ head \in Nat \ {0}
  /\ created \in Seq(Nat)
  /\ \A i \in DOMAIN created : created[i] <= head
  /\ \A i, j \in DOMAIN created : i <= j => created[i] <= created[j]

\* No proposal was created in a block that two ranges have in common.
Apart == \A i \in DOMAIN created : created[i] % MaxBlocksPerCall # 0

\* What the logs of a slice are: all up to block b, each at its place.
LogsRight(b, logs) ==
  /\ logs \in Seq(Nat)
  /\ \A i \in DOMAIN created : created[i] <= b => \E j \in DOMAIN logs : logs[j] = i
  /\ Apart => \A j \in DOMAIN logs : logs[j] = j

SliceSound ==
  /\ known \in 0 .. head
  /\ slice \in [listeners : {0, 1}, fetching : Int,
                results : [block : Int, error : BOOLEAN, logs : Seq(Nat)]]
  /\ slice.fetching \in -1 .. known
  /\ slice.results.block \in -1 .. slice.fetching
  /\ calls \subseteq 1 .. head
  /\ \A b \in calls : b <= slice.fetching
  /\ \/ slice.results = NoResults
     \/ slice.results.error
     \/ LogsRight(slice.results.block, slice.results.logs)

LogsInv == CreatedSound /\ SliceSound

\* The proposals up to a block are the first ones.
LEMMA FirstOnes ==
  ASSUME CreatedSound, NEW b \in Int
  PROVE  /\ CountUpTo(b) \in 0 .. Len(created)
         /\ \A i \in DOMAIN created : created[i] <= b <=> i <= CountUpTo(b)
<1> DEFINE l == Len(created)
           T == {n \in 1 .. l + 1 : n = l + 1 \/ created[n] > b}
<1>1. l \in Nat /\ DOMAIN created = 1 .. l
  BY DEF CreatedSound
<1>2. T \in SUBSET Nat /\ l + 1 \in T
  BY <1>1
<1>3. \A n : n \in T <=> n \in 1 .. l + 1 /\ (n = l + 1 \/ created[n] > b)
  OBVIOUS
<1> HIDE DEF T
<1>4. PICK m \in T : \A n \in T : m <= n
  BY <1>2, LeastOf
<1>5. m \in 1 .. l + 1 /\ m - 1 \in 0 .. l
  BY <1>1, <1>3
<1>6. \A i \in DOMAIN created : created[i] <= b <=> i <= m - 1
  <2> SUFFICES ASSUME NEW i \in DOMAIN created
               PROVE  created[i] <= b <=> i <= m - 1
    OBVIOUS
  <2>1. i \in 1 .. l /\ created[i] \in Nat
    BY <1>1 DEF CreatedSound
  <2>2. CASE i <= m - 1
    <3>1. i \notin T /\ i \in 1 .. l + 1 /\ i # l + 1
      BY <1>1, <1>4, <1>5, <2>1, <2>2
    <3> QED BY <1>3, <2>1, <2>2, <3>1
  <2>3. CASE i >= m
    <3>1. m \in 1 .. l /\ created[m] > b /\ created[m] \in Nat
      BY <1>1, <1>3, <1>4, <1>5, <2>1, <2>3 DEF CreatedSound
    <3>2. created[m] <= created[i]
      BY <1>1, <2>1, <2>3, <3>1 DEF CreatedSound
    <3> QED BY <1>5, <2>1, <2>3, <3>1, <3>2
  <2> QED BY <1>5, <2>1, <2>2, <2>3
<1>7. {i \in DOMAIN created : created[i] <= b} = 1 .. m - 1
  BY <1>1, <1>5, <1>6
<1>8. CountUpTo(b) = m - 1
  <2>1. Cardinality(1 .. m - 1) = m - 1
    BY <1>5, FS_Interval
  <2> QED BY <1>7, <2>1 DEF CountUpTo
<1> QED BY <1>1, <1>5, <1>6, <1>8

LEMMA CountsGrow ==
  ASSUME CreatedSound, NEW a \in Int, NEW b \in Int, a <= b
  PROVE  /\ CountUpTo(a) \in Nat /\ CountUpTo(b) \in Nat
         /\ CountUpTo(a) <= CountUpTo(b)
         /\ (\A i \in DOMAIN created : created[i] <= b => created[i] <= a)
              => CountUpTo(b) = CountUpTo(a)
<1>1. /\ CountUpTo(a) \in 0 .. Len(created) /\ CountUpTo(b) \in 0 .. Len(created)
      /\ Len(created) \in Nat /\ DOMAIN created = 1 .. Len(created)
      /\ \A i \in DOMAIN created : created[i] \in Nat
  <2>1. CountUpTo(a) \in 0 .. Len(created) /\ CountUpTo(b) \in 0 .. Len(created)
    BY FirstOnes
  <2>2. created \in Seq(Nat)
    BY DEF CreatedSound
  <2> QED BY <2>1, <2>2
<1>2. /\ \A i \in DOMAIN created : created[i] <= a <=> i <= CountUpTo(a)
      /\ \A i \in DOMAIN created : created[i] <= b <=> i <= CountUpTo(b)
  BY FirstOnes
<1> DEFINE m == CountUpTo(a)
           n == CountUpTo(b)
<1>3. m \in 0 .. Len(created) /\ n \in 0 .. Len(created)
  BY <1>1
<1>4. m > 0 => m \in DOMAIN created /\ created[m] <= a
  BY <1>1, <1>2
<1>5. n > 0 => n \in DOMAIN created /\ created[n] <= b
  BY <1>1, <1>2
<1>6. m <= n
  <2>1. CASE m = 0
    BY <1>3, <2>1
  <2>2. CASE m > 0
    <3>1. created[m] <= b
      BY <1>1, <1>4, <2>2
    <3> QED BY <1>2, <1>4, <2>2, <3>1
  <2> QED BY <1>3, <2>1, <2>2
<1>7. ASSUME \A i \in DOMAIN created : created[i] <= b => created[i] <= a
      PROVE  n <= m
  <2>1. CASE n = 0
    BY <1>3, <2>1
  <2>2. CASE n > 0
    BY <1>2, <1>5, <1>7, <2>2
  <2> QED BY <1>3, <2>1, <2>2
<1> QED BY <1>1, <1>3, <1>6, <1>7

\* What the ranges say up to the block t.
Gathered(logs, t) ==
  /\ logs \in Seq(Nat)
  /\ \A i \in 1 .. CountUpTo(t) : \E j \in DOMAIN logs : logs[j] = i
  /\ Apart => Len(logs) = CountUpTo(t) /\ \A j \in DOMAIN logs : logs[j] = j

LEMMA GatheredFirst ==
  ASSUME CreatedSound, NEW t \in Nat
  PROVE  Gathered(LogsBetween(0, t), t)
<1> DEFINE logs == LogsBetween(0, t)
           n == CountUpTo(t)
<1>1. n \in Nat /\ CountUpTo(0 - 1) = 0
  <2>1. n \in 0 .. Len(created) /\ CountUpTo(-1) \in 0 .. Len(created)
        /\ \A i \in DOMAIN created : created[i] <= -1 <=> i <= CountUpTo(-1)
    BY FirstOnes
  <2>2. created \in Seq(Nat) /\ \A i \in DOMAIN created : ~(created[i] <= -1)
    BY DEF CreatedSound
  <2>3. ~(CountUpTo(-1) > 0)
    <3>1. CountUpTo(-1) > 0 => CountUpTo(-1) \in DOMAIN created
      BY <2>1, <2>2
    <3> QED BY <2>1, <2>2, <3>1
  <2>4. 0 - 1 = -1
    OBVIOUS
  <2> QED BY <2>1, <2>2, <2>3, <2>4
<1> HIDE DEF n
<1>2. logs = [k \in 1 .. n |-> k]
  <2>1. logs = [k \in 1 .. n - 0 |-> 0 + k]
    BY <1>1 DEF LogsBetween, n
  <2>2. n - 0 = n /\ \A k \in 1 .. n : 0 + k = k
    BY <1>1
  <2> QED BY <2>1, <2>2
<1> HIDE DEF logs
<1>3. logs \in Seq(Nat) /\ DOMAIN logs = 1 .. n /\ Len(logs) = n
      /\ \A j \in 1 .. n : logs[j] = j
  BY <1>1, <1>2
<1> QED BY <1>3 DEF Gathered, logs, n

LEMMA Joined ==
  ASSUME NEW u \in Seq(Nat), NEW v \in Seq(Nat)
  PROVE  /\ u \o v \in Seq(Nat) /\ Len(u) \in Nat /\ Len(u \o v) = Len(u) + Len(v)
         /\ DOMAIN u = 1 .. Len(u) /\ DOMAIN (u \o v) = 1 .. Len(u \o v)
         /\ \A j \in 1 .. Len(u \o v) :
              (u \o v)[j] = IF j <= Len(u) THEN u[j] ELSE v[j - Len(u)]
OBVIOUS

LEMMA GatheredMore ==
  ASSUME CreatedSound, NEW f \in Nat, NEW t \in Nat, f <= t,
         f % MaxBlocksPerCall = 0,
         NEW logs, Gathered(logs, f)
  PROVE  Gathered(logs \o LogsBetween(f, t), t)
<1> DEFINE more == LogsBetween(f, t)
           a == CountUpTo(f - 1)
           m == CountUpTo(f)
           n == CountUpTo(t)
<1>1. /\ a \in Nat /\ m \in Nat /\ n \in Nat /\ a <= m /\ m <= n
  BY CountsGrow
<1>2. Apart => m = a
  <2> SUFFICES ASSUME Apart PROVE m = a
    OBVIOUS
  <2>1. ASSUME NEW i \in DOMAIN created, created[i] <= f PROVE created[i] <= f - 1
    <3>1. created[i] # f /\ created[i] \in Nat
      BY <2>1 DEF Apart, CreatedSound
    <3> QED BY <2>1, <3>1
  <2> QED BY <2>1, CountsGrow
<1>3. more = [k \in 1 .. n - a |-> a + k]
  BY DEF LogsBetween
<1>4. /\ logs \in Seq(Nat)
      /\ \A i \in 1 .. m : \E j \in DOMAIN logs : logs[j] = i
      /\ Apart => Len(logs) = m /\ \A j \in DOMAIN logs : logs[j] = j
  BY DEF Gathered
<1> HIDE DEF more, a, m, n
<1>5. more \in Seq(Nat) /\ Len(more) = n - a /\ \A k \in 1 .. n - a : more[k] = a + k
  BY <1>1, <1>3
<1> DEFINE l == Len(logs)
           all == logs \o more
<1>6. /\ l \in Nat /\ all \in Seq(Nat) /\ Len(all) = l + (n - a)
      /\ \A j \in 1 .. l : all[j] = logs[j]
      /\ \A k \in 1 .. n - a : all[l + k] = a + k
      /\ DOMAIN all = 1 .. l + (n - a) /\ DOMAIN logs = 1 .. l
  <2>1. /\ l \in Nat /\ all \in Seq(Nat) /\ Len(all) = l + Len(more)
        /\ \A j \in 1 .. Len(all) : all[j] = IF j <= l THEN logs[j] ELSE more[j - l]
        /\ DOMAIN logs = 1 .. l /\ DOMAIN all = 1 .. Len(all)
    BY <1>4, <1>5, Joined
  <2> HIDE DEF l, all
  <2>2. ASSUME NEW k \in 1 .. n - a PROVE all[l + k] = a + k
    <3>1. l + k \in 1 .. Len(all) /\ ~(l + k <= l) /\ (l + k) - l = k
      BY <1>1, <1>5, <2>1
    <3> QED BY <1>5, <2>1, <3>1
  <2>3. \A j \in 1 .. l : all[j] = logs[j]
    BY <1>1, <1>5, <2>1
  <2> QED BY <1>5, <2>1, <2>2, <2>3
<1> HIDE DEF l, all
<1>7. ASSUME NEW i \in 1 .. n PROVE \E j \in DOMAIN all : all[j] = i
  <2>1. CASE i <= m
    <3>1. PICK j \in 1 .. l : logs[j] = i
      BY <1>1, <1>4, <1>6, <2>1
    <3>2. j \in DOMAIN all
      BY <1>1, <1>6
    <3> QED BY <1>6, <3>1, <3>2
  <2>2. CASE i > m
    <3>1. i - a \in 1 .. n - a /\ a + (i - a) = i
      BY <1>1, <2>2
    <3>2. all[l + (i - a)] = i
      BY <1>6, <3>1
    <3>3. l + (i - a) \in DOMAIN all
      BY <1>1, <1>6, <3>1
    <3> QED BY <3>2, <3>3
  <2> QED BY <1>1, <2>1, <2>2
<1>8. ASSUME Apart PROVE Len(all) = n /\ \A j \in DOMAIN all : all[j] = j
  <2>1. l = m /\ m = a /\ \A j \in 1 .. l : logs[j] = j
    BY <1>2, <1>4, <1>6, <1>8 DEF l
  <2>2. ASSUME NEW j \in DOMAIN all PROVE all[j] = j
    <3>1. CASE j <= l
      BY <1>1, <1>6, <2>1, <3>1
    <3>2. CASE j > l
      <4>1. j - l \in 1 .. n - a /\ l + (j - l) = j /\ a + (j - l) = j
        BY <1>1, <1>6, <2>1, <3>2
      <4> QED BY <1>6, <4>1
    <3> QED BY <1>1, <1>6, <3>1, <3>2
  <2> QED BY <1>1, <1>6, <2>1, <2>2
<1> QED BY <1>6, <1>7, <1>8 DEF Gathered, all, more, n

\* The ranges of a call gather all logs up to its block, whatever the
\* number of blocks.
LEMMA GetLogsRight ==
  ASSUME CreatedSound, NEW b \in Nat
  PROVE  LogsRight(b, GetLogs(b))
<1> DEFINE M == MaxBlocksPerCall
           q == b \div M
           To(k) == Smaller((k - 1) * M + M, b)
           s == [i \in DOMAIN Ranges(b) |->
                   LogsBetween(Ranges(b)[i][1], Ranges(b)[i][2])]
<1>1. M \in Nat \ {0}
  BY WebLogsAssumption
<1>2. q \in Nat /\ q * M <= b /\ b < (q + 1) * M
  BY <1>1, Quotient
<1>3. Ranges(b) = [i \in 1 .. q + 1 |-> <<(i - 1) * M, To(i)>>]
  BY DEF Ranges
<1> HIDE DEF q, To, M
<1>4. DOMAIN s = 1 .. q + 1
      /\ \A i \in 1 .. q + 1 : s[i] = LogsBetween((i - 1) * M, To(i))
  BY <1>3
<1>5. ASSUME NEW i \in 1 .. q + 1
      PROVE  /\ (i - 1) * M \in Nat /\ (i - 1) * M <= b /\ To(i) \in Nat
             /\ (i - 1) * M <= To(i)
             /\ i > 1 => To(i - 1) = (i - 1) * M
             /\ i = q + 1 => To(i) = b
  <2>1. i - 1 \in Nat /\ i - 1 <= q
    BY <1>2
  <2>2. (i - 1) * M \in Nat /\ (i - 1) * M <= q * M /\ q * M \in Nat
    BY <1>1, <1>2, <2>1, TimesMonotone
  <2>3. ((i - 1) - 1) * M + M = (i - 1) * M /\ (q + 1) * M = q * M + M
    BY <1>1, <1>2, <2>1
  <2>4. (i - 1) * M <= b
    BY <1>2, <2>2
  <2>5. i > 1 => To(i - 1) = (i - 1) * M
    BY <1>1, <2>2, <2>3, <2>4 DEF To, Smaller
  <2>6. To(i) \in Nat /\ (i - 1) * M <= To(i)
    BY <1>1, <2>2, <2>4 DEF To, Smaller
  <2>7. i = q + 1 => To(i) = b
    <3> SUFFICES ASSUME i = q + 1 PROVE To(i) = b
      OBVIOUS
    <3>1. i - 1 = q
      BY <1>2
    <3>2. ~(q * M + M < b)
      BY <1>1, <1>2, <2>2, <2>3
    <3> QED BY <3>1, <3>2 DEF To, Smaller
  <2> QED BY <2>2, <2>4, <2>5, <2>6, <2>7
<1>6. ASSUME NEW x \in Nat, NEW y \in Nat PROVE LogsBetween(x, y) \in Seq(Nat)
  <2>1. /\ CountUpTo(x - 1) \in 0 .. Len(created) /\ CountUpTo(y) \in 0 .. Len(created)
    BY FirstOnes
  <2>2. Len(created) \in Nat
    BY DEF CreatedSound
  <2>3. CountUpTo(x - 1) \in Nat /\ CountUpTo(y) \in Nat
    BY <2>1, <2>2
  <2>4. PICK m \in Nat, n \in Nat : m = CountUpTo(x - 1) /\ n = CountUpTo(y)
    BY <2>3
  <2>5. LogsBetween(x, y) = [k \in 1 .. n - m |-> m + k]
    BY <2>4 DEF LogsBetween
  <2>6. CASE n - m \in Nat
    BY <2>5, <2>6
  <2>7. CASE n - m < 0
    <3>1. 1 .. n - m = 1 .. 0
      BY <2>7
    <3> QED BY <2>5, <3>1
  <2> QED BY <2>6, <2>7
<1>7. s \in Seq(Seq(Nat)) /\ Len(s) = q + 1
  <2>1. s \in [1 .. q + 1 -> Seq(Nat)]
    BY <1>4, <1>5, <1>6
  <2> QED BY <1>2, <2>1
<1> HIDE DEF s
<1>8. PICK f : Steps(s, q + 1, f) /\ FlattenSeq(s) = f[q + 1]
  <2>1. Len(s) > 0
    BY <1>2, <1>7
  <2>2. \E f : Steps(s, Len(s), f) /\ FlattenSeq(s) = f[Len(s)]
    BY <1>7, <2>1, FlattenSteps
  <2> QED BY <1>7, <2>2
<1>9. \A i \in 1 .. q + 1 : f[i] = IF i = 1 THEN s[i] ELSE f[i - 1] \o s[i]
  BY <1>8 DEF Steps
<1> DEFINE Bad == {n \in 1 .. q + 1 : ~Gathered(f[n], To(n))}
<1>10. /\ Bad \in SUBSET Nat
       /\ \A n : n \in Bad <=> n \in 1 .. q + 1 /\ ~Gathered(f[n], To(n))
  OBVIOUS
<1> HIDE DEF Bad
<1>11. Bad = {}
  <2> SUFFICES ASSUME Bad # {} PROVE FALSE
    OBVIOUS
  <2>1. PICK n \in Bad : \A m \in Bad : n <= m
    BY <1>10, LeastOf
  <2>2. n \in 1 .. q + 1 /\ ~Gathered(f[n], To(n))
    BY <1>10, <2>1
  <2>3. CASE n = 1
    <3>1. (1 - 1) * M = 0
      BY <1>1
    <3>2. f[1] = LogsBetween(0, To(1)) /\ To(1) \in Nat
      BY <1>4, <1>5, <1>9, <2>2, <2>3, <3>1
    <3> QED BY <2>2, <2>3, <3>2, GatheredFirst
  <2>4. CASE n > 1
    <3>1. n - 1 \in 1 .. q + 1 /\ n - 1 \notin Bad /\ n - 1 \in Nat
      BY <1>2, <2>1, <2>2, <2>4
    <3>2. Gathered(f[n - 1], (n - 1) * M)
      BY <1>5, <1>10, <2>2, <2>4, <3>1
    <3>3. f[n] = f[n - 1] \o LogsBetween((n - 1) * M, To(n))
      <4>1. f[n] = f[n - 1] \o s[n]
        <5>1. f[n] = IF n = 1 THEN s[n] ELSE f[n - 1] \o s[n]
          BY <1>9, <2>2, Zenon
        <5>2. n # 1
          BY <2>4
        <5> QED BY <5>1, <5>2, Zenon
      <4>2. s[n] = LogsBetween((n - 1) * M, To(n))
        BY <1>4, <2>2
      <4> QED BY <4>1, <4>2
    <3>4. ((n - 1) * M) % MaxBlocksPerCall = 0
      BY <1>1, <3>1, NoRemainder DEF M
    <3>5. (n - 1) * M \in Nat /\ To(n) \in Nat /\ (n - 1) * M <= To(n)
      BY <1>5, <2>2
    <3> QED BY <2>2, <3>2, <3>3, <3>4, <3>5, GatheredMore
  <2> QED BY <1>2, <2>2, <2>3, <2>4
<1>12. Gathered(GetLogs(b), b)
  <2>1. q + 1 \in 1 .. q + 1
    BY <1>2
  <2>2. GetLogs(b) = f[q + 1]
    BY <1>8 DEF GetLogs, s
  <2> QED BY <1>5, <1>10, <1>11, <2>1, <2>2
<1>13. ASSUME NEW i \in DOMAIN created, created[i] <= b
       PROVE  i \in 1 .. CountUpTo(b)
  <2>1. i \in Nat /\ i >= 1
    BY DEF CreatedSound
  <2>2. i <= CountUpTo(b) /\ CountUpTo(b) \in 0 .. Len(created) /\ Len(created) \in Nat
    BY <1>13, FirstOnes, SMTT(30) DEF CreatedSound
  <2> QED BY <2>1, <2>2
<1> QED BY <1>12, <1>13 DEF Gathered, LogsRight

\* Blocks that are mined change nothing about the logs of those before.
LEMMA MinedLater ==
  ASSUME CreatedSound, NEW events \in 0 .. 1, Mine(events)
  PROVE  /\ CreatedSound'
         /\ \A b \in Int : \A logs : b <= head /\ LogsRight(b, logs) => LogsRight(b, logs)'
<1>1. /\ head' = head + 1 /\ head \in Nat \ {0} /\ created \in Seq(Nat)
      /\ created' = created \o [i \in 1 .. events |-> head + 1]
  BY DEF Mine, CreatedSound
<1> DEFINE l == Len(created)
           new == [i \in 1 .. events |-> head + 1]
<1>2. /\ l \in Nat /\ DOMAIN created = 1 .. l
      /\ \A i \in 1 .. l : created[i] \in Nat /\ created[i] <= head
  BY <1>1, SMTT(30) DEF CreatedSound
<1>3. new \in Seq(Nat) /\ Len(new) = events
  BY <1>1
<1>4. /\ created' \in Seq(Nat) /\ Len(created') = l + events
      /\ DOMAIN created' = 1 .. l + events
      /\ \A i \in 1 .. l + events :
           created'[i] = IF i <= l THEN created[i] ELSE new[i - l]
  BY <1>1, <1>3, Joined
<1>5. \A i \in 1 .. l + events :
        created'[i] = IF i <= l THEN created[i] ELSE head + 1
  <2> SUFFICES ASSUME NEW i \in 1 .. l + events, ~(i <= l)
               PROVE  new[i - l] = head + 1
    BY <1>4
  <2>1. i - l \in 1 .. events
    BY <1>2
  <2> QED BY <2>1
<1> HIDE DEF l, new
<1>6. CreatedSound'
  <2>1. \A i \in 1 .. l + events : created'[i] <= head + 1
    BY <1>1, <1>2, <1>5
  <2>2. ASSUME NEW i \in 1 .. l + events, NEW j \in 1 .. l + events, i <= j
        PROVE  created'[i] <= created'[j]
    <3>1. CASE j <= l
      <4>1. i \in DOMAIN created /\ j \in DOMAIN created
        BY <1>2, <2>2, <3>1
      <4> QED BY <1>5, <2>2, <3>1, <4>1, <1>2 DEF CreatedSound
    <3>2. CASE ~(j <= l)
      BY <1>1, <1>2, <1>5, <2>1, <2>2, <3>2
    <3> QED BY <3>1, <3>2
  <2>3. \A i \in DOMAIN created' : created'[i] <= head'
    BY <1>1, <1>4, <2>1
  <2>4. \A i, j \in DOMAIN created' : i <= j => created'[i] <= created'[j]
    BY <1>4, <2>2
  <2>5. head' \in Nat \ {0}
    BY <1>1
  <2> QED BY <1>4, <2>3, <2>4, <2>5 DEF CreatedSound
<1>7. ASSUME NEW b \in Int, NEW logs, b <= head, LogsRight(b, logs)
      PROVE  LogsRight(b, logs)'
  <2>1. \A i \in 1 .. l : i \in 1 .. l + events /\ created'[i] = created[i]
    BY <1>2, <1>5
  <2>2. ASSUME NEW i \in DOMAIN created', created'[i] <= b
        PROVE  i \in DOMAIN created /\ created[i] <= b
    <3>1. i <= l
      BY <1>1, <1>2, <1>4, <1>5, <1>7, <2>2
    <3> QED BY <1>2, <1>4, <1>5, <2>2, <3>1
  <2>3. Apart' => Apart
    BY <1>2, <1>4, <2>1 DEF Apart
  <2> QED BY <1>7, <2>2, <2>3 DEF LogsRight
<1> QED BY <1>6, <1>7

LEMMA ResultsKept ==
  ASSUME UNCHANGED created, slice'.results = slice.results,
         LogsRight(slice.results.block, slice.results.logs)
  PROVE  LogsRight(slice.results.block, slice.results.logs)'
BY DEF LogsRight, Apart

LEMMA LogsInvInit ==
  LogsInit => LogsInv
<1> SUFFICES ASSUME LogsInit PROVE LogsInv
  OBVIOUS
<1>1. /\ created = <<>> /\ head = 1 /\ known = 0 /\ slice = NoSlice /\ calls = {}
  BY DEF LogsInit
<1>2. CreatedSound
  BY <1>1 DEF CreatedSound
<1>3. /\ slice.listeners = 0 /\ slice.fetching = -1 /\ slice.results = NoResults
      /\ slice.results.block = -1
      /\ slice \in [listeners : {0, 1}, fetching : Int,
                    results : [block : Int, error : BOOLEAN, logs : Seq(Nat)]]
  BY <1>1 DEF NoSlice, NoResults
<1> QED BY <1>1, <1>2, <1>3 DEF SliceSound, LogsInv

LEMMA LogsStep ==
  ASSUME LogsInv, LogsNext
  PROVE  LogsInv'
<1>1. /\ head \in Nat \ {0} /\ known \in 0 .. head
      /\ slice \in [listeners : {0, 1}, fetching : Int,
                    results : [block : Int, error : BOOLEAN, logs : Seq(Nat)]]
      /\ slice.fetching \in -1 .. known
      /\ slice.results.block \in -1 .. slice.fetching
      /\ calls \subseteq 1 .. head /\ \A b \in calls : b <= slice.fetching
      /\ \/ slice.results = NoResults
         \/ slice.results.error
         \/ LogsRight(slice.results.block, slice.results.logs)
  BY DEF LogsInv, CreatedSound, SliceSound
<1>2. ASSUME NEW events \in 0 .. 1, Mine(events) PROVE LogsInv'
  <2>1. /\ head' = head + 1 /\ known' = known /\ slice' = slice /\ calls' = calls
    BY <1>2 DEF Mine
  <2>2. /\ CreatedSound'
        /\ \A b \in Int : \A logs : b <= head /\ LogsRight(b, logs) => LogsRight(b, logs)'
    BY <1>2, MinedLater DEF LogsInv
  <2>3. LogsRight(slice.results.block, slice.results.logs)
          => LogsRight(slice.results.block, slice.results.logs)'
    <3> DEFINE b == slice.results.block
               logs == slice.results.logs
    <3>1. b \in Int /\ b <= head
      BY <1>1
    <3>2. b' = b /\ logs' = logs
      BY <2>1
    <3> HIDE DEF b, logs
    <3>3. LogsRight(b, logs) => LogsRight(b, logs)'
      BY <2>2, <3>1, <3>2 DEF LogsRight
    <3> QED BY <3>3 DEF b, logs
  <2>4. SliceSound'
    BY <1>1, <2>1, <2>3 DEF SliceSound
  <2> QED BY <2>2, <2>4 DEF LogsInv
<1>3. ASSUME UNCHANGED <<created, head>> PROVE CreatedSound'
  BY <1>3 DEF LogsInv, CreatedSound
<1>4. ASSUME UNCHANGED <<created, head>>, NEW b, NEW logs, LogsRight(b, logs)
      PROVE  /\ logs \in Seq(Nat)
             /\ \A i \in DOMAIN created' :
                  created'[i] <= b => \E j \in DOMAIN logs : logs[j] = i
             /\ Apart' => \A j \in DOMAIN logs : logs[j] = j
  BY <1>4 DEF LogsRight, Apart
<1>5. CASE NoticeBlock
  <2>1. /\ known' = head /\ UNCHANGED <<created, head, slice, calls>> /\ known < head
    BY <1>5 DEF NoticeBlock
  <2>2. SliceSound'
    BY <1>1, <2>1, ResultsKept DEF SliceSound
  <2> QED BY <1>3, <2>1, <2>2 DEF LogsInv
<1>6. CASE Mount \/ Unmount
  <2>1. /\ \/ slice' = AddListener(slice) /\ slice.listeners = 0
           \/ slice' = RemoveListener(slice) /\ slice.listeners = 1
        /\ UNCHANGED <<created, head, known, calls>>
    BY <1>6 DEF Mount, Unmount
  <2>2. /\ slice'.fetching = slice.fetching /\ slice'.results = slice.results
        /\ slice' \in [listeners : {0, 1}, fetching : Int,
                       results : [block : Int, error : BOOLEAN, logs : Seq(Nat)]]
    BY <1>1, <2>1 DEF AddListener, RemoveListener
  <2>3. SliceSound'
    BY <1>1, <2>1, <2>2, ResultsKept DEF SliceSound
  <2> QED BY <1>3, <2>1, <2>3 DEF LogsInv
<1>7. CASE Fetch
  <2>1. /\ slice' = [slice EXCEPT !.fetching = known] /\ calls' = calls \cup {known}
        /\ UNCHANGED <<created, head, known>> /\ known # 0 /\ slice.fetching < known
    BY <1>7 DEF Fetch, NeedsFetch, FetchingLogs
  <2>2. /\ slice'.fetching = known /\ slice'.results = slice.results
        /\ slice' \in [listeners : {0, 1}, fetching : Int,
                       results : [block : Int, error : BOOLEAN, logs : Seq(Nat)]]
    BY <1>1, <2>1, SMTT(30)
  <2>3. /\ calls' \subseteq 1 .. head /\ \A b \in calls' : b <= known
        /\ slice.results.block \in -1 .. known /\ known \in -1 .. known
    BY <1>1, <2>1
  <2>4. SliceSound'
    BY <1>1, <2>1, <2>2, <2>3, ResultsKept DEF SliceSound
  <2> QED BY <1>3, <2>1, <2>4 DEF LogsInv
<1>8. ASSUME NEW b \in calls, Answer(b) PROVE LogsInv'
  <2>1. /\ UNCHANGED <<created, head, known>> /\ calls' = calls \ {b}
        /\ \/ slice' = slice
           \/ slice' = [slice EXCEPT !.results =
                          [block |-> b, error |-> FALSE, logs |-> GetLogs(b)]]
           \/ slice' = [slice EXCEPT !.results =
                          [block |-> b, error |-> TRUE, logs |-> <<>>]]
    BY <1>8 DEF Answer, Fetched
  <2>2. b \in Nat /\ b \in -1 .. slice.fetching
    BY <1>1
  <2>3. LogsRight(b, GetLogs(b))
    BY <2>2, GetLogsRight DEF LogsInv
  <2>4. CASE slice' = slice
    <3>1. SliceSound'
      BY <1>1, <2>1, <2>4, ResultsKept DEF SliceSound
    <3> QED BY <1>3, <2>1, <3>1 DEF LogsInv
  <2>5. ASSUME NEW logs, logs \in Seq(Nat), NEW error \in BOOLEAN,
               error \/ LogsRight(b, logs),
               slice' = [slice EXCEPT !.results =
                           [block |-> b, error |-> error, logs |-> logs]]
        PROVE  LogsInv'
    <3>1. /\ slice'.fetching = slice.fetching /\ slice'.results.block = b
          /\ slice'.results.error = error /\ slice'.results.logs = logs
          /\ slice' \in [listeners : {0, 1}, fetching : Int,
                         results : [block : Int, error : BOOLEAN, logs : Seq(Nat)]]
      BY <1>1, <2>2, <2>5, SMTT(30)
    <3>2. \/ slice'.results.error
          \/ LogsRight(slice'.results.block, slice'.results.logs)
      BY <2>5, <3>1
    <3>3. \/ slice'.results.error
          \/ LogsRight(slice.results.block, slice.results.logs)'
      BY <1>4, <2>1, <3>2, ZenonT(60) DEF LogsRight
    <3>4. SliceSound'
      BY <1>1, <2>1, <2>2, <3>1, <3>3 DEF SliceSound
    <3> QED BY <1>3, <2>1, <3>4 DEF LogsInv
  <2>6. GetLogs(b) \in Seq(Nat) /\ <<>> \in Seq(Nat)
    BY <2>3 DEF LogsRight
  <2> QED BY <2>1, <2>3, <2>4, <2>5, <2>6
<1> QED BY <1>2, <1>5, <1>6, <1>7, <1>8, <1>1 DEF LogsNext

LEMMA LogsInvImplies ==
  LogsInv => LogsComplete
<1> SUFFICES ASSUME LogsInv PROVE LogsTypeOK /\ DescriptionsAligned /\ SyncedIsComplete
  BY DEF LogsComplete
<1>1. /\ head \in Nat \ {0} /\ known \in 0 .. head
      /\ slice.listeners \in {0, 1}
      /\ slice.fetching \in -1 .. known
      /\ slice.results.block \in -1 .. slice.fetching
      /\ calls \subseteq 1 .. head
      /\ \/ slice.results = NoResults
         \/ slice.results.error
         \/ LogsRight(slice.results.block, slice.results.logs)
  BY DEF LogsInv, CreatedSound, SliceSound
<1>2. ASSUME UseLogs \in {"SYNCED", "SYNCING"}
      PROVE  /\ LogsRight(slice.results.block, slice.results.logs)
             /\ UseLogs = "SYNCED" => slice.results.block >= known
  BY <1>1, <1>2 DEF UseLogs
<1>3. LogsTypeOK
  <2>1. UseLogs = "SYNCED" => slice.results.block = known
    BY <1>1, <1>2
  <2>2. slice.fetching \in -1 .. head
    BY <1>1
  <2> QED BY <1>1, <2>1, <2>2 DEF LogsTypeOK
<1>4. DescriptionsAligned
  <2> SUFFICES ASSUME Apart, NEW i \in Listed, NEW d \in Described(i)
               PROVE  d = i
    BY DEF DescriptionsAligned, Apart
  <2>1. ~Loading /\ \E j \in DOMAIN slice.results.logs \cap {i} : d = slice.results.logs[j]
    BY DEF Described
  <2>2. LogsRight(slice.results.block, slice.results.logs)
    BY <1>2, <2>1 DEF Loading
  <2> QED BY <2>1, <2>2 DEF LogsRight
<1>5. SyncedIsComplete
  <2> SUFFICES ASSUME UseLogs = "SYNCED", NEW i \in Listed
               PROVE  i \in ToSet(slice.results.logs)
    BY DEF SyncedIsComplete
  <2>1. LogsRight(slice.results.block, slice.results.logs) /\ slice.results.block = known
    BY <1>2, <1>3 DEF LogsTypeOK
  <2>2. \E j \in DOMAIN slice.results.logs : slice.results.logs[j] = i
    BY <2>1 DEF LogsRight, Listed
  <2> QED BY <2>2 DEF ToSet
<1> QED BY <1>3, <1>4, <1>5

\* The list of proposals without the subgraph (state/updaters/logs.ts):
\* whatever is mined, mounted, fetched and answered in whatever order, for any
\* number of blocks and of blocks per call, when the app says that it is
\* synced it has every proposal, and each is shown with its own description
\* unless two ranges share a block with a proposal.
THEOREM LogsOfAllBlocks == Spec => []LogsComplete
<1>1. Init => LogsInv
  BY LogsInvInit DEF Init
<1>2. LogsInv /\ [Next]_vars => LogsInv'
  <2> SUFFICES ASSUME LogsInv, [Next]_vars PROVE LogsInv'
    OBVIOUS
  <2>1. CASE LogsNext
    BY <2>1, LogsStep
  <2>2. CASE UNCHANGED logsVars
    <3>1. UNCHANGED <<created, head, known, slice, calls>>
      BY <2>2 DEF logsVars
    <3> QED BY <3>1 DEF LogsInv, CreatedSound, SliceSound, LogsRight, Apart
  <2> QED
    BY <2>1, <2>2 DEF Next, vars, OnAuction, OnVote, OnList, OnCreate,
                      OnDelegate, OnActivity
<1> QED BY <1>1, <1>2, LogsInvImplies, PTL DEF Spec
=============================================================================
