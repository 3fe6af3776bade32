----------------------------- MODULE WebPropose -----------------------------
(***************************************************************************)
(* The page that creates a proposal (packages/punks-webapp/src/pages/      *)
(* CreateProposal) with the form that adds a transaction to it             *)
(* (components/ProposalTransactionFormModal).                              *)
(*                                                                         *)
(* The ABI of a contract is fetched from Etherscan without waiting for it, *)
(* or read from a file; an ABI is the set of its functions' signatures.    *)
(* The arguments are modelled by the signature they fit, and calldata by   *)
(* the arguments that it encodes.                                          *)
(***************************************************************************)
EXTENDS Integers, Sequences, FiniteSets

CONSTANTS
  Addresses,       \* contracts
  AbiOf,           \* address -> signatures of its functions
  FileAbi,         \* signatures in a file of the user
  MaxFetches,      \* bound on the ABIs that are fetched
  MaxTransactions, \* bound on the transactions of the proposal
  MaxProposes      \* bound on propose()

Blank == ""            \* of a field that is not filled in
Functions == (UNION {AbiOf[a] : a \in Addresses}) \cup FileAbi

ASSUME WebProposeAssumption ==
  /\ \A n \in {MaxFetches, MaxTransactions, MaxProposes} : n \in Nat
  /\ Blank \notin Addresses \cup Functions

VARIABLES
  txForm,        \* the form
  fetches,       \* bag, as a sequence, of the ABIs on their way
  fetched,       \* number of fetches so far
  list,          \* proposalTransactions
  described,     \* are title and body there
  proposing,     \* isProposePending
  proposes,      \* status of every propose()
  live           \* on the chain: has the user a pending or active proposal

proposeVars ==
  <<txForm, fetches, fetched, list, described, proposing, proposes, live>>

NoAbi == {Blank}          \* abi is undefined
Placeholder == "Select Contract Function"

NewForm ==
  [show |-> FALSE, step |-> 0, address |-> Blank, value |-> Blank, func |-> Blank,
   args |-> Blank, abi |-> NoAbi]

-----------------------------------------------------------------------------
(* The form.                                                               *)

FormUnchanged ==
  UNCHANGED <<fetched, list, described, proposing, proposes, live>>

OpenForm ==
  /\ ~txForm.show /\ Len(list) < MaxTransactions
  /\ txForm' = [txForm EXCEPT !.show = TRUE]
  /\ FormUnchanged /\ UNCHANGED fetches

\* clearState, after onHide.
HideForm ==
  /\ txForm.show
  /\ txForm' = NewForm
  /\ FormUnchanged /\ UNCHANGED fetches

\* The fields, each on its step.  "odd" is a value that BigNumber reads and
\* parseEther does not.
SetField(step, field, values) ==
  /\ txForm.show /\ txForm.step = step
  /\ \E v \in values \ {txForm[field]} :
       txForm' = [txForm EXCEPT ![field] = v]
  /\ FormUnchanged /\ UNCHANGED fetches

\* The placeholder is an option too, with its text as its value.
SetAddress == SetField(0, "address", Addresses)
SetValue == SetField(1, "value", {"odd", "ether"})
SetFunction ==
  txForm.abi # NoAbi /\ SetField(2, "func", txForm.abi \cup {Placeholder})
SetArguments == SetField(3, "args", Functions)

\* _encodeParams throws for a function that the ABI does not have and for
\* arguments that do not fit; without an ABI it is not called.
Encodes(f) == f.func \in f.abi /\ f.args = f.func
Throws(f) == f.abi # NoAbi /\ ~Encodes(f)

ArgumentsValidator(f) == f.func = Blank \/ Encodes(f)

\* The button "Next".  On the first step the validator starts a fetch.
StepForward ==
  /\ txForm.show /\ txForm.step < 4
  /\ CASE txForm.step = 0 ->
            /\ txForm.address \in Addresses
            /\ fetched < MaxFetches
            /\ fetched' = fetched + 1
            /\ fetches' = Append(fetches, AbiOf[txForm.address])
       [] txForm.step = 3 ->
            ArgumentsValidator(txForm) /\ UNCHANGED <<fetches, fetched>>
       [] OTHER -> UNCHANGED <<fetches, fetched>>
  /\ txForm' = [txForm EXCEPT !.step = @ + 1]
  /\ UNCHANGED <<list, described, proposing, proposes, live>>

StepBackwards ==
  /\ txForm.show /\ txForm.step > 0
  /\ txForm' = [txForm EXCEPT !.step = @ - 1]
  /\ FormUnchanged /\ UNCHANGED fetches

Without(s, i) == SubSeq(s, 1, i - 1) \o SubSeq(s, i + 1, Len(s))

\* Variant: a failed fetch takes the ABI away.
PopulateABIClearing(i) ==
  /\ fetches' = Without(fetches, i)
  /\ \/ txForm' = [txForm EXCEPT !.abi = fetches[i]]
     \/ txForm' = [txForm EXCEPT !.abi = NoAbi]
  /\ FormUnchanged

\* populateABIIfExists goes on: whatever the form is about by now, even
\* when it was cleared, it gets the ABI.  A failed fetch changes no ABI.
PopulateABIIfExists(i) ==
  /\ fetches' = Without(fetches, i)
  /\ \/ txForm' = [txForm EXCEPT !.abi = fetches[i]]
     \/ UNCHANGED txForm
  /\ FormUnchanged

\* validateAndSetABI: reader.onload comes later as well.
ValidateAndSetABI ==
  /\ txForm.show /\ txForm.step = 2
  /\ fetched < MaxFetches
  /\ fetched' = fetched + 1
  /\ fetches' = Append(fetches, FileAbi)
  /\ UNCHANGED <<txForm, list, described, proposing, proposes, live>>

\* `(func && abi?._encodeParams(...)) || '0x'`
CalldataOf(f) == IF f.func = Blank \/ f.abi = NoAbi THEN "0x" ELSE f.args

\* The last step: parseEther and _encodeParams may throw, and then nothing
\* happens.  handleAddProposalAction adds the prefix 0x, which is left out.
AddTransaction ==
  /\ txForm.show /\ txForm.step = 4
  /\ txForm.value # "odd"
  /\ txForm.func # Blank => ~Throws(txForm)
  /\ list' = Append(list, [address |-> txForm.address,
                           signature |-> txForm.func,
                           calldata |-> CalldataOf(txForm)])
  /\ txForm' = NewForm
  /\ UNCHANGED <<fetches, fetched, described, proposing, proposes, live>>

HandleRemoveProposalAction(i) ==
  /\ ~txForm.show
  /\ list' = Without(list, i)
  /\ UNCHANGED <<txForm, fetches, fetched, described, proposing, proposes,
                 live>>

-----------------------------------------------------------------------------
(* The proposal.                                                           *)

HandleDescription ==
  /\ ~txForm.show
  /\ described' = ~described
  /\ UNCHANGED <<txForm, fetches, fetched, list, proposing, proposes, live>>

\* The button is not disabled while a transaction is under way, and that
\* the user has a live proposal is not noticed: the subgraph's proposer is
\* in lower case and the account is not.
HandleCreateProposal ==
  /\ ~txForm.show
  /\ list # <<>> /\ described
  /\ Len(proposes) < MaxProposes
  /\ proposes' = Append(proposes, "PendingSignature")
  /\ UNCHANGED <<txForm, fetches, fetched, list, described, proposing, live>>

\* The effect on proposeState, which is the state of the last change.
ProposePending(status) == status = "Mining"

ProposeState(i, status) ==
  /\ proposes' = [proposes EXCEPT ![i] = status]
  /\ proposing' = ProposePending(status)
  /\ UNCHANGED <<txForm, fetches, fetched, list, described>>

ProposeStep(i) ==
  \/ /\ proposes[i] = "PendingSignature"
     /\ \/ ProposeState(i, "Mining")
        \/ ProposeState(i, "Exception")
     /\ UNCHANGED live
  \/ /\ proposes[i] = "Mining"
     /\ IF live THEN ProposeState(i, "Fail") /\ UNCHANGED live
        ELSE ProposeState(i, "Success") /\ live' = TRUE

ProposeInit ==
  /\ txForm = NewForm /\ fetches = <<>> /\ fetched = 0
  /\ list = <<>> /\ described = FALSE
  /\ proposing = FALSE /\ proposes = <<>> /\ live = FALSE

ProposeNext ==
  \/ OpenForm \/ HideForm
  \/ SetAddress \/ SetValue \/ SetFunction \/ SetArguments
  \/ StepForward \/ StepBackwards
  \/ \E i \in DOMAIN fetches : PopulateABIIfExists(i)
  \/ ValidateAndSetABI
  \/ AddTransaction
  \/ \E i \in DOMAIN list : HandleRemoveProposalAction(i)
  \/ HandleDescription
  \/ HandleCreateProposal
  \/ \E i \in DOMAIN proposes : ProposeStep(i)

-----------------------------------------------------------------------------
(* Properties                                                              *)

ProposeTypeOK ==
  /\ txForm.step \in 0 .. 4
  /\ txForm.step > 0 => txForm.address \in Addresses
  /\ txForm.func \in Functions \cup {Blank, Placeholder}
  /\ \A i \in DOMAIN list : list[i].address \in Addresses
  /\ proposing \in BOOLEAN /\ live \in BOOLEAN

\* Whatever ABI comes when, of this address or of another one, from
\* Etherscan or from a file, the calldata of a transaction in the proposal
\* are arguments of the function it calls: a function is never called with
\* empty or foreign calldata, and no calldata is sent without a function.
CalldataFits ==
  \A i \in DOMAIN list :
    list[i].calldata = IF list[i].signature = Blank THEN "0x"
                       ELSE list[i].signature

\* The button shows a spinner only while a transaction is under way, also
\* when the user proposes twice.
ProposeSpinnerReal ==
  proposing => \E i \in DOMAIN proposes : proposes[i] = "Mining"

\* The form proposes what the user put together.
ProposeFormExact == ProposeTypeOK /\ CalldataFits /\ ProposeSpinnerReal
=============================================================================
