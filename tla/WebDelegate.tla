---------------------------- MODULE WebDelegate -----------------------------
(***************************************************************************)
(* The dialog of the web app that delegates votes (packages/punks-webapp/  *)
(* src/components/DelegationModal, ChangeDelegatePannel, Delegation-       *)
(* CandidateInfo), for a user with DAOpunks and one OG CryptoPunk.  What   *)
(* is typed is looked up as a name without waiting; while the DAOpunks'    *)
(* votes are being delegated the OG CryptoPunk's may be, and both end by   *)
(* resetting the panel.                                                    *)
(***************************************************************************)
EXTENDS Integers, FiniteSets

CONSTANTS
  Accounts,        \* valid addresses
  Names,           \* other texts
  ResolveName,     \* text -> address, or NoOne if there is none
  Balance,         \* DAOpunks of the user
  MaxTyped,        \* bound on changes of the text
  MaxDelegations   \* bound on transactions

NoOne == ""        \* the empty text, which is no address either

ASSUME WebDelegateAssumption ==
  /\ \A n \in {Balance, MaxTyped, MaxDelegations} : n \in Nat
  /\ Balance > 0
  /\ NoOne \notin Accounts \cup Names
  /\ ResolveName \in [Accounts \cup Names -> Accounts \cup {NoOne}]
  /\ \A a \in Accounts : ResolveName[a] = a

VARIABLES
  panel,       \* changeDelegateState
  text, target,    \* delegateInputText and delegateAddress
  lookups,     \* texts whose names are being looked up
  willHave,    \* willHaveVoteCount of DelegationCandidateInfo
  delegate,    \* on the chain: to whom the user's DAOpunks are delegated
  votes,       \* votes the app has read: Balance is counted for this account
  token,       \* status of the delegation of DAOpunks and its delegatee
  og,          \* the same for the OG CryptoPunk
  typed, sends,    \* so far
  overtaken    \* history: an answer came for a text that was not the last

delegateVars == <<panel, text, target, lookups, willHave, delegate, votes,
                  token, og, typed, sends, overtaken>>

NoTransfer == [status |-> "None", to |-> NoOne, new |-> FALSE,
               resets |-> FALSE]
IsAddress(t) == t \in Accounts

-----------------------------------------------------------------------------
(* The input.                                                              *)

\* setDelegateAddress: the effect looks a new value up.  resolveName("")
\* finds nothing.
SetDelegateAddress(t) ==
  /\ target' = t
  /\ lookups' = IF t \in {target, NoOne} THEN lookups ELSE lookups \cup {t}

TypeText(t) ==
  /\ panel # "CHANGE_FAILURE"
  /\ t # text /\ typed < MaxTyped
  /\ typed' = typed + 1
  /\ text' = t
  /\ SetDelegateAddress(t)
  /\ overtaken' = FALSE
  /\ UNCHANGED <<panel, willHave, delegate, votes, token, og, sends>>

\* Variant: what is found is not used.
ResolvedIgnored(t) ==
  /\ t \in lookups
  /\ lookups' = lookups \ {t}
  /\ UNCHANGED <<panel, text, target, willHave, delegate, votes, token, og,
                 typed, sends, overtaken>>

\* checkIsValidENS goes on.
Resolved(t) ==
  /\ t \in lookups
  /\ LET found == ResolveName[t] IN
     IF found = NoOne
     THEN lookups' = lookups \ {t} /\ UNCHANGED <<target, overtaken>>
     ELSE /\ target' = found
          /\ lookups' = IF found = target THEN lookups \ {t}
                        ELSE (lookups \ {t}) \cup {found}
          /\ overtaken' = (overtaken \/ t # target)
  /\ UNCHANGED <<panel, text, willHave, delegate, votes, token, og, typed,
                 sends>>

-----------------------------------------------------------------------------
(* DelegationCandidateInfo.                                                *)

\* countDelegatedNouns: who has the user's votes has Balance, by what the
\* app read last; votes of others are left out.
CountDelegated(account) ==
  IF IsAddress(account) /\ votes = account THEN Balance ELSE 0

\* The effect.  A count that is there is not changed while the state is.
CountVotes ==
  IF panel = "ENTER_DELEGATE_ADDRESS" THEN 0
  ELSE IF willHave > 0 THEN willHave
  ELSE CountDelegated(target) + Balance

RunCandidateEffect ==
  /\ willHave # CountVotes
  /\ willHave' = CountVotes
  /\ UNCHANGED <<panel, text, target, lookups, delegate, votes, token, og,
                 typed, sends, overtaken>>

\* useAccountVotes is read with every block.
ReadVotes ==
  /\ votes # delegate
  /\ votes' = delegate
  /\ UNCHANGED <<panel, text, target, lookups, willHave, delegate, token, og,
                 typed, sends, overtaken>>

-----------------------------------------------------------------------------
(* ChangeDelegatePannel.                                                   *)

\* handleDelegateVotes.  The button looks disabled for the current delegate
\* and is not; `new` is history: the panel is in its first state, the
\* delegate is another one, the app knows the current one, and the input is
\* not changed before the signature.  One delegation of DAOpunks at a time.
\* The button of CHANGE_SUCCESS is never disabled and does not reset the
\* panel afterwards; ethers looks a name up when it sends.
DelegateVotes ==
  /\ panel \in {"ENTER_DELEGATE_ADDRESS", "CHANGE_SUCCESS"}
  /\ panel = "ENTER_DELEGATE_ADDRESS" => IsAddress(target)
  /\ token = NoTransfer /\ sends < MaxDelegations
  /\ sends' = sends + 1
  /\ token' = [status |-> "PendingSignature",
               to |-> IF target = NoOne THEN NoOne ELSE ResolveName[target],
               new |-> /\ panel = "ENTER_DELEGATE_ADDRESS"
                       /\ target # delegate /\ votes = delegate,
               resets |-> panel = "ENTER_DELEGATE_ADDRESS"]
  /\ UNCHANGED <<panel, text, target, lookups, willHave, delegate, votes, og,
                 typed, overtaken>>

TokenMining ==
  /\ token.status = "PendingSignature" /\ IsAddress(token.to)
  /\ token' = [token EXCEPT !.status = "Mining",
                            !.new = @ /\ target = token.to]
  /\ panel' = "CHANGING"
  /\ UNCHANGED <<text, target, lookups, willHave, delegate, votes, og, typed,
                 sends, overtaken>>

TokenMined ==
  /\ token.status = "Mining"
  /\ token' = [token EXCEPT !.status = "mined"]
  /\ delegate' = token.to
  /\ UNCHANGED <<panel, text, target, lookups, willHave, votes, og, typed,
                 sends, overtaken>>

\* The effect on delegateState sets `outcome`, and handleResetDelegate runs
\* after it, unless there is nothing to clear: then its first update is the
\* one of the panel, and the effect runs after that.
HandleResetDelegate(outcome) ==
  /\ panel' = IF text = NoOne /\ target = NoOne THEN outcome
              ELSE "ENTER_DELEGATE_ADDRESS"
  /\ text' = NoOne /\ target' = NoOne
  /\ UNCHANGED <<lookups, overtaken>>

Ended(outcome) ==
  IF token.resets THEN HandleResetDelegate(outcome)
  ELSE panel' = outcome /\ UNCHANGED <<text, target, lookups, overtaken>>

TokenDone ==
  /\ \/ token.status = "mined" /\ Ended("CHANGE_SUCCESS")
     \/ /\ token.status \in {"PendingSignature", "Mining"}
        /\ Ended("CHANGE_FAILURE")
  /\ token' = NoTransfer
  /\ UNCHANGED <<willHave, delegate, votes, og, typed, sends>>

\* handleDelegateOgPunk.  Only in the first state an address is asked for.
DelegateOgPunk ==
  /\ panel # "CHANGE_FAILURE"
  /\ panel = "ENTER_DELEGATE_ADDRESS" => IsAddress(target)
  /\ og = NoTransfer /\ sends < MaxDelegations
  /\ sends' = sends + 1
  /\ og' = [NoTransfer EXCEPT !.status = "PendingSignature", !.to = target]
  /\ UNCHANGED <<panel, text, target, lookups, willHave, delegate, votes,
                 token, typed, overtaken>>

\* Its end, of whatever kind, resets the panel as well; there is no effect
\* on delegateOgPunksState.
OgDone ==
  /\ og # NoTransfer
  /\ og' = NoTransfer
  /\ HandleResetDelegate("ENTER_DELEGATE_ADDRESS")
  /\ UNCHANGED <<willHave, delegate, votes, token, typed, sends>>

-----------------------------------------------------------------------------
DelegateInit ==
  /\ panel = "ENTER_DELEGATE_ADDRESS"
  /\ text = NoOne /\ target = NoOne /\ lookups = {}
  /\ willHave = 0
  /\ delegate = NoOne /\ votes = NoOne
  /\ token = NoTransfer /\ og = NoTransfer
  /\ typed = 0 /\ sends = 0
  /\ overtaken = FALSE

\* React runs the effects of one rendering before it renders again.
DelegateNext ==
  \/ RunCandidateEffect
  \/ /\ willHave = CountVotes
     /\ \/ \E t \in Accounts \cup Names \cup {NoOne} : TypeText(t)
        \/ \E t \in lookups : Resolved(t)
        \/ ReadVotes
        \/ DelegateVotes \/ TokenMining \/ TokenMined \/ TokenDone
        \/ DelegateOgPunk \/ OgDone

-----------------------------------------------------------------------------
(* Properties                                                              *)

DelegateTypeOK ==
  /\ panel \in {"ENTER_DELEGATE_ADDRESS", "CHANGING", "CHANGE_SUCCESS",
                "CHANGE_FAILURE"}
  /\ target \in Accounts \cup Names \cup {NoOne}
  /\ IsAddress(delegate) \/ delegate = NoOne
  /\ token.status \in {"Mining", "mined"} => IsAddress(token.to)

\* When all names are looked up, votes go to the account whose address or
\* name is in the input, unless an answer for an earlier text came late and
\* replaced it.
TargetIsTyped ==
  lookups = {} /\ ~overtaken /\ text \in DOMAIN ResolveName
  /\ ResolveName[text] # NoOne => target = ResolveName[text]

\* While votes are being delegated, "Will have" counts them once, although
\* the app may read the delegate's new votes before it hears that the
\* transaction is done, unless they were the delegate's already, the
\* input was changed before the transaction was signed, or the delegation
\* was started from the panel that reported the success of the last one.
VotesCountedOnce ==
  panel = "CHANGING" /\ token.new => willHave \in {0, Balance}

\* The panel delegates to whom the user typed and counts the votes right.
DelegatePanelExact == DelegateTypeOK /\ TargetIsTyped /\ VotesCountedOnce
=============================================================================
