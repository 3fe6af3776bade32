------------------------------- MODULE WebApp -------------------------------
(***************************************************************************)
(* The web app (packages/punks-webapp/src/App.tsx): the auction page, the  *)
(* list of proposals with the delegation dialog, the page of a proposal    *)
(* and the page that creates one.  App shows one page at a time, and what  *)
(* a page keeps is gone when another one is opened, so a behaviour is      *)
(* about one of them and the others rest.  The history that the auction    *)
(* page has below a past punk shares no state with the rest of it and      *)
(* counts as a page of its own.                                            *)
(***************************************************************************)
EXTENDS WebBid, WebVote, WebLogs, WebPropose, WebDelegate,
        WebActivity

VARIABLE page

vars == <<page, bidVars, voteVars, logsVars, proposeVars, delegateVars,
          activityVars>>

\* What a session is for, and the punk it looks at, matter to one page each.
Init ==
  /\ page \in {"auction", "list", "vote", "create", "delegate", "activity"}
  /\ AuctionInit /\ VoteInit /\ LogsInit /\ ProposeInit /\ DelegateInit
  /\ ActivityInit
  /\ page # "auction" => user = "bids"
  /\ page # "vote" => card.visit = "reads"
  /\ page # "activity" => punk.nounder /\ punk.nextKnown /\ graph.proposals = <<>>

\* A step of one page.
OnAuction(A) ==
  /\ page = "auction" /\ A
  /\ UNCHANGED <<page, voteVars, logsVars, proposeVars, delegateVars,
                 activityVars>>
OnVote(A) ==
  /\ page = "vote" /\ A
  /\ UNCHANGED <<page, bidVars, logsVars, proposeVars, delegateVars,
                 activityVars>>
OnList(A) ==
  /\ page = "list" /\ A
  /\ UNCHANGED <<page, bidVars, voteVars, proposeVars, delegateVars,
                 activityVars>>
OnCreate(A) ==
  /\ page = "create" /\ A
  /\ UNCHANGED <<page, bidVars, voteVars, logsVars, delegateVars,
                 activityVars>>
OnDelegate(A) ==
  /\ page = "delegate" /\ A
  /\ UNCHANGED <<page, bidVars, voteVars, logsVars, proposeVars,
                 activityVars>>
OnActivity(A) ==
  /\ page = "activity" /\ A
  /\ UNCHANGED <<page, bidVars, voteVars, logsVars, proposeVars, delegateVars>>

Next ==
  \/ OnAuction(AuctionNext)
  \/ OnVote(VoteNext)
  \/ OnList(LogsNext)
  \/ OnCreate(ProposeNext)
  \/ OnDelegate(DelegateNext)
  \/ OnActivity(ActivityNext)

\* The auction page and the list of proposals go on: time passes, effects
\* and timers run, receipts and answers come.  These steps are finitely
\* many, so that none of them waits forever.
Progress ==
  \/ OnAuction(AuctionProgress)
  \/ OnList(LogsProgress)

Spec == Init /\ [][Next]_vars /\ WF_vars(Progress)

=============================================================================
