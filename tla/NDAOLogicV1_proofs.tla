------------------------ MODULE NDAOLogicV1_proofs --------------------------
(***************************************************************************)
(* Proofs about NDAOLogicV1 and its timelock for every set of accounts,    *)
(* electorates, proposals and calls, every depth of nested executions and  *)
(* every length of the periods.                                            *)
(*                                                                         *)
(* A failing execution puts back the storage that its frame saved, so the  *)
(* invariants are operators on a storage, claimed for the storage there is *)
(* and for every storage saved.                                            *)
(***************************************************************************)
EXTENDS NDAOLogicV1, FiniteSetTheorems, WellFoundedInduction, TLAPS

-----------------------------------------------------------------------------
(* The timelock                                                            *)

\* What is queued has been announced, every announcement gives at least
\* MINIMUM_DELAY, and what has run was announced, had come of age, and is no
\* longer queued.
TimelockSound(t, now) ==
  /\ t \in TimelockStorage
  /\ t.delay \in MinimumDelay .. MaximumDelay
  /\ \A tx \in t.queued : \E s \in t.since : s.tx = tx
  /\ \A s \in t.since : s.at <= now /\ s.at + MinimumDelay <= s.tx.eta
  /\ \A i \in DOMAIN t.ran :
       /\ t.ran[i].tx \notin t.queued
       /\ t.ran[i].tx.eta <= t.ran[i].at
       /\ t.ran[i].at <= now
       /\ \E s \in t.since : s.tx = t.ran[i].tx
  /\ \A i, j \in DOMAIN t.ran : t.ran[i].tx = t.ran[j].tx => i = j

LEMMA SeqElement ==
  ASSUME NEW S, NEW s \in Seq(S), NEW i \in DOMAIN s
  PROVE  s[i] \in S
OBVIOUS

LEMMA RanType ==
  ASSUME NEW t \in TimelockStorage, NEW i \in DOMAIN t.ran
  PROVE  /\ t.ran[i].tx \in Transaction /\ t.ran[i].tx.eta \in Nat
         /\ t.ran[i].at \in Nat
<1>1. t.ran \in Seq([tx : Transaction, at : Nat])
  BY DEF TimelockStorage
<1>2. t.ran[i] \in [tx : Transaction, at : Nat]
  BY <1>1, SeqElement
<1> QED BY <1>2 DEF Transaction

LEMMA TimelockSoundLater ==
  ASSUME NEW t, NEW now \in Nat, NEW later \in Nat, now <= later,
         TimelockSound(t, now)
  PROVE  TimelockSound(t, later)
<1>1. \A s \in t.since : s.at \in Nat
  BY DEF TimelockSound, TimelockStorage
<1>2. \A i \in DOMAIN t.ran : t.ran[i].at \in Nat
  BY RanType DEF TimelockSound
<1> QED BY <1>1, <1>2 DEF TimelockSound

\* Any number of calls of queueTransaction with an eta that respects the
\* delay.
LEMMA QueuingIsSound ==
  ASSUME NEW t, NEW new \in SUBSET Transaction, timestamp \in Nat,
         TimelockSound(t, timestamp),
         \A tx \in new : tx.eta >= timestamp + t.delay
  PROVE  TimelockSound([t EXCEPT !.queued = @ \cup new,
                                 !.since = @ \cup {Entry(tx) : tx \in new}],
                       timestamp)
<1> DEFINE u == [t EXCEPT !.queued = @ \cup new,
                          !.since = @ \cup {Entry(tx) : tx \in new}]
<1>1. /\ t \in TimelockStorage /\ MinimumDelay \in Nat /\ MinimumDelay > 0
      /\ t.delay \in Nat /\ t.delay >= MinimumDelay
  BY NDAOExecutorAssumption DEF TimelockSound
<1>2. \A tx \in new : Entry(tx) \in [tx : Transaction, at : Nat]
  BY DEF Entry
<1>3. u \in TimelockStorage
  BY <1>1, <1>2 DEF TimelockStorage
<1>4. /\ u.queued = t.queued \cup new
      /\ u.since = t.since \cup {Entry(tx) : tx \in new}
      /\ u.ran = t.ran /\ u.delay = t.delay
  BY <1>1 DEF TimelockStorage
<1>5. ASSUME NEW tx \in u.queued PROVE \E s \in u.since : s.tx = tx
  <2>1. CASE tx \in t.queued
    BY <1>4, <2>1 DEF TimelockSound
  <2>2. CASE tx \in new
    <3>1. Entry(tx) \in u.since
      BY <1>4, <2>2
    <3> QED BY <3>1 DEF Entry
  <2> QED BY <1>4, <2>1, <2>2
<1>6. ASSUME NEW s \in u.since PROVE s.at <= timestamp /\ s.at + MinimumDelay <= s.tx.eta
  <2>1. CASE s \in t.since
    BY <2>1 DEF TimelockSound
  <2>2. ASSUME NEW tx \in new, s = Entry(tx) PROVE s.at <= timestamp /\ s.at + MinimumDelay <= s.tx.eta
    <3>1. s.at = timestamp /\ s.tx = tx /\ tx.eta \in Nat
      BY <2>2 DEF Entry, Transaction
    <3> QED BY <3>1, <1>1
  <2> QED BY <1>4, <2>1, <2>2
<1>7. ASSUME NEW i \in DOMAIN t.ran PROVE t.ran[i].tx \notin new
  <2>1. t.ran[i].tx.eta <= timestamp
    <3>1. /\ t.ran[i].tx.eta <= t.ran[i].at /\ t.ran[i].at <= timestamp
      BY DEF TimelockSound
    <3> QED BY <3>1, <1>1, RanType
  <2>2. \A tx \in new : tx.eta \in Nat /\ tx.eta > timestamp
    BY <1>1 DEF Transaction
  <2> QED BY <2>1, <2>2
<1>8. \A i \in DOMAIN u.ran :
        /\ u.ran[i].tx \notin u.queued
        /\ u.ran[i].tx.eta <= u.ran[i].at
        /\ u.ran[i].at <= timestamp
        /\ \E s \in u.since : s.tx = u.ran[i].tx
  BY <1>4, <1>7 DEF TimelockSound
<1>9. \A i, j \in DOMAIN u.ran : u.ran[i].tx = u.ran[j].tx => i = j
  BY <1>4 DEF TimelockSound
<1> HIDE DEF u
<1>10. TimelockSound(u, timestamp)
  BY <1>3, <1>4, <1>5, <1>6, <1>8, <1>9 DEF TimelockSound
<1> QED BY <1>10 DEF u

\* Any number of calls of cancelTransaction.
LEMMA CancelingIsSound ==
  ASSUME NEW t, NEW gone, TimelockSound(t, timestamp)
  PROVE  TimelockSound([t EXCEPT !.queued = @ \ gone], timestamp)
<1> DEFINE u == [t EXCEPT !.queued = @ \ gone]
<1>1. u \in TimelockStorage
  BY DEF TimelockStorage, TimelockSound
<1>2. /\ u.queued = t.queued \ gone
      /\ u.since = t.since /\ u.ran = t.ran /\ u.delay = t.delay
  BY DEF TimelockStorage, TimelockSound
<1> HIDE DEF u
<1>3. TimelockSound(u, timestamp)
  BY <1>1, <1>2 DEF TimelockSound
<1> QED BY <1>3 DEF u

\* executeTransaction up to the call.
LEMMA RunningIsSound ==
  ASSUME NEW t, NEW sender, NEW tx, timestamp \in Nat,
         TimelockSound(t, timestamp), CanRun(t, sender, tx)
  PROVE  TimelockSound(Run(t, tx), timestamp)
<1> DEFINE u == Run(t, tx)
<1>1. tx \in Transaction /\ tx \in t.queued /\ tx.eta <= timestamp /\ tx.eta \in Nat
  BY DEF CanRun, TimelockSound, TimelockStorage, Transaction
<1>2. Entry(tx) \in [tx : Transaction, at : Nat] /\ Entry(tx).tx = tx /\ Entry(tx).at = timestamp
  BY <1>1 DEF Entry
<1>3. /\ u.queued = t.queued \ {tx}
      /\ u.ran = Append(t.ran, Entry(tx))
      /\ u.since = t.since /\ u.delay = t.delay
  BY DEF Run, TimelockStorage, TimelockSound
<1>5. t.ran \in Seq([tx : Transaction, at : Nat])
  BY DEF TimelockStorage, TimelockSound
<1>4. u \in TimelockStorage
  <2>1. Append(t.ran, Entry(tx)) \in Seq([tx : Transaction, at : Nat])
    BY <1>2, <1>5
  <2>2. t \in TimelockStorage
    BY DEF TimelockSound
  <2> QED BY <2>1, <2>2 DEF Run, TimelockStorage
<1>6. /\ DOMAIN u.ran = 1 .. Len(t.ran) + 1
      /\ u.ran[Len(t.ran) + 1] = Entry(tx)
      /\ \A i \in 1 .. Len(t.ran) : u.ran[i] = t.ran[i]
      /\ DOMAIN t.ran = 1 .. Len(t.ran) /\ Len(t.ran) \in Nat
  BY <1>2, <1>3, <1>5
<1>7. \A i \in DOMAIN t.ran : t.ran[i].tx # tx
  BY <1>1 DEF TimelockSound
<1> HIDE DEF u
<1>8. ASSUME NEW i \in DOMAIN u.ran
      PROVE  /\ u.ran[i].tx \notin u.queued
             /\ u.ran[i].tx.eta <= u.ran[i].at
             /\ u.ran[i].at <= timestamp
             /\ \E s \in u.since : s.tx = u.ran[i].tx
  <2>1. CASE i \in DOMAIN t.ran
    BY <2>1, <1>3, <1>6 DEF TimelockSound
  <2>2. CASE i = Len(t.ran) + 1
    <3>1. \E s \in t.since : s.tx = tx
      BY <1>1 DEF TimelockSound
    <3> QED BY <2>2, <3>1, <1>1, <1>2, <1>3, <1>6
  <2> QED BY <2>1, <2>2, <1>6
<1>9. ASSUME NEW i \in DOMAIN u.ran, NEW j \in DOMAIN u.ran, u.ran[i].tx = u.ran[j].tx
      PROVE  i = j
  <2>1. CASE i \in DOMAIN t.ran /\ j \in DOMAIN t.ran
    BY <2>1, <1>9, <1>6 DEF TimelockSound
  <2>2. CASE i \in DOMAIN t.ran /\ j = Len(t.ran) + 1
    BY <2>2, <1>9, <1>2, <1>6, <1>7
  <2>3. CASE j \in DOMAIN t.ran /\ i = Len(t.ran) + 1
    BY <2>3, <1>9, <1>2, <1>6, <1>7
  <2> QED BY <2>1, <2>2, <2>3, <1>6
<1>10. TimelockSound(u, timestamp)
  BY <1>3, <1>4, <1>8, <1>9 DEF TimelockSound
<1> QED BY <1>10 DEF u

\* A call of the timelock to itself touches neither queue nor history, keeps
\* the delay in its range and never makes the DAO the admin again.
LEMMA SelfCallIsSound ==
  ASSUME NEW t, NEW c \in Calls, TimelockSound(t, timestamp),
         c.fn \in SelfCalls => CanSelfCall(t, c)
  PROVE  LET u == TimelockAfter(t, c) IN
           /\ TimelockSound(u, timestamp)
           /\ u.queued = t.queued /\ u.ran = t.ran
           /\ u.admin = DAO => t.admin = DAO
<1> DEFINE u == TimelockAfter(t, c)
<1>0. t \in TimelockStorage
  BY DEF TimelockSound
<1>1. /\ u \in TimelockStorage
      /\ u.delay \in MinimumDelay .. MaximumDelay
      /\ u.queued = t.queued /\ u.since = t.since /\ u.ran = t.ran
      /\ u.admin = DAO => t.admin = DAO
  <2>1. CASE c.fn \notin SelfCalls
    BY <2>1 DEF TimelockAfter, TimelockSound
  <2>2. CASE c.fn = "setDelay"
    <3>1. u = [t EXCEPT !.delay = c.arg] /\ c.arg \in MinimumDelay .. MaximumDelay
      BY <2>2 DEF TimelockAfter, SelfCall, SelfCalls, CanSelfCall
    <3>2. c.arg \in Nat
      BY <3>1, NDAOExecutorAssumption
    <3> QED BY <3>1, <3>2, <1>0 DEF TimelockStorage
  <2>3. CASE c.fn = "setPendingAdmin"
    <3>1. u = [t EXCEPT !.pendingAdmin = c.arg] /\ c.arg \in Address
      BY <2>3, NDAOExecutorAssumption DEF TimelockAfter, SelfCall, SelfCalls
    <3>2. t.delay \in MinimumDelay .. MaximumDelay
      BY DEF TimelockSound
    <3> QED BY <3>1, <3>2, <1>0 DEF TimelockStorage
  <2>4. CASE c.fn = "acceptAdmin"
    <3>1. u = [t EXCEPT !.admin = Executor, !.pendingAdmin = Zero]
      BY <2>4 DEF TimelockAfter, SelfCall, SelfCalls
    <3>2. t.delay \in MinimumDelay .. MaximumDelay
      BY DEF TimelockSound
    <3> QED BY <3>1, <3>2, <1>0, NDAOExecutorAssumption DEF TimelockStorage, Address
  <2> QED BY <2>1, <2>2, <2>3, <2>4 DEF SelfCalls
<1> HIDE DEF u
<1>2. TimelockSound(u, timestamp)
  BY <1>1 DEF TimelockSound
<1> QED BY <1>1, <1>2 DEF u

\* What the runs check of the timelock follows.
LEMMA TimelockSoundSuffices ==
  ASSUME TimelockSound(timelock, timestamp)
  PROVE  RunsOnceInTime
<1>1. timelock \in TimelockStorage /\ MinimumDelay \in Nat
  BY NDAOExecutorAssumption DEF TimelockSound
<1>2. NothingRunsTwice
  BY DEF TimelockSound, NothingRunsTwice
<1>3. ASSUME NEW r \in Range(timelock.ran)
      PROVE  /\ \E s \in timelock.since : s.tx = r.tx
             /\ \A s \in timelock.since : s.tx = r.tx => s.at + MinimumDelay <= r.at
  <2>1. PICK i \in DOMAIN timelock.ran : r = timelock.ran[i]
    BY DEF Range
  <2>3. r.tx.eta \in Nat /\ r.at \in Nat /\ r.tx.eta <= r.at
    BY <2>1, <1>1, RanType DEF TimelockSound
  <2>4. ASSUME NEW s \in timelock.since, s.tx = r.tx PROVE s.at + MinimumDelay <= r.at
    <3>1. s.at \in Nat /\ s.at + MinimumDelay <= r.tx.eta
      BY <1>1, <2>4 DEF TimelockSound, TimelockStorage
    <3> QED BY <3>1, <2>3, <1>1
  <2>5. \E s \in timelock.since : s.tx = r.tx
    BY <2>1 DEF TimelockSound
  <2> QED BY <2>4, <2>5
<1> QED BY <1>2, <1>3 DEF RunsOnceInTime, NothingRunsEarly

-----------------------------------------------------------------------------
(* The proposals                                                           *)

DaoStorage ==
  [proposals : [Ids -> Proposal], proposalCount : Ids,
   latestProposalIds : [Accounts -> Ids],
   admin : Address, pendingAdmin : Address, vetoer : Address,
   votingDelay : MinVotingDelay .. MaxVotingDelay,
   votingPeriod : MinVotingPeriod .. MaxVotingPeriod,
   proposalThresholdBPS : ThresholdBPSRange,
   quorumVotesBPS : QuorumBPSRange]

\* The vote on p is over at block b, and p has won it.
Won(p, b) ==
  /\ b > p.startBlock /\ b > p.endBlock
  /\ p.forVotes > p.againstVotes /\ p.forVotes >= p.quorumVotes

\* p is pending or active at block b.
Open(p, b) ==
  /\ ~p.vetoed /\ ~p.canceled
  /\ b <= p.startBlock \/ b <= p.endBlock

\* Only a proposal that has won is queued, only one that is queued, and is
\* neither canceled nor vetoed, is executed.
OutcomeSound(p, b) ==
  /\ p.eta # 0 => Won(p, b)
  /\ p.executed => p.eta # 0 /\ ~p.canceled /\ ~p.vetoed

\* The slot of id 0 can be vetoed, but neither voted on nor queued.
Blank(p) ==
  p.startBlock = 0 /\ p.endBlock = 0 /\ p.forVotes = 0 /\ p.eta = 0

DaoSound(d, b) ==
  /\ d \in DaoStorage
  /\ Blank(d.proposals[0])
  /\ \A id \in Ids : OutcomeSound(d.proposals[id], b)
  /\ \A id \in 1 .. d.proposalCount :
       /\ d.proposals[id].proposer \in Accounts
       /\ Open(d.proposals[id], b)
            => d.latestProposalIds[d.proposals[id].proposer] = id

LEMMA IdsType == MaxProposals \in Nat /\ Ids = 0 .. MaxProposals /\ 0 \in Ids
BY NDAOLogicV1Assumption DEF Ids

LEMMA DaoSoundLater ==
  ASSUME NEW d, NEW b \in Nat, DaoSound(d, b)
  PROVE  DaoSound(d, b + 1)
<1>1. ASSUME NEW id \in Ids
      PROVE  /\ d.proposals[id].startBlock \in Nat
             /\ d.proposals[id].endBlock \in Nat
  <2>1. d.proposals[id] \in Proposal
    BY DEF DaoSound, DaoStorage
  <2> QED BY <2>1 DEF Proposal
<1>2. \A id \in Ids : OutcomeSound(d.proposals[id], b + 1)
  BY <1>1 DEF DaoSound, OutcomeSound, Won
<1>3. d.proposalCount \in Ids
  BY DEF DaoSound, DaoStorage
<1>4. \A id \in 1 .. d.proposalCount :
        Open(d.proposals[id], b + 1) => Open(d.proposals[id], b)
  BY <1>1, <1>3, IdsType DEF Open
<1> QED BY <1>2, <1>4 DEF DaoSound

\* What state() tells about a proposal.
LEMMA StateFacts ==
  ASSUME NEW d, NEW id, NEW p \in Proposal, p = d.proposals[id], block \in Nat
  PROVE  /\ State(d, id) = "Active" =>
              block > p.startBlock /\ block <= p.endBlock /\ Open(p, block)
         /\ State(d, id) = "Succeeded" => Won(p, block) /\ p.eta = 0
         /\ State(d, id) = "Queued" =>
              /\ Won(p, block) /\ p.eta # 0 /\ ~p.executed
              /\ ~p.canceled /\ ~p.vetoed
         /\ OutcomeSound(p, block) /\ p.executed => State(d, id) = "Executed"
         /\ OutcomeSound(p, block) /\ p.eta # 0 /\ ~p.canceled /\ ~p.vetoed
              /\ ~p.executed => State(d, id) \in {"Queued", "Expired"}
         /\ State(d, id) \in {"Pending", "Active"} <=> Open(p, block)
<1>1. /\ p.startBlock \in Nat /\ p.endBlock \in Nat /\ p.forVotes \in Nat
      /\ p.againstVotes \in Nat /\ p.quorumVotes \in Nat
  BY DEF Proposal
<1>2. State(d, id) = "Active" =>
        block > p.startBlock /\ block <= p.endBlock /\ Open(p, block)
  BY <1>1 DEF State, Open
<1>3. State(d, id) = "Succeeded" => Won(p, block) /\ p.eta = 0
  BY <1>1 DEF State, Won
<1>4. State(d, id) = "Queued" =>
        /\ Won(p, block) /\ p.eta # 0 /\ ~p.executed
        /\ ~p.canceled /\ ~p.vetoed
  BY <1>1 DEF State, Won
<1>5. OutcomeSound(p, block) /\ p.executed => State(d, id) = "Executed"
  BY <1>1 DEF State, OutcomeSound, Won
<1>6. OutcomeSound(p, block) /\ p.eta # 0 /\ ~p.canceled /\ ~p.vetoed
        /\ ~p.executed => State(d, id) \in {"Queued", "Expired"}
  BY <1>1 DEF State, OutcomeSound, Won
<1>7. State(d, id) \in {"Pending", "Active"} <=> Open(p, block)
  BY <1>1 DEF State, Open
<1> QED BY <1>2, <1>3, <1>4, <1>5, <1>6, <1>7

\* A call that rewrites one proposal, which it does not reopen.
LEMMA OneProposalChanges ==
  ASSUME NEW d, NEW b \in Nat, DaoSound(d, b), NEW id \in Ids,
         NEW q \in Proposal, OutcomeSound(q, b),
         q.proposer = d.proposals[id].proposer,
         Open(q, b) => Open(d.proposals[id], b),
         id = 0 => Blank(q)
  PROVE  DaoSound([d EXCEPT !.proposals[id] = q], b)
<1> DEFINE e == [d EXCEPT !.proposals[id] = q]
<1>1. d \in DaoStorage
  BY DEF DaoSound
<1>2. e \in DaoStorage
  BY <1>1 DEF DaoStorage
<1>3. /\ e.proposals = [d.proposals EXCEPT ![id] = q]
      /\ e.proposalCount = d.proposalCount
      /\ e.latestProposalIds = d.latestProposalIds
  BY <1>1 DEF DaoStorage
<1>4. /\ \A i \in Ids : e.proposals[i] = IF i = id THEN q ELSE d.proposals[i]
      /\ d.proposalCount \in Ids
  BY <1>1, <1>3 DEF DaoStorage
<1> HIDE DEF e
<1>5. Blank(e.proposals[0])
  BY <1>4, IdsType DEF DaoSound
<1>6. \A i \in Ids : OutcomeSound(e.proposals[i], b)
  BY <1>4 DEF DaoSound
<1>7. ASSUME NEW i \in 1 .. e.proposalCount
      PROVE  /\ e.proposals[i].proposer \in Accounts
             /\ Open(e.proposals[i], b)
                  => e.latestProposalIds[e.proposals[i].proposer] = i
  <2>1. i \in Ids /\ i \in 1 .. d.proposalCount
    BY <1>3, <1>4, IdsType
  <2>2. e.proposals[i].proposer = d.proposals[i].proposer
    BY <2>1, <1>4
  <2>3. Open(e.proposals[i], b) => Open(d.proposals[i], b)
    BY <2>1, <1>4
  <2> QED BY <2>1, <2>2, <2>3, <1>3 DEF DaoSound
<1>8. DaoSound(e, b)
  BY <1>2, <1>5, <1>6, <1>7 DEF DaoSound
<1> QED BY <1>8 DEF e

-----------------------------------------------------------------------------
(* Timelock, proposals and executions together                             *)

\* tx waits in the timelock for the proposal p with this id: p is not
\* executed, or one of the n executions fs that are under way has yet to
\* reach tx.
Waiting(p, id, tx, fs, n) ==
  /\ tx \in Txs(p)
  /\ p.eta # 0 /\ ~p.canceled /\ ~p.vetoed
  /\ p.executed => \E k \in 1 .. n, i \in DOMAIN p.actions :
                     fs[k].id = id /\ fs[k].next <= i /\ tx = Tx(p, i)

\* As long as the DAO rules the timelock, what has run belongs to an executed
\* proposal and what is queued waits for one.
JointSound(t, d, fs, n) ==
  t.admin = DAO =>
    /\ \A i \in DOMAIN t.ran : \E id \in 1 .. d.proposalCount :
         t.ran[i].tx \in Txs(d.proposals[id]) /\ d.proposals[id].executed
    /\ \A tx \in t.queued : \E id \in 1 .. d.proposalCount :
         Waiting(d.proposals[id], id, tx, fs, n)

\* The proposals of the executions under way are marked as executed.
Marked(d, fs, n) ==
  \A k \in 1 .. n : /\ fs[k].id \in 1 .. d.proposalCount
                    /\ d.proposals[fs[k].id].executed

StoresSound(t, d, fs, n, b, now) ==
  /\ TimelockSound(t, now)
  /\ DaoSound(d, b)
  /\ JointSound(t, d, fs, n)
  /\ Marked(d, fs, n)

World ==
  /\ block \in Nat \ {0} /\ block - 1 <= MaxBlock
  /\ timestamp \in Nat
  /\ electorate \in Electorates
  /\ pastVotes \in [0 .. MaxBlock -> [Accounts -> Nat]]

Current == StoresSound(timelock, dao, frames, Len(frames), block, timestamp)

\* What Waiting and Marked read of a proposal.
Alike(p, q) ==
  /\ p.actions = q.actions /\ p.eta = q.eta /\ p.executed = q.executed
  /\ p.canceled = q.canceled /\ p.vetoed = q.vetoed

LEMMA WaitingAlike ==
  ASSUME NEW p, NEW q, NEW id, NEW tx, NEW fs, NEW n, Alike(p, q)
  PROVE  /\ Txs(p) = Txs(q)
         /\ Waiting(p, id, tx, fs, n) => Waiting(q, id, tx, fs, n)
<1>1. \A i : Tx(p, i) = Tx(q, i)
  BY DEF Alike, Tx
<1>2. Txs(p) = Txs(q)
  BY <1>1 DEF Alike, Txs
<1> QED BY <1>1, <1>2 DEF Waiting, Alike

\* A call that adds proposals, or rewrites what Waiting does not read.
LEMMA JointAlike ==
  ASSUME NEW t, NEW d \in DaoStorage, NEW e \in DaoStorage, NEW fs, NEW n,
         JointSound(t, d, fs, n), Marked(d, fs, n),
         d.proposalCount <= e.proposalCount,
         \A id \in 1 .. d.proposalCount : Alike(d.proposals[id], e.proposals[id])
  PROVE  JointSound(t, e, fs, n) /\ Marked(e, fs, n)
<1>1. d.proposalCount \in Nat /\ e.proposalCount \in Nat
  BY IdsType DEF DaoStorage
<1>2. \A id \in 1 .. d.proposalCount : id \in 1 .. e.proposalCount
  BY <1>1
<1>3. Marked(e, fs, n)
  BY <1>2 DEF Marked, Alike
<1>4. ASSUME t.admin = DAO, NEW i \in DOMAIN t.ran
      PROVE  \E id \in 1 .. e.proposalCount :
               t.ran[i].tx \in Txs(e.proposals[id]) /\ e.proposals[id].executed
  <2>1. PICK id \in 1 .. d.proposalCount :
          t.ran[i].tx \in Txs(d.proposals[id]) /\ d.proposals[id].executed
    BY <1>4 DEF JointSound
  <2>2. Alike(d.proposals[id], e.proposals[id])
    OBVIOUS
  <2>3. Txs(d.proposals[id]) = Txs(e.proposals[id]) /\ e.proposals[id].executed
    BY <2>1, <2>2, WaitingAlike DEF Alike
  <2> QED BY <2>1, <2>3, <1>2
<1>5. ASSUME t.admin = DAO, NEW tx \in t.queued
      PROVE  \E id \in 1 .. e.proposalCount : Waiting(e.proposals[id], id, tx, fs, n)
  <2>1. PICK id \in 1 .. d.proposalCount : Waiting(d.proposals[id], id, tx, fs, n)
    BY <1>5 DEF JointSound
  <2>2. Alike(d.proposals[id], e.proposals[id])
    OBVIOUS
  <2> QED BY <2>1, <2>2, <1>2, WaitingAlike
<1> QED BY <1>3, <1>4, <1>5 DEF JointSound

\* A call that takes transactions out of the queue or changes the admin.
LEMMA JointShrinks ==
  ASSUME NEW t, NEW u, NEW d, NEW fs, NEW n, JointSound(t, d, fs, n),
         u.admin = DAO => t.admin = DAO, u.queued \subseteq t.queued, u.ran = t.ran
  PROVE  JointSound(u, d, fs, n)
BY DEF JointSound

-----------------------------------------------------------------------------
(* The calls                                                               *)

\* The proposal that propose() adds.
ProposeMakes(new, a, actions) ==
  /\ dao' = [dao EXCEPT !.proposalCount = dao.proposalCount + 1,
                        !.proposals[dao.proposalCount + 1] = new,
                        !.latestProposalIds[a] = dao.proposalCount + 1]
  /\ new.proposer = a /\ new.actions = actions
  /\ new.eta = 0 /\ new.executed = FALSE
  /\ new.startBlock = block + dao.votingDelay
  /\ new.endBlock = block + dao.votingDelay + dao.votingPeriod
  /\ new.createdAt = block
  /\ new.forVotes = 0 /\ new.againstVotes = 0 /\ new.abstainVotes = 0
  /\ new.receipts = [x \in Accounts |-> NoReceipt]

LEMMA ProposeDoes ==
  ASSUME World, Current, NEW a \in Accounts, NEW actions \in ActionLists,
         Propose(a, actions)
  PROVE  /\ \E new \in Proposal : ProposeMakes(new, a, actions)
         /\ dao.proposalCount + 1 \in Ids /\ dao.proposalCount \in Nat
<1> DEFINE threshold == Bps2Uint(dao.proposalThresholdBPS, electorate.totalSupply)
           quorum == Bps2Uint(dao.quorumVotesBPS, electorate.totalSupply)
           start == block + dao.votingDelay
           end == start + dao.votingPeriod
           new == [NoProposal EXCEPT
                     !.proposer = a, !.proposalThreshold = threshold,
                     !.quorumVotes = quorum, !.actions = actions,
                     !.startBlock = start, !.endBlock = end,
                     !.createdAt = block]
<1>1. dao \in DaoStorage /\ block \in Nat
  BY DEF Current, StoresSound, DaoSound, World
<1>2. /\ dao.votingDelay \in Nat /\ dao.votingPeriod \in Nat
      /\ dao.proposalThresholdBPS \in Nat /\ dao.quorumVotesBPS \in Nat
      /\ dao.proposalCount \in Nat
  <2>1. dao.votingDelay \in Nat /\ dao.votingPeriod \in Nat
    BY <1>1, NDAOLogicV1Assumption DEF DaoStorage
  <2>2. dao.proposalThresholdBPS \in Nat /\ dao.quorumVotesBPS \in Nat
    <3>1. /\ dao.proposalThresholdBPS \in ThresholdBPSRange
          /\ dao.quorumVotesBPS \in QuorumBPSRange
      BY <1>1 DEF DaoStorage
    <3>2. \A x \in ThresholdBPSRange : x \in Nat
      BY DEF ThresholdBPSRange
    <3>3. \A x \in QuorumBPSRange : x \in Nat
      BY DEF QuorumBPSRange
    <3> QED BY <3>1, <3>2, <3>3
  <2>3. dao.proposalCount \in Nat
    BY <1>1, IdsType DEF DaoStorage
  <2> QED BY <2>1, <2>2, <2>3
<1>3. threshold \in Nat /\ quorum \in Nat
  <2>1. electorate.totalSupply \in Nat
    BY NDAOLogicV1Assumption DEF World
  <2> QED BY <2>1, <1>2 DEF Bps2Uint
<1>4. start \in Nat /\ end \in Nat
  BY <1>1, <1>2
<1>5. dao.proposalCount + 1 \in Ids
  BY <1>2, IdsType DEF Propose
<1>6. dao' = [dao EXCEPT !.proposalCount = dao.proposalCount + 1,
                         !.proposals[dao.proposalCount + 1] = new,
                         !.latestProposalIds[a] = dao.proposalCount + 1]
  BY DEF Propose
<1> HIDE DEF threshold, quorum, start, end
<1>7. new \in Proposal
  <2>1. [x \in Accounts |-> NoReceipt] \in [Accounts -> Receipt]
    BY DEF NoReceipt, Receipt
  <2> QED BY <1>1, <1>3, <1>4, <2>1 DEF Proposal, NoProposal
<1>8. /\ new.proposer = a /\ new.actions = actions
      /\ new.eta = 0 /\ new.executed = FALSE
      /\ new.startBlock = start /\ new.endBlock = end /\ new.createdAt = block
      /\ new.forVotes = 0 /\ new.againstVotes = 0 /\ new.abstainVotes = 0
      /\ new.receipts = [x \in Accounts |-> NoReceipt]
  BY DEF NoProposal
<1> HIDE DEF new
<1>9. ProposeMakes(new, a, actions)
  BY <1>6, <1>8 DEF ProposeMakes, start, end
<1> QED BY <1>2, <1>5, <1>7, <1>9

LEMMA ProposeKeeps ==
  ASSUME World, Current, NEW a \in Accounts, NEW actions \in ActionLists,
         Propose(a, actions)
  PROVE  StoresSound(timelock, dao', frames, Len(frames), block, timestamp)
<1> DEFINE id == dao.proposalCount + 1
<1>1. dao \in DaoStorage /\ DaoSound(dao, block) /\ block \in Nat
  BY DEF Current, StoresSound, DaoSound, World
<1>2. dao.proposalCount \in Nat
  BY ProposeDoes
<1>5. id \in Ids /\ id > 0
  BY <1>2, ProposeDoes
<1>7. PICK new \in Proposal : ProposeMakes(new, a, actions)
  BY ProposeDoes
<1>6. dao' = [dao EXCEPT !.proposalCount = id, !.proposals[id] = new,
                         !.latestProposalIds[a] = id]
  BY <1>7 DEF ProposeMakes
<1>8. new.proposer = a /\ new.eta = 0 /\ ~new.executed
  BY <1>7 DEF ProposeMakes
<1> HIDE DEF id
<1>9. dao' \in DaoStorage
  BY <1>1, <1>5, <1>6, <1>7 DEF DaoStorage
<1>10. /\ dao'.proposalCount = id
       /\ \A i \in Ids : dao'.proposals[i] = IF i = id THEN new ELSE dao.proposals[i]
       /\ \A x \in Accounts : dao'.latestProposalIds[x] =
                                IF x = a THEN id ELSE dao.latestProposalIds[x]
  BY <1>1, <1>5, <1>6 DEF DaoStorage
<1>11. \A i \in 1 .. id : i = id \/ i \in 1 .. dao.proposalCount
  BY <1>2 DEF id
<1>12. \A i \in 1 .. dao.proposalCount : i \in Ids /\ i # id /\ i > 0
  BY <1>1, <1>2, IdsType DEF id, DaoStorage
<1>13. ASSUME NEW i \in 1 .. dao.proposalCount, dao.proposals[i].proposer = a
       PROVE  ~Open(dao.proposals[i], block)
  <2>1. Open(dao.proposals[i], block) => dao.latestProposalIds[a] = i
    BY <1>1, <1>13 DEF DaoSound
  <2>2. dao.latestProposalIds[a] = i => State(dao, i) \notin {"Pending", "Active"}
    BY <1>12 DEF Propose, MayPropose
  <2>3. dao.proposals[i] \in Proposal
    BY <1>1, <1>12 DEF DaoStorage
  <2> QED BY <2>1, <2>2, <2>3, <1>1, StateFacts
<1>14. DaoSound(dao', block)
  <2>1. Blank(dao'.proposals[0])
    BY <1>1, <1>5, <1>10, IdsType DEF DaoSound
  <2>2. \A i \in Ids : OutcomeSound(dao'.proposals[i], block)
    BY <1>1, <1>8, <1>10 DEF DaoSound, OutcomeSound
  <2>3. ASSUME NEW i \in 1 .. dao'.proposalCount
        PROVE  /\ dao'.proposals[i].proposer \in Accounts
               /\ Open(dao'.proposals[i], block)
                    => dao'.latestProposalIds[dao'.proposals[i].proposer] = i
    <3>1. CASE i = id
      BY <3>1, <1>5, <1>8, <1>10
    <3>2. CASE i \in 1 .. dao.proposalCount
      <4>1. dao'.proposals[i] = dao.proposals[i]
        BY <3>2, <1>10, <1>12
      <4>2. dao.proposals[i].proposer \in Accounts
        BY <3>2, <1>1 DEF DaoSound
      <4>3. Open(dao.proposals[i], block) =>
              /\ dao.proposals[i].proposer # a
              /\ dao.latestProposalIds[dao.proposals[i].proposer] = i
        BY <3>2, <1>1, <1>13 DEF DaoSound
      <4> QED BY <4>1, <4>2, <4>3, <1>10
    <3> QED BY <3>1, <3>2, <1>10, <1>11
  <2> QED BY <2>1, <2>2, <2>3, <1>9 DEF DaoSound
<1>15. \A i \in 1 .. dao.proposalCount : Alike(dao.proposals[i], dao'.proposals[i])
  BY <1>10, <1>12 DEF Alike
<1>16. dao.proposalCount <= dao'.proposalCount
  BY <1>2, <1>10 DEF id
<1>17. JointSound(timelock, dao', frames, Len(frames)) /\ Marked(dao', frames, Len(frames))
  BY <1>1, <1>9, <1>15, <1>16, JointAlike DEF Current, StoresSound
<1> QED BY <1>14, <1>17 DEF Current, StoresSound

\* What a call that rewrites one proposal does to the rest of the DAO.
LEMMA OneProposal ==
  ASSUME NEW d \in DaoStorage, NEW id \in Ids, NEW q \in Proposal
  PROVE  LET e == [d EXCEPT !.proposals[id] = q] IN
           /\ e \in DaoStorage
           /\ e.proposalCount = d.proposalCount
           /\ \A i \in Ids : e.proposals[i] = IF i = id THEN q ELSE d.proposals[i]
           /\ \A i \in 1 .. d.proposalCount : i \in Ids /\ i # 0
<1>1. d.proposalCount \in Ids
  BY DEF DaoStorage
<1>2. \A i \in 1 .. d.proposalCount : i \in Ids /\ i # 0
  BY <1>1, IdsType
<1> QED BY <1>2 DEF DaoStorage

LEMMA BallotDoes ==
  ASSUME NEW p \in Proposal, NEW s \in 0 .. 2, NEW v \in Nat,
         NEW a \in Accounts, dao.votingDelay \in Nat
  PROVE  LET q == Counted(p, a, s, v) IN
           /\ q \in Proposal /\ Alike(p, q) /\ q.proposer = p.proposer
           /\ q.startBlock = p.startBlock /\ q.endBlock = p.endBlock
           /\ q.quorumVotes = p.quorumVotes
<1> DEFINE q == Counted(p, a, s, v)
           r == [hasVoted |-> TRUE, support |-> s, votes |-> v,
                 delay |-> dao.votingDelay]
<1>0. r \in Receipt
  BY DEF Receipt
<1>1. PICK m : m = [p EXCEPT ![Tally(s)] = @ + v]
  OBVIOUS
<1>2. m \in Proposal /\ Alike(p, m) /\ m.proposer = p.proposer
      /\ m.startBlock = p.startBlock /\ m.endBlock = p.endBlock
      /\ m.quorumVotes = p.quorumVotes
  <2>1. CASE s = 0
    <3>1. Tally(s) = "againstVotes"
      BY <2>1 DEF Tally
    <3>2. m = [p EXCEPT !.againstVotes = p.againstVotes + v]
      BY <1>1, <3>1
    <3>3. p.againstVotes + v \in Nat
      BY DEF Proposal
    <3>4. m \in Proposal
      BY <3>2, <3>3 DEF Proposal
    <3> QED BY <3>2, <3>4 DEF Proposal, Alike
  <2>2. CASE s = 1
    <3>1. Tally(s) = "forVotes"
      BY <2>2 DEF Tally
    <3>2. m = [p EXCEPT !.forVotes = p.forVotes + v]
      BY <1>1, <3>1
    <3>3. p.forVotes + v \in Nat
      BY DEF Proposal
    <3>4. m \in Proposal
      BY <3>2, <3>3 DEF Proposal
    <3> QED BY <3>2, <3>4 DEF Proposal, Alike
  <2>3. CASE s = 2
    <3>1. Tally(s) = "abstainVotes"
      BY <2>3 DEF Tally
    <3>2. m = [p EXCEPT !.abstainVotes = p.abstainVotes + v]
      BY <1>1, <3>1
    <3>3. p.abstainVotes + v \in Nat
      BY DEF Proposal
    <3>4. m \in Proposal
      BY <3>2, <3>3 DEF Proposal
    <3> QED BY <3>2, <3>4 DEF Proposal, Alike
  <2> QED BY <2>1, <2>2, <2>3
<1>3. q = [m EXCEPT !.receipts[a] = r]
  BY <1>1 DEF Counted
<1> HIDE DEF q, r
<1>4. [m.receipts EXCEPT ![a] = r] \in [Accounts -> Receipt]
  BY <1>0, <1>2 DEF Proposal
<1>5. /\ q \in Proposal /\ Alike(p, q) /\ q.proposer = p.proposer
      /\ q.startBlock = p.startBlock /\ q.endBlock = p.endBlock
      /\ q.quorumVotes = p.quorumVotes
  BY <1>2, <1>3, <1>4 DEF Proposal, Alike
<1> QED BY <1>5 DEF q

\* castVote adds a ballot to a proposal that is active.
LEMMA CastVoteDoes ==
  ASSUME World, Current, NEW voter \in Accounts, NEW id \in Ids,
         NEW support \in 0 .. 2, CastVote(voter, id, support)
  PROVE  LET p == dao.proposals[id]
             votes == PriorVotes(voter, SnapshotBlock(p))
             q == Counted(p, voter, support, votes)
         IN /\ dao' = [dao EXCEPT !.proposals[id] = q]
            /\ SnapshotBlock(p) \in 0 .. MaxBlock /\ votes \in Nat
            /\ block > p.startBlock /\ block <= p.endBlock /\ Open(p, block)
            /\ p \in Proposal /\ q \in Proposal /\ Alike(p, q)
            /\ q.proposer = p.proposer /\ q.quorumVotes = p.quorumVotes
            /\ q.startBlock = p.startBlock /\ q.endBlock = p.endBlock
<1> DEFINE p == dao.proposals[id]
           votes == PriorVotes(voter, SnapshotBlock(p))
           q == Counted(p, voter, support, votes)
<1>1. dao \in DaoStorage /\ DaoSound(dao, block) /\ block \in Nat
  BY DEF Current, StoresSound, DaoSound, World
<1>2. p \in Proposal /\ dao.votingDelay \in Nat
  BY <1>1, NDAOLogicV1Assumption DEF DaoStorage
<1>3. block > p.startBlock /\ block <= p.endBlock /\ Open(p, block)
  BY <1>1, <1>2, StateFacts DEF CastVote, VotingOpen
<1>4. p.startBlock \in Nat /\ p.endBlock \in Nat
  BY <1>2 DEF Proposal
<1>5. SnapshotBlock(p) \in 0 .. MaxBlock
  <2>1. SnapshotBlock(p) >= 0
    BY DEF CastVote
  <2>2. SnapshotBlock(p) = p.startBlock - dao.votingDelay
    BY DEF SnapshotBlock
  <2>3. block \in Nat /\ block - 1 <= MaxBlock /\ MaxBlock \in Nat
    BY NDAOLogicV1Assumption DEF World
  <2> HIDE DEF p
  <2> QED BY <2>1, <2>2, <2>3, <1>2, <1>3, <1>4
<1>6. votes \in Nat
  BY <1>5 DEF World, PriorVotes
<1>7. dao' = [dao EXCEPT !.proposals[id] = q]
  BY DEF CastVote
<1> HIDE DEF votes, p
<1>8. /\ q \in Proposal /\ Alike(p, q) /\ q.proposer = p.proposer
      /\ q.startBlock = p.startBlock /\ q.endBlock = p.endBlock
      /\ q.quorumVotes = p.quorumVotes
  BY <1>2, <1>6, BallotDoes
<1> HIDE DEF q
<1>9. /\ dao' = [dao EXCEPT !.proposals[id] = q]
      /\ SnapshotBlock(p) \in 0 .. MaxBlock /\ votes \in Nat
      /\ block > p.startBlock /\ block <= p.endBlock /\ Open(p, block)
      /\ p \in Proposal /\ q \in Proposal /\ Alike(p, q)
      /\ q.proposer = p.proposer /\ q.quorumVotes = p.quorumVotes
      /\ q.startBlock = p.startBlock /\ q.endBlock = p.endBlock
  BY <1>2, <1>3, <1>5, <1>6, <1>7, <1>8
<1> QED BY <1>9 DEF q, votes, p

LEMMA CastVoteKeeps ==
  ASSUME World, Current, NEW voter \in Accounts, NEW id \in Ids,
         NEW support \in 0 .. 2, CastVote(voter, id, support)
  PROVE  StoresSound(timelock, dao', frames, Len(frames), block, timestamp)
<1> DEFINE p == dao.proposals[id]
<1>1. dao \in DaoStorage /\ DaoSound(dao, block) /\ block \in Nat
  BY DEF Current, StoresSound, DaoSound, World
<1>2. PICK q : /\ dao' = [dao EXCEPT !.proposals[id] = q]
               /\ q \in Proposal /\ Alike(p, q) /\ q.proposer = p.proposer
               /\ q.startBlock = p.startBlock /\ q.endBlock = p.endBlock
               /\ block > p.startBlock /\ block <= p.endBlock
               /\ Open(p, block) /\ p \in Proposal
  BY CastVoteDoes
<1>8. dao' = [dao EXCEPT !.proposals[id] = q]
  BY <1>2
<1>9. /\ q \in Proposal /\ Alike(p, q) /\ q.proposer = p.proposer
      /\ q.startBlock = p.startBlock /\ q.endBlock = p.endBlock
  BY <1>2
<1>3. block > p.startBlock /\ block <= p.endBlock /\ Open(p, block)
  BY <1>2
<1>4. p.startBlock \in Nat /\ p.endBlock \in Nat
  BY <1>2 DEF Proposal
<1>10. p.eta = 0 /\ ~p.executed
  BY <1>1, <1>3, <1>4 DEF DaoSound, OutcomeSound, Won
<1>11. OutcomeSound(q, block)
  BY <1>9, <1>10 DEF Alike, OutcomeSound
<1>12. id # 0
  BY <1>1, <1>3, <1>4 DEF DaoSound, Blank, World
<1>13. DaoSound(dao', block)
  BY <1>1, <1>3, <1>8, <1>9, <1>11, <1>12, OneProposalChanges
<1>14. /\ dao' \in DaoStorage /\ dao'.proposalCount = dao.proposalCount
       /\ \A i \in Ids : dao'.proposals[i] = IF i = id THEN q ELSE dao.proposals[i]
       /\ \A i \in 1 .. dao.proposalCount : i \in Ids /\ i # 0
  BY <1>1, <1>8, <1>9, OneProposal
<1>15. \A i \in 1 .. dao.proposalCount : Alike(dao.proposals[i], dao'.proposals[i])
  BY <1>9, <1>14 DEF Alike
<1>16. JointSound(timelock, dao', frames, Len(frames)) /\ Marked(dao', frames, Len(frames))
  <2>1. dao.proposalCount <= dao'.proposalCount
    BY <1>1, <1>14, IdsType DEF DaoStorage
  <2> QED BY <2>1, <1>1, <1>14, <1>15, JointAlike DEF Current, StoresSound
<1> QED BY <1>13, <1>16 DEF Current, StoresSound

LEMMA ActionsType ==
  ASSUME NEW p \in Proposal
  PROVE  p.actions \in Seq(Calls) /\ p.eta \in Nat
<1>1. p.actions \in ActionLists \cup {<<>>} /\ p.eta \in Nat
  BY DEF Proposal
<1>2. <<>> \in Seq(Calls) /\ ActionLists \subseteq Seq(Calls)
  BY NDAOLogicV1Assumption
<1> QED BY <1>1, <1>2

LEMMA TxsType ==
  ASSUME NEW p \in Proposal
  PROVE  Txs(p) \in SUBSET Transaction
<1>1. p.actions \in Seq(Calls) /\ p.eta \in Nat
  BY ActionsType
<1>2. \A i \in DOMAIN p.actions : p.actions[i] \in Calls
  BY <1>1, SeqElement
<1> QED BY <1>1, <1>2 DEF Txs, Tx, Transaction

LEMMA QueueKeeps ==
  ASSUME World, Current, NEW id \in Ids, QueueProposal(id)
  PROVE  StoresSound(timelock', dao', frames, Len(frames), block, timestamp)
<1> DEFINE p == dao.proposals[id]
<1>1. /\ dao \in DaoStorage /\ DaoSound(dao, block) /\ block \in Nat
      /\ TimelockSound(timelock, timestamp) /\ timestamp \in Nat
      /\ JointSound(timelock, dao, frames, Len(frames))
      /\ Marked(dao, frames, Len(frames))
  BY DEF Current, StoresSound, DaoSound, World
<1>2. timelock.delay \in Nat /\ timelock.delay > 0
  BY <1>1, NDAOExecutorAssumption DEF TimelockSound
<1>3. PICK eta \in Nat : eta = timestamp + timelock.delay /\ eta # 0
  BY <1>1, <1>2
<1>4. PICK q : q = [p EXCEPT !.eta = eta]
  OBVIOUS
<1>5. /\ dao' = [dao EXCEPT !.proposals[id] = q]
      /\ timelock' = AllQueued(timelock, q)
      /\ \A tx \in Txs(q) : CanQueue(timelock, DAO, tx)
      /\ State(dao, id) = "Succeeded" /\ id <= dao.proposalCount
  BY <1>3, <1>4 DEF QueueProposal
<1>6. p \in Proposal
  BY <1>1 DEF DaoStorage
<1>7. Won(p, block) /\ p.eta = 0
  BY <1>1, <1>5, <1>6, StateFacts
<1> HIDE DEF p
<1>8. /\ q \in Proposal /\ q.eta = eta
      /\ q.proposer = p.proposer /\ q.actions = p.actions
      /\ q.startBlock = p.startBlock /\ q.endBlock = p.endBlock
      /\ q.forVotes = p.forVotes /\ q.againstVotes = p.againstVotes
      /\ q.quorumVotes = p.quorumVotes
      /\ q.executed = p.executed /\ q.canceled = p.canceled /\ q.vetoed = p.vetoed
  BY <1>3, <1>4, <1>6 DEF Proposal
<1> USE DEF p
<1>9. ~p.executed /\ OutcomeSound(q, block)
  BY <1>1, <1>3, <1>7, <1>8 DEF DaoSound, OutcomeSound, Won
<1>10. id # 0
  <2>1. id = 0 => p.forVotes = 0
    BY <1>1 DEF DaoSound, Blank
  <2>2. p.againstVotes \in Nat
    BY <1>6 DEF Proposal
  <2> QED BY <2>1, <2>2, <1>7 DEF Won
<1>11. DaoSound(dao', block)
  <2>1. Open(q, block) => Open(p, block)
    BY <1>8 DEF Open
  <2> QED BY <2>1, <1>1, <1>5, <1>8, <1>9, <1>10, OneProposalChanges
<1>12. /\ dao' \in DaoStorage /\ dao'.proposalCount = dao.proposalCount
       /\ \A i \in Ids : dao'.proposals[i] = IF i = id THEN q ELSE dao.proposals[i]
       /\ \A i \in 1 .. dao.proposalCount : i \in Ids /\ i # 0
  BY <1>1, <1>5, <1>8, OneProposal
<1>13. id \in 1 .. dao.proposalCount
  BY <1>1, <1>5, <1>10, IdsType DEF DaoStorage
<1>14. TimelockSound(timelock', timestamp)
  <2>1. Txs(q) \in SUBSET Transaction
    BY <1>8, TxsType
  <2>2. \A tx \in Txs(q) : tx.eta >= timestamp + timelock.delay
    BY <1>5 DEF CanQueue
  <2> QED BY <2>1, <2>2, <1>1, <1>5, QueuingIsSound DEF AllQueued
<1>15. /\ timelock'.queued = timelock.queued \cup Txs(q)
       /\ timelock'.ran = timelock.ran /\ timelock'.admin = timelock.admin
  BY <1>1, <1>5 DEF AllQueued, TimelockSound, TimelockStorage
<1>16. ASSUME timelock.admin = DAO, NEW tx \in timelock'.queued
       PROVE  \E i \in 1 .. dao'.proposalCount :
                Waiting(dao'.proposals[i], i, tx, frames, Len(frames))
  <2>1. CASE tx \in Txs(q)
    <3>1. ~q.canceled /\ ~q.vetoed /\ ~q.executed
      <4>1. ~p.canceled /\ ~p.vetoed
        BY <1>5 DEF State
      <4> QED BY <4>1, <1>8, <1>9
    <3>2. Waiting(q, id, tx, frames, Len(frames))
      BY <2>1, <3>1, <1>3, <1>8 DEF Waiting
    <3> QED BY <3>2, <1>12, <1>13
  <2>2. CASE tx \in timelock.queued
    <3>1. PICK i \in 1 .. dao.proposalCount :
            Waiting(dao.proposals[i], i, tx, frames, Len(frames))
      BY <1>1, <1>16, <2>2 DEF JointSound
    <3>2. i # id
      BY <3>1, <1>7 DEF Waiting
    <3> QED BY <3>1, <3>2, <1>12
  <2> QED BY <2>1, <2>2, <1>15
<1>17. ASSUME timelock.admin = DAO, NEW j \in DOMAIN timelock.ran
       PROVE  \E i \in 1 .. dao'.proposalCount :
                /\ timelock.ran[j].tx \in Txs(dao'.proposals[i])
                /\ dao'.proposals[i].executed
  <2>1. PICK i \in 1 .. dao.proposalCount :
          timelock.ran[j].tx \in Txs(dao.proposals[i]) /\ dao.proposals[i].executed
    BY <1>1, <1>17 DEF JointSound
  <2>2. i # id
    BY <2>1, <1>9
  <2> QED BY <2>1, <2>2, <1>12
<1>18. JointSound(timelock', dao', frames, Len(frames))
  BY <1>15, <1>16, <1>17 DEF JointSound
<1>19. Marked(dao', frames, Len(frames))
  BY <1>1, <1>9, <1>12 DEF Marked
<1> QED BY <1>11, <1>14, <1>18, <1>19 DEF StoresSound

\* cancel() and veto(): a proposal that is not executed is stopped, and its
\* transactions leave the timelock.
LEMMA StoppingKeeps ==
  ASSUME World, Current, NEW id \in Ids, NEW q,
         \/ q = [dao.proposals[id] EXCEPT !.canceled = TRUE]
         \/ q = [dao.proposals[id] EXCEPT !.vetoed = TRUE],
         State(dao, id) # "Executed",
         dao' = [dao EXCEPT !.proposals[id] = q],
         timelock' = AllCanceled(timelock, dao.proposals[id])
  PROVE  StoresSound(timelock', dao', frames, Len(frames), block, timestamp)
<1> DEFINE p == dao.proposals[id]
<1>1. /\ dao \in DaoStorage /\ DaoSound(dao, block) /\ block \in Nat
      /\ TimelockSound(timelock, timestamp)
      /\ JointSound(timelock, dao, frames, Len(frames))
      /\ Marked(dao, frames, Len(frames))
  BY DEF Current, StoresSound, DaoSound, World
<1>2. p \in Proposal
  BY <1>1 DEF DaoStorage
<1>3. ~p.executed
  <2>1. OutcomeSound(p, block)
    BY <1>1 DEF DaoSound
  <2> QED BY <2>1, <1>1, <1>2, StateFacts
<1>4. PICK a : a = p
  OBVIOUS
<1>5. /\ q \in Proposal /\ q.eta = a.eta
      /\ q.proposer = a.proposer /\ q.actions = a.actions
      /\ q.startBlock = a.startBlock /\ q.endBlock = a.endBlock
      /\ q.forVotes = a.forVotes /\ q.againstVotes = a.againstVotes
      /\ q.quorumVotes = a.quorumVotes /\ q.executed = a.executed
      /\ a.canceled => q.canceled
      /\ a.vetoed => q.vetoed
      /\ q.canceled \/ q.vetoed
  <2> HIDE DEF p
  <2>1. a \in Proposal
    BY <1>2, <1>4
  <2>2. CASE q = [a EXCEPT !.canceled = TRUE]
    BY <2>1, <2>2 DEF Proposal
  <2>3. CASE q = [a EXCEPT !.vetoed = TRUE]
    BY <2>1, <2>3 DEF Proposal
  <2> QED BY <2>2, <2>3, <1>4 DEF p
<1>6. OutcomeSound(q, block) /\ ~q.executed
  BY <1>1, <1>3, <1>4, <1>5 DEF DaoSound, OutcomeSound, Won
<1>7. DaoSound(dao', block)
  <2>1. Open(q, block) => Open(p, block)
    BY <1>4, <1>5 DEF Open
  <2>2. id = 0 => Blank(q)
    BY <1>1, <1>4, <1>5 DEF DaoSound, Blank
  <2> QED BY <2>1, <2>2, <1>1, <1>4, <1>5, <1>6, OneProposalChanges
<1>8. /\ dao' \in DaoStorage /\ dao'.proposalCount = dao.proposalCount
      /\ \A i \in Ids : dao'.proposals[i] = IF i = id THEN q ELSE dao.proposals[i]
      /\ \A i \in 1 .. dao.proposalCount : i \in Ids /\ i # 0
  BY <1>1, <1>5, OneProposal
<1>9. TimelockSound(timelock', timestamp)
  BY <1>1, CancelingIsSound DEF AllCanceled
<1>10. /\ timelock'.queued = timelock.queued \ Txs(p)
       /\ timelock'.ran = timelock.ran /\ timelock'.admin = timelock.admin
  BY <1>1 DEF AllCanceled, TimelockSound, TimelockStorage
<1>11. ASSUME timelock.admin = DAO, NEW tx \in timelock'.queued
       PROVE  \E i \in 1 .. dao'.proposalCount :
                Waiting(dao'.proposals[i], i, tx, frames, Len(frames))
  <2>1. PICK i \in 1 .. dao.proposalCount :
          Waiting(dao.proposals[i], i, tx, frames, Len(frames))
    BY <1>1, <1>10, <1>11 DEF JointSound
  <2>2. i # id
    BY <2>1, <1>10 DEF Waiting
  <2> QED BY <2>1, <2>2, <1>8
<1>12. ASSUME timelock.admin = DAO, NEW j \in DOMAIN timelock.ran
       PROVE  \E i \in 1 .. dao'.proposalCount :
                /\ timelock.ran[j].tx \in Txs(dao'.proposals[i])
                /\ dao'.proposals[i].executed
  <2>1. PICK i \in 1 .. dao.proposalCount :
          timelock.ran[j].tx \in Txs(dao.proposals[i]) /\ dao.proposals[i].executed
    BY <1>1, <1>12 DEF JointSound
  <2>2. i # id
    BY <2>1, <1>3
  <2> QED BY <2>1, <2>2, <1>8
<1>13. JointSound(timelock', dao', frames, Len(frames))
  BY <1>10, <1>11, <1>12 DEF JointSound
<1>14. Marked(dao', frames, Len(frames))
  BY <1>1, <1>3, <1>8 DEF Marked
<1> QED BY <1>7, <1>9, <1>13, <1>14 DEF StoresSound

LEMMA CancelKeeps ==
  ASSUME World, Current, NEW a, NEW id \in Ids, CancelProposal(a, id)
  PROVE  StoresSound(timelock', dao', frames, Len(frames), block, timestamp)
<1>1. PICK q : q = [dao.proposals[id] EXCEPT !.canceled = TRUE]
  OBVIOUS
<1>2. dao' = [dao EXCEPT !.proposals[id] = q]
  BY <1>1 DEF CancelProposal
<1>3. State(dao, id) # "Executed" /\ timelock' = AllCanceled(timelock, dao.proposals[id])
  BY DEF CancelProposal
<1> QED BY <1>1, <1>2, <1>3, StoppingKeeps

LEMMA VetoKeeps ==
  ASSUME World, Current, NEW a, NEW id \in Ids, Veto(a, id)
  PROVE  StoresSound(timelock', dao', frames, Len(frames), block, timestamp)
<1>1. PICK q : q = [dao.proposals[id] EXCEPT !.vetoed = TRUE]
  OBVIOUS
<1>2. dao' = [dao EXCEPT !.proposals[id] = q]
  BY <1>1 DEF Veto
<1>3. State(dao, id) # "Executed" /\ timelock' = AllCanceled(timelock, dao.proposals[id])
  BY DEF Veto
<1> QED BY <1>1, <1>2, <1>3, StoppingKeeps

\* The admin's and the vetoer's calls leave the proposals alone, and keep the
\* settings in their ranges.
LEMMA DaoCallKeeps ==
  ASSUME NEW d, NEW b \in Nat, NEW sender \in Address, NEW c \in Calls,
         DaoSound(d, b), c.fn \in DaoCalls, CanDaoCall(d, sender, c)
  PROVE  LET e == DaoCall(d, sender, c) IN
           /\ DaoSound(e, b)
           /\ e.proposals = d.proposals /\ e.proposalCount = d.proposalCount
<1> DEFINE e == DaoCall(d, sender, c)
<1>1. d \in DaoStorage
  BY DEF DaoSound
<1>2. /\ e \in DaoStorage
      /\ e.proposals = d.proposals /\ e.proposalCount = d.proposalCount
      /\ e.latestProposalIds = d.latestProposalIds
  <2>1. CASE c.fn = "_setVotingDelay"
    <3>1. c.arg \in MinVotingDelay .. MaxVotingDelay
      BY <2>1 DEF CanDaoCall, Setters, Allowed
    <3>2. e = [d EXCEPT !.votingDelay = c.arg]
      BY <2>1 DEF DaoCall, Setters, Setting
    <3> QED BY <3>1, <3>2, <1>1 DEF DaoStorage
  <2>2. CASE c.fn = "_setVotingPeriod"
    <3>1. c.arg \in MinVotingPeriod .. MaxVotingPeriod
      BY <2>2 DEF CanDaoCall, Setters, Allowed
    <3>2. e = [d EXCEPT !.votingPeriod = c.arg]
      BY <2>2 DEF DaoCall, Setters, Setting
    <3> QED BY <3>1, <3>2, <1>1 DEF DaoStorage
  <2>3. CASE c.fn = "_setProposalThresholdBPS"
    <3>1. c.arg \in ThresholdBPSRange
      BY <2>3 DEF CanDaoCall, Setters, Allowed
    <3>2. e = [d EXCEPT !.proposalThresholdBPS = c.arg]
      BY <2>3 DEF DaoCall, Setters, Setting
    <3> QED BY <3>1, <3>2, <1>1 DEF DaoStorage
  <2>4. CASE c.fn = "_setQuorumVotesBPS"
    <3>1. c.arg \in QuorumBPSRange
      BY <2>4 DEF CanDaoCall, Setters, Allowed
    <3>2. e = [d EXCEPT !.quorumVotesBPS = c.arg]
      BY <2>4 DEF DaoCall, Setters, Setting
    <3> QED BY <3>1, <3>2, <1>1 DEF DaoStorage
  <2>5. CASE c.fn = "_setPendingAdmin"
    <3>1. c.arg \in Address
      BY <2>5, NDAOLogicV1Assumption
    <3>2. e = [d EXCEPT !.pendingAdmin = c.arg]
      BY <2>5 DEF DaoCall, Setters
    <3> QED BY <3>1, <3>2, <1>1 DEF DaoStorage
  <2>6. CASE c.fn = "_acceptAdmin"
    <3>1. e = [d EXCEPT !.admin = sender, !.pendingAdmin = Zero]
      BY <2>6 DEF DaoCall, Setters
    <3>2. Zero \in Address
      BY DEF Address
    <3> QED BY <3>1, <3>2, <1>1 DEF DaoStorage
  <2>7. CASE c.fn = "_setVetoer"
    <3>1. c.arg \in Address
      BY <2>7, NDAOLogicV1Assumption
    <3>2. e = [d EXCEPT !.vetoer = c.arg]
      BY <2>7 DEF DaoCall, Setters
    <3> QED BY <3>1, <3>2, <1>1 DEF DaoStorage
  <2> QED BY <2>1, <2>2, <2>3, <2>4, <2>5, <2>6, <2>7 DEF DaoCalls, Setters
<1> HIDE DEF e
<1>3. DaoSound(e, b)
  BY <1>2 DEF DaoSound
<1> QED BY <1>2, <1>3 DEF e

\* A call of the timelock to the DAO.
LEMMA DaoAfterKeeps ==
  ASSUME NEW d, NEW b \in Nat, NEW c \in Calls, DaoSound(d, b),
         c.fn \in DaoCalls => CanDaoCall(d, Executor, c)
  PROVE  LET e == DaoAfter(d, c) IN
           /\ DaoSound(e, b)
           /\ e.proposals = d.proposals /\ e.proposalCount = d.proposalCount
<1>1. Executor \in Address
  BY DEF Address
<1>2. CASE c.fn \in DaoCalls
  <2>1. DaoAfter(d, c) = DaoCall(d, Executor, c)
    BY <1>2 DEF DaoAfter
  <2> QED BY <2>1, <1>1, <1>2, DaoCallKeeps
<1>3. CASE c.fn \notin DaoCalls
  BY <1>3 DEF DaoAfter
<1> QED BY <1>2, <1>3

\* Joint invariants do not read the settings.
LEMMA JointSameProposals ==
  ASSUME NEW t, NEW d, NEW e, NEW fs, NEW n,
         e.proposals = d.proposals, e.proposalCount = d.proposalCount
  PROVE  /\ JointSound(t, d, fs, n) => JointSound(t, e, fs, n)
         /\ Marked(d, fs, n) => Marked(e, fs, n)
BY DEF JointSound, Marked

LEMMA AccountCallsKeep ==
  ASSUME World, Current, NEW a \in Accounts, NEW c \in Calls, AccountCalls(a, c)
  PROVE  StoresSound(timelock, dao', frames, Len(frames), block, timestamp)
<1>1. a \in Address /\ block \in Nat /\ DaoSound(dao, block)
  BY DEF Address, World, Current, StoresSound
<1>2. dao' = DaoCall(dao, a, c) /\ c.fn \in DaoCalls /\ CanDaoCall(dao, a, c)
  BY DEF AccountCalls
<1>3. /\ DaoSound(dao', block)
      /\ dao'.proposals = dao.proposals /\ dao'.proposalCount = dao.proposalCount
  BY <1>1, <1>2, DaoCallKeeps
<1> QED BY <1>3, JointSameProposals DEF Current, StoresSound

\* executeTransaction, whoever calls it, keeps the storage sound; only an
\* account other than the DAO calls it outside execute().
LEMMA TimelockCallKeeps ==
  ASSUME World, Current, NEW a \in Accounts, TimelockCall(a)
  PROVE  StoresSound(timelock', dao', frames, Len(frames), block, timestamp)
<1>1. /\ dao \in DaoStorage /\ DaoSound(dao, block) /\ block \in Nat
      /\ TimelockSound(timelock, timestamp) /\ timestamp \in Nat
      /\ timelock \in TimelockStorage
      /\ JointSound(timelock, dao, frames, Len(frames))
      /\ Marked(dao, frames, Len(frames))
  BY DEF Current, StoresSound, DaoSound, World, TimelockSound
<1>2. a # DAO /\ a \in Address /\ Zero \in Address
  BY NDAOExecutorAssumption DEF Address
<1>3. CASE AcceptAdmin(a) /\ UNCHANGED dao
  <2>1. timelock' = [timelock EXCEPT !.admin = a, !.pendingAdmin = Zero]
    BY <1>3 DEF AcceptAdmin
  <2>2. /\ timelock' \in TimelockStorage /\ timelock'.admin = a
        /\ timelock'.queued = timelock.queued /\ timelock'.since = timelock.since
        /\ timelock'.ran = timelock.ran /\ timelock'.delay = timelock.delay
    BY <2>1, <1>1, <1>2 DEF TimelockStorage
  <2>3. TimelockSound(timelock', timestamp)
    BY <2>2, <1>1 DEF TimelockSound
  <2>4. JointSound(timelock', dao, frames, Len(frames))
    BY <2>2, <1>2 DEF JointSound
  <2> QED BY <2>3, <2>4, <1>1, <1>3 DEF StoresSound
<1>4. ASSUME NEW tx \in DirectTxs, QueueTransaction(a, tx), UNCHANGED dao
      PROVE  StoresSound(timelock', dao', frames, Len(frames), block, timestamp)
  <2>1. timelock' = Queue(timelock, tx) /\ CanQueue(timelock, a, tx)
    BY <1>4 DEF QueueTransaction
  <2>2. tx \in Transaction
    BY NDAOLogicV1Assumption
  <2>3. {Entry(x) : x \in {tx}} = {Entry(tx)}
    OBVIOUS
  <2>4. timelock' = [timelock EXCEPT !.queued = @ \cup {tx},
                                     !.since = @ \cup {Entry(x) : x \in {tx}}]
    BY <2>1, <2>3 DEF Queue
  <2>5. \A x \in {tx} : x.eta >= timestamp + timelock.delay
    BY <2>1 DEF CanQueue
  <2>6. {tx} \in SUBSET Transaction
    BY <2>2
  <2>7. TimelockSound(timelock', timestamp)
    BY <2>4, <2>5, <2>6, <1>1, QueuingIsSound
  <2>8. timelock'.admin # DAO
    <3>1. timelock'.admin = timelock.admin
      BY <2>1, <1>1 DEF Queue, TimelockStorage
    <3> QED BY <3>1, <2>1, <1>2 DEF CanQueue
  <2> QED BY <2>7, <2>8, <1>1, <1>4 DEF StoresSound, JointSound
<1>5. ASSUME NEW tx \in DirectTxs, CancelTransaction(a, tx), UNCHANGED dao
      PROVE  StoresSound(timelock', dao', frames, Len(frames), block, timestamp)
  <2>1. timelock' = [timelock EXCEPT !.queued = @ \ {tx}] /\ timelock.admin = a
    BY <1>5 DEF CancelTransaction, Cancel, CanCancel
  <2>2. TimelockSound(timelock', timestamp)
    BY <2>1, <1>1, CancelingIsSound
  <2>3. timelock'.admin # DAO
    BY <2>1, <1>1, <1>2 DEF TimelockStorage
  <2> QED BY <2>2, <2>3, <1>1, <1>5 DEF StoresSound, JointSound
<1>6. ASSUME NEW tx \in DirectTxs, ExecuteTransaction(a, tx)
      PROVE  StoresSound(timelock', dao', frames, Len(frames), block, timestamp)
  <2>1. PICK t : t = Run(timelock, tx)
    OBVIOUS
  <2>2. /\ CanRun(timelock, a, tx) /\ CanMake(t, dao, tx.call)
        /\ timelock' = TimelockAfter(t, tx.call) /\ dao' = DaoAfter(dao, tx.call)
    BY <1>6, <2>1 DEF ExecuteTransaction
  <2>3. TimelockSound(t, timestamp) /\ tx.call \in Calls
    <3>1. tx \in Transaction
      BY NDAOLogicV1Assumption
    <3> QED BY <3>1, <2>1, <2>2, <1>1, RunningIsSound DEF Transaction
  <2>4. t.admin # DAO
    <3>1. t.admin = timelock.admin
      BY <2>1, <1>1 DEF Run, TimelockStorage
    <3> QED BY <3>1, <2>2, <1>2 DEF CanRun
  <2>5. TimelockSound(timelock', timestamp) /\ timelock'.admin # DAO
    BY <2>2, <2>3, <2>4, SelfCallIsSound DEF CanMake
  <2>6. /\ DaoSound(dao', block)
        /\ dao'.proposals = dao.proposals /\ dao'.proposalCount = dao.proposalCount
    BY <2>2, <2>3, <1>1, DaoAfterKeeps DEF CanMake
  <2>7. Marked(dao', frames, Len(frames))
    BY <2>6, <1>1, JointSameProposals
  <2> QED BY <2>5, <2>6, <2>7 DEF StoresSound, JointSound
<1> QED BY <1>3, <1>4, <1>5, <1>6 DEF TimelockCall

-----------------------------------------------------------------------------
(* Executions                                                              *)

Frame ==
  [id : Ids, next : Nat \ {0}, outside : BOOLEAN,
   saved : [timelock : TimelockStorage, dao : DaoStorage,
            electorate : Electorates]]

\* The inductive invariant: the storage is sound, and so is the storage that
\* each execution under way would put back, with the executions around it.
GovInv ==
  /\ World
  /\ frames \in Seq(Frame) /\ Len(frames) <= MaxDepth
  /\ Current
  /\ \A k \in 1 .. Len(frames) :
       StoresSound(frames[k].saved.timelock, frames[k].saved.dao,
                   frames, k - 1, block, timestamp)

\* What StoresSound reads of the executions.
LEMMA FramesAgree ==
  ASSUME NEW t, NEW d, NEW fs, NEW gs, NEW n \in Nat, NEW b, NEW now,
         \A k \in 1 .. n : gs[k].id = fs[k].id /\ gs[k].next = fs[k].next,
         StoresSound(t, d, fs, n, b, now)
  PROVE  StoresSound(t, d, gs, n, b, now)
<1>1. \A p, id, tx : Waiting(p, id, tx, fs, n) => Waiting(p, id, tx, gs, n)
  BY DEF Waiting
<1>2. JointSound(t, d, gs, n)
  BY <1>1 DEF StoresSound, JointSound
<1>3. Marked(d, gs, n)
  BY DEF StoresSound, Marked
<1> QED BY <1>2, <1>3 DEF StoresSound

\* A step that starts, ends and advances no execution.
LEMMA SameFrames ==
  ASSUME GovInv, World',
         StoresSound(timelock', dao', frames, Len(frames), block, timestamp),
         UNCHANGED <<frames, block, timestamp>>
  PROVE  GovInv'
<1>1. Current'
  BY DEF Current
<1>2. \A k \in 1 .. Len(frames') :
        StoresSound(frames'[k].saved.timelock, frames'[k].saved.dao,
                    frames', k - 1, block', timestamp')
  BY DEF GovInv
<1>3. frames' \in Seq(Frame) /\ Len(frames') <= MaxDepth
  BY DEF GovInv
<1> QED BY <1>1, <1>2, <1>3 DEF GovInv

LEMMA SameWorld ==
  ASSUME World, UNCHANGED <<block, timestamp, electorate, pastVotes>>
  PROVE  World'
BY DEF World

LEMMA ExecuteKeeps ==
  ASSUME GovInv, NEW id \in Ids, Execute(id)
  PROVE  GovInv'
<1> DEFINE p == dao.proposals[id]
           n == Len(frames)
           f == [id |-> id, next |-> 1, outside |-> FALSE, saved |-> Saved]
<1>1. /\ dao \in DaoStorage /\ DaoSound(dao, block) /\ block \in Nat
      /\ TimelockSound(timelock, timestamp) /\ timelock \in TimelockStorage
      /\ JointSound(timelock, dao, frames, n)
      /\ Marked(dao, frames, n)
  BY DEF GovInv, Current, StoresSound, DaoSound, World, TimelockSound
<1>2. /\ frames \in Seq(Frame) /\ n \in Nat
      /\ frames' = Append(frames, f)
      /\ UNCHANGED <<timelock, timestamp, block, electorate, pastVotes>>
      /\ State(dao, id) = "Queued" /\ id <= dao.proposalCount
  BY DEF GovInv, Execute
<1>3. f \in Frame
  <2>1. Saved \in [timelock : TimelockStorage, dao : DaoStorage, electorate : Electorates]
    BY <1>1 DEF Saved, GovInv, World
  <2> HIDE DEF Saved
  <2> QED BY <2>1 DEF Frame
<1>4. /\ f.id = id /\ f.next = 1 /\ f.saved.timelock = timelock /\ f.saved.dao = dao
  BY DEF Saved
<1> HIDE DEF f, n
<1>5. /\ frames' \in Seq(Frame) /\ Len(frames') = n + 1
      /\ frames'[n + 1] = f /\ \A k \in 1 .. n : frames'[k] = frames[k]
  BY <1>2, <1>3 DEF n
<1>6. Len(frames') <= MaxDepth
  BY <1>2, <1>5, NDAOLogicV1Assumption DEF Execute, n
<1>7. p \in Proposal
  BY <1>1 DEF DaoStorage
<1>8. /\ Won(p, block) /\ p.eta # 0 /\ ~p.executed
      /\ ~p.canceled /\ ~p.vetoed
  BY <1>1, <1>2, <1>7, StateFacts
<1>9. id # 0
  BY <1>1, <1>8 DEF DaoSound, Blank
<1>10. id \in 1 .. dao.proposalCount
  BY <1>1, <1>2, <1>9, IdsType DEF DaoStorage
<1>11. PICK q : q = [p EXCEPT !.executed = TRUE]
  OBVIOUS
<1>12. dao' = [dao EXCEPT !.proposals[id] = q]
  BY <1>11 DEF Execute
<1>13. /\ q \in Proposal /\ q.eta = p.eta
       /\ q.proposer = p.proposer /\ q.actions = p.actions
       /\ q.startBlock = p.startBlock /\ q.endBlock = p.endBlock
       /\ q.forVotes = p.forVotes /\ q.againstVotes = p.againstVotes
       /\ q.quorumVotes = p.quorumVotes /\ q.executed
       /\ q.canceled = p.canceled /\ q.vetoed = p.vetoed
  <2> HIDE DEF p
  <2> QED BY <1>7, <1>11 DEF Proposal
<1>14. OutcomeSound(q, block)
  BY <1>8, <1>13 DEF OutcomeSound, Won
<1>15. DaoSound(dao', block)
  <2>1. Open(q, block) => Open(p, block)
    BY <1>13 DEF Open
  <2> QED BY <2>1, <1>1, <1>9, <1>12, <1>13, <1>14, OneProposalChanges
<1>16. /\ dao'.proposalCount = dao.proposalCount
       /\ \A i \in Ids : dao'.proposals[i] = IF i = id THEN q ELSE dao.proposals[i]
       /\ \A i \in 1 .. dao.proposalCount : i \in Ids /\ i # 0
  BY <1>1, <1>12, <1>13, OneProposal
<1>17. Marked(dao', frames', n + 1)
  <2>1. ASSUME NEW k \in 1 .. n + 1
        PROVE  frames'[k].id \in 1 .. dao'.proposalCount /\ dao'.proposals[frames'[k].id].executed
    <3>1. CASE k = n + 1
      BY <3>1, <1>4, <1>5, <1>10, <1>13, <1>16
    <3>2. CASE k \in 1 .. n
      <4>1. /\ frames'[k] = frames[k] /\ frames[k].id \in 1 .. dao.proposalCount
            /\ dao.proposals[frames[k].id].executed
        BY <3>2, <1>1, <1>5 DEF Marked
      <4> QED BY <4>1, <1>13, <1>16
    <3> QED BY <3>1, <3>2, <1>2 DEF n
  <2> QED BY <2>1 DEF Marked
<1>18. ASSUME timelock.admin = DAO, NEW j \in DOMAIN timelock.ran
       PROVE  \E i \in 1 .. dao'.proposalCount :
                /\ timelock.ran[j].tx \in Txs(dao'.proposals[i])
                /\ dao'.proposals[i].executed
  <2>1. PICK i \in 1 .. dao.proposalCount :
          timelock.ran[j].tx \in Txs(dao.proposals[i]) /\ dao.proposals[i].executed
    BY <1>1, <1>18 DEF JointSound
  <2>2. i # id
    BY <2>1, <1>8
  <2> QED BY <2>1, <2>2, <1>16
<1>19. ASSUME timelock.admin = DAO, NEW tx \in timelock.queued
       PROVE  \E i \in 1 .. dao'.proposalCount :
                Waiting(dao'.proposals[i], i, tx, frames', n + 1)
  <2>1. PICK i \in 1 .. dao.proposalCount : Waiting(dao.proposals[i], i, tx, frames, n)
    BY <1>1, <1>19 DEF JointSound
  <2>2. CASE i = id
    <3>1. \A x : Tx(q, x) = Tx(p, x)
      BY <1>13 DEF Tx
    <3>2. PICK x \in DOMAIN p.actions : tx = Tx(p, x)
      BY <2>1, <2>2 DEF Waiting, Txs
    <3>3. x >= 1
      <4>1. p.actions \in Seq(Calls)
        BY <1>7, ActionsType
      <4> QED BY <4>1, <3>2
    <3>4. Waiting(q, id, tx, frames', n + 1)
      <4>1. tx \in Txs(q)
        BY <3>1, <3>2, <1>13 DEF Txs
      <4>2. n + 1 \in 1 .. n + 1
        BY <1>2 DEF n
      <4>3. frames'[n + 1].id = id /\ frames'[n + 1].next <= x /\ tx = Tx(q, x)
        BY <3>1, <3>2, <3>3, <1>4, <1>5
      <4> QED BY <4>1, <4>2, <4>3, <3>2, <1>8, <1>13 DEF Waiting
    <3> QED BY <3>4, <2>2, <1>16
  <2>3. CASE i # id
    <3>1. Waiting(dao.proposals[i], i, tx, frames', n + 1)
      <4>1. \A k \in 1 .. n : k \in 1 .. n + 1
        BY <1>2 DEF n
      <4> QED BY <4>1, <2>1, <1>5 DEF Waiting
    <3> QED BY <3>1, <2>3, <1>16
  <2> QED BY <2>2, <2>3
<1>20. Current'
  BY <1>1, <1>2, <1>5, <1>15, <1>17, <1>18, <1>19
     DEF Current, StoresSound, JointSound
<1>21. ASSUME NEW k \in 1 .. Len(frames')
       PROVE  StoresSound(frames'[k].saved.timelock, frames'[k].saved.dao,
                          frames', k - 1, block', timestamp')
  <2>1. CASE k = n + 1
    <3>1. StoresSound(timelock, dao, frames, n, block, timestamp)
      BY DEF GovInv, Current, n
    <3>2. StoresSound(timelock, dao, frames', n, block, timestamp)
      BY <3>1, <1>2, <1>5, FramesAgree DEF n
    <3>3. k - 1 = n
      BY <2>1, <1>2 DEF n
    <3> QED BY <2>1, <3>2, <3>3, <1>2, <1>4, <1>5
  <2>2. CASE k \in 1 .. n
    <3>1. k - 1 \in Nat /\ \A x \in 1 .. k - 1 : x \in 1 .. n
      BY <2>2, <1>2 DEF n
    <3>2. StoresSound(frames[k].saved.timelock, frames[k].saved.dao,
                      frames, k - 1, block, timestamp)
      BY <2>2 DEF GovInv, n
    <3>3. StoresSound(frames[k].saved.timelock, frames[k].saved.dao,
                      frames', k - 1, block, timestamp)
      BY <3>1, <3>2, <1>5, FramesAgree
    <3> QED BY <2>2, <3>3, <1>2, <1>5
  <2> QED BY <2>1, <2>2, <1>2, <1>5 DEF n
<1>22. World'
  BY <1>2, SameWorld DEF GovInv
<1> QED BY <1>5, <1>6, <1>20, <1>21, <1>22, SMTT(30) DEF GovInv

\* A step that rewrites the innermost frame but not what it would put back.
LEMMA TopRewritten ==
  ASSUME GovInv, World', UNCHANGED <<block, timestamp>>, frames # <<>>,
         NEW f \in Frame, f.id = Top.id, f.saved = Top.saved,
         frames' = [frames EXCEPT ![Len(frames)] = f],
         StoresSound(timelock', dao', frames', Len(frames), block, timestamp)
  PROVE  GovInv'
<1> DEFINE n == Len(frames)
<1>1. frames \in Seq(Frame) /\ n \in Nat /\ n \in 1 .. n /\ n <= MaxDepth
  BY DEF GovInv
<1>2. /\ frames' \in Seq(Frame) /\ Len(frames') = n
      /\ frames'[n] = f /\ \A k \in 1 .. n - 1 : frames'[k] = frames[k]
  BY <1>1
<1> HIDE DEF n
<1>3. ASSUME NEW k \in 1 .. n
      PROVE  StoresSound(frames'[k].saved.timelock, frames'[k].saved.dao,
                         frames', k - 1, block', timestamp')
  <2>1. frames'[k].saved = frames[k].saved
    <3>1. CASE k = n
      BY <3>1, <1>2 DEF Top, n
    <3>2. CASE k \in 1 .. n - 1
      BY <3>2, <1>2
    <3> QED BY <3>1, <3>2, <1>1
  <2>2. k - 1 \in Nat /\ \A x \in 1 .. k - 1 : x \in 1 .. n - 1
    BY <1>1
  <2>3. StoresSound(frames[k].saved.timelock, frames[k].saved.dao,
                    frames, k - 1, block, timestamp)
    BY DEF GovInv, n
  <2>4. StoresSound(frames[k].saved.timelock, frames[k].saved.dao,
                    frames', k - 1, block, timestamp)
    BY <2>2, <2>3, <1>2, FramesAgree
  <2> QED BY <2>1, <2>4
<1>4. Current'
  BY <1>2 DEF Current, n
<1> QED BY <1>1, <1>2, <1>3, <1>4 DEF GovInv

LEMMA ReturnKeeps ==
  ASSUME GovInv, ReturnFromCall
  PROVE  GovInv'
<1> DEFINE n == Len(frames)
<1>1. /\ frames \in Seq(Frame) /\ n \in Nat /\ frames # <<>>
      /\ frames' = [frames EXCEPT ![n].outside = FALSE]
      /\ UNCHANGED <<timelock, timestamp, dao, block, electorate, pastVotes>>
  BY DEF GovInv, ReturnFromCall
<1>2. n \in 1 .. n /\ Top \in Frame
  BY <1>1 DEF Top
<1>3. PICK f : f = [Top EXCEPT !.outside = FALSE]
  OBVIOUS
<1>4. frames' = [frames EXCEPT ![n] = f]
  BY <1>1, <1>2, <1>3 DEF Top
<1> HIDE DEF Top
<1>5. f \in Frame /\ f.id = Top.id /\ f.next = Top.next /\ f.saved = Top.saved
  BY <1>2, <1>3 DEF Frame
<1>6. \A k \in 1 .. n : frames'[k].id = frames[k].id /\ frames'[k].next = frames[k].next
  BY <1>1, <1>4, <1>5 DEF Top
<1>7. StoresSound(timelock', dao', frames', n, block, timestamp)
  <2>1. StoresSound(timelock, dao, frames, n, block, timestamp)
    BY DEF GovInv, Current
  <2> HIDE DEF n
  <2>2. StoresSound(timelock, dao, frames', n, block, timestamp)
    BY <2>1, <1>1, <1>6, FramesAgree, ZenonT(60)
  <2> QED BY <2>2, <1>1
<1>8. World'
  BY <1>1, SameWorld DEF GovInv
<1> QED BY <1>1, <1>4, <1>5, <1>7, <1>8, TopRewritten

LEMMA ExecuteActionKeeps ==
  ASSUME GovInv, ExecuteAction
  PROVE  GovInv'
<1> DEFINE n == Len(frames)
           id == Top.id
           p == dao.proposals[id]
           c == NextTx.call
<1>1. /\ dao \in DaoStorage /\ DaoSound(dao, block) /\ block \in Nat
      /\ TimelockSound(timelock, timestamp) /\ timelock \in TimelockStorage
      /\ timestamp \in Nat
      /\ JointSound(timelock, dao, frames, n)
      /\ Marked(dao, frames, n)
  BY DEF GovInv, Current, StoresSound, DaoSound, World, TimelockSound
<1>2. frames \in Seq(Frame) /\ n \in Nat /\ frames # <<>>
  BY DEF GovInv, ExecuteAction, Running
<1>3. n \in 1 .. n /\ Top \in Frame
  BY <1>2 DEF Top
<1>4. PICK t : t = Run(timelock, NextTx)
  OBVIOUS
<1>5. /\ CanRun(timelock, DAO, NextTx) /\ CanMake(t, dao, c)
      /\ timelock' = TimelockAfter(t, c) /\ dao' = DaoAfter(dao, c)
      /\ Top.next <= Len(p.actions)
      /\ UNCHANGED <<timestamp, block, electorate, pastVotes>>
  BY <1>4 DEF ExecuteAction, ActionsLeft
<1>o. PICK o \in BOOLEAN : o = (c.fn \notin SelfCalls \cup DaoCalls)
  OBVIOUS
<1>6. PICK f : f = [Top EXCEPT !.next = Top.next + 1, !.outside = o]
  OBVIOUS
<1>7. frames' = [frames EXCEPT ![n] = f]
  BY <1>2, <1>3, <1>o, <1>6 DEF ExecuteAction, Top
<1>8. /\ f \in Frame /\ f.id = Top.id /\ f.saved = Top.saved
      /\ f.next = Top.next + 1 /\ Top.next \in Nat \ {0}
  <2> HIDE DEF Top
  <2>1. Top.next \in Nat \ {0}
    BY <1>3 DEF Frame
  <2>2. Top.next + 1 \in Nat \ {0}
    BY <2>1
  <2>3. f \in Frame
    BY <2>2, <1>3, <1>6 DEF Frame
  <2>4. f.id = Top.id /\ f.saved = Top.saved /\ f.next = Top.next + 1
    BY <1>3, <1>6 DEF Frame
  <2> QED BY <2>1, <2>3, <2>4
<1>9. /\ \A k \in 1 .. n - 1 : frames'[k] = frames[k]
      /\ frames'[n] = f /\ Len(frames') = n
  BY <1>2, <1>3, <1>7
<1>10. id \in 1 .. dao.proposalCount /\ p.executed /\ p \in Proposal
  <2>1. frames[n].id \in 1 .. dao.proposalCount /\ dao.proposals[frames[n].id].executed
    BY <1>1, <1>3 DEF Marked
  <2>2. id \in Ids
    BY <1>3 DEF Frame
  <2> QED BY <2>1, <2>2, <1>1 DEF Top, DaoStorage
<1> HIDE DEF n
<1>11. Top.next \in DOMAIN p.actions /\ p.actions \in Seq(Calls)
  <2>1. p.actions \in Seq(Calls)
    BY <1>10, ActionsType
  <2> QED BY <2>1, <1>5, <1>8
<1>12. /\ NextTx = Tx(p, Top.next) /\ NextTx \in Txs(p) /\ c \in Calls
  <2>1. NextTx = Tx(p, Top.next)
    BY DEF NextTx
  <2>2. NextTx.call = p.actions[Top.next]
    BY <2>1 DEF Tx
  <2> QED BY <2>1, <2>2, <1>11 DEF Txs
<1> HIDE DEF c, p, id
<1>13. TimelockSound(t, timestamp)
  BY <1>1, <1>4, <1>5, RunningIsSound
<1>14. /\ t.queued = timelock.queued \ {NextTx} /\ t.admin = timelock.admin
       /\ t.ran = Append(timelock.ran, Entry(NextTx))
  BY <1>1, <1>4 DEF Run, TimelockStorage
<1>15. /\ TimelockSound(timelock', timestamp)
       /\ timelock'.queued = t.queued /\ timelock'.ran = t.ran
       /\ timelock'.admin = DAO => t.admin = DAO
  BY <1>5, <1>12, <1>13, SelfCallIsSound DEF CanMake
<1>16. /\ DaoSound(dao', block)
       /\ dao'.proposals = dao.proposals /\ dao'.proposalCount = dao.proposalCount
  BY <1>1, <1>5, <1>12, DaoAfterKeeps DEF CanMake
<1>17. Marked(dao', frames', n)
  <2>1. \A k \in 1 .. n : frames'[k].id = frames[k].id
    BY <1>2, <1>8, <1>9 DEF Top, n
  <2> QED BY <2>1, <1>1, <1>16 DEF Marked
<1>18. ASSUME timelock.admin = DAO, NEW j \in DOMAIN t.ran
       PROVE  \E i \in 1 .. dao.proposalCount :
                t.ran[j].tx \in Txs(dao.proposals[i]) /\ dao.proposals[i].executed
  <2>1. /\ timelock.ran \in Seq([tx : Transaction, at : Nat])
    BY <1>1 DEF TimelockStorage
  <2>2. \/ j = Len(timelock.ran) + 1 /\ t.ran[j] = Entry(NextTx)
        \/ j \in DOMAIN timelock.ran /\ t.ran[j] = timelock.ran[j]
    BY <2>1, <1>14, <1>18
  <2>3. CASE t.ran[j] = Entry(NextTx)
    <3>1. t.ran[j].tx = NextTx
      BY <2>3 DEF Entry
    <3> QED BY <3>1, <1>10, <1>12 DEF p
  <2>4. CASE j \in DOMAIN timelock.ran /\ t.ran[j] = timelock.ran[j]
    BY <2>4, <1>1, <1>18 DEF JointSound
  <2> QED BY <2>2, <2>3, <2>4
<1>19. ASSUME timelock.admin = DAO, NEW tx \in t.queued
       PROVE  \E i \in 1 .. dao.proposalCount :
                Waiting(dao.proposals[i], i, tx, frames', n)
  <2>1. tx \in timelock.queued /\ tx # NextTx
    BY <1>14
  <2>2. PICK i \in 1 .. dao.proposalCount : Waiting(dao.proposals[i], i, tx, frames, n)
    BY <2>1, <1>1, <1>19 DEF JointSound
  <2>3. ASSUME dao.proposals[i].executed
        PROVE  \E k \in 1 .. n, x \in DOMAIN dao.proposals[i].actions :
                 /\ frames'[k].id = i /\ frames'[k].next <= x
                 /\ tx = Tx(dao.proposals[i], x)
    <3>1. PICK k \in 1 .. n, x \in DOMAIN dao.proposals[i].actions :
            /\ frames[k].id = i /\ frames[k].next <= x
            /\ tx = Tx(dao.proposals[i], x)
      BY <2>2, <2>3 DEF Waiting
    <3>2. CASE k \in 1 .. n - 1
      BY <3>1, <3>2, <1>9
    <3>3. CASE k = n
      <4>1. Top.id = i /\ Top.next <= x
        BY <3>1, <3>3 DEF Top, n
      <4>2. x # Top.next
        BY <4>1, <3>1, <2>1, <1>12 DEF p, id
      <4>3. x \in Nat
        <5>1. dao.proposals[i].actions \in Seq(Calls)
          BY <4>1, <1>11 DEF p, id
        <5> QED BY <5>1, <3>1
      <4>4. frames'[k].id = i /\ frames'[k].next <= x
        BY <4>1, <4>2, <4>3, <3>3, <1>8, <1>9
      <4> QED BY <4>4, <3>1
    <3> QED BY <3>2, <3>3, <1>2 DEF n
  <2> QED BY <2>2, <2>3 DEF Waiting
<1>20. JointSound(t, dao, frames', n)
  BY <1>14, <1>18, <1>19 DEF JointSound
<1>21. JointSound(timelock', dao, frames', n)
  BY <1>15, <1>20, JointShrinks
<1>22. JointSound(timelock', dao', frames', n)
  BY <1>16, <1>21, JointSameProposals
<1>23. StoresSound(timelock', dao', frames', n, block, timestamp)
  BY <1>15, <1>16, <1>17, <1>22 DEF StoresSound
<1>24. World'
  BY <1>5, SameWorld DEF GovInv
<1> QED BY <1>2, <1>5, <1>7, <1>8, <1>23, <1>24, TopRewritten DEF n

\* The executions that remain when the innermost one is over.
LEMMA FrontFacts ==
  ASSUME GovInv, frames # <<>>, frames' = Front(frames)
  PROVE  /\ Len(frames) \in Nat \ {0}
         /\ frames' \in Seq(Frame) /\ Len(frames') = Len(frames) - 1
         /\ \A k \in 1 .. Len(frames) - 1 : frames'[k] = frames[k]
<1>1. frames \in Seq(Frame) /\ Len(frames) \in Nat \ {0}
  BY DEF GovInv
<1>2. frames' = SubSeq(frames, 1, Len(frames) - 1)
  BY DEF Front
<1>3. PICK n \in Nat : n = Len(frames) - 1
  BY <1>1
<1>4. Len(frames') = n /\ \A k \in 1 .. n : frames'[k] = frames[k]
  BY <1>1, <1>2, <1>3
<1>5. frames' \in Seq(Frame)
  BY <1>1, <1>2, <1>3
<1> QED BY <1>1, <1>3, <1>4, <1>5

LEMMA PoppedKeeps ==
  ASSUME GovInv, World', UNCHANGED <<block, timestamp>>,
         frames # <<>>, frames' = Front(frames),
         StoresSound(timelock', dao', frames, Len(frames) - 1, block, timestamp)
  PROVE  GovInv'
<1> DEFINE n == Len(frames)
<1>1. /\ n \in Nat \ {0} /\ frames' \in Seq(Frame) /\ Len(frames') = n - 1
      /\ \A k \in 1 .. n - 1 : frames'[k] = frames[k]
  BY FrontFacts
<1>2. Len(frames') <= MaxDepth
  BY <1>1, NDAOLogicV1Assumption DEF GovInv
<1>3. ASSUME NEW m \in 0 .. n - 1, NEW t, NEW d, StoresSound(t, d, frames, m, block, timestamp)
      PROVE  StoresSound(t, d, frames', m, block', timestamp')
  <2>1. m \in Nat /\ \A k \in 1 .. m : k \in 1 .. n - 1
    BY <1>1
  <2>2. StoresSound(t, d, frames', m, block, timestamp)
    BY <2>1, <1>1, <1>3, FramesAgree
  <2> QED BY <2>2
<1>4. Current'
  <2>1. n - 1 \in 0 .. n - 1
    BY <1>1
  <2> QED BY <2>1, <1>1, <1>3 DEF Current
<1>5. ASSUME NEW k \in 1 .. Len(frames')
      PROVE  StoresSound(frames'[k].saved.timelock, frames'[k].saved.dao,
                         frames', k - 1, block', timestamp')
  <2>1. k \in 1 .. n - 1 /\ k - 1 \in 0 .. n - 1 /\ k \in 1 .. n
    BY <1>1
  <2>2. StoresSound(frames[k].saved.timelock, frames[k].saved.dao,
                    frames, k - 1, block, timestamp)
    BY <2>1 DEF GovInv
  <2> QED BY <2>1, <2>2, <1>1, <1>3
<1> QED BY <1>1, <1>2, <1>4, <1>5 DEF GovInv

LEMMA RevertKeeps ==
  ASSUME GovInv, RevertExecution
  PROVE  GovInv'
<1> DEFINE n == Len(frames)
<1>1. /\ frames # <<>> /\ frames' = Front(frames)
      /\ timelock' = frames[n].saved.timelock /\ dao' = frames[n].saved.dao
      /\ electorate' = frames[n].saved.electorate
      /\ UNCHANGED <<timestamp, block, pastVotes>>
  BY DEF RevertExecution, Top
<1>2. frames \in Seq(Frame) /\ n \in 1 .. n
  BY <1>1 DEF GovInv
<1>3. StoresSound(timelock', dao', frames, n - 1, block, timestamp)
  BY <1>1, <1>2 DEF GovInv
<1>4. electorate' \in Electorates
  <2>1. frames[n] \in Frame
    BY <1>2
  <2> QED BY <2>1, <1>1 DEF Frame
<1>5. World'
  BY <1>1, <1>4 DEF GovInv, World
<1> QED BY <1>1, <1>3, <1>5, PoppedKeeps

LEMMA FinishKeeps ==
  ASSUME GovInv, FinishExecution
  PROVE  GovInv'
<1> DEFINE n == Len(frames)
<1>1. /\ frames # <<>> /\ frames' = Front(frames)
      /\ ~(frames[n].next <= Len(dao.proposals[frames[n].id].actions))
      /\ UNCHANGED <<timelock, timestamp, dao, block, electorate, pastVotes>>
  BY DEF FinishExecution, Running, ActionsLeft, Top
<1>2. frames \in Seq(Frame) /\ n \in 1 .. n /\ n \in Nat /\ frames[n].next \in Nat
  <2>1. frames \in Seq(Frame) /\ n \in 1 .. n /\ n \in Nat
    BY <1>1 DEF GovInv
  <2>2. frames[n] \in Frame
    BY <2>1
  <2> QED BY <2>1, <2>2 DEF Frame
<1>3. StoresSound(timelock, dao, frames, n, block, timestamp)
  BY DEF GovInv, Current
<1> HIDE DEF n
<1>4. \A k \in 1 .. n - 1 : k \in 1 .. n
  BY <1>2
<1>5. Marked(dao, frames, n - 1)
  BY <1>3, <1>4 DEF StoresSound, Marked
<1>6. ASSUME timelock.admin = DAO, NEW tx \in timelock.queued
      PROVE  \E i \in 1 .. dao.proposalCount :
               Waiting(dao.proposals[i], i, tx, frames, n - 1)
  <2>1. PICK i \in 1 .. dao.proposalCount : Waiting(dao.proposals[i], i, tx, frames, n)
    BY <1>3, <1>6 DEF StoresSound, JointSound
  <2>2. ASSUME dao.proposals[i].executed
        PROVE  \E k \in 1 .. n - 1, x \in DOMAIN dao.proposals[i].actions :
                 /\ frames[k].id = i /\ frames[k].next <= x
                 /\ tx = Tx(dao.proposals[i], x)
    <3>1. PICK k \in 1 .. n, x \in DOMAIN dao.proposals[i].actions :
            /\ frames[k].id = i /\ frames[k].next <= x
            /\ tx = Tx(dao.proposals[i], x)
      BY <2>1, <2>2 DEF Waiting
    <3>2. k # n
      <4>1. dao.proposals[i].actions \in Seq(Calls)
        <5>1. i \in Ids
          BY <1>3, IdsType DEF StoresSound, DaoSound, DaoStorage
        <5>2. dao.proposals[i] \in Proposal
          BY <5>1, <1>3 DEF StoresSound, DaoSound, DaoStorage
        <5> QED BY <5>2, ActionsType
      <4>2. x \in Nat /\ x <= Len(dao.proposals[i].actions) /\ Len(dao.proposals[i].actions) \in Nat
        BY <4>1, <3>1
      <4> QED BY <4>2, <3>1, <1>1, <1>2, SMTT(30)
    <3>3. k \in 1 .. n - 1
      BY <3>1, <3>2, <1>2
    <3> QED BY <3>1, <3>3
  <2> QED BY <2>1, <2>2 DEF Waiting
<1>7. JointSound(timelock, dao, frames, n - 1)
  BY <1>3, <1>6 DEF StoresSound, JointSound
<1>8. StoresSound(timelock', dao', frames, n - 1, block, timestamp)
  BY <1>1, <1>3, <1>5, <1>7 DEF StoresSound
<1>9. World'
  BY <1>1, SameWorld DEF GovInv
<1> QED BY <1>1, <1>8, <1>9, PoppedKeeps DEF n

LEMMA NextBlockKeeps ==
  ASSUME GovInv, NextBlock
  PROVE  GovInv'
<1>1. /\ frames = <<>> /\ block' = block + 1 /\ block < MaxBlock
      /\ UNCHANGED <<timelock, dao, electorate, frames>>
      /\ pastVotes' = [pastVotes EXCEPT ![block] = electorate.votes]
  BY DEF NextBlock
<1>2. World
  BY DEF GovInv
<1>3. timestamp' \in Nat /\ timestamp <= timestamp'
  <2>1. PICK dt \in BlockTimes : timestamp' = timestamp + dt
    BY DEF NextBlock
  <2>2. dt \in Nat
    BY NDAOLogicV1Assumption
  <2> QED BY <2>1, <2>2, <1>2 DEF World
<1>4. World'
  <2>1. electorate.votes \in [Accounts -> Nat]
    BY <1>2, NDAOLogicV1Assumption DEF World
  <2>2. block' \in Nat \ {0} /\ block' - 1 <= MaxBlock
    BY <1>1, <1>2, NDAOLogicV1Assumption DEF World
  <2> QED BY <2>1, <2>2, <1>1, <1>2, <1>3 DEF World
<1>5. StoresSound(timelock, dao, frames, Len(frames), block, timestamp)
  BY DEF GovInv, Current
<1>6. StoresSound(timelock, dao, frames, Len(frames), block', timestamp')
  BY <1>1, <1>2, <1>3, <1>5, TimelockSoundLater, DaoSoundLater DEF StoresSound, World
<1>7. Current'
  BY <1>1, <1>6 DEF Current
<1>8. frames' \in Seq(Frame) /\ Len(frames') = 0 /\ Len(frames') <= MaxDepth
  BY <1>1 DEF GovInv
<1> QED BY <1>4, <1>7, <1>8 DEF GovInv

LEMMA GovInit == Init => GovInv
<1> SUFFICES ASSUME Init PROVE GovInv
  OBVIOUS
<1>1. World
  <2>1. electorate.votes \in [Accounts -> Nat] /\ electorate \in Electorates
    BY NDAOLogicV1Assumption DEF Init
  <2>2. pastVotes \in [0 .. MaxBlock -> [Accounts -> Nat]]
    BY <2>1 DEF Init
  <2>3. block = 1 /\ timestamp = 1 /\ MaxBlock \in Nat
    BY NDAOLogicV1Assumption DEF Init
  <2> QED BY <2>1, <2>2, <2>3 DEF World
<1>2. TimelockSound(timelock, timestamp)
  <2>1. timelock = TimelockDeployed
    BY DEF Init
  <2>2. /\ timelock.queued = {} /\ timelock.since = {} /\ timelock.ran = <<>>
        /\ timelock.delay = FirstDelay
    BY <2>1 DEF TimelockDeployed
  <2>3. FirstDelay \in Nat
    BY NDAOExecutorAssumption
  <2>4. timelock \in TimelockStorage
    BY <2>1, <2>3 DEF TimelockDeployed, TimelockStorage, Address
  <2> QED BY <2>2, <2>4, NDAOExecutorAssumption DEF TimelockSound
<1>3. NoProposal \in Proposal
  <2>1. [x \in Accounts |-> NoReceipt] \in [Accounts -> Receipt]
    BY DEF NoReceipt, Receipt
  <2> QED BY <2>1 DEF Proposal, NoProposal
<1>4. /\ \A id \in Ids : dao.proposals[id] = NoProposal
      /\ dao.proposalCount = 0
  BY DEF Init
<1>5. dao \in DaoStorage
  <2>1. [id \in Ids |-> NoProposal] \in [Ids -> Proposal]
    BY <1>3
  <2>2. [a \in Accounts |-> 0] \in [Accounts -> Ids]
    BY IdsType
  <2>3. Vetoer \in Address /\ Executor \in Address /\ Zero \in Address
    BY NDAOLogicV1Assumption DEF Address
  <2> HIDE DEF NoProposal
  <2> QED BY <2>1, <2>2, <2>3, IdsType, NDAOLogicV1Assumption DEF Init, DaoStorage
<1>6. DaoSound(dao, block)
  <2>1. Blank(NoProposal) /\ OutcomeSound(NoProposal, block)
    BY DEF Blank, OutcomeSound, NoProposal
  <2>2. 1 .. dao.proposalCount = {}
    BY <1>4
  <2> QED BY <2>1, <2>2, <1>4, <1>5, IdsType DEF DaoSound
<1>7. frames = <<>> /\ Len(frames) = 0
  BY DEF Init
<1>8. timelock.ran = <<>> /\ timelock.queued = {}
  BY DEF Init, TimelockDeployed
<1>9. Current
  BY <1>2, <1>6, <1>7, <1>8 DEF Current, StoresSound, JointSound, Marked
<1>10. frames \in Seq(Frame) /\ Len(frames) <= MaxDepth
  BY <1>7, NDAOLogicV1Assumption
<1> QED BY <1>1, <1>7, <1>9, <1>10 DEF GovInv

LEMMA GovNext == GovInv /\ [Next]_vars => GovInv'
<1> SUFFICES ASSUME GovInv, [Next]_vars PROVE GovInv'
  OBVIOUS
<1>0. World /\ Current
  BY DEF GovInv
<1>1. ASSUME NEW a \in Accounts, NEW actions \in ActionLists, Propose(a, actions)
      PROVE  GovInv'
  <2>1. UNCHANGED <<timelock, timestamp, block, electorate, pastVotes, frames>>
    BY <1>1 DEF Propose
  <2> QED BY <2>1, <1>0, <1>1, ProposeKeeps, SameWorld, SameFrames
<1>2. ASSUME NEW a \in Accounts, NEW id \in Ids, CancelProposal(a, id)
      PROVE  GovInv'
  <2>1. UNCHANGED <<timestamp, block, electorate, pastVotes, frames>>
    BY <1>2 DEF CancelProposal
  <2> QED BY <2>1, <1>0, <1>2, CancelKeeps, SameWorld, SameFrames
<1>3. ASSUME NEW a \in Accounts, NEW id \in Ids, Veto(a, id)
      PROVE  GovInv'
  <2>1. UNCHANGED <<timestamp, block, electorate, pastVotes, frames>>
    BY <1>3 DEF Veto
  <2> QED BY <2>1, <1>0, <1>3, VetoKeeps, SameWorld, SameFrames
<1>4. ASSUME NEW a \in Accounts, NEW c \in Calls, AccountCalls(a, c)
      PROVE  GovInv'
  <2>1. UNCHANGED <<timelock, timestamp, block, electorate, pastVotes, frames>>
    BY <1>4 DEF AccountCalls
  <2> QED BY <2>1, <1>0, <1>4, AccountCallsKeep, SameWorld, SameFrames
<1>5. ASSUME NEW a \in Accounts, TimelockCall(a)
      PROVE  GovInv'
  <2>1. UNCHANGED <<timestamp, block, electorate, pastVotes, frames>>
    BY <1>5 DEF TimelockCall
  <2> QED BY <2>1, <1>0, <1>5, TimelockCallKeeps, SameWorld, SameFrames
<1>6. ASSUME NEW id \in Ids, NEW b \in Ballots, CastVote(b[1], id, b[2])
      PROVE  GovInv'
  <2>1. UNCHANGED <<timelock, timestamp, block, electorate, pastVotes, frames>>
    BY <1>6 DEF CastVote
  <2>2. b[1] \in Accounts /\ b[2] \in 0 .. 2
    BY NDAOLogicV1Assumption
  <2>3. StoresSound(timelock, dao', frames, Len(frames), block, timestamp)
    BY <2>2, <1>0, <1>6, CastVoteKeeps
  <2> QED BY <2>1, <2>3, <1>0, SameWorld, SameFrames
<1>7. ASSUME NEW id \in Ids, QueueProposal(id)
      PROVE  GovInv'
  <2>1. UNCHANGED <<timestamp, block, electorate, pastVotes, frames>>
    BY <1>7 DEF QueueProposal
  <2> QED BY <2>1, <1>0, <1>7, QueueKeeps, SameWorld, SameFrames
<1>8. CASE ElectorateChanges
  <2>1. /\ UNCHANGED <<timelock, timestamp, dao, block, pastVotes, frames>>
        /\ electorate' \in Electorates
    BY <1>8 DEF ElectorateChanges
  <2>2. World'
    BY <2>1, <1>0 DEF World
  <2>3. StoresSound(timelock', dao', frames, Len(frames), block, timestamp)
    BY <2>1, <1>0 DEF Current
  <2> QED BY <2>1, <2>2, <2>3, SameFrames
<1>9. CASE UNCHANGED vars
  <2>1. UNCHANGED <<timelock, timestamp, dao, block, electorate, pastVotes, frames>>
    BY <1>9 DEF vars
  <2>2. World'
    BY <2>1, <1>0, SameWorld
  <2>3. StoresSound(timelock', dao', frames, Len(frames), block, timestamp)
    BY <2>1, <1>0 DEF Current
  <2> QED BY <2>1, <2>2, <2>3, SameFrames
<1> QED BY <1>1, <1>2, <1>3, <1>4, <1>5, <1>6, <1>7, <1>8, <1>9, ExecuteKeeps,
           ExecuteActionKeeps, ReturnKeeps, RevertKeeps, FinishKeeps,
           NextBlockKeeps DEF Next

LEMMA GovHolds == Spec => []GovInv
BY GovInit, GovNext, PTL DEF Spec

-----------------------------------------------------------------------------
(* The theorems                                                            *)

\* No transaction of the timelock runs before it has waited MINIMUM_DELAY,
\* and none runs twice, whatever the called contracts call in between,
\* whichever executions fail, and whoever the admin is.
THEOREM TimelockWaitsAndRunsOnce == Spec => []RunsOnceInTime
<1>1. GovInv => RunsOnceInTime
  BY TimelockSoundSuffices DEF GovInv, Current, StoresSound
<1> QED BY <1>1, GovHolds, PTL

\* While the DAO is the admin, what the timelock has run is an action of a
\* proposal that won its vote, was neither canceled nor vetoed, and was
\* executed.
THEOREM PassedProposalsOnly == Spec => []OnlyPassedProposalsRun
<1>1. GovInv => OnlyPassedProposalsRun
  <2> SUFFICES ASSUME GovInv, DaoRules, NEW r \in Range(timelock.ran)
               PROVE  \E id \in 1 .. dao.proposalCount :
                        /\ r.tx \in Txs(dao.proposals[id])
                        /\ dao.proposals[id].executed
                        /\ ~dao.proposals[id].canceled
                        /\ ~dao.proposals[id].vetoed
                        /\ block > dao.proposals[id].endBlock
                        /\ dao.proposals[id].forVotes > dao.proposals[id].againstVotes
                        /\ dao.proposals[id].forVotes >= dao.proposals[id].quorumVotes
    BY DEF OnlyPassedProposalsRun
  <2>1. PICK i \in DOMAIN timelock.ran : r = timelock.ran[i]
    BY DEF Range
  <2>2. PICK id \in 1 .. dao.proposalCount :
          r.tx \in Txs(dao.proposals[id]) /\ dao.proposals[id].executed
    BY <2>1 DEF GovInv, Current, StoresSound, JointSound, DaoRules
  <2>3. id \in Ids
    <3>1. DaoSound(dao, block)
      BY DEF GovInv, Current, StoresSound
    <3>2. dao.proposalCount \in Ids
      BY <3>1 DEF DaoSound, DaoStorage
    <3> QED BY <2>2, <3>2, IdsType
  <2>4. OutcomeSound(dao.proposals[id], block)
    BY <2>3 DEF GovInv, Current, StoresSound, DaoSound
  <2> QED BY <2>2, <2>4 DEF OutcomeSound, Won
<1> QED BY <1>1, GovHolds, PTL

\* No account ever has two proposals that are pending or active.
THEOREM OneProposalAtATime == Spec => []OneLiveProposal
<1>1. GovInv => OneLiveProposal
  <2> SUFFICES ASSUME GovInv, NEW i \in 1 .. dao.proposalCount,
                      NEW j \in 1 .. dao.proposalCount,
                      dao.proposals[i].proposer = dao.proposals[j].proposer,
                      State(dao, i) \in {"Pending", "Active"},
                      State(dao, j) \in {"Pending", "Active"}
               PROVE  i = j
    BY DEF OneLiveProposal
  <2>1. DaoSound(dao, block) /\ block \in Nat
    BY DEF GovInv, World, Current, StoresSound
  <2>2. i \in Ids /\ j \in Ids
    BY <2>1, IdsType DEF DaoSound, DaoStorage
  <2>3. dao.proposals[i] \in Proposal /\ dao.proposals[j] \in Proposal
    BY <2>1, <2>2 DEF DaoSound, DaoStorage
  <2>4. Open(dao.proposals[i], block) /\ Open(dao.proposals[j], block)
    BY <2>1, <2>3, StateFacts
  <2> QED BY <2>1, <2>4 DEF DaoSound
<1> QED BY <1>1, GovHolds, PTL

\* Storage keeps its types and the settings their ranges, and between
\* executions the timelock holds only what a queued proposal waits for.
THEOREM StorageStaysSound == Spec => []StorageSound
<1>1. GovInv => TypeOK
  <2> SUFFICES ASSUME GovInv PROVE TypeOK
    BY SMTT(30)
  <2>1. dao \in DaoStorage /\ timelock \in TimelockStorage
    BY DEF GovInv, Current, StoresSound, DaoSound, TimelockSound
  <2>2. timelock.delay \in MinimumDelay .. MaximumDelay
    BY DEF GovInv, Current, StoresSound, TimelockSound
  <2>3. /\ timelock.admin \in Address /\ timelock.pendingAdmin \in Address
        /\ \A tx \in timelock.queued : tx.call \in Calls /\ tx.eta \in Nat
    BY <2>1 DEF TimelockStorage, Transaction
  <2>4. /\ \A id \in Ids : dao.proposals[id] \in Proposal
        /\ dao.proposalCount \in Ids
        /\ dao.latestProposalIds \in [Accounts -> Ids]
        /\ dao.admin \in Address /\ dao.pendingAdmin \in Address
        /\ dao.vetoer \in Address
    BY <2>1 DEF DaoStorage
  <2>5. ASSUME NEW fn \in Setters PROVE dao[Setting(fn)] \in Allowed(fn)
    <3>1. CASE fn = "_setVotingDelay"
      BY <3>1, <2>1 DEF Setting, Allowed, DaoStorage
    <3>2. CASE fn = "_setVotingPeriod"
      BY <3>2, <2>1 DEF Setting, Allowed, DaoStorage
    <3>3. CASE fn = "_setProposalThresholdBPS"
      BY <3>3, <2>1 DEF Setting, Allowed, DaoStorage
    <3>4. CASE fn = "_setQuorumVotesBPS"
      BY <3>4, <2>1 DEF Setting, Allowed, DaoStorage
    <3> QED BY <3>1, <3>2, <3>3, <3>4 DEF Setters
  <2>6. Len(frames) <= MaxDepth
    BY DEF GovInv
  <2> QED BY <2>2, <2>3, <2>4, <2>5, <2>6 DEF TypeOK
<1>2. GovInv => NoStrayTransaction
  <2> SUFFICES ASSUME GovInv, frames = <<>>, DaoRules, NEW tx \in timelock.queued
               PROVE  \E id \in 1 .. dao.proposalCount :
                        /\ tx \in Txs(dao.proposals[id])
                        /\ State(dao, id) \in {"Queued", "Expired"}
    BY DEF NoStrayTransaction
  <2>1. DaoSound(dao, block) /\ block \in Nat /\ Len(frames) = 0
    BY DEF GovInv, World, Current, StoresSound
  <2>2. PICK id \in 1 .. dao.proposalCount :
          Waiting(dao.proposals[id], id, tx, frames, 0)
    BY <2>1 DEF GovInv, Current, StoresSound, JointSound, DaoRules
  <2>3. id \in Ids
    BY <2>1, IdsType DEF DaoSound, DaoStorage
  <2>4. dao.proposals[id] \in Proposal /\ OutcomeSound(dao.proposals[id], block)
    BY <2>1, <2>3 DEF DaoSound, DaoStorage
  <2>5. /\ dao.proposals[id].eta # 0 /\ ~dao.proposals[id].executed
        /\ ~dao.proposals[id].canceled /\ ~dao.proposals[id].vetoed
        /\ tx \in Txs(dao.proposals[id])
    BY <2>2 DEF Waiting
  <2> QED BY <2>1, <2>4, <2>5, StateFacts
<1> QED BY <1>1, <1>2, GovHolds, PTL DEF StorageSound

-----------------------------------------------------------------------------
(* The states of a proposal                                                *)

\* What the calls of one block, at the time now, may do to a proposal.
Moved(p, q, b, now) ==
  /\ q.startBlock = p.startBlock /\ q.endBlock = p.endBlock
  /\ q.actions = p.actions
  /\ p.vetoed => q.vetoed
  /\ p.canceled => q.canceled
  /\ q.quorumVotes = p.quorumVotes
  /\ b > p.endBlock =>
       q.forVotes = p.forVotes /\ q.againstVotes = p.againstVotes
  /\ q.eta = p.eta \/ (p.eta = 0 /\ q.eta > now)
  /\ p.executed => q.executed
  /\ q.executed => p.executed \/ now < q.eta + GracePeriod

\* A proposal has actions, its vote takes time.
Shaped(p) == p.actions # <<>> /\ p.startBlock < p.endBlock

DaoMoves(d, e, b, now) ==
  /\ d.proposalCount <= e.proposalCount
  /\ \A id \in 1 .. d.proposalCount : Moved(d.proposals[id], e.proposals[id], b, now)

\* One call starts proposals afresh.
NewAreFresh(d, e) ==
  \A id \in 1 .. e.proposalCount :
    id \in 1 .. d.proposalCount \/ (~e.proposals[id].executed /\ Shaped(e.proposals[id]))

\* The call executes no proposal.
NoneExecuted(d, e) ==
  \A id \in 1 .. d.proposalCount :
    e.proposals[id].executed => d.proposals[id].executed

\* A call other than execute().
CallMoves(d, e, b, now) ==
  DaoMoves(d, e, b, now) /\ NewAreFresh(d, e) /\ NoneExecuted(d, e)

LEMMA MovedTransitive ==
  ASSUME NEW p \in Proposal, NEW q \in Proposal, NEW r \in Proposal,
         NEW b \in Nat, NEW now \in Nat, OutcomeSound(q, b),
         Moved(p, q, b, now), Moved(q, r, b, now)
  PROVE  Moved(p, r, b, now)
<1>1. /\ p.eta \in Nat /\ q.eta \in Nat /\ r.eta \in Nat
      /\ p.endBlock \in Nat /\ GracePeriod \in Nat
  BY NDAOExecutorAssumption DEF Proposal
<1>2. r.eta = p.eta \/ (p.eta = 0 /\ r.eta > now)
  BY <1>1 DEF Moved
<1>3. ASSUME r.executed, ~p.executed PROVE now < r.eta + GracePeriod
  <2>1. CASE q.executed
    <3>1. q.eta # 0 /\ now < q.eta + GracePeriod
      BY <2>1, <1>3 DEF OutcomeSound, Moved
    <3>2. r.eta = q.eta
      BY <3>1 DEF Moved
    <3> QED BY <3>1, <3>2
  <2>2. CASE ~q.executed
    BY <2>2, <1>3 DEF Moved
  <2> QED BY <2>1, <2>2
<1>4. /\ r.startBlock = p.startBlock /\ r.endBlock = p.endBlock
      /\ r.actions = p.actions
      /\ p.vetoed => r.vetoed
      /\ p.canceled => r.canceled
      /\ r.quorumVotes = p.quorumVotes
      /\ p.executed => r.executed
  BY DEF Moved
<1>5. b > p.endBlock => r.forVotes = p.forVotes /\ r.againstVotes = p.againstVotes
  BY DEF Moved
<1> QED BY <1>2, <1>3, <1>4, <1>5 DEF Moved

LEMMA DaoMovesReflexive ==
  ASSUME NEW d, NEW e, NEW b, NEW now, d.proposalCount \in Nat,
         e.proposals = d.proposals, e.proposalCount = d.proposalCount
  PROVE  CallMoves(d, e, b, now)
<1>1. \A p : Moved(p, p, b, now)
  BY DEF Moved
<1>2. d.proposalCount <= e.proposalCount
  OBVIOUS
<1> QED BY <1>1, <1>2 DEF CallMoves, DaoMoves, NewAreFresh, NoneExecuted

LEMMA DaoMovesTransitive ==
  ASSUME NEW c, NEW d, NEW e, NEW b \in Nat, NEW now \in Nat,
         DaoSound(c, b), DaoSound(d, b), DaoSound(e, b),
         DaoMoves(c, d, b, now), DaoMoves(d, e, b, now)
  PROVE  DaoMoves(c, e, b, now)
<1>1. /\ c.proposalCount \in Ids /\ d.proposalCount \in Ids /\ e.proposalCount \in Ids
      /\ \A id \in Ids : /\ c.proposals[id] \in Proposal /\ d.proposals[id] \in Proposal
                         /\ e.proposals[id] \in Proposal
                         /\ OutcomeSound(d.proposals[id], b)
  BY DEF DaoSound, DaoStorage
<1>2. c.proposalCount <= e.proposalCount
  BY <1>1, IdsType DEF DaoMoves
<1>3. ASSUME NEW id \in 1 .. c.proposalCount
      PROVE  Moved(c.proposals[id], e.proposals[id], b, now)
  <2>1. id \in Ids /\ id \in 1 .. d.proposalCount
    BY <1>1, IdsType DEF DaoMoves
  <2>2. /\ Moved(c.proposals[id], d.proposals[id], b, now)
        /\ Moved(d.proposals[id], e.proposals[id], b, now)
    BY <2>1 DEF DaoMoves
  <2> QED BY <2>1, <2>2, <1>1, MovedTransitive
<1> QED BY <1>2, <1>3 DEF DaoMoves

\* Calls that rewrite one proposal.
LEMMA OneMoves ==
  ASSUME NEW d \in DaoStorage, NEW e, NEW id \in Ids, NEW q \in Proposal,
         NEW b \in Nat, NEW now \in Nat, e = [d EXCEPT !.proposals[id] = q],
         Moved(d.proposals[id], q, b, now)
  PROVE  /\ DaoMoves(d, e, b, now) /\ NewAreFresh(d, e)
         /\ ~q.executed => NoneExecuted(d, e)
<1>1. /\ e.proposalCount = d.proposalCount
      /\ \A i \in Ids : e.proposals[i] = IF i = id THEN q ELSE d.proposals[i]
      /\ \A i \in 1 .. d.proposalCount : i \in Ids
  BY OneProposal
<1>2. d.proposalCount \in Nat
  BY IdsType DEF DaoStorage
<1>3. \A p : Moved(p, p, b, now)
  BY DEF Moved
<1>4. DaoMoves(d, e, b, now)
  BY <1>1, <1>2, <1>3 DEF DaoMoves
<1>5. NewAreFresh(d, e)
  BY <1>1 DEF NewAreFresh
<1>6. ~q.executed => NoneExecuted(d, e)
  BY <1>1 DEF NoneExecuted
<1> QED BY <1>4, <1>5, <1>6

LEMMA ProposeMoves ==
  ASSUME World, Current, NEW a \in Accounts, NEW actions \in ActionLists,
         Propose(a, actions)
  PROVE  CallMoves(dao, dao', block, timestamp)
<1> DEFINE id == dao.proposalCount + 1
<1>1. dao \in DaoStorage /\ block \in Nat
  BY DEF Current, StoresSound, DaoSound, World
<1>2. dao.proposalCount \in Nat /\ id \in Ids /\ id > 0
  BY ProposeDoes
<1>3. PICK new \in Proposal : ProposeMakes(new, a, actions)
  BY ProposeDoes
<1>4. Shaped(new)
  <2>1. dao.votingDelay \in Nat /\ dao.votingPeriod \in Nat /\ dao.votingPeriod > 0
    BY <1>1, NDAOLogicV1Assumption DEF DaoStorage
  <2>2. new.actions # <<>>
    BY <1>3 DEF Propose, ProposeMakes
  <2>3. /\ new.startBlock = block + dao.votingDelay
        /\ new.endBlock = block + dao.votingDelay + dao.votingPeriod
    BY <1>3 DEF ProposeMakes
  <2>4. new.startBlock < new.endBlock
    BY <2>1, <2>3, <1>1
  <2> QED BY <2>2, <2>4 DEF Shaped
<1>5. /\ dao'.proposalCount = id
      /\ \A i \in Ids : dao'.proposals[i] = IF i = id THEN new ELSE dao.proposals[i]
  BY <1>1, <1>2, <1>3 DEF DaoStorage, ProposeMakes
<1>6. /\ \A i \in 1 .. id : i = id \/ i \in 1 .. dao.proposalCount
      /\ \A i \in 1 .. dao.proposalCount : i \in Ids /\ i # id
  BY <1>2, IdsType
<1>7. dao.proposalCount <= dao'.proposalCount
  BY <1>2, <1>5
<1> HIDE DEF id
<1>8. \A p : Moved(p, p, block, timestamp)
  BY DEF Moved
<1>9. DaoMoves(dao, dao', block, timestamp)
  BY <1>5, <1>6, <1>7, <1>8 DEF DaoMoves
<1>10. NewAreFresh(dao, dao')
  <2>1. ~new.executed
    BY <1>3 DEF ProposeMakes
  <2> QED BY <2>1, <1>2, <1>4, <1>5, <1>6 DEF NewAreFresh
<1>11. NoneExecuted(dao, dao')
  BY <1>5, <1>6 DEF NoneExecuted
<1> QED BY <1>9, <1>10, <1>11 DEF CallMoves

LEMMA CastVoteMoves ==
  ASSUME World, Current, NEW voter \in Accounts, NEW id \in Ids,
         NEW support \in 0 .. 2, CastVote(voter, id, support)
  PROVE  CallMoves(dao, dao', block, timestamp)
<1> DEFINE p == dao.proposals[id]
<1>1. /\ dao \in DaoStorage /\ DaoSound(dao, block)
      /\ block \in Nat /\ timestamp \in Nat
  BY DEF Current, StoresSound, DaoSound, World
<1>2. PICK q : /\ dao' = [dao EXCEPT !.proposals[id] = q]
               /\ q \in Proposal /\ Alike(p, q)
               /\ q.startBlock = p.startBlock /\ q.endBlock = p.endBlock
               /\ q.quorumVotes = p.quorumVotes
               /\ block > p.startBlock /\ block <= p.endBlock
               /\ p \in Proposal
  BY CastVoteDoes
<1>3. p.startBlock \in Nat /\ p.endBlock \in Nat
  BY <1>2 DEF Proposal
<1>4. ~p.executed
  BY <1>1, <1>2, <1>3 DEF DaoSound, OutcomeSound, Won
<1>5. Moved(p, q, block, timestamp) /\ ~q.executed
  BY <1>1, <1>2, <1>3, <1>4 DEF Moved, Alike
<1> QED BY <1>1, <1>2, <1>5, OneMoves DEF CallMoves

LEMMA QueueMoves ==
  ASSUME World, Current, NEW id \in Ids, QueueProposal(id)
  PROVE  CallMoves(dao, dao', block, timestamp)
<1> DEFINE p == dao.proposals[id]
<1>1. /\ dao \in DaoStorage /\ DaoSound(dao, block)
      /\ block \in Nat /\ timestamp \in Nat
      /\ timelock.delay \in Nat /\ timelock.delay > 0
  BY NDAOExecutorAssumption DEF Current, StoresSound, DaoSound, World, TimelockSound
<1>2. p \in Proposal
  BY <1>1 DEF DaoStorage
<1>3. p.eta = 0 /\ ~p.executed
  <2>1. p.eta = 0
    BY <1>1, <1>2, StateFacts DEF QueueProposal
  <2> QED BY <2>1, <1>1 DEF DaoSound, OutcomeSound
<1>4. PICK eta \in Nat : eta = timestamp + timelock.delay /\ eta > timestamp
  BY <1>1
<1>5. PICK q : q = [p EXCEPT !.eta = eta]
  OBVIOUS
<1>6. dao' = [dao EXCEPT !.proposals[id] = q]
  BY <1>4, <1>5 DEF QueueProposal
<1> HIDE DEF p
<1>7. q \in Proposal /\ Moved(p, q, block, timestamp) /\ ~q.executed
  BY <1>2, <1>3, <1>4, <1>5 DEF Proposal, Moved
<1> QED BY <1>1, <1>6, <1>7, OneMoves DEF CallMoves, p

LEMMA StoppingMoves ==
  ASSUME World, Current, NEW id \in Ids, NEW q,
         \/ q = [dao.proposals[id] EXCEPT !.canceled = TRUE]
         \/ q = [dao.proposals[id] EXCEPT !.vetoed = TRUE],
         State(dao, id) # "Executed",
         dao' = [dao EXCEPT !.proposals[id] = q]
  PROVE  CallMoves(dao, dao', block, timestamp)
<1>1. /\ dao \in DaoStorage /\ DaoSound(dao, block)
      /\ block \in Nat /\ timestamp \in Nat
  BY DEF Current, StoresSound, DaoSound, World
<1>2. PICK p \in Proposal : p = dao.proposals[id]
  BY <1>1 DEF DaoStorage
<1>3. ~p.executed
  <2>1. OutcomeSound(p, block)
    BY <1>1, <1>2 DEF DaoSound
  <2> QED BY <2>1, <1>1, <1>2, StateFacts
<1>4. q \in Proposal /\ Moved(p, q, block, timestamp) /\ ~q.executed
  <2>1. CASE q = [p EXCEPT !.canceled = TRUE]
    BY <2>1, <1>2, <1>3 DEF Proposal, Moved
  <2>2. CASE q = [p EXCEPT !.vetoed = TRUE]
    BY <2>2, <1>2, <1>3 DEF Proposal, Moved
  <2> QED BY <2>1, <2>2, <1>2
<1> QED BY <1>1, <1>2, <1>4, OneMoves DEF CallMoves

LEMMA AccountCallsMove ==
  ASSUME World, Current, NEW a \in Accounts, NEW c \in Calls, AccountCalls(a, c)
  PROVE  CallMoves(dao, dao', block, timestamp)
<1>1. /\ a \in Address /\ block \in Nat /\ DaoSound(dao, block)
      /\ dao.proposalCount \in Nat
  BY IdsType DEF Address, World, Current, StoresSound, DaoSound, DaoStorage
<1>2. dao' = DaoCall(dao, a, c) /\ c.fn \in DaoCalls /\ CanDaoCall(dao, a, c)
  BY DEF AccountCalls
<1>3. dao'.proposals = dao.proposals /\ dao'.proposalCount = dao.proposalCount
  BY <1>1, <1>2, DaoCallKeeps
<1> QED BY <1>1, <1>3, DaoMovesReflexive

LEMMA TimelockCallMoves ==
  ASSUME World, Current, NEW a \in Accounts, TimelockCall(a)
  PROVE  CallMoves(dao, dao', block, timestamp)
<1>1. block \in Nat /\ DaoSound(dao, block) /\ dao.proposalCount \in Nat
  BY IdsType DEF World, Current, StoresSound, DaoSound, DaoStorage
<1>2. CASE UNCHANGED dao
  BY <1>1, <1>2, DaoMovesReflexive
<1>3. ASSUME NEW tx \in DirectTxs, ExecuteTransaction(a, tx)
      PROVE  CallMoves(dao, dao', block, timestamp)
  <2>1. /\ dao' = DaoAfter(dao, tx.call)
        /\ tx.call.fn \in DaoCalls => CanDaoCall(dao, Executor, tx.call)
    BY <1>3 DEF ExecuteTransaction, CanMake
  <2>2. tx.call \in Calls
    <3>1. tx \in Transaction
      BY NDAOLogicV1Assumption
    <3> QED BY <3>1 DEF Transaction
  <2>3. dao'.proposals = dao.proposals /\ dao'.proposalCount = dao.proposalCount
    BY <2>1, <2>2, <1>1, DaoAfterKeeps
  <2> QED BY <2>3, <1>1, DaoMovesReflexive
<1> QED BY <1>2, <1>3 DEF TimelockCall

\* A proposal marked as executed has reached its eta, or one of the n
\* executions fs has marked it and not yet run its first action.
RipeSound(d, fs, n, now) ==
  \A id \in 1 .. d.proposalCount :
    /\ Shaped(d.proposals[id])
    /\ d.proposals[id].executed =>
         \/ d.proposals[id].eta <= now
         \/ \E k \in 1 .. n : fs[k].id = id /\ fs[k].next = 1

\* Inductive together with GovInv: what the outermost execution would put
\* back has only moved forward since, in the storage of every execution
\* inside it too.
ForwardInv ==
  /\ RipeSound(dao, frames, Len(frames), timestamp)
  /\ frames # <<>> => DaoMoves(frames[1].saved.dao, dao, block, timestamp)
  /\ \A k \in 1 .. Len(frames) :
       /\ RipeSound(frames[k].saved.dao, frames, k - 1, timestamp)
       /\ DaoMoves(frames[1].saved.dao, frames[k].saved.dao, block, timestamp)

LEMMA RipeAgree ==
  ASSUME NEW d, NEW fs, NEW gs, NEW n, NEW now,
         \A k \in 1 .. n : gs[k].id = fs[k].id /\ gs[k].next = fs[k].next,
         RipeSound(d, fs, n, now)
  PROVE  RipeSound(d, gs, n, now)
BY DEF RipeSound

LEMMA RipeAfterCall ==
  ASSUME NEW d, NEW e, NEW fs, NEW n, NEW b, NEW now, DaoSound(d, b),
         CallMoves(d, e, b, now), RipeSound(d, fs, n, now)
  PROVE  RipeSound(e, fs, n, now)
<1> SUFFICES ASSUME NEW id \in 1 .. e.proposalCount
             PROVE  /\ Shaped(e.proposals[id])
                    /\ e.proposals[id].executed =>
                         \/ e.proposals[id].eta <= now
                         \/ \E k \in 1 .. n : fs[k].id = id /\ fs[k].next = 1
  BY DEF RipeSound
<1>1. CASE id \notin 1 .. d.proposalCount
  BY <1>1 DEF CallMoves, NewAreFresh
<1>2. CASE id \in 1 .. d.proposalCount
  <2>1. id \in Ids
    BY <1>2, IdsType DEF DaoSound, DaoStorage
  <2>2. Moved(d.proposals[id], e.proposals[id], b, now) /\ Shaped(d.proposals[id])
    BY <1>2 DEF CallMoves, DaoMoves, RipeSound
  <2>3. Shaped(e.proposals[id])
    BY <2>2 DEF Moved, Shaped
  <2>4. ASSUME e.proposals[id].executed
        PROVE  \/ e.proposals[id].eta <= now
               \/ \E k \in 1 .. n : fs[k].id = id /\ fs[k].next = 1
    <3>1. d.proposals[id].executed
      BY <2>4, <1>2 DEF CallMoves, NoneExecuted
    <3>2. d.proposals[id].eta # 0
      BY <3>1, <2>1 DEF DaoSound, OutcomeSound
    <3>3. e.proposals[id].eta = d.proposals[id].eta
      BY <3>2, <2>2 DEF Moved
    <3> QED BY <3>1, <3>3, <1>2 DEF RipeSound
  <2> QED BY <2>3, <2>4
<1> QED BY <1>1, <1>2

\* A step that starts, ends and advances no execution.
LEMMA ForwardSameFrames ==
  ASSUME GovInv, GovInv', ForwardInv, CallMoves(dao, dao', block, timestamp),
         UNCHANGED <<frames, block, timestamp>>
  PROVE  ForwardInv'
<1>1. block \in Nat /\ timestamp \in Nat /\ DaoSound(dao, block) /\ DaoSound(dao', block)
  BY DEF GovInv, World, Current, StoresSound
<1>2. RipeSound(dao', frames, Len(frames), timestamp)
  BY <1>1, RipeAfterCall DEF ForwardInv
<1>3. ASSUME frames # <<>>
      PROVE  DaoMoves(frames[1].saved.dao, dao', block, timestamp)
  <2>1. frames \in Seq(Frame) /\ 1 \in 1 .. Len(frames)
    BY <1>3 DEF GovInv
  <2>2. DaoSound(frames[1].saved.dao, block)
    BY <2>1 DEF GovInv, StoresSound
  <2>3. DaoMoves(frames[1].saved.dao, dao, block, timestamp)
    BY <1>3 DEF ForwardInv
  <2>4. DaoMoves(dao, dao', block, timestamp)
    BY DEF CallMoves
  <2> QED BY <2>2, <2>3, <2>4, <1>1, DaoMovesTransitive
<1> QED BY <1>2, <1>3 DEF ForwardInv

LEMMA ForwardExecute ==
  ASSUME GovInv, GovInv', ForwardInv, NEW id \in Ids, Execute(id)
  PROVE  ForwardInv'
<1> DEFINE n == Len(frames)
           p == dao.proposals[id]
<1>1. /\ dao \in DaoStorage /\ DaoSound(dao, block) /\ DaoSound(dao', block)
      /\ block \in Nat /\ timestamp \in Nat /\ dao.proposalCount \in Nat
  <2>1. DaoSound(dao, block) /\ block \in Nat /\ timestamp \in Nat
    BY DEF GovInv, World, Current, StoresSound
  <2>2. DaoSound(dao', block') /\ block' = block
    BY DEF GovInv, Current, StoresSound, Execute
  <2>3. dao \in DaoStorage /\ dao.proposalCount \in Nat
    BY <2>1, IdsType DEF DaoSound, DaoStorage
  <2> QED BY <2>1, <2>2, <2>3
<1>2. /\ frames \in Seq(Frame) /\ n \in Nat
      /\ State(dao, id) = "Queued" /\ id <= dao.proposalCount
      /\ UNCHANGED <<timestamp, block>>
      /\ frames' = Append(frames, [id |-> id, next |-> 1, outside |-> FALSE,
                                   saved |-> Saved])
  BY DEF GovInv, Execute
<1>3. /\ Len(frames') = n + 1 /\ frames' # <<>>
      /\ \A k \in 1 .. n : frames'[k] = frames[k]
      /\ frames'[n + 1].id = id /\ frames'[n + 1].next = 1
      /\ frames'[n + 1].saved.dao = dao
  BY <1>2 DEF Saved
<1>4. p \in Proposal /\ p.eta \in Nat /\ p.eta # 0 /\ ~p.executed
  <2>1. p \in Proposal
    BY <1>1 DEF DaoStorage
  <2> QED BY <2>1, <1>1, <1>2, StateFacts DEF Proposal
<1>5. timestamp < p.eta + GracePeriod
  BY <1>1, <1>2, <1>4, NDAOExecutorAssumption, SMTT(30) DEF State
<1>6. PICK q : q = [p EXCEPT !.executed = TRUE]
  OBVIOUS
<1>7. dao' = [dao EXCEPT !.proposals[id] = q]
  BY <1>6 DEF Execute
<1> HIDE DEF p
<1>8. q \in Proposal /\ Moved(p, q, block, timestamp) /\ q.eta = p.eta
      /\ q.startBlock = p.startBlock /\ q.endBlock = p.endBlock /\ q.actions = p.actions
  BY <1>4, <1>5, <1>6 DEF Proposal, Moved
<1>9. /\ dao'.proposalCount = dao.proposalCount
      /\ \A i \in Ids : dao'.proposals[i] = IF i = id THEN q ELSE dao.proposals[i]
      /\ \A i \in 1 .. dao.proposalCount : i \in Ids
  BY <1>1, <1>7, <1>8, OneProposal
<1>10. DaoMoves(dao, dao', block, timestamp)
  BY <1>1, <1>7, <1>8, OneMoves DEF p
<1> HIDE DEF n
<1>11. n + 1 \in 1 .. n + 1 /\ \A k \in 1 .. n : k \in 1 .. n + 1
  BY <1>2
<1>12. RipeSound(dao, frames, n, timestamp)
  BY DEF ForwardInv, n
<1>13. RipeSound(dao', frames', n + 1, timestamp)
  <2> SUFFICES ASSUME NEW i \in 1 .. dao'.proposalCount
               PROVE  /\ Shaped(dao'.proposals[i])
                      /\ dao'.proposals[i].executed =>
                           \/ dao'.proposals[i].eta <= timestamp
                           \/ \E k \in 1 .. n + 1 :
                                frames'[k].id = i /\ frames'[k].next = 1
    BY DEF RipeSound
  <2>1. i \in 1 .. dao.proposalCount /\ i \in Ids
    BY <1>9
  <2>2. CASE i = id
    <3>1. Shaped(p)
      BY <2>1, <2>2, <1>12 DEF RipeSound, p
    <3>2. Shaped(q)
      BY <3>1, <1>8 DEF Shaped
    <3> QED BY <2>1, <2>2, <3>2, <1>3, <1>9, <1>11
  <2>3. CASE i # id
    <3>1. dao'.proposals[i] = dao.proposals[i]
      BY <2>1, <2>3, <1>9
    <3> QED BY <2>1, <3>1, <1>3, <1>11, <1>12 DEF RipeSound
  <2> QED BY <2>2, <2>3
<1>14. ASSUME NEW k \in 1 .. n + 1
       PROVE  /\ RipeSound(frames'[k].saved.dao, frames', k - 1, timestamp)
              /\ DaoMoves(frames'[1].saved.dao, frames'[k].saved.dao, block, timestamp)
  <2>1. CASE k = n + 1
    <3>1. k - 1 = n
      BY <2>1, <1>2
    <3>2. RipeSound(dao, frames', n, timestamp)
      BY <1>3, <1>12, RipeAgree
    <3>3. DaoMoves(frames'[1].saved.dao, dao, block, timestamp)
      <4>1. CASE n = 0
        <5>1. frames'[1].saved.dao = dao
          BY <4>1, <1>3
        <5>2. CallMoves(dao, dao, block, timestamp)
          BY <1>1, DaoMovesReflexive
        <5> QED BY <5>1, <5>2 DEF CallMoves
      <4>2. CASE n # 0
        <5>1. 1 \in 1 .. n /\ frames # <<>>
          BY <4>2, <1>2 DEF n
        <5> QED BY <5>1, <1>3 DEF ForwardInv
      <4> QED BY <4>1, <4>2
    <3> QED BY <2>1, <3>1, <3>2, <3>3, <1>3
  <2>2. CASE k \in 1 .. n
    <3>1. /\ RipeSound(frames[k].saved.dao, frames, k - 1, timestamp)
          /\ DaoMoves(frames[1].saved.dao, frames[k].saved.dao, block, timestamp)
      BY <2>2 DEF ForwardInv, n
    <3>2. \A x \in 1 .. k - 1 : x \in 1 .. n
      BY <2>2, <1>2
    <3>3. RipeSound(frames[k].saved.dao, frames', k - 1, timestamp)
      BY <3>1, <3>2, <1>3, RipeAgree
    <3>4. 1 \in 1 .. n
      BY <2>2, <1>2
    <3> QED BY <2>2, <3>1, <3>3, <3>4, <1>3
  <2>3. n \in Nat
    BY <1>2
  <2>4. k = n + 1 \/ k \in 1 .. n
    BY <2>3
  <2> QED BY <2>1, <2>2, <2>4
<1>15. DaoMoves(frames'[1].saved.dao, dao', block, timestamp)
  <2>1. DaoMoves(frames'[1].saved.dao, dao, block, timestamp)
    BY <1>3, <1>11, <1>14
  <2>2. DaoSound(frames'[1].saved.dao, block)
    <3>1. 1 \in 1 .. Len(frames')
      BY <1>2, <1>3
    <3> QED BY <3>1, <1>2 DEF GovInv, StoresSound
  <2> QED BY <2>1, <2>2, <1>1, <1>10, DaoMovesTransitive
<1> QED BY <1>2, <1>3, <1>13, <1>14, <1>15 DEF ForwardInv

\* A step that advances the innermost execution and leaves the proposals.
LEMMA ForwardTop ==
  ASSUME GovInv, GovInv', ForwardInv, UNCHANGED <<block, timestamp>>,
         frames # <<>>, NEW f \in Frame, f.saved = Top.saved,
         frames' = [frames EXCEPT ![Len(frames)] = f],
         dao'.proposals = dao.proposals, dao'.proposalCount = dao.proposalCount,
         RipeSound(dao, frames', Len(frames), timestamp)
  PROVE  ForwardInv'
<1> DEFINE n == Len(frames)
<1>1. frames \in Seq(Frame) /\ n \in Nat /\ n \in 1 .. n /\ 1 \in 1 .. n
  BY DEF GovInv
<1>2. /\ Len(frames') = n /\ frames' # <<>>
      /\ frames'[n] = f /\ \A k \in 1 .. n - 1 : frames'[k] = frames[k]
  BY <1>1
<1> HIDE DEF n
<1>3. ASSUME NEW k \in 1 .. n PROVE frames'[k].saved = frames[k].saved
  <2>1. CASE k = n
    BY <2>1, <1>2 DEF Top, n
  <2>2. CASE k \in 1 .. n - 1
    BY <2>2, <1>2
  <2> QED BY <2>1, <2>2, <1>1
<1>4. ASSUME NEW k \in 1 .. n
      PROVE  /\ RipeSound(frames'[k].saved.dao, frames', k - 1, timestamp)
             /\ DaoMoves(frames'[1].saved.dao, frames'[k].saved.dao, block, timestamp)
  <2>1. /\ RipeSound(frames[k].saved.dao, frames, k - 1, timestamp)
        /\ DaoMoves(frames[1].saved.dao, frames[k].saved.dao, block, timestamp)
    BY DEF ForwardInv, n
  <2>2. \A x \in 1 .. k - 1 : x \in 1 .. n - 1
    BY <1>1
  <2>3. RipeSound(frames[k].saved.dao, frames', k - 1, timestamp)
    BY <2>1, <2>2, <1>2, RipeAgree
  <2> QED BY <2>1, <2>3, <1>1, <1>3
<1>5. DaoMoves(frames'[1].saved.dao, dao', block, timestamp)
  <2>1. DaoMoves(frames[1].saved.dao, dao, block, timestamp)
    BY DEF ForwardInv
  <2> QED BY <2>1, <1>1, <1>3 DEF DaoMoves
<1>6. RipeSound(dao', frames', n, timestamp)
  BY DEF RipeSound, n
<1> QED BY <1>2, <1>4, <1>5, <1>6 DEF ForwardInv

LEMMA ForwardReturn ==
  ASSUME GovInv, GovInv', ForwardInv, ReturnFromCall
  PROVE  ForwardInv'
<1> DEFINE n == Len(frames)
<1>1. /\ frames \in Seq(Frame) /\ n \in Nat /\ frames # <<>>
      /\ frames' = [frames EXCEPT ![n].outside = FALSE]
      /\ UNCHANGED <<timestamp, dao, block>>
  BY DEF GovInv, ReturnFromCall
<1>2. n \in 1 .. n /\ Top \in Frame
  BY <1>1 DEF Top
<1>3. PICK f : f = [Top EXCEPT !.outside = FALSE]
  OBVIOUS
<1>4. frames' = [frames EXCEPT ![n] = f]
  BY <1>1, <1>2, <1>3 DEF Top
<1> HIDE DEF Top
<1>5. f \in Frame /\ f.id = Top.id /\ f.next = Top.next /\ f.saved = Top.saved
  BY <1>2, <1>3 DEF Frame
<1>6. \A k \in 1 .. n : frames'[k].id = frames[k].id /\ frames'[k].next = frames[k].next
  BY <1>1, <1>4, <1>5 DEF Top
<1>7. RipeSound(dao, frames', n, timestamp)
  <2>1. RipeSound(dao, frames, n, timestamp)
    BY DEF ForwardInv
  <2> HIDE DEF n
  <2> QED BY <2>1, <1>6, RipeAgree
<1> QED BY <1>1, <1>4, <1>5, <1>7, ForwardTop

LEMMA ForwardAction ==
  ASSUME GovInv, GovInv', ForwardInv, ExecuteAction
  PROVE  ForwardInv'
<1> DEFINE n == Len(frames)
           c == NextTx.call
<1>1. DaoSound(dao, block) /\ block \in Nat /\ dao \in DaoStorage
  BY DEF GovInv, Current, StoresSound, DaoSound, World
<1>2. frames \in Seq(Frame) /\ n \in Nat /\ frames # <<>>
  BY DEF GovInv, ExecuteAction, Running
<1>3. n \in 1 .. n /\ Top \in Frame
  BY <1>2 DEF Top
<1>4. /\ CanRun(timelock, DAO, NextTx)
      /\ c.fn \in DaoCalls => CanDaoCall(dao, Executor, c)
      /\ dao' = DaoAfter(dao, c) /\ Top.next <= Len(dao.proposals[Top.id].actions)
      /\ UNCHANGED <<timestamp, block>>
  BY DEF ExecuteAction, ActionsLeft, CanMake
<1>o. PICK o \in BOOLEAN : o = (c.fn \notin SelfCalls \cup DaoCalls)
  OBVIOUS
<1>5. PICK f : f = [Top EXCEPT !.next = Top.next + 1, !.outside = o]
  OBVIOUS
<1>6. frames' = [frames EXCEPT ![n] = f]
  BY <1>o, <1>2, <1>3, <1>5 DEF ExecuteAction, Top
<1>7. NextTx.eta = dao.proposals[Top.id].eta /\ NextTx.eta <= timestamp
  <2>1. NextTx.eta = dao.proposals[Top.id].eta
    BY DEF NextTx, Tx
  <2>2. timestamp >= NextTx.eta
    BY <1>4 DEF CanRun
  <2> QED BY <2>1, <2>2
<1>8. c \in Calls
  <2>1. Top.id \in Ids /\ Top.next \in Nat \ {0}
    BY <1>3 DEF Frame
  <2>2. dao.proposals[Top.id].actions \in Seq(Calls)
    BY <2>1, <1>1, ActionsType DEF DaoStorage
  <2>3. Top.next \in 1 .. Len(dao.proposals[Top.id].actions)
    BY <2>1, <2>2, <1>4
  <2> QED BY <2>2, <2>3, SeqElement DEF NextTx, Tx
<1> HIDE DEF Top, c
<1>9. f \in Frame /\ f.id = Top.id /\ f.saved = Top.saved
  <2>1. Top.next \in Nat \ {0}
    BY <1>3 DEF Frame
  <2>2. Top.next + 1 \in Nat \ {0}
    BY <2>1
  <2> QED BY <2>2, <1>3, <1>5 DEF Frame
<1>10. dao'.proposals = dao.proposals /\ dao'.proposalCount = dao.proposalCount
  BY <1>1, <1>4, <1>8, DaoAfterKeeps
<1>11. \A k \in 1 .. n : frames'[k] = IF k = n THEN f ELSE frames[k]
  BY <1>2, <1>6
<1>12. RipeSound(dao, frames', n, timestamp)
  <2>1. RipeSound(dao, frames, n, timestamp)
    BY DEF ForwardInv
  <2> HIDE DEF n
  <2> SUFFICES ASSUME NEW id \in 1 .. dao.proposalCount, dao.proposals[id].executed
               PROVE  \/ dao.proposals[id].eta <= timestamp
                      \/ \E k \in 1 .. n : frames'[k].id = id /\ frames'[k].next = 1
    BY <2>1 DEF RipeSound
  <2>2. CASE id = Top.id
    BY <2>2, <1>7
  <2>3. CASE id # Top.id /\ ~(dao.proposals[id].eta <= timestamp)
    <3>1. PICK k \in 1 .. n : frames[k].id = id /\ frames[k].next = 1
      BY <2>1, <2>3 DEF RipeSound
    <3>2. k # n
      BY <3>1, <2>3 DEF Top, n
    <3> QED BY <3>1, <3>2, <1>11
  <2> QED BY <2>2, <2>3
<1> QED BY <1>2, <1>4, <1>6, <1>9, <1>10, <1>12, ForwardTop

\* A step that ends the innermost execution.
LEMMA ForwardPopped ==
  ASSUME GovInv, ForwardInv, UNCHANGED <<block, timestamp>>,
         frames # <<>>, frames' = Front(frames),
         RipeSound(dao', frames, Len(frames) - 1, timestamp),
         DaoMoves(frames[1].saved.dao, dao', block, timestamp)
  PROVE  ForwardInv'
<1> DEFINE n == Len(frames)
<1>1. /\ n \in Nat \ {0} /\ frames' \in Seq(Frame) /\ Len(frames') = n - 1
      /\ \A k \in 1 .. n - 1 : frames'[k] = frames[k]
  BY FrontFacts
<1> HIDE DEF n
<1>2. RipeSound(dao', frames', Len(frames'), timestamp)
  <2>1. RipeSound(dao', frames, n - 1, timestamp)
    BY DEF n
  <2> QED BY <2>1, <1>1, RipeAgree
<1>3. ASSUME frames' # <<>> PROVE frames'[1] = frames[1]
  <2>1. Len(frames') # 0 /\ Len(frames') \in Nat
    BY <1>1, <1>3
  <2>2. 1 \in 1 .. n - 1
    BY <2>1, <1>1
  <2> QED BY <2>2, <1>1
<1>4. ASSUME NEW k \in 1 .. Len(frames')
      PROVE  /\ RipeSound(frames'[k].saved.dao, frames', k - 1, timestamp)
             /\ DaoMoves(frames'[1].saved.dao, frames'[k].saved.dao, block, timestamp)
  <2>1. k \in 1 .. n - 1 /\ k \in 1 .. n /\ 1 \in 1 .. n - 1
    BY <1>1
  <2>2. \A x \in 1 .. k - 1 : x \in 1 .. n - 1
    BY <2>1, <1>1
  <2>3. /\ RipeSound(frames[k].saved.dao, frames, k - 1, timestamp)
        /\ DaoMoves(frames[1].saved.dao, frames[k].saved.dao, block, timestamp)
    BY <2>1 DEF ForwardInv, n
  <2>4. RipeSound(frames[k].saved.dao, frames', k - 1, timestamp)
    BY <2>2, <2>3, <1>1, RipeAgree
  <2> QED BY <2>1, <2>3, <2>4, <1>1
<1> QED BY <1>2, <1>3, <1>4 DEF ForwardInv

LEMMA ForwardRevert ==
  ASSUME GovInv, ForwardInv, RevertExecution
  PROVE  ForwardInv'
<1>1. /\ frames # <<>> /\ frames' = Front(frames)
      /\ dao' = frames[Len(frames)].saved.dao
      /\ UNCHANGED <<timestamp, block>>
  BY DEF RevertExecution, Top
<1>2. Len(frames) \in 1 .. Len(frames)
  BY <1>1 DEF GovInv
<1>3. /\ RipeSound(dao', frames, Len(frames) - 1, timestamp)
      /\ DaoMoves(frames[1].saved.dao, dao', block, timestamp)
  BY <1>1, <1>2 DEF ForwardInv
<1> QED BY <1>1, <1>3, ForwardPopped

\* An execution that is over has run its first action, so its proposal had
\* reached its eta.
LEMMA FinishedIsRipe ==
  ASSUME GovInv, ForwardInv, FinishExecution
  PROVE  RipeSound(dao, frames, Len(frames) - 1, timestamp)
<1> DEFINE n == Len(frames)
<1>1. /\ frames # <<>>
      /\ ~(frames[n].next <= Len(dao.proposals[frames[n].id].actions))
  BY DEF FinishExecution, Running, ActionsLeft, Top
<1>2. n \in 1 .. n /\ n \in Nat
  BY <1>1 DEF GovInv
<1>3. frames[n].id \in 1 .. dao.proposalCount /\ DaoSound(dao, block)
  BY <1>2 DEF GovInv, Current, StoresSound, Marked
<1>4. RipeSound(dao, frames, n, timestamp)
  BY DEF ForwardInv
<1> HIDE DEF n
<1>5. PICK p : p = dao.proposals[frames[n].id]
  OBVIOUS
<1>6. p.actions # <<>> /\ p.actions \in Seq(Calls)
  <2>1. frames[n].id \in Ids
    BY <1>3, IdsType DEF DaoSound, DaoStorage
  <2>2. p \in Proposal
    BY <2>1, <1>3, <1>5 DEF DaoSound, DaoStorage
  <2> QED BY <2>2, <1>3, <1>4, <1>5, ActionsType DEF RipeSound, Shaped
<1>7. Len(p.actions) \in Nat \ {0}
  BY <1>6
<1>8. frames[n].next # 1
  BY <1>1, <1>5, <1>7
<1>9. \A k \in 1 .. n : k # n => k \in 1 .. n - 1
  BY <1>2
<1> QED BY <1>4, <1>8, <1>9 DEF RipeSound, n

LEMMA ForwardFinish ==
  ASSUME GovInv, ForwardInv, FinishExecution
  PROVE  ForwardInv'
<1>1. /\ frames # <<>> /\ frames' = Front(frames)
      /\ UNCHANGED <<timestamp, dao, block>>
  BY DEF FinishExecution, Running
<1>2. RipeSound(dao', frames, Len(frames) - 1, timestamp)
  BY <1>1, FinishedIsRipe
<1>3. DaoMoves(frames[1].saved.dao, dao', block, timestamp)
  BY <1>1 DEF ForwardInv
<1> QED BY <1>1, <1>2, <1>3, ForwardPopped

LEMMA ForwardBlock ==
  ASSUME GovInv, GovInv', ForwardInv, NextBlock
  PROVE  ForwardInv'
<1>1. frames = <<>> /\ Len(frames) = 0 /\ UNCHANGED <<dao, frames>>
  BY DEF NextBlock
<1>2. timestamp \in Nat /\ timestamp' \in Nat /\ timestamp <= timestamp'
  <2>1. PICK dt \in BlockTimes : timestamp' = timestamp + dt
    BY DEF NextBlock
  <2>2. dt \in Nat
    BY NDAOLogicV1Assumption
  <2> QED BY <2>1, <2>2 DEF GovInv, World
<1>3. ASSUME NEW id \in 1 .. dao.proposalCount
      PROVE  dao.proposals[id].eta \in Nat
  <2>1. DaoSound(dao, block)
    BY DEF GovInv, Current, StoresSound
  <2>2. id \in Ids
    BY <2>1, IdsType DEF DaoSound, DaoStorage
  <2>3. dao.proposals[id] \in Proposal
    BY <2>1, <2>2 DEF DaoSound, DaoStorage
  <2> QED BY <2>3 DEF Proposal
<1>4. RipeSound(dao, frames, 0, timestamp)
  BY <1>1 DEF ForwardInv
<1>5. RipeSound(dao, frames, 0, timestamp')
  BY <1>2, <1>3, <1>4 DEF RipeSound
<1> QED BY <1>1, <1>5 DEF ForwardInv

LEMMA ForwardInit == Init => ForwardInv
<1> SUFFICES ASSUME Init PROVE ForwardInv
  OBVIOUS
<1>1. frames = <<>> /\ Len(frames) = 0 /\ dao.proposalCount = 0
  BY DEF Init
<1> QED BY <1>1 DEF ForwardInv, RipeSound

\* Every step but those of an execution and the clock is a call.
IsCall ==
  /\ CallMoves(dao, dao', block, timestamp)
  /\ UNCHANGED <<frames, block, timestamp>>

LEMMA StepKinds ==
  ASSUME GovInv, [Next]_vars
  PROVE  \/ IsCall
         \/ \E id \in Ids : Execute(id)
         \/ ExecuteAction
         \/ ReturnFromCall
         \/ RevertExecution
         \/ FinishExecution
         \/ NextBlock
<1>0. World /\ Current /\ dao.proposalCount \in Nat
  <2>1. World /\ Current /\ DaoSound(dao, block)
    BY DEF GovInv, Current, StoresSound
  <2>2. dao.proposalCount \in Ids
    BY <2>1 DEF DaoSound, DaoStorage
  <2> QED BY <2>1, <2>2, IdsType
<1>1. ASSUME NEW a \in Accounts, NEW actions \in ActionLists, Propose(a, actions)
      PROVE  IsCall
  <2>1. UNCHANGED <<frames, block, timestamp>>
    BY <1>1 DEF Propose
  <2> QED BY <2>1, <1>0, <1>1, ProposeMoves DEF IsCall
<1>2. ASSUME NEW a \in Accounts, NEW id \in Ids, CancelProposal(a, id)
      PROVE  IsCall
  <2>1. PICK q : q = [dao.proposals[id] EXCEPT !.canceled = TRUE]
    OBVIOUS
  <2>2. /\ dao' = [dao EXCEPT !.proposals[id] = q] /\ State(dao, id) # "Executed"
        /\ UNCHANGED <<frames, block, timestamp>>
    BY <2>1, <1>2 DEF CancelProposal
  <2> QED BY <2>1, <2>2, <1>0, StoppingMoves DEF IsCall
<1>3. ASSUME NEW a \in Accounts, NEW id \in Ids, Veto(a, id)
      PROVE  IsCall
  <2>1. PICK q : q = [dao.proposals[id] EXCEPT !.vetoed = TRUE]
    OBVIOUS
  <2>2. /\ dao' = [dao EXCEPT !.proposals[id] = q] /\ State(dao, id) # "Executed"
        /\ UNCHANGED <<frames, block, timestamp>>
    BY <2>1, <1>3 DEF Veto
  <2> QED BY <2>1, <2>2, <1>0, StoppingMoves DEF IsCall
<1>4. ASSUME NEW a \in Accounts, NEW c \in Calls, AccountCalls(a, c)
      PROVE  IsCall
  <2>1. UNCHANGED <<frames, block, timestamp>>
    BY <1>4 DEF AccountCalls
  <2> QED BY <2>1, <1>0, <1>4, AccountCallsMove DEF IsCall
<1>5. ASSUME NEW a \in Accounts, TimelockCall(a)
      PROVE  IsCall
  <2>1. UNCHANGED <<frames, block, timestamp>>
    BY <1>5 DEF TimelockCall
  <2> QED BY <2>1, <1>0, <1>5, TimelockCallMoves DEF IsCall
<1>6. ASSUME NEW id \in Ids, NEW b \in Ballots, CastVote(b[1], id, b[2])
      PROVE  IsCall
  <2>1. UNCHANGED <<frames, block, timestamp>>
    BY <1>6 DEF CastVote
  <2>2. b[1] \in Accounts /\ b[2] \in 0 .. 2
    BY NDAOLogicV1Assumption
  <2>3. CallMoves(dao, dao', block, timestamp)
    BY <2>2, <1>0, <1>6, CastVoteMoves
  <2> QED BY <2>1, <2>3 DEF IsCall
<1>7. ASSUME NEW id \in Ids, QueueProposal(id)
      PROVE  IsCall
  <2>1. UNCHANGED <<frames, block, timestamp>>
    BY <1>7 DEF QueueProposal
  <2> QED BY <2>1, <1>0, <1>7, QueueMoves DEF IsCall
<1>8. CASE ElectorateChanges \/ UNCHANGED vars
  <2>1. UNCHANGED <<dao, frames, block, timestamp>>
    BY <1>8 DEF ElectorateChanges, vars
  <2>2. CallMoves(dao, dao', block, timestamp)
    BY <2>1, <1>0, DaoMovesReflexive
  <2> QED BY <2>1, <2>2 DEF IsCall
<1> QED BY <1>1, <1>2, <1>3, <1>4, <1>5, <1>6, <1>7, <1>8 DEF Next

LEMMA ForwardNext == GovInv /\ GovInv' /\ ForwardInv /\ [Next]_vars => ForwardInv'
<1> SUFFICES ASSUME GovInv, GovInv', ForwardInv, [Next]_vars PROVE ForwardInv'
  OBVIOUS
<1>1. CASE IsCall
  BY <1>1, ForwardSameFrames DEF IsCall
<1> QED BY <1>1, StepKinds, ForwardExecute, ForwardAction, ForwardReturn,
           ForwardRevert, ForwardFinish, ForwardBlock

LEMMA ForwardHolds == Spec => [](GovInv /\ ForwardInv)
<1>1. Init => GovInv /\ ForwardInv
  BY GovInit, ForwardInit
<1>2. (GovInv /\ ForwardInv) /\ [Next]_vars => (GovInv /\ ForwardInv)'
  BY GovNext, ForwardNext
<1> QED BY <1>1, <1>2, PTL DEF Spec

\* The moves that StatesMoveForward allows.
MayMove(from, to) ==
  \/ to = from
  \/ to \in Forward(from)
  \/ to = "Canceled" /\ from \notin {"Executed", "Vetoed"}
  \/ to = "Vetoed" /\ from # "Executed"

\* The calls of one block.
LEMMA MovedStates ==
  ASSUME block \in Nat, timestamp \in Nat, NEW d, NEW e, NEW id,
         NEW p \in Proposal, p = d.proposals[id],
         NEW q \in Proposal, q = e.proposals[id],
         OutcomeSound(p, block), OutcomeSound(q, block),
         Moved(p, q, block, timestamp), q.executed => q.eta <= timestamp
  PROVE  MayMove(State(d, id), State(e, id))
<1>1. /\ p.startBlock \in Nat /\ p.endBlock \in Nat /\ p.forVotes \in Nat
      /\ p.againstVotes \in Nat /\ p.quorumVotes \in Nat /\ p.eta \in Nat
      /\ q.eta \in Nat /\ GracePeriod \in Nat
  BY NDAOExecutorAssumption DEF Proposal
<1>2. CASE p.executed
  BY <1>2, StateFacts DEF Moved, MayMove
<1>3. CASE ~p.executed /\ p.vetoed
  BY <1>3 DEF Moved, MayMove, State
<1>4. CASE ~p.executed /\ ~p.vetoed /\ (q.vetoed \/ q.canceled)
  <2>1. State(d, id) \notin {"Executed", "Vetoed"}
    BY <1>4, <1>1 DEF State
  <2>2. State(e, id) \in {"Vetoed", "Canceled"}
    BY <1>4 DEF State
  <2> QED BY <2>1, <2>2 DEF MayMove
<1>5. CASE ~p.executed /\ ~q.vetoed /\ ~q.canceled
  <2>1. ~p.vetoed /\ ~p.canceled
    BY <1>5 DEF Moved
  <2>2. CASE block <= p.endBlock \/ block <= p.startBlock
    BY <2>1, <2>2, <1>1, <1>5 DEF Moved, MayMove, State
  <2>3. CASE block > p.endBlock /\ block > p.startBlock
    <3>1. /\ q.forVotes = p.forVotes /\ q.againstVotes = p.againstVotes
          /\ q.quorumVotes = p.quorumVotes
          /\ q.endBlock = p.endBlock /\ q.startBlock = p.startBlock
      BY <2>3 DEF Moved
    <3>2. CASE p.forVotes <= p.againstVotes \/ p.forVotes < p.quorumVotes
      BY <3>1, <3>2, <2>1, <2>3, <1>1, <1>5 DEF MayMove, State
    <3>3. CASE ~(p.forVotes <= p.againstVotes \/ p.forVotes < p.quorumVotes)
      <4>1. State(d, id) = IF p.eta = 0 THEN "Succeeded"
                           ELSE IF timestamp >= p.eta + GracePeriod THEN "Expired"
                           ELSE "Queued"
        BY <3>3, <2>1, <2>3, <1>1, <1>5 DEF State
      <4>2. State(e, id) = IF q.eta = 0 THEN "Succeeded"
                           ELSE IF q.executed THEN "Executed"
                           ELSE IF timestamp >= q.eta + GracePeriod THEN "Expired"
                           ELSE "Queued"
        BY <3>1, <3>3, <2>1, <2>3, <1>1, <1>5 DEF State
      <4>3. CASE p.eta = 0
        <5>1. q.eta = 0 \/ (q.eta > timestamp /\ ~q.executed)
          BY <4>3, <1>1 DEF Moved
        <5>2. CASE q.eta = 0
          BY <5>2, <4>1, <4>2, <4>3 DEF MayMove
        <5>3. CASE q.eta # 0 /\ q.eta > timestamp /\ ~q.executed
          <6>1. ~(timestamp >= q.eta + GracePeriod)
            BY <5>3, <1>1
          <6> QED BY <6>1, <5>3, <4>1, <4>2, <4>3 DEF MayMove, Forward
        <5> QED BY <5>1, <5>2, <5>3
      <4>4. CASE p.eta # 0
        <5>1. q.eta = p.eta
          BY <4>4 DEF Moved
        <5>2. CASE ~q.executed
          BY <5>1, <5>2, <4>1, <4>2, <4>4 DEF MayMove
        <5>3. CASE q.executed
          <6>1. timestamp < q.eta + GracePeriod
            BY <5>3, <1>5 DEF Moved
          <6>2. ~(timestamp >= p.eta + GracePeriod)
            BY <6>1, <5>1, <1>1
          <6> QED BY <6>2, <5>1, <5>3, <4>1, <4>2, <4>4 DEF MayMove, Forward
        <5> QED BY <5>2, <5>3
      <4> QED BY <4>3, <4>4
    <3> QED BY <3>2, <3>3
  <2> QED BY <2>2, <2>3, <1>1
<1> QED BY <1>2, <1>3, <1>4, <1>5

\* The clock.
LEMMA ClockStates ==
  ASSUME block \in Nat, timestamp \in Nat, block' = block + 1,
         timestamp' \in Nat, timestamp <= timestamp', UNCHANGED dao,
         NEW id, NEW p \in Proposal, p = dao.proposals[id],
         OutcomeSound(p, block), p.startBlock < p.endBlock
  PROVE  MayMove(State(dao, id), State(dao, id)')
<1>1. /\ p.startBlock \in Nat /\ p.endBlock \in Nat /\ p.forVotes \in Nat
      /\ p.againstVotes \in Nat /\ p.quorumVotes \in Nat /\ p.eta \in Nat
      /\ GracePeriod \in Nat
  BY NDAOExecutorAssumption DEF Proposal
<1>2. p = dao'.proposals[id]
  OBVIOUS
<1>3. CASE p.vetoed \/ p.canceled
  BY <1>2, <1>3 DEF State, MayMove
<1>4. CASE ~p.vetoed /\ ~p.canceled /\ block <= p.startBlock
  <2>1. State(dao, id) = "Pending"
    BY <1>4 DEF State
  <2>2. block' <= p.startBlock \/ block' <= p.endBlock
    BY <1>1, <1>4
  <2>3. State(dao, id)' \in {"Pending", "Active"}
    BY <2>2, <1>2, <1>4 DEF State
  <2> QED BY <2>1, <2>3 DEF MayMove, Forward
<1>5. CASE ~p.vetoed /\ ~p.canceled /\ block > p.startBlock /\ block <= p.endBlock
  <2>1. State(dao, id) = "Active"
    BY <1>1, <1>5 DEF State
  <2>2. p.eta = 0
    BY <1>1, <1>5 DEF OutcomeSound, Won
  <2>3. ~(block' <= p.startBlock)
    BY <1>1, <1>5
  <2>4. State(dao, id)' \in {"Active", "Defeated", "Succeeded"}
    BY <2>2, <2>3, <1>2, <1>5 DEF State
  <2> QED BY <2>1, <2>4 DEF MayMove, Forward
<1>6. CASE ~p.vetoed /\ ~p.canceled /\ block > p.startBlock /\ block > p.endBlock
  <2>1. /\ ~(block <= p.startBlock) /\ ~(block <= p.endBlock)
        /\ ~(block' <= p.startBlock) /\ ~(block' <= p.endBlock)
    BY <1>1, <1>6
  <2>2. timestamp >= p.eta + GracePeriod => timestamp' >= p.eta + GracePeriod
    BY <1>1
  <2>3. CASE p.forVotes <= p.againstVotes \/ p.forVotes < p.quorumVotes
    BY <2>1, <2>3, <1>2, <1>6 DEF State, MayMove
  <2>4. CASE ~(p.forVotes <= p.againstVotes \/ p.forVotes < p.quorumVotes)
    BY <2>1, <2>2, <2>4, <1>2, <1>6 DEF State, MayMove, Forward
  <2> QED BY <2>3, <2>4
<1> QED BY <1>1, <1>3, <1>4, <1>5, <1>6

\* A step within a block, from the storage the last transaction left to the
\* storage the next one leaves.
LEMMA CommittedMoves ==
  ASSUME World, UNCHANGED <<block, timestamp>>,
         DaoSound(Committed, block), DaoSound(Committed', block),
         DaoMoves(Committed, Committed', block, timestamp),
         RipeSound(Committed', <<>>, 0, timestamp),
         NEW id \in 1 .. Committed.proposalCount
  PROVE  MayMove(CommittedState(id), CommittedState(id)')
<1> DEFINE p == Committed.proposals[id]
           q == Committed'.proposals[id]
<1>1. id \in Ids /\ id \in 1 .. Committed'.proposalCount
  <2>1. Committed.proposalCount \in Ids /\ Committed'.proposalCount \in Ids
    BY DEF DaoSound, DaoStorage
  <2>2. Committed.proposalCount <= Committed'.proposalCount
    BY DEF DaoMoves
  <2> QED BY <2>1, <2>2, IdsType
<1>2. p \in Proposal /\ q \in Proposal /\ OutcomeSound(p, block) /\ OutcomeSound(q, block)
  BY <1>1 DEF DaoSound, DaoStorage
<1>3. Moved(p, q, block, timestamp)
  BY DEF DaoMoves
<1>4. q.executed => q.eta <= timestamp
  BY <1>1 DEF RipeSound
<1>5. block \in Nat /\ timestamp \in Nat
  BY DEF World
<1>6. PICK d : d = Committed
  OBVIOUS
<1>7. PICK e : e = Committed'
  OBVIOUS
<1>8. MayMove(State(d, id), State(e, id))
  BY <1>2, <1>3, <1>4, <1>5, <1>6, <1>7, MovedStates
<1>9. CommittedState(id) = State(d, id)
  BY <1>6 DEF CommittedState
<1>10. CommittedState(id)' = State(e, id)
  BY <1>7 DEF CommittedState, State
<1> QED BY <1>8, <1>9, <1>10

\* Between two transactions no proposal is marked before its eta.
CommittedOK ==
  /\ DaoSound(Committed, block) /\ RipeSound(Committed, <<>>, 0, timestamp)
  /\ Committed.proposalCount \in Nat

LEMMA CommittedSound == GovInv /\ ForwardInv => CommittedOK
<1> SUFFICES ASSUME GovInv, ForwardInv PROVE CommittedOK
  OBVIOUS
<1>1. DaoSound(Committed, block) /\ RipeSound(Committed, <<>>, 0, timestamp)
  <2>1. CASE frames = <<>>
    <3>1. Committed = dao /\ Len(frames) = 0
      BY <2>1 DEF Committed
    <3> QED BY <3>1, <2>1 DEF GovInv, Current, StoresSound, ForwardInv
  <2>2. CASE frames # <<>>
    <3>1. Committed = frames[1].saved.dao
      BY <2>2 DEF Committed
    <3>2. 1 \in 1 .. Len(frames)
      BY <2>2 DEF GovInv
    <3>3. RipeSound(frames[1].saved.dao, frames, 0, timestamp)
      BY <3>2 DEF ForwardInv
    <3>4. RipeSound(frames[1].saved.dao, <<>>, 0, timestamp)
      BY <3>3, RipeAgree
    <3>5. DaoSound(frames[1].saved.dao, block)
      BY <3>2 DEF GovInv, StoresSound
    <3> QED BY <3>1, <3>4, <3>5
  <2> QED BY <2>1, <2>2
<1> QED BY <1>1, IdsType DEF CommittedOK, DaoSound, DaoStorage

LEMMA CommittedSoundAfter == GovInv' /\ ForwardInv' => CommittedOK'
BY CommittedSound, PTL

\* What a step other than the clock's does to the committed storage.
LEMMA CommittedStep ==
  ASSUME GovInv, ForwardInv,
         \/ IsCall
         \/ \E id \in Ids : Execute(id)
         \/ ExecuteAction
         \/ ReturnFromCall
         \/ RevertExecution
         \/ FinishExecution
  PROVE  /\ UNCHANGED <<block, timestamp>>
         /\ DaoMoves(Committed, Committed', block, timestamp)
<1>0. Committed.proposalCount \in Nat /\ frames \in Seq(Frame) /\ Len(frames) \in Nat
  BY CommittedSound DEF GovInv, CommittedOK
<1>1. UNCHANGED <<block, timestamp>>
  BY DEF IsCall, Execute, ExecuteAction, ReturnFromCall, RevertExecution, FinishExecution
<1>2. UNCHANGED Committed => DaoMoves(Committed, Committed', block, timestamp)
  <2>1. \A p : Moved(p, p, block, timestamp)
    BY DEF Moved
  <2> QED BY <2>1, <1>0 DEF DaoMoves
<1>3. ASSUME frames # <<>>, frames' # <<>>, frames'[1].saved = frames[1].saved
      PROVE  UNCHANGED Committed
  BY <1>3 DEF Committed
<1>4. CASE IsCall
  <2>1. CASE frames = <<>>
    BY <2>1, <1>4 DEF IsCall, CallMoves, Committed
  <2>2. CASE frames # <<>>
    BY <2>2, <1>2, <1>3, <1>4 DEF IsCall
  <2> QED BY <2>1, <2>2, <1>1
<1>5. ASSUME NEW id \in Ids, Execute(id)
      PROVE  UNCHANGED Committed
  <2>1. frames' = Append(frames, [id |-> id, next |-> 1, outside |-> FALSE,
                                  saved |-> Saved])
    BY <1>5 DEF Execute
  <2>2. CASE frames = <<>>
    <3>1. frames' # <<>> /\ frames'[1].saved.dao = dao
      BY <2>1, <2>2 DEF Saved
    <3> QED BY <3>1, <2>2 DEF Committed
  <2>3. CASE frames # <<>>
    <3>1. frames' # <<>> /\ frames'[1] = frames[1]
      BY <2>1, <2>3, <1>0
    <3> QED BY <3>1, <2>3, <1>3
  <2> QED BY <2>2, <2>3
<1>6. CASE ExecuteAction
  <2>1. frames # <<>> /\ 1 \in 1 .. Len(frames)
    BY <1>0, <1>6 DEF ExecuteAction, Running
  <2>2. PICK o : frames' = [frames EXCEPT ![Len(frames)].next = @ + 1,
                                          ![Len(frames)].outside = o]
    BY <1>6 DEF ExecuteAction
  <2>3. frames[Len(frames)] \in Frame /\ frames[1] \in Frame
    BY <2>1, <1>0
  <2>4. frames' # <<>> /\ frames'[1].saved = frames[1].saved
    <3>1. PICK f : f = [frames[Len(frames)] EXCEPT !.next = @ + 1, !.outside = o]
      OBVIOUS
    <3>2. frames' = [frames EXCEPT ![Len(frames)] = f]
      BY <3>1, <2>2, <2>1, <1>0
    <3>3. f.saved = frames[Len(frames)].saved
      BY <3>1, <2>3 DEF Frame
    <3> QED BY <3>2, <3>3, <2>1, <1>0
  <2> QED BY <2>1, <2>4, <1>1, <1>2, <1>3
<1>7. CASE ReturnFromCall
  <2>1. /\ frames # <<>> /\ 1 \in 1 .. Len(frames)
        /\ frames' = [frames EXCEPT ![Len(frames)].outside = FALSE]
    BY <1>0, <1>7 DEF ReturnFromCall
  <2>2. frames[Len(frames)] \in Frame
    BY <2>1, <1>0
  <2>3. frames' # <<>> /\ frames'[1].saved = frames[1].saved
    <3>1. PICK f : f = [frames[Len(frames)] EXCEPT !.outside = FALSE]
      OBVIOUS
    <3>2. frames' = [frames EXCEPT ![Len(frames)] = f]
      BY <3>1, <2>1, <1>0
    <3>3. f.saved = frames[Len(frames)].saved
      BY <3>1, <2>2 DEF Frame
    <3> QED BY <3>2, <3>3, <2>1, <1>0
  <2> QED BY <2>1, <2>3, <1>1, <1>2, <1>3
<1>8. CASE frames # <<>> /\ frames' = Front(frames)
           /\ DaoMoves(frames[1].saved.dao, dao', block, timestamp)
  <2>1. /\ Len(frames) \in Nat \ {0} /\ frames' \in Seq(Frame)
        /\ Len(frames') = Len(frames) - 1
        /\ \A k \in 1 .. Len(frames) - 1 : frames'[k] = frames[k]
    BY <1>8, FrontFacts
  <2>2. CASE frames' = <<>>
    BY <2>2, <1>1, <1>8 DEF Committed
  <2>3. CASE frames' # <<>>
    <3>1. Len(frames') # 0
      BY <2>1, <2>3
    <3>2. 1 \in 1 .. Len(frames) - 1
      BY <3>1, <2>1
    <3>3. frames'[1].saved = frames[1].saved
      BY <3>2, <2>1
    <3> QED BY <3>3, <2>3, <1>1, <1>2, <1>3, <1>8
  <2> QED BY <2>2, <2>3
<1>9. CASE RevertExecution
  <2>1. /\ frames # <<>> /\ frames' = Front(frames)
        /\ dao' = frames[Len(frames)].saved.dao
    BY <1>9 DEF RevertExecution, Top
  <2>2. Len(frames) \in 1 .. Len(frames)
    BY <2>1, <1>0
  <2> QED BY <2>1, <2>2, <1>8 DEF ForwardInv
<1>10. CASE FinishExecution
  <2>1. frames # <<>> /\ frames' = Front(frames) /\ UNCHANGED dao
    BY <1>10 DEF FinishExecution, Running
  <2> QED BY <2>1, <1>8 DEF ForwardInv
<1> QED BY <1>1, <1>2, <1>4, <1>5, <1>6, <1>7, <1>9, <1>10

\* The state of a proposal only moves forward, whatever is called in between,
\* whichever executions fail, and however the settings and the delay change.
THEOREM ProposalsMoveForward == Spec => StatesMoveForward
<1> DEFINE Step == \A id \in 1 .. Committed.proposalCount :
                     \/ CommittedState(id)' = CommittedState(id)
                     \/ CommittedState(id)' \in Forward(CommittedState(id))
                     \/ /\ CommittedState(id)' = "Canceled"
                        /\ CommittedState(id) \notin {"Executed", "Vetoed"}
                     \/ /\ CommittedState(id)' = "Vetoed"
                        /\ CommittedState(id) # "Executed"
<1>1. GovInv /\ ForwardInv /\ GovInv' /\ ForwardInv' /\ [Next]_vars => [Step]_vars
  <2> SUFFICES ASSUME GovInv, ForwardInv, GovInv', ForwardInv', [Next]_vars,
                      NEW id \in 1 .. Committed.proposalCount
               PROVE  MayMove(CommittedState(id), CommittedState(id)')
    BY DEF MayMove
  <2>1. World /\ DaoSound(Committed, block)
    BY CommittedSound DEF GovInv, CommittedOK
  <2>2. DaoSound(Committed', block') /\ RipeSound(Committed', <<>>, 0, timestamp')
    BY CommittedSoundAfter DEF CommittedOK
  <2>3. CASE NextBlock
    <3>1. /\ frames = <<>> /\ UNCHANGED <<dao, frames>> /\ block' = block + 1
      BY <2>3 DEF NextBlock
    <3>2. Committed = dao /\ Committed' = dao
      BY <3>1 DEF Committed
    <3>3. block \in Nat /\ timestamp \in Nat /\ timestamp' \in Nat
      BY DEF GovInv, World
    <3>4. timestamp <= timestamp'
      <4>1. PICK dt \in BlockTimes : timestamp' = timestamp + dt
        BY <2>3 DEF NextBlock
      <4>2. dt \in Nat
        BY NDAOLogicV1Assumption
      <4> QED BY <4>1, <4>2, <3>3
    <3>5. id \in Ids /\ dao.proposals[id] \in Proposal
          /\ OutcomeSound(dao.proposals[id], block)
      <4>1. id \in Ids
        BY <3>2, <2>1, IdsType DEF DaoSound, DaoStorage
      <4> QED BY <4>1, <3>2, <2>1 DEF DaoSound, DaoStorage
    <3>6. dao.proposals[id].startBlock < dao.proposals[id].endBlock
      BY <3>2 DEF ForwardInv, RipeSound, Shaped
    <3>7. MayMove(State(dao, id), State(dao, id)')
      BY <3>1, <3>3, <3>4, <3>5, <3>6, ClockStates
    <3>8. CommittedState(id) = State(dao, id)
      BY <3>2 DEF CommittedState
    <3>9. CommittedState(id)' = State(dao, id)'
      BY <3>1, <3>2 DEF CommittedState
    <3> QED BY <3>7, <3>8, <3>9
  <2>4. CASE ~NextBlock
    <3>1. /\ UNCHANGED <<block, timestamp>>
          /\ DaoMoves(Committed, Committed', block, timestamp)
      BY <2>4, StepKinds, CommittedStep
    <3> QED BY <3>1, <2>1, <2>2, CommittedMoves
  <2> QED BY <2>3, <2>4
<1>2. StatesMoveForward <=> [][Step]_vars
  BY DEF StatesMoveForward
<1> HIDE DEF Step
<1> QED BY <1>1, <1>2, ForwardHolds, PTL DEF Spec

-----------------------------------------------------------------------------
(* An execution runs all of a proposal                                     *)

\* The first m actions of p have run, in order and at one time.
DoneUpTo(t, p, m) ==
  \A i \in 1 .. m :
    /\ \E k \in DOMAIN t.ran : t.ran[k].tx = Tx(p, i)
    /\ \A j \in 1 .. i - 1 : \A k, l \in DOMAIN t.ran :
         t.ran[k].tx = Tx(p, i) /\ t.ran[l].tx = Tx(p, j)
           => l < k /\ t.ran[l].at = t.ran[k].at

\* They have run now.
DoneNow(t, p, m, now) ==
  \A i \in 1 .. m : \A k \in DOMAIN t.ran :
    t.ran[k].tx = Tx(p, i) => t.ran[k].at = now

\* What is marked as executed has run all of its actions, or one of the n
\* executions fs has, in this block, run those before its next one.
RunSound(t, d, fs, n, now) ==
  t.admin = DAO =>
    \A id \in 1 .. d.proposalCount :
      d.proposals[id].executed =>
        \/ DoneUpTo(t, d.proposals[id], Len(d.proposals[id].actions))
        \/ \E k \in 1 .. n : /\ fs[k].id = id
                             /\ DoneUpTo(t, d.proposals[id], fs[k].next - 1)
                             /\ DoneNow(t, d.proposals[id], fs[k].next - 1, now)

\* Inductive together with GovInv: what each execution would put back is
\* sound for the executions around it.
RunInv ==
  /\ RunSound(timelock, dao, frames, Len(frames), timestamp)
  /\ \A k \in 1 .. Len(frames) :
       RunSound(frames[k].saved.timelock, frames[k].saved.dao,
                frames, k - 1, timestamp)

LEMMA DoneSame ==
  ASSUME NEW t, NEW u, NEW p, NEW q, NEW m, NEW now,
         u.ran = t.ran, q.actions = p.actions, q.eta = p.eta
  PROVE  /\ DoneUpTo(t, p, m) => DoneUpTo(u, q, m)
         /\ DoneNow(t, p, m, now) => DoneNow(u, q, m, now)
<1>1. \A i : Tx(q, i) = Tx(p, i)
  BY DEF Tx
<1> QED BY <1>1 DEF DoneUpTo, DoneNow

LEMMA DoneLess ==
  ASSUME NEW t, NEW p, NEW m \in Int, NEW l \in Int, l <= m, DoneUpTo(t, p, m)
  PROVE  DoneUpTo(t, p, l)
<1>1. \A i \in 1 .. l : i \in 1 .. m
  OBVIOUS
<1> QED BY <1>1 DEF DoneUpTo

LEMMA RunAgree ==
  ASSUME NEW t, NEW d, NEW fs, NEW gs, NEW n, NEW now,
         \A k \in 1 .. n : gs[k].id = fs[k].id /\ gs[k].next = fs[k].next,
         RunSound(t, d, fs, n, now)
  PROVE  RunSound(t, d, gs, n, now)
BY DEF RunSound

\* A call that runs nothing.
LEMMA RunAfterCall ==
  ASSUME NEW t, NEW u, NEW d, NEW e, NEW fs, NEW n, NEW b, NEW now,
         DaoSound(d, b), CallMoves(d, e, b, now), RunSound(t, d, fs, n, now),
         u.admin = DAO => t.admin = DAO /\ u.ran = t.ran
  PROVE  RunSound(u, e, fs, n, now)
<1> SUFFICES ASSUME u.admin = DAO, NEW id \in 1 .. e.proposalCount, e.proposals[id].executed
             PROVE  \/ DoneUpTo(u, e.proposals[id], Len(e.proposals[id].actions))
                    \/ \E k \in 1 .. n :
                         /\ fs[k].id = id
                         /\ DoneUpTo(u, e.proposals[id], fs[k].next - 1)
                         /\ DoneNow(u, e.proposals[id], fs[k].next - 1, now)
  BY DEF RunSound
<1>1. id \in 1 .. d.proposalCount
  BY DEF CallMoves, NewAreFresh
<1>2. d.proposals[id].executed
  BY <1>1 DEF CallMoves, NoneExecuted
<1>3. id \in Ids
  BY <1>1, IdsType DEF DaoSound, DaoStorage
<1>4. d.proposals[id].eta # 0
  BY <1>2, <1>3 DEF DaoSound, OutcomeSound
<1>5. Moved(d.proposals[id], e.proposals[id], b, now)
  BY <1>1 DEF CallMoves, DaoMoves
<1>6. /\ e.proposals[id].eta = d.proposals[id].eta
      /\ e.proposals[id].actions = d.proposals[id].actions
  BY <1>4, <1>5 DEF Moved
<1>7. \A m : /\ DoneUpTo(t, d.proposals[id], m) => DoneUpTo(u, e.proposals[id], m)
             /\ DoneNow(t, d.proposals[id], m, now) => DoneNow(u, e.proposals[id], m, now)
  BY <1>6, DoneSame
<1>8. \/ DoneUpTo(t, d.proposals[id], Len(d.proposals[id].actions))
      \/ \E k \in 1 .. n : /\ fs[k].id = id
                           /\ DoneUpTo(t, d.proposals[id], fs[k].next - 1)
                           /\ DoneNow(t, d.proposals[id], fs[k].next - 1, now)
  BY <1>1, <1>2 DEF RunSound
<1> QED BY <1>6, <1>7, <1>8

\* Only the steps of an execution change what has run under the DAO.
LEMMA OthersRunNothing ==
  ASSUME GovInv, [Next]_vars, timelock'.admin = DAO
  PROVE  \/ ExecuteAction
         \/ RevertExecution
         \/ timelock.admin = DAO /\ timelock'.ran = timelock.ran
<1>0. /\ timelock \in TimelockStorage /\ TimelockSound(timelock, timestamp)
      /\ DAO \notin Accounts
  BY NDAOExecutorAssumption DEF GovInv, Current, StoresSound, TimelockSound
<1>1. ASSUME NEW a \in Accounts, TimelockCall(a) PROVE FALSE
  <2>1. CASE AcceptAdmin(a)
    <3>1. timelock'.admin = a
      BY <2>1, <1>0 DEF AcceptAdmin, TimelockStorage
    <3> QED BY <3>1, <1>0
  <2>2. ASSUME NEW tx, QueueTransaction(a, tx) PROVE FALSE
    <3>1. timelock'.admin = timelock.admin /\ timelock.admin = a
      BY <2>2, <1>0 DEF QueueTransaction, CanQueue, Queue, TimelockStorage
    <3> QED BY <3>1, <1>0
  <2>3. ASSUME NEW tx, CancelTransaction(a, tx) PROVE FALSE
    <3>1. timelock'.admin = timelock.admin /\ timelock.admin = a
      BY <2>3, <1>0 DEF CancelTransaction, CanCancel, Cancel, TimelockStorage
    <3> QED BY <3>1, <1>0
  <2>4. ASSUME NEW tx \in DirectTxs, ExecuteTransaction(a, tx) PROVE FALSE
    <3>1. PICK t : t = Run(timelock, tx)
      OBVIOUS
    <3>2. t.admin = timelock.admin /\ timelock.admin = a
      BY <2>4, <3>1, <1>0 DEF ExecuteTransaction, CanRun, Run, TimelockStorage
    <3>3. timelock' = TimelockAfter(t, tx.call) /\ tx.call.fn \in SelfCalls => CanSelfCall(t, tx.call)
      BY <2>4, <3>1 DEF ExecuteTransaction, CanMake
    <3>4. TimelockSound(t, timestamp) /\ tx.call \in Calls
      <4>1. tx \in Transaction
        BY NDAOLogicV1Assumption
      <4>2. timestamp \in Nat /\ CanRun(timelock, a, tx)
        BY <2>4 DEF ExecuteTransaction, GovInv, World
      <4> QED BY <4>1, <4>2, <3>1, <1>0, RunningIsSound DEF Transaction
    <3>5. timelock'.admin = DAO => t.admin = DAO
      BY <2>4, <3>1, <3>3, <3>4, SelfCallIsSound DEF ExecuteTransaction, CanMake
    <3> QED BY <3>2, <3>5, <1>0
  <2> QED BY <1>1, <2>1, <2>2, <2>3, <2>4 DEF TimelockCall
<1>2. CASE UNCHANGED timelock
  BY <1>2
<1>3. ASSUME NEW id \in Ids, QueueProposal(id)
      PROVE  timelock.admin = DAO /\ timelock'.ran = timelock.ran
  <2>1. PICK p : timelock' = AllQueued(timelock, p)
    BY <1>3 DEF QueueProposal
  <2> QED BY <2>1, <1>0 DEF AllQueued, TimelockStorage
<1>4. ASSUME NEW a \in Accounts, NEW id \in Ids, CancelProposal(a, id) \/ Veto(a, id)
      PROVE  timelock.admin = DAO /\ timelock'.ran = timelock.ran
  <2>1. timelock' = AllCanceled(timelock, dao.proposals[id])
    BY <1>4 DEF CancelProposal, Veto
  <2> QED BY <2>1, <1>0 DEF AllCanceled, TimelockStorage
<1>5. ASSUME NEW a \in Accounts,
             \/ \E actions \in ActionLists : Propose(a, actions)
             \/ \E c \in Calls : AccountCalls(a, c)
      PROVE  UNCHANGED timelock
  BY <1>5 DEF Propose, AccountCalls
<1>6. ASSUME \/ \E id \in Ids, b \in Ballots : CastVote(b[1], id, b[2])
             \/ \E id \in Ids : Execute(id)
             \/ ReturnFromCall \/ FinishExecution \/ ElectorateChanges \/ NextBlock
             \/ UNCHANGED vars
      PROVE  UNCHANGED timelock
  BY <1>6 DEF CastVote, Execute, ReturnFromCall, FinishExecution, ElectorateChanges,
              NextBlock, vars
<1> QED BY <1>1, <1>2, <1>3, <1>4, <1>5, <1>6 DEF Next

\* A step that starts, ends and advances no execution.
LEMMA RunSameFrames ==
  ASSUME GovInv, RunInv, [Next]_vars, IsCall, ~ExecuteAction, ~RevertExecution
  PROVE  RunInv'
<1>1. /\ DaoSound(dao, block) /\ CallMoves(dao, dao', block, timestamp)
      /\ UNCHANGED <<frames, timestamp>>
  BY DEF GovInv, Current, StoresSound, IsCall
<1>2. timelock'.admin = DAO => timelock.admin = DAO /\ timelock'.ran = timelock.ran
  BY OthersRunNothing
<1>3. RunSound(timelock', dao', frames, Len(frames), timestamp)
  BY <1>1, <1>2, RunAfterCall DEF RunInv
<1> QED BY <1>1, <1>3 DEF RunInv

LEMMA RunExecute ==
  ASSUME GovInv, RunInv, NEW id \in Ids, Execute(id)
  PROVE  RunInv'
<1> DEFINE n == Len(frames)
<1>1. dao \in DaoStorage
  BY DEF GovInv, Current, StoresSound, DaoSound
<1>2. /\ frames \in Seq(Frame) /\ n \in Nat
      /\ UNCHANGED <<timestamp, timelock>>
      /\ frames' = Append(frames, [id |-> id, next |-> 1, outside |-> FALSE,
                                   saved |-> Saved])
  BY DEF GovInv, Execute
<1>3. /\ Len(frames') = n + 1
      /\ \A k \in 1 .. n : frames'[k] = frames[k]
      /\ frames'[n + 1].id = id /\ frames'[n + 1].next = 1
      /\ frames'[n + 1].saved.dao = dao /\ frames'[n + 1].saved.timelock = timelock
  BY <1>2 DEF Saved
<1>4. PICK p \in Proposal : p = dao.proposals[id]
  BY <1>1 DEF DaoStorage
<1>5. PICK q : q = [p EXCEPT !.executed = TRUE]
  OBVIOUS
<1>6. q \in Proposal /\ dao' = [dao EXCEPT !.proposals[id] = q]
  BY <1>4, <1>5 DEF Execute, Proposal
<1>7. /\ dao'.proposalCount = dao.proposalCount
      /\ \A i \in Ids : dao'.proposals[i] = IF i = id THEN q ELSE dao.proposals[i]
      /\ \A i \in 1 .. dao.proposalCount : i \in Ids
  BY <1>1, <1>6, OneProposal
<1> HIDE DEF n
<1>8. n + 1 \in 1 .. n + 1 /\ \A k \in 1 .. n : k \in 1 .. n + 1
  BY <1>2
<1>9. RunSound(timelock, dao, frames, n, timestamp)
  BY DEF RunInv, n
<1>10. RunSound(timelock, dao', frames', n + 1, timestamp)
  <2> SUFFICES ASSUME timelock.admin = DAO, NEW i \in 1 .. dao'.proposalCount,
                      dao'.proposals[i].executed
               PROVE  \/ DoneUpTo(timelock, dao'.proposals[i], Len(dao'.proposals[i].actions))
                      \/ \E k \in 1 .. n + 1 :
                           /\ frames'[k].id = i
                           /\ DoneUpTo(timelock, dao'.proposals[i], frames'[k].next - 1)
                           /\ DoneNow(timelock, dao'.proposals[i], frames'[k].next - 1, timestamp)
    BY DEF RunSound
  <2>1. i \in 1 .. dao.proposalCount /\ i \in Ids
    BY <1>7
  <2>2. CASE i = id
    <3>1. \A x : DoneUpTo(timelock, x, 1 - 1) /\ DoneNow(timelock, x, 1 - 1, timestamp)
      BY DEF DoneUpTo, DoneNow
    <3> QED BY <2>2, <3>1, <1>3, <1>8
  <2>3. CASE i # id
    <3>1. dao'.proposals[i] = dao.proposals[i]
      BY <2>1, <2>3, <1>7
    <3> QED BY <2>1, <3>1, <1>3, <1>8, <1>9 DEF RunSound
  <2> QED BY <2>2, <2>3
<1>11. ASSUME NEW k \in 1 .. n + 1
       PROVE  RunSound(frames'[k].saved.timelock, frames'[k].saved.dao,
                       frames', k - 1, timestamp)
  <2>1. CASE k = n + 1
    <3>1. k - 1 = n
      BY <2>1, <1>2
    <3>2. RunSound(timelock, dao, frames', n, timestamp)
      BY <1>3, <1>9, RunAgree
    <3> QED BY <2>1, <3>1, <3>2, <1>3
  <2>2. CASE k \in 1 .. n
    <3>1. RunSound(frames[k].saved.timelock, frames[k].saved.dao, frames, k - 1, timestamp)
      BY <2>2 DEF RunInv, n
    <3>2. \A x \in 1 .. k - 1 : x \in 1 .. n
      BY <2>2, <1>2
    <3>3. RunSound(frames[k].saved.timelock, frames[k].saved.dao, frames', k - 1, timestamp)
      BY <3>1, <3>2, <1>3, RunAgree
    <3> QED BY <2>2, <3>3, <1>3
  <2>3. n \in Nat
    BY <1>2
  <2>4. k = n + 1 \/ k \in 1 .. n
    BY <2>3
  <2> QED BY <2>1, <2>2, <2>4
<1> QED BY <1>2, <1>3, <1>10, <1>11 DEF RunInv

\* A step that advances the innermost execution.
LEMMA RunTop ==
  ASSUME GovInv, RunInv, UNCHANGED timestamp, frames # <<>>, NEW f, f.saved = Top.saved,
         frames' = [frames EXCEPT ![Len(frames)] = f],
         RunSound(timelock', dao', frames', Len(frames), timestamp)
  PROVE  RunInv'
<1> DEFINE n == Len(frames)
<1>1. frames \in Seq(Frame) /\ n \in Nat /\ n \in 1 .. n
  BY DEF GovInv
<1>2. /\ Len(frames') = n
      /\ frames'[n] = f /\ \A k \in 1 .. n - 1 : frames'[k] = frames[k]
  BY <1>1
<1> HIDE DEF n
<1>3. ASSUME NEW k \in 1 .. n
      PROVE  RunSound(frames'[k].saved.timelock, frames'[k].saved.dao,
                      frames', k - 1, timestamp)
  <2>1. frames'[k].saved = frames[k].saved
    <3>1. CASE k = n
      BY <3>1, <1>2 DEF Top, n
    <3>2. CASE k \in 1 .. n - 1
      BY <3>2, <1>2
    <3> QED BY <3>1, <3>2, <1>1
  <2>2. RunSound(frames[k].saved.timelock, frames[k].saved.dao, frames, k - 1, timestamp)
    BY DEF RunInv, n
  <2>3. \A x \in 1 .. k - 1 : x \in 1 .. n - 1
    BY <1>1
  <2>4. RunSound(frames[k].saved.timelock, frames[k].saved.dao, frames', k - 1, timestamp)
    BY <2>2, <2>3, <1>2, RunAgree
  <2> QED BY <2>1, <2>4
<1> QED BY <1>2, <1>3 DEF RunInv, n

LEMMA RunReturn ==
  ASSUME GovInv, RunInv, ReturnFromCall
  PROVE  RunInv'
<1> DEFINE n == Len(frames)
<1>1. /\ frames \in Seq(Frame) /\ n \in Nat /\ frames # <<>>
      /\ frames' = [frames EXCEPT ![n].outside = FALSE]
      /\ UNCHANGED <<timestamp, timelock, dao>>
  BY DEF GovInv, ReturnFromCall
<1>2. n \in 1 .. n /\ Top \in Frame
  BY <1>1 DEF Top
<1>3. PICK f : f = [Top EXCEPT !.outside = FALSE]
  OBVIOUS
<1>4. frames' = [frames EXCEPT ![n] = f]
  BY <1>1, <1>2, <1>3 DEF Top
<1> HIDE DEF Top
<1>5. f.id = Top.id /\ f.next = Top.next /\ f.saved = Top.saved
  BY <1>2, <1>3 DEF Frame
<1>6. \A k \in 1 .. n : frames'[k].id = frames[k].id /\ frames'[k].next = frames[k].next
  BY <1>1, <1>4, <1>5 DEF Top
<1>7. RunSound(timelock, dao, frames', n, timestamp)
  <2>1. RunSound(timelock, dao, frames, n, timestamp)
    BY DEF RunInv
  <2> HIDE DEF n
  <2> QED BY <2>1, <1>6, RunAgree
<1> QED BY <1>1, <1>4, <1>5, <1>7, RunTop

\* A transaction that was queued runs now: it is none of those that have run.
LEMMA DoneAfterRun ==
  ASSUME NEW t, NEW u, NEW p, NEW m \in Int, NEW tx \in t.queued, TimelockSound(t, timestamp),
         u.ran = Append(t.ran, Entry(tx)), DoneUpTo(t, p, m)
  PROVE  /\ DoneUpTo(u, p, m)
         /\ DoneNow(t, p, m, timestamp) => DoneNow(u, p, m, timestamp)
         /\ \A i \in 1 .. m : tx # Tx(p, i)
<1>1. t.ran \in Seq([tx : Transaction, at : Nat])
  BY DEF TimelockSound, TimelockStorage
<1>2. /\ \A k \in DOMAIN u.ran : \/ k \in DOMAIN t.ran /\ u.ran[k] = t.ran[k]
                                 \/ u.ran[k] = Entry(tx)
      /\ \A k \in DOMAIN t.ran : k \in DOMAIN u.ran /\ u.ran[k] = t.ran[k]
  BY <1>1
<1>3. Entry(tx).tx = tx
  BY DEF Entry
<1>4. \A k \in DOMAIN t.ran : t.ran[k].tx # tx
  BY DEF TimelockSound
<1>5. ASSUME NEW i \in 1 .. m PROVE tx # Tx(p, i)
  BY <1>4 DEF DoneUpTo
<1>6. \A i \in 1 .. m, k \in DOMAIN u.ran :
        u.ran[k].tx = Tx(p, i) => k \in DOMAIN t.ran /\ u.ran[k] = t.ran[k]
  BY <1>2, <1>3, <1>5
<1>7. ASSUME NEW i \in 1 .. m
      PROVE  \E k \in DOMAIN u.ran : u.ran[k].tx = Tx(p, i)
  BY <1>2 DEF DoneUpTo
<1>8. ASSUME NEW i \in 1 .. m, NEW j \in 1 .. i - 1, NEW k \in DOMAIN u.ran, NEW l \in DOMAIN u.ran,
             u.ran[k].tx = Tx(p, i), u.ran[l].tx = Tx(p, j)
      PROVE  l < k /\ u.ran[l].at = u.ran[k].at
  <2>1. j \in 1 .. m
    BY <1>8
  <2> QED BY <2>1, <1>6, <1>8 DEF DoneUpTo
<1>9. DoneNow(t, p, m, timestamp) => DoneNow(u, p, m, timestamp)
  BY <1>6 DEF DoneNow
<1>10. DoneUpTo(u, p, m)
  <2> SUFFICES ASSUME NEW i \in 1 .. m
               PROVE  /\ \E k \in DOMAIN u.ran : u.ran[k].tx = Tx(p, i)
                      /\ \A j \in 1 .. i - 1 : \A k, l \in DOMAIN u.ran :
                           u.ran[k].tx = Tx(p, i) /\ u.ran[l].tx = Tx(p, j)
                             => l < k /\ u.ran[l].at = u.ran[k].at
    BY DEF DoneUpTo
  <2> QED BY <1>7, <1>8, ZenonT(60)
<1> QED BY <1>5, <1>9, <1>10

\* The next action of p runs.
LEMMA DoneOneMore ==
  ASSUME NEW t, NEW u, NEW p, NEW m \in Nat, Tx(p, m + 1) \in t.queued,
         TimelockSound(t, timestamp), timestamp \in Nat,
         u.ran = Append(t.ran, Entry(Tx(p, m + 1))),
         DoneUpTo(t, p, m), DoneNow(t, p, m, timestamp)
  PROVE  DoneUpTo(u, p, m + 1) /\ DoneNow(u, p, m + 1, timestamp)
<1>1. PICK tx \in t.queued : tx = Tx(p, m + 1)
  OBVIOUS
<1>2. /\ DoneUpTo(u, p, m) /\ DoneNow(u, p, m, timestamp)
      /\ \A i \in 1 .. m : tx # Tx(p, i)
  <2>1. m \in Int
    OBVIOUS
  <2> QED BY <2>1, <1>1, DoneAfterRun
<1>3. PICK n \in Nat : n = Len(t.ran) + 1
  BY DEF TimelockSound, TimelockStorage
<1>4. t.ran \in Seq([tx : Transaction, at : Nat])
  BY DEF TimelockSound, TimelockStorage
<1>5. /\ DOMAIN u.ran = 1 .. n /\ u.ran[n] = Entry(tx)
      /\ \A k \in 1 .. n - 1 : k \in DOMAIN t.ran /\ u.ran[k] = t.ran[k]
  BY <1>1, <1>3, <1>4
<1>6. u.ran[n].tx = tx /\ u.ran[n].at = timestamp /\ n \in 1 .. n
  BY <1>3, <1>5 DEF Entry
<1>7. \A k \in 1 .. n : u.ran[k].tx = tx => k = n
  <2>1. \A k \in 1 .. n - 1 : u.ran[k].tx # tx
    BY <1>1, <1>5 DEF TimelockSound
  <2> QED BY <2>1, <1>3
<1>8. \A i \in 1 .. m + 1 : i = m + 1 \/ i \in 1 .. m
  OBVIOUS
<1>9. DoneNow(u, p, m + 1, timestamp)
  BY <1>1, <1>2, <1>5, <1>6, <1>7, <1>8 DEF DoneNow
<1>10. ASSUME NEW i \in 1 .. m + 1
       PROVE  /\ \E k \in DOMAIN u.ran : u.ran[k].tx = Tx(p, i)
              /\ \A j \in 1 .. i - 1 : \A k, l \in DOMAIN u.ran :
                   u.ran[k].tx = Tx(p, i) /\ u.ran[l].tx = Tx(p, j)
                     => l < k /\ u.ran[l].at = u.ran[k].at
  <2>1. CASE i \in 1 .. m
    BY <2>1, <1>2 DEF DoneUpTo
  <2>2. CASE i = m + 1
    <3>1. \E k \in DOMAIN u.ran : u.ran[k].tx = Tx(p, i)
      BY <2>2, <1>1, <1>5, <1>6
    <3>2. ASSUME NEW j \in 1 .. i - 1, NEW k \in DOMAIN u.ran, NEW l \in DOMAIN u.ran,
                 u.ran[k].tx = Tx(p, i), u.ran[l].tx = Tx(p, j)
          PROVE  l < k /\ u.ran[l].at = u.ran[k].at
      <4>1. j \in 1 .. m
        BY <2>2
      <4>2. k = n
        BY <2>2, <3>2, <1>1, <1>5, <1>7
      <4>3. l # n
        BY <4>1, <3>2, <1>2, <1>6
      <4>4. l < k
        BY <4>2, <4>3, <1>3, <1>5
      <4>5. u.ran[l].at = timestamp
        BY <4>1, <3>2, <1>2 DEF DoneNow
      <4> QED BY <4>2, <4>4, <4>5, <1>6
    <3> QED BY <3>1, <3>2
  <2> QED BY <2>1, <2>2, <1>8
<1>11. DoneUpTo(u, p, m + 1)
  BY <1>10 DEF DoneUpTo
<1> QED BY <1>9, <1>11

LEMMA RunAction ==
  ASSUME GovInv, RunInv, ExecuteAction
  PROVE  RunInv'
<1> DEFINE n == Len(frames)
           c == NextTx.call
<1>1. /\ DaoSound(dao, block) /\ block \in Nat /\ dao \in DaoStorage
      /\ TimelockSound(timelock, timestamp) /\ timelock \in TimelockStorage
      /\ timestamp \in Nat
  BY DEF GovInv, Current, StoresSound, DaoSound, World, TimelockSound
<1>2. frames \in Seq(Frame) /\ n \in Nat /\ frames # <<>>
  BY DEF GovInv, ExecuteAction, Running
<1>3. n \in 1 .. n /\ Top \in Frame
  BY <1>2 DEF Top
<1>4. PICK t : t = Run(timelock, NextTx)
  OBVIOUS
<1>5. /\ CanRun(timelock, DAO, NextTx)
      /\ c.fn \in SelfCalls => CanSelfCall(t, c)
      /\ c.fn \in DaoCalls => CanDaoCall(dao, Executor, c)
      /\ timelock' = TimelockAfter(t, c)
      /\ dao' = DaoAfter(dao, c) /\ Top.next <= Len(dao.proposals[Top.id].actions)
      /\ UNCHANGED timestamp
  BY <1>4 DEF ExecuteAction, ActionsLeft, CanMake
<1>o. PICK o \in BOOLEAN : o = (c.fn \notin SelfCalls \cup DaoCalls)
  OBVIOUS
<1>6. PICK f : f = [Top EXCEPT !.next = Top.next + 1, !.outside = o]
  OBVIOUS
<1>7. frames' = [frames EXCEPT ![n] = f]
  BY <1>o, <1>2, <1>3, <1>6 DEF ExecuteAction, Top
<1>8. PICK m \in Nat : m = Top.next - 1 /\ Top.next = m + 1
  <2>1. Top.next \in Nat \ {0}
    BY <1>3 DEF Frame
  <2> QED BY <2>1
<1>9. c \in Calls /\ NextTx = Tx(dao.proposals[Top.id], m + 1) /\ NextTx \in timelock.queued
  <2>1. Top.id \in Ids /\ Top.next \in Nat \ {0}
    BY <1>3 DEF Frame
  <2>2. dao.proposals[Top.id].actions \in Seq(Calls)
    BY <2>1, <1>1, ActionsType DEF DaoStorage
  <2>3. Top.next \in 1 .. Len(dao.proposals[Top.id].actions)
    BY <2>1, <2>2, <1>5
  <2>4. c \in Calls
    <3>1. c = dao.proposals[Top.id].actions[Top.next]
      BY DEF NextTx, Tx
    <3>2. dao.proposals[Top.id].actions[Top.next] \in Calls
      BY <2>2, <2>3
    <3> QED BY <3>1, <3>2
  <2>5. NextTx = Tx(dao.proposals[Top.id], m + 1)
    BY <1>8 DEF NextTx
  <2>6. NextTx \in timelock.queued
    BY <1>5 DEF CanRun
  <2> QED BY <2>4, <2>5, <2>6
<1> HIDE DEF Top, c
<1>10. f.id = Top.id /\ f.saved = Top.saved /\ f.next = Top.next + 1
  BY <1>3, <1>6 DEF Frame
<1>11. TimelockSound(t, timestamp)
  BY <1>1, <1>4, <1>5, RunningIsSound
<1>12. t.admin = timelock.admin /\ t.ran = Append(timelock.ran, Entry(NextTx))
  BY <1>1, <1>4 DEF Run, TimelockStorage
<1>13. /\ timelock'.ran = t.ran
       /\ timelock'.admin = DAO => t.admin = DAO
  BY <1>5, <1>9, <1>11, SelfCallIsSound
<1>14. dao'.proposals = dao.proposals /\ dao'.proposalCount = dao.proposalCount
  BY <1>1, <1>5, <1>9, DaoAfterKeeps
<1>15. \A k \in 1 .. n : frames'[k] = IF k = n THEN f ELSE frames[k]
  BY <1>2, <1>7
<1>16. timelock'.ran = Append(timelock.ran, Entry(NextTx))
  BY <1>12, <1>13
<1>17. RunSound(timelock, dao, frames, n, timestamp)
  BY DEF RunInv
<1> HIDE DEF n
<1>18. ASSUME NEW p, NEW x \in Int, DoneUpTo(timelock, p, x)
       PROVE  /\ DoneUpTo(timelock', p, x)
              /\ DoneNow(timelock, p, x, timestamp) => DoneNow(timelock', p, x, timestamp)
  BY <1>1, <1>9, <1>16, <1>18, DoneAfterRun
<1>19. RunSound(timelock', dao', frames', n, timestamp)
  <2> SUFFICES ASSUME timelock'.admin = DAO, NEW id \in 1 .. dao.proposalCount,
                      dao.proposals[id].executed
               PROVE  \/ DoneUpTo(timelock', dao.proposals[id], Len(dao.proposals[id].actions))
                      \/ \E k \in 1 .. n :
                           /\ frames'[k].id = id
                           /\ DoneUpTo(timelock', dao.proposals[id], frames'[k].next - 1)
                           /\ DoneNow(timelock', dao.proposals[id], frames'[k].next - 1, timestamp)
    BY <1>14 DEF RunSound
  <2>1. timelock.admin = DAO
    BY <1>12, <1>13
  <2>2. Len(dao.proposals[id].actions) \in Int
    <3>1. id \in Ids
      BY <1>1, IdsType DEF DaoStorage
    <3>2. dao.proposals[id] \in Proposal
      BY <3>1, <1>1 DEF DaoStorage
    <3>3. dao.proposals[id].actions \in Seq(Calls)
      BY <3>2, ActionsType
    <3> QED BY <3>3
  <2>3. CASE DoneUpTo(timelock, dao.proposals[id], Len(dao.proposals[id].actions))
    BY <2>2, <2>3, <1>18
  <2>4. ASSUME NEW k \in 1 .. n, frames[k].id = id,
               DoneUpTo(timelock, dao.proposals[id], frames[k].next - 1),
               DoneNow(timelock, dao.proposals[id], frames[k].next - 1, timestamp)
        PROVE  /\ frames'[k].id = id
               /\ DoneUpTo(timelock', dao.proposals[id], frames'[k].next - 1)
               /\ DoneNow(timelock', dao.proposals[id], frames'[k].next - 1, timestamp)
    <3>1. CASE k # n
      <4>1. frames'[k] = frames[k]
        BY <3>1, <1>15
      <4>2. frames[k].next - 1 \in Int
        <5>1. frames[k] \in Frame
          BY <1>2 DEF n
        <5> QED BY <5>1 DEF Frame
      <4> QED BY <4>1, <4>2, <2>4, <1>18
    <3>2. CASE k = n
      <4>1. frames[k] = Top
        BY <3>2 DEF Top, n
      <4>2. /\ id = Top.id /\ DoneUpTo(timelock, dao.proposals[id], m)
            /\ DoneNow(timelock, dao.proposals[id], m, timestamp)
        BY <4>1, <2>4, <1>8
      <4>3. /\ DoneUpTo(timelock', dao.proposals[id], m + 1)
            /\ DoneNow(timelock', dao.proposals[id], m + 1, timestamp)
        BY <4>2, <1>1, <1>9, <1>16, DoneOneMore
      <4>4. frames'[k].id = id /\ frames'[k].next - 1 = m + 1
        BY <3>2, <4>2, <1>8, <1>10, <1>15
      <4> QED BY <4>3, <4>4
    <3> QED BY <3>1, <3>2
  <2> QED BY <2>1, <2>3, <2>4, <1>17 DEF RunSound
<1> QED BY <1>2, <1>5, <1>7, <1>10, <1>19, RunTop DEF n

\* A step that ends the innermost execution.
LEMMA RunPopped ==
  ASSUME GovInv, RunInv, UNCHANGED timestamp, frames # <<>>, frames' = Front(frames),
         RunSound(timelock', dao', frames, Len(frames) - 1, timestamp)
  PROVE  RunInv'
<1> DEFINE n == Len(frames)
<1>1. /\ n \in Nat \ {0} /\ Len(frames') = n - 1
      /\ \A k \in 1 .. n - 1 : frames'[k] = frames[k]
  BY FrontFacts
<1> HIDE DEF n
<1>2. RunSound(timelock', dao', frames', Len(frames'), timestamp)
  <2>1. RunSound(timelock', dao', frames, n - 1, timestamp)
    BY DEF n
  <2> QED BY <2>1, <1>1, RunAgree
<1>3. ASSUME NEW k \in 1 .. Len(frames')
      PROVE  RunSound(frames'[k].saved.timelock, frames'[k].saved.dao,
                      frames', k - 1, timestamp)
  <2>1. k \in 1 .. n - 1 /\ k \in 1 .. n
    BY <1>1
  <2>2. \A x \in 1 .. k - 1 : x \in 1 .. n - 1
    BY <2>1, <1>1
  <2>3. RunSound(frames[k].saved.timelock, frames[k].saved.dao, frames, k - 1, timestamp)
    BY <2>1 DEF RunInv, n
  <2>4. RunSound(frames[k].saved.timelock, frames[k].saved.dao, frames', k - 1, timestamp)
    BY <2>2, <2>3, <1>1, RunAgree
  <2> QED BY <2>1, <2>4, <1>1
<1> QED BY <1>2, <1>3 DEF RunInv

LEMMA RunRevert ==
  ASSUME GovInv, RunInv, RevertExecution
  PROVE  RunInv'
<1>1. /\ frames # <<>> /\ frames' = Front(frames) /\ UNCHANGED timestamp
      /\ dao' = frames[Len(frames)].saved.dao
      /\ timelock' = frames[Len(frames)].saved.timelock
  BY DEF RevertExecution, Top
<1>2. Len(frames) \in 1 .. Len(frames)
  BY <1>1 DEF GovInv
<1>3. RunSound(timelock', dao', frames, Len(frames) - 1, timestamp)
  BY <1>1, <1>2 DEF RunInv
<1> QED BY <1>1, <1>3, RunPopped

LEMMA RunFinish ==
  ASSUME GovInv, RunInv, FinishExecution
  PROVE  RunInv'
<1> DEFINE n == Len(frames)
<1>1. /\ frames # <<>> /\ frames' = Front(frames)
      /\ ~(frames[n].next <= Len(dao.proposals[frames[n].id].actions))
      /\ UNCHANGED <<timestamp, timelock, dao>>
  BY DEF FinishExecution, Running, ActionsLeft, Top
<1>2. n \in 1 .. n /\ n \in Nat /\ frames[n].next \in Nat
  <2>1. n \in 1 .. n /\ n \in Nat /\ frames \in Seq(Frame)
    BY <1>1 DEF GovInv
  <2>2. frames[n] \in Frame
    BY <2>1
  <2> QED BY <2>1, <2>2 DEF Frame
<1>3. RunSound(timelock, dao, frames, n, timestamp) /\ DaoSound(dao, block)
  BY DEF RunInv, GovInv, Current, StoresSound
<1> HIDE DEF n
<1>4. RunSound(timelock, dao, frames, n - 1, timestamp)
  <2> SUFFICES ASSUME timelock.admin = DAO, NEW id \in 1 .. dao.proposalCount,
                      dao.proposals[id].executed
               PROVE  \/ DoneUpTo(timelock, dao.proposals[id], Len(dao.proposals[id].actions))
                      \/ \E k \in 1 .. n - 1 :
                           /\ frames[k].id = id
                           /\ DoneUpTo(timelock, dao.proposals[id], frames[k].next - 1)
                           /\ DoneNow(timelock, dao.proposals[id], frames[k].next - 1, timestamp)
    BY DEF RunSound
  <2>1. CASE frames[n].id = id /\ DoneUpTo(timelock, dao.proposals[id], frames[n].next - 1)
    <3>1. id \in Ids
      BY <1>3, IdsType DEF DaoSound, DaoStorage
    <3>2. dao.proposals[id] \in Proposal
      BY <3>1, <1>3 DEF DaoSound, DaoStorage
    <3>3. dao.proposals[id].actions \in Seq(Calls)
      BY <3>2, ActionsType
    <3>4. Len(dao.proposals[id].actions) \in Int
      BY <3>3
    <3>5. frames[n].next - 1 \in Int /\ Len(dao.proposals[id].actions) <= frames[n].next - 1
      BY <3>4, <2>1, <1>1, <1>2
    <3> QED BY <3>4, <3>5, <2>1, DoneLess
  <2>2. \A k \in 1 .. n : k = n \/ k \in 1 .. n - 1
    BY <1>2
  <2> QED BY <2>1, <2>2, <1>3 DEF RunSound
<1> QED BY <1>1, <1>4, RunPopped DEF n

LEMMA RunBlock ==
  ASSUME RunInv, NextBlock
  PROVE  RunInv'
<1>1. Len(frames) = 0 /\ UNCHANGED <<timelock, dao, frames>>
  BY DEF NextBlock
<1>2. RunSound(timelock, dao, frames, 0, timestamp)
  BY <1>1 DEF RunInv
<1>3. RunSound(timelock, dao, frames, 0, timestamp')
  <2>1. \A k \in 1 .. 0 : FALSE
    OBVIOUS
  <2> QED BY <2>1, <1>2 DEF RunSound
<1>4. Len(frames') = 0 /\ \A k \in 1 .. Len(frames') : FALSE
  BY <1>1
<1> QED BY <1>1, <1>3, <1>4 DEF RunInv

LEMMA RunInit == Init => RunInv
<1> SUFFICES ASSUME Init PROVE RunInv
  OBVIOUS
<1>1. frames = <<>> /\ Len(frames) = 0 /\ dao.proposalCount = 0
  BY DEF Init
<1> QED BY <1>1 DEF RunInv, RunSound

LEMMA RunNext == GovInv /\ RunInv /\ [Next]_vars => RunInv'
<1> SUFFICES ASSUME GovInv, RunInv, [Next]_vars PROVE RunInv'
  OBVIOUS
<1>1. CASE ExecuteAction
  BY <1>1, RunAction
<1>2. CASE RevertExecution
  BY <1>2, RunRevert
<1>3. CASE ~ExecuteAction /\ ~RevertExecution
  BY <1>3, StepKinds, RunSameFrames, RunExecute, RunReturn, RunFinish, RunBlock
<1> QED BY <1>1, <1>2, <1>3

\* A proposal that is marked as executed has run each of its actions exactly
\* once, in their order and in one block, also when outside contracts called
\* governance again between them; what an execution that failed had run is
\* gone from the timelock with it.
THEOREM ExecutionIsAllOrNothing == Spec => []AllOrNothing
<1>1. GovInv /\ RunInv => AllOrNothing
  <2> SUFFICES ASSUME GovInv, RunInv, frames = <<>>, DaoRules,
                      NEW id \in 1 .. dao.proposalCount,
                      NEW p, p = dao.proposals[id]
               PROVE  IF p.executed
                      THEN \A i \in DOMAIN p.actions :
                             /\ \E k \in DOMAIN timelock.ran : Places(p, i) = {k}
                             /\ \A j \in 1 .. i - 1 :
                                  \A k \in Places(p, i), l \in Places(p, j) :
                                    l < k /\ timelock.ran[l].at = timelock.ran[k].at
                      ELSE \A r \in Range(timelock.ran) : r.tx \in Txs(p) =>
                             \E other \in 1 .. dao.proposalCount :
                               /\ dao.proposals[other].executed
                               /\ r.tx \in Txs(dao.proposals[other])
    BY DEF AllOrNothing
  <2>1. /\ TimelockSound(timelock, timestamp) /\ timelock.admin = DAO
        /\ JointSound(timelock, dao, frames, Len(frames)) /\ DaoSound(dao, block)
    BY DEF GovInv, Current, StoresSound, DaoRules
  <2>2. CASE p.executed
    <3>1. DoneUpTo(timelock, p, Len(p.actions))
      <4>1. Len(frames) = 0 /\ \A k \in 1 .. 0 : FALSE
        OBVIOUS
      <4> QED BY <4>1, <2>1, <2>2 DEF RunInv, RunSound
    <3>2. p.actions \in Seq(Calls)
      <4>1. id \in Ids
        BY <2>1, IdsType DEF DaoSound, DaoStorage
      <4>2. p \in Proposal
        BY <4>1, <2>1 DEF DaoSound, DaoStorage
      <4> QED BY <4>2, ActionsType
    <3>3. ASSUME NEW i \in DOMAIN p.actions
          PROVE  /\ \E k \in DOMAIN timelock.ran : Places(p, i) = {k}
                 /\ \A j \in 1 .. i - 1 :
                      \A k \in Places(p, i), l \in Places(p, j) :
                        l < k /\ timelock.ran[l].at = timelock.ran[k].at
      <4>1. i \in 1 .. Len(p.actions)
        BY <3>2
      <4>2. PICK k \in DOMAIN timelock.ran : timelock.ran[k].tx = Tx(p, i)
        BY <4>1, <3>1 DEF DoneUpTo
      <4>3. Places(p, i) = {k}
        BY <4>2, <2>1 DEF Places, TimelockSound
      <4>4. ASSUME NEW j \in 1 .. i - 1, NEW x \in Places(p, i), NEW l \in Places(p, j)
            PROVE  l < x /\ timelock.ran[l].at = timelock.ran[x].at
        BY <4>1, <3>1 DEF DoneUpTo, Places
      <4> QED BY <4>3, <4>4
    <3> QED BY <2>2, <3>3
  <2>3. CASE ~p.executed
    <3>1. ASSUME NEW r \in Range(timelock.ran)
          PROVE  \E other \in 1 .. dao.proposalCount :
                   dao.proposals[other].executed /\ r.tx \in Txs(dao.proposals[other])
      BY <2>1 DEF Range, JointSound
    <3> QED BY <2>3, <3>1
  <2> QED BY <2>2, <2>3
<1>2. Init => GovInv /\ RunInv
  BY GovInit, RunInit
<1>3. (GovInv /\ RunInv) /\ [Next]_vars => (GovInv /\ RunInv)'
  BY GovNext, RunNext
<1> QED BY <1>1, <1>2, <1>3, PTL DEF Spec
-----------------------------------------------------------------------------
(* The tallies, for every set of accounts and electorates: those of a      *)
(* proposal that was voted on under its own voting delay are the sums of   *)
(* what their voters had when it was created.                              *)

-----------------------------------------------------------------------------
(* Sums over finite sets.  MapThenSumSet is a recursion over the subsets;  *)
(* statements about all of them are proved by a smallest counterexample.   *)

\* A non-empty set of naturals has a least element.
LEMMA SmallestOf ==
  ASSUME NEW T \in SUBSET Nat, T # {}
  PROVE  \E x \in T : \A y \in T : x <= y
<1> DEFINE R == {ss \in Nat \X Nat : ss[1] < ss[2]}
<1>1. IsWellFoundedOn(R, Nat)
  BY NatLessThanWellFounded, Zenon DEF OpToRel
<1> HIDE DEF R
<1>2. PICK x \in T : \A y \in T : <<y, x>> \notin R
  BY <1>1, WFMin, Zenon
<1>3. \A y, z \in Nat : y < z => <<y, z>> \in R
  BY DEF R
<1>4. ASSUME NEW y \in T PROVE x <= y
  <2>1. ~(y < x)
    BY <1>2, <1>3
  <2> QED BY <2>1
<1> QED BY <1>4

\* Among finite sets of which one is bad, one is bad and has no bad set that
\* is smaller.
LEMMA SmallestSet ==
  ASSUME NEW Bad, Bad # {}, \A s \in Bad : IsFiniteSet(s)
  PROVE  \E s \in Bad : \A t \in Bad : Cardinality(s) <= Cardinality(t)
<1> DEFINE T == {n \in Nat : \E s \in Bad : Cardinality(s) = n}
<1>1. \A s \in Bad : Cardinality(s) \in Nat
  BY FS_CardinalityType
<1>2. T \in SUBSET Nat /\ T # {}
  BY <1>1
<1>3. \A s \in Bad : Cardinality(s) \in T
  BY <1>1
<1>4. \A n \in T : \E s \in Bad : Cardinality(s) = n
  OBVIOUS
<1> HIDE DEF T
<1>5. PICK n \in T : \A m \in T : n <= m
  BY <1>2, SmallestOf
<1> QED BY <1>3, <1>4, <1>5

\* The sum of the weights w over s.
Total(w, s) == MapThenSumSet(LAMBDA a : w[a], s)

First(s) == CHOOSE x \in s : TRUE
Adding(w, sum, s) == IF s = {} THEN 0 ELSE w[First(s)] + sum[s \ {First(s)}]

\* The equation of the recursive function in MapThenSumSet.
Sums(w, S, sum) == sum = [s \in SUBSET S |-> Adding(w, sum, s)]

LEMMA TotalIsSum ==
  ASSUME NEW w, NEW S
  PROVE  Total(w, S) = (CHOOSE sum : Sums(w, S, sum))[S]
BY DEF Total, MapThenSumSet, MapThenFoldSet, Sums, Adding, First

LEMMA FirstFacts ==
  ASSUME NEW s, s # {}, IsFiniteSet(s)
  PROVE  /\ First(s) \in s
         /\ IsFiniteSet(s \ {First(s)})
         /\ Cardinality(s \ {First(s)}) < Cardinality(s)
         /\ Cardinality(s) \in Nat
<1>1. First(s) \in s
  BY DEF First
<1>2. Cardinality(s) \in Nat
  BY FS_CardinalityType
<1>3. /\ IsFiniteSet(s \ {First(s)})
      /\ Cardinality(s \ {First(s)}) = Cardinality(s) - 1
  BY <1>1, FS_RemoveElement
<1> QED BY <1>1, <1>2, <1>3

\* The recursion has a solution: sums up to n elements give sums up to n + 1.
Partial(w, S, n, sum) ==
  \A s \in SUBSET S : Cardinality(s) <= n => sum[s] = Adding(w, sum, s)

LEMMA PartialGrows ==
  ASSUME NEW w, NEW S, IsFiniteSet(S), NEW n \in Nat, NEW sum, Partial(w, S, n, sum)
  PROVE  \E next : Partial(w, S, n + 1, next)
<1> DEFINE next == [s \in SUBSET S |->
                      IF Cardinality(s) <= n THEN sum[s] ELSE Adding(w, sum, s)]
<1>1. ASSUME NEW s \in SUBSET S, Cardinality(s) <= n + 1
      PROVE  next[s] = Adding(w, next, s)
  <2>1. next[s] = Adding(w, sum, s)
    BY DEF Partial
  <2>2. CASE s = {}
    BY <2>1, <2>2 DEF Adding
  <2>3. CASE s # {}
    <3>1. IsFiniteSet(s)
      BY FS_Subset
    <3>2. /\ Cardinality(s \ {First(s)}) < Cardinality(s)
          /\ Cardinality(s) \in Nat /\ IsFiniteSet(s \ {First(s)})
      BY <3>1, <2>3, FirstFacts
    <3>3. Cardinality(s \ {First(s)}) \in Nat
      BY <3>2, FS_CardinalityType
    <3>4. Cardinality(s \ {First(s)}) <= n /\ s \ {First(s)} \in SUBSET S
      BY <3>2, <3>3, <1>1
    <3>5. next[s \ {First(s)}] = sum[s \ {First(s)}]
      BY <3>4
    <3> HIDE DEF next
    <3> QED BY <2>1, <2>3, <3>5 DEF Adding
  <2> QED BY <2>2, <2>3
<1> HIDE DEF next
<1>2. Partial(w, S, n + 1, next)
  BY <1>1 DEF Partial
<1> QED BY <1>2

LEMMA SumsExist ==
  ASSUME NEW w, NEW S, IsFiniteSet(S)
  PROVE  \E sum : Sums(w, S, sum)
<1> DEFINE Missing == {n \in Nat : ~ \E sum : Partial(w, S, n, sum)}
<1>1. Missing = {}
  <2> SUFFICES ASSUME Missing # {} PROVE FALSE
    OBVIOUS
  <2>1. Missing \in SUBSET Nat
    OBVIOUS
  <2>2. PICK n \in Missing : \A m \in Missing : n <= m
    <3> HIDE DEF Missing
    <3> QED BY <2>1, SmallestOf
  <2>3. n # 0
    <3>1. Partial(w, S, 0, [s \in SUBSET S |-> 0])
      <4> SUFFICES ASSUME NEW s \in SUBSET S, Cardinality(s) <= 0
                   PROVE  s = {}
        BY DEF Partial, Adding
      <4>1. IsFiniteSet(s)
        BY FS_Subset
      <4>2. Cardinality(s) \in Nat
        BY <4>1, FS_CardinalityType
      <4>3. Cardinality(s) = 0
        BY <4>2
      <4> QED BY <4>1, <4>3, FS_EmptySet
    <3> QED BY <3>1, <2>2
  <2>4. n - 1 \in Nat /\ n - 1 \notin Missing
    BY <2>2, <2>3
  <2>5. PICK sum : Partial(w, S, n - 1, sum)
    BY <2>4
  <2>6. \E next : Partial(w, S, (n - 1) + 1, next)
    BY <2>4, <2>5, PartialGrows
  <2>7. (n - 1) + 1 = n
    BY <2>2
  <2> QED BY <2>2, <2>6, <2>7
<1>2. Cardinality(S) \in Nat
  BY FS_CardinalityType
<1>3. PICK sum : Partial(w, S, Cardinality(S), sum)
  BY <1>1, <1>2
<1> DEFINE all == [s \in SUBSET S |-> sum[s]]
<1>4. ASSUME NEW s \in SUBSET S PROVE all[s] = Adding(w, all, s)
  <2>1. Cardinality(s) <= Cardinality(S)
    BY FS_Subset
  <2>2. sum[s] = Adding(w, sum, s)
    BY <2>1, <1>3 DEF Partial
  <2>3. s \ {First(s)} \in SUBSET S
    OBVIOUS
  <2>4. all[s] = sum[s] /\ all[s \ {First(s)}] = sum[s \ {First(s)}]
    BY <2>3
  <2> HIDE DEF all
  <2> QED BY <2>2, <2>4 DEF Adding
<1>5. Sums(w, S, all)
  BY <1>4 DEF Sums
<1> QED BY <1>5

\* Two solutions agree where both are defined.
LEMMA SumsAgree ==
  ASSUME NEW w, NEW S, NEW R, NEW f, NEW g, Sums(w, S, f), Sums(w, R, g),
         NEW s \in SUBSET S, s \in SUBSET R, IsFiniteSet(s)
  PROVE  f[s] = g[s]
<1> DEFINE Bad == {t \in SUBSET s : f[t] # g[t]}
<1>1. Bad = {}
  <2> SUFFICES ASSUME Bad # {} PROVE FALSE
    OBVIOUS
  <2>1. \A t \in Bad : IsFiniteSet(t)
    BY FS_Subset
  <2>2. PICK t \in Bad : \A u \in Bad : Cardinality(t) <= Cardinality(u)
    <3> HIDE DEF Bad
    <3> QED BY <2>1, SmallestSet
  <2>3. t \in SUBSET S /\ t \in SUBSET R /\ IsFiniteSet(t)
    BY <2>1
  <2>4. f[t] = Adding(w, f, t) /\ g[t] = Adding(w, g, t)
    BY <2>3 DEF Sums
  <2>5. t # {}
    BY <2>2, <2>4 DEF Adding
  <2>6. /\ Cardinality(t \ {First(t)}) < Cardinality(t)
        /\ Cardinality(t) \in Nat /\ IsFiniteSet(t \ {First(t)})
    BY <2>3, <2>5, FirstFacts
  <2>7. Cardinality(t \ {First(t)}) \in Nat
    BY <2>6, FS_CardinalityType
  <2>8. t \ {First(t)} \notin Bad
    <3> HIDE DEF Bad
    <3> QED BY <2>2, <2>6, <2>7
  <2>9. f[t \ {First(t)}] = g[t \ {First(t)}]
    BY <2>8
  <2> QED BY <2>2, <2>4, <2>9 DEF Adding
<1>2. s \in SUBSET s
  OBVIOUS
<1> QED BY <1>1, <1>2

LEMMA TotalInAll ==
  ASSUME NEW w, NEW S, IsFiniteSet(S), NEW sum, Sums(w, S, sum), NEW s \in SUBSET S
  PROVE  Total(w, s) = sum[s]
<1> DEFINE own == CHOOSE f : Sums(w, s, f)
<1>1. IsFiniteSet(s)
  BY FS_Subset
<1>2. Sums(w, s, own)
  BY <1>1, SumsExist
<1>3. Total(w, s) = own[s]
  BY TotalIsSum
<1> HIDE DEF own
<1>4. s \in SUBSET s
  OBVIOUS
<1> QED BY <1>1, <1>2, <1>3, <1>4, SumsAgree

LEMMA TotalEmpty == \A w : Total(w, {}) = 0
<1> SUFFICES ASSUME NEW w PROVE Total(w, {}) = 0
  OBVIOUS
<1>1. IsFiniteSet({})
  BY FS_EmptySet
<1>2. PICK sum : Sums(w, {}, sum)
  BY <1>1, SumsExist
<1>3. {} \in SUBSET {}
  OBVIOUS
<1>4. Total(w, {}) = sum[{}]
  BY <1>1, <1>2, <1>3, TotalInAll
<1>5. sum[{}] = Adding(w, sum, {})
  BY <1>2, <1>3 DEF Sums
<1> QED BY <1>4, <1>5 DEF Adding

\* Which element is taken first does not matter.
LEMMA SumOfMore ==
  ASSUME NEW S, IsFiniteSet(S), NEW w \in [S -> Nat], NEW sum, Sums(w, S, sum),
         NEW s \in SUBSET S, NEW a \in S, a \notin s
  PROVE  sum[s] \in Nat /\ sum[s \cup {a}] = sum[s] + w[a]
<1> DEFINE Good(t) == /\ sum[t] \in Nat
                      /\ \A x \in S : x \notin t => sum[t \cup {x}] = sum[t] + w[x]
           Bad == {t \in SUBSET S : ~Good(t)}
<1>0. \A t \in SUBSET S : sum[t] = Adding(w, sum, t)
  BY DEF Sums
<1>1. Bad = {}
  <2> SUFFICES ASSUME Bad # {} PROVE FALSE
    OBVIOUS
  <2>1. \A t \in Bad : IsFiniteSet(t)
    BY FS_Subset
  <2>2. PICK t \in Bad : \A u \in Bad : Cardinality(t) <= Cardinality(u)
    <3> HIDE DEF Bad
    <3> QED BY <2>1, SmallestSet
  <2>3. t \in SUBSET S /\ IsFiniteSet(t) /\ ~Good(t) /\ Cardinality(t) \in Nat
    BY <2>1, FS_CardinalityType
  <2>4. ASSUME NEW x \in t PROVE Good(t \ {x}) /\ t \ {x} \in SUBSET S
    <3>1. IsFiniteSet(t \ {x}) /\ Cardinality(t \ {x}) = Cardinality(t) - 1
      BY <2>3, FS_RemoveElement
    <3>2. t \ {x} \notin Bad
      <4> HIDE DEF Bad
      <4> QED BY <3>1, <2>2, <2>3
    <3>3. t \ {x} \in SUBSET S
      BY <2>3
    <3> QED BY <3>2, <3>3
  <2>5. sum[t] \in Nat
    <3>1. CASE t = {}
      <4>1. sum[t] = Adding(w, sum, t)
        BY <2>3, <1>0
      <4>2. sum[t] = 0
        BY <4>1, <3>1 DEF Adding
      <4> QED BY <4>2
    <3>2. CASE t # {}
      <4>1. First(t) \in t
        BY <3>2 DEF First
      <4>2. sum[t] = w[First(t)] + sum[t \ {First(t)}]
        BY <3>2, <2>3, <1>0 DEF Adding
      <4>3. sum[t \ {First(t)}] \in Nat /\ w[First(t)] \in Nat
        BY <4>1, <2>3, <2>4
      <4> QED BY <4>2, <4>3
    <3> QED BY <3>1, <3>2
  <2>6. ASSUME NEW x \in S, x \notin t
        PROVE  sum[t \cup {x}] = sum[t] + w[x]
    <3> DEFINE u == t \cup {x}
               y == First(u)
    <3>1. u \in SUBSET S /\ u # {} /\ y \in u
      BY <2>3 DEF First
    <3>2. sum[u] = w[y] + sum[u \ {y}]
      BY <3>1, <1>0 DEF Adding
    <3>3. w[x] \in Nat /\ w[y] \in Nat
      BY <3>1
    <3> HIDE DEF y
    <3>4. CASE y = x
      <4>1. u \ {y} = t
        BY <3>4, <2>6
      <4>2. sum[u] = w[x] + sum[t]
        BY <4>1, <3>2, <3>4
      <4> HIDE DEF u
      <4>3. sum[u] = sum[t] + w[x]
        BY <4>2, <3>3, <2>5
      <4> QED BY <4>3 DEF u
    <3>5. CASE y # x
      <4>1. y \in t /\ y \in S
        BY <3>1, <3>5, <2>3
      <4>2. u \ {y} = (t \ {y}) \cup {x} /\ x \notin t \ {y}
        BY <3>5, <2>6
      <4>3. Good(t \ {y})
        BY <4>1, <2>4
      <4>4. sum[u \ {y}] = sum[t \ {y}] + w[x] /\ sum[t \ {y}] \in Nat
        BY <4>2, <4>3
      <4>5. t = (t \ {y}) \cup {y} /\ y \notin t \ {y}
        BY <4>1
      <4>6. sum[t] = sum[t \ {y}] + w[y]
        BY <4>1, <4>3, <4>5
      <4> QED BY <4>4, <4>6, <3>2, <3>3
    <3> QED BY <3>4, <3>5
  <2> QED BY <2>3, <2>5, <2>6
<1>2. Good(s)
  BY <1>1
<1> QED BY <1>2

LEMMA TotalOfMore ==
  ASSUME NEW S, IsFiniteSet(S), NEW w \in [S -> Nat], NEW s \in SUBSET S,
         NEW a \in S, a \notin s
  PROVE  Total(w, s \cup {a}) = Total(w, s) + w[a]
<1>1. PICK sum : Sums(w, S, sum)
  BY SumsExist
<1>2. s \cup {a} \in SUBSET S
  OBVIOUS
<1>3. Total(w, s) = sum[s] /\ Total(w, s \cup {a}) = sum[s \cup {a}]
  BY <1>1, <1>2, TotalInAll
<1> QED BY <1>1, <1>3, SumOfMore

-----------------------------------------------------------------------------
(* Ballots                                                                 *)

Supporters(p, support) ==
  {a \in Accounts : p.receipts[a].hasVoted /\ p.receipts[a].support = support}

\* The tallies of p are right, if it was voted on under its own delay; nobody
\* votes in the block of propose(), whose votes are not final yet.
BallotsSound(p, pv, b) ==
  /\ p.createdAt <= b /\ p.createdAt <= p.startBlock
  /\ p.createdAt = b => \A a \in Accounts : ~p.receipts[a].hasVoted
  /\ ~DelayMoved(p) =>
       \A s \in 0 .. 2 :
         p[Tally(s)] = Total(pv[p.createdAt], Supporters(p, s))

TalliesSound(d, pv, b) ==
  \A id \in 1 .. d.proposalCount : BallotsSound(d.proposals[id], pv, b)

\* Inductive together with GovInv.
VotesInv ==
  /\ TalliesSound(dao, pastVotes, block)
  /\ \A k \in 1 .. Len(frames) :
       TalliesSound(frames[k].saved.dao, pastVotes, block)

SameBallots(p, q) ==
  /\ q.createdAt = p.createdAt /\ q.startBlock = p.startBlock
  /\ q.receipts = p.receipts /\ q.forVotes = p.forVotes
  /\ q.againstVotes = p.againstVotes /\ q.abstainVotes = p.abstainVotes

LEMMA TalliesOf ==
  ASSUME NEW p, NEW s \in 0 .. 2
  PROVE  p[Tally(s)] = IF s = 0 THEN p.againstVotes
                       ELSE IF s = 1 THEN p.forVotes ELSE p.abstainVotes
<1>1. CASE s = 0
  BY <1>1 DEF Tally
<1>2. CASE s = 1
  BY <1>2 DEF Tally
<1>3. CASE s = 2
  BY <1>3 DEF Tally
<1> QED BY <1>1, <1>2, <1>3

LEMMA SameBallotsSound ==
  ASSUME NEW p, NEW q, NEW pv, NEW b, SameBallots(p, q), BallotsSound(p, pv, b)
  PROVE  BallotsSound(q, pv, b)
<1>1. \A s \in 0 .. 2 : q[Tally(s)] = p[Tally(s)]
  BY TalliesOf DEF SameBallots
<1>2. \A s : Supporters(q, s) = Supporters(p, s)
  BY DEF Supporters, SameBallots
<1>3. DelayMoved(q) = DelayMoved(p)
  BY DEF DelayMoved, SameBallots
<1> QED BY <1>1, <1>2, <1>3 DEF BallotsSound, SameBallots

\* What castVote changes in a proposal.
BallotAdded(p, q, a, s, v) ==
  /\ q.createdAt = p.createdAt /\ q.startBlock = p.startBlock
  /\ q.receipts = [p.receipts EXCEPT
                     ![a] = [hasVoted |-> TRUE, support |-> s, votes |-> v,
                             delay |-> dao.votingDelay]]
  /\ \A x \in 0 .. 2 :
       q[Tally(x)] = IF x = s THEN p[Tally(x)] + v ELSE p[Tally(x)]

LEMMA CountedDoes ==
  ASSUME NEW p \in Proposal, NEW s \in 0 .. 2, NEW v \in Nat, NEW a \in Accounts
  PROVE  BallotAdded(p, Counted(p, a, s, v), a, s, v)
<1> DEFINE q == Counted(p, a, s, v)
           r == [hasVoted |-> TRUE, support |-> s, votes |-> v,
                 delay |-> dao.votingDelay]
<1>1. PICK m : m = [p EXCEPT ![Tally(s)] = @ + v]
  OBVIOUS
<1>2. /\ m.createdAt = p.createdAt /\ m.startBlock = p.startBlock
      /\ m.receipts = p.receipts /\ m.quorumVotes = p.quorumVotes
      /\ m.againstVotes = (IF s = 0 THEN p.againstVotes + v ELSE p.againstVotes)
      /\ m.forVotes = (IF s = 1 THEN p.forVotes + v ELSE p.forVotes)
      /\ m.abstainVotes = (IF s = 2 THEN p.abstainVotes + v ELSE p.abstainVotes)
      /\ DOMAIN m = DOMAIN p
  <2>1. CASE s = 0
    <3>1. Tally(s) = "againstVotes"
      BY <2>1 DEF Tally
    <3>2. m = [p EXCEPT !.againstVotes = p.againstVotes + v]
      BY <1>1, <3>1
    <3> QED BY <3>2, <2>1 DEF Proposal
  <2>2. CASE s = 1
    <3>1. Tally(s) = "forVotes"
      BY <2>2 DEF Tally
    <3>2. m = [p EXCEPT !.forVotes = p.forVotes + v]
      BY <1>1, <3>1
    <3> QED BY <3>2, <2>2 DEF Proposal
  <2>3. CASE s = 2
    <3>1. Tally(s) = "abstainVotes"
      BY <2>3 DEF Tally
    <3>2. m = [p EXCEPT !.abstainVotes = p.abstainVotes + v]
      BY <1>1, <3>1
    <3> QED BY <3>2, <2>3 DEF Proposal
  <2> QED BY <2>1, <2>2, <2>3
<1>3. q = [m EXCEPT !.receipts[a] = r]
  BY <1>1 DEF Counted
<1>4. PICK rs : rs = [p.receipts EXCEPT ![a] = r]
  OBVIOUS
<1>5. q = [m EXCEPT !.receipts = rs]
  BY <1>2, <1>3, <1>4
<1> HIDE DEF q, r
<1>6. /\ q.createdAt = p.createdAt /\ q.startBlock = p.startBlock
      /\ q.receipts = rs
      /\ q.againstVotes = m.againstVotes /\ q.forVotes = m.forVotes
      /\ q.abstainVotes = m.abstainVotes
  BY <1>2, <1>5 DEF Proposal
<1>7. \A x \in 0 .. 2 : q[Tally(x)] = IF x = s THEN p[Tally(x)] + v ELSE p[Tally(x)]
  BY <1>2, <1>6, TalliesOf
<1>8. BallotAdded(p, q, a, s, v)
  BY <1>4, <1>6, <1>7 DEF BallotAdded, r
<1> QED BY <1>8 DEF q

\* One more ballot.  If it is cast under the delay of the proposal it weighs
\* what the voter had when the proposal was created.
LEMMA CountedIsSound ==
  ASSUME NEW p \in Proposal, NEW s \in 0 .. 2, NEW a \in Accounts,
         NEW b \in Nat, NEW pv \in [0 .. MaxBlock -> [Accounts -> Nat]],
         p.createdAt \in 0 .. MaxBlock, p.createdAt < b,
         BallotsSound(p, pv, b), ~p.receipts[a].hasVoted, NEW v \in Nat,
         dao.votingDelay = p.startBlock - p.createdAt => v = pv[p.createdAt][a]
  PROVE  BallotsSound(Counted(p, a, s, v), pv, b)
<1>0. PICK w \in [Accounts -> Nat] : w = pv[p.createdAt]
  OBVIOUS
<1> DEFINE q == Counted(p, a, s, v)
           r == [hasVoted |-> TRUE, support |-> s, votes |-> v,
                 delay |-> dao.votingDelay]
<1>2. /\ q.createdAt = p.createdAt /\ q.startBlock = p.startBlock
      /\ q.receipts = [p.receipts EXCEPT ![a] = r]
      /\ \A x \in 0 .. 2 :
           q[Tally(x)] = IF x = s THEN p[Tally(x)] + v ELSE p[Tally(x)]
  <2>1. BallotAdded(p, q, a, s, v)
    BY CountedDoes
  <2> QED BY <2>1 DEF BallotAdded
<1>3. r.hasVoted /\ r.support = s /\ r.delay = dao.votingDelay
  OBVIOUS
<1> HIDE DEF q, r
<1>4. \A x \in Accounts : q.receipts[x] = IF x = a THEN r ELSE p.receipts[x]
  <2>1. p.receipts \in [Accounts -> Receipt]
    BY DEF Proposal
  <2> QED BY <2>1, <1>2
<1>5. /\ Supporters(q, s) = Supporters(p, s) \cup {a}
      /\ a \notin Supporters(p, s)
      /\ Supporters(p, s) \in SUBSET Accounts
  BY <1>3, <1>4 DEF Supporters
<1>6. ASSUME NEW x \in 0 .. 2, x # s
      PROVE  Supporters(q, x) = Supporters(p, x)
  BY <1>3, <1>4, <1>6 DEF Supporters
<1>7. ASSUME ~DelayMoved(q)
      PROVE  ~DelayMoved(p) /\ v = w[a]
  <2>1. \A x \in Accounts :
          q.receipts[x].hasVoted => q.receipts[x].delay = p.startBlock - p.createdAt
    BY <1>2, <1>7 DEF DelayMoved
  <2>2. ~DelayMoved(p)
    BY <1>4, <2>1 DEF DelayMoved
  <2>3. dao.votingDelay = p.startBlock - p.createdAt
    BY <1>3, <1>4, <2>1
  <2> QED BY <1>0, <2>2, <2>3
<1>8. ASSUME ~DelayMoved(q), NEW x \in 0 .. 2
      PROVE  q[Tally(x)] = Total(w, Supporters(q, x))
  <2>1. v = w[a] /\ \A y \in 0 .. 2 : p[Tally(y)] = Total(w, Supporters(p, y))
    BY <1>0, <1>7, <1>8 DEF BallotsSound
  <2>2. CASE x = s
    <3>1. IsFiniteSet(Accounts)
      BY NDAOLogicV1Assumption
    <3>2. Total(w, Supporters(p, s) \cup {a}) = Total(w, Supporters(p, s)) + w[a]
      BY <3>1, <1>0, <1>5, TotalOfMore
    <3> QED BY <3>2, <2>1, <2>2, <1>2, <1>5
  <2>3. CASE x # s
    BY <2>1, <2>3, <1>2, <1>6
  <2> QED BY <2>2, <2>3
<1>10. /\ q.createdAt <= b /\ q.createdAt # b /\ q.createdAt <= q.startBlock
  <2>1. p.createdAt \in Nat /\ p.createdAt # b
    BY NDAOLogicV1Assumption
  <2> QED BY <2>1, <1>2 DEF BallotsSound
<1>11. BallotsSound(q, pv, b)
  BY <1>0, <1>2, <1>8, <1>10 DEF BallotsSound
<1> QED BY <1>11 DEF q

\* The next block: the votes of the block that ends become final.
LEMMA BallotsLater ==
  ASSUME NEW p \in Proposal, NEW b \in Nat, b - 1 <= MaxBlock,
         NEW pv \in [0 .. MaxBlock -> [Accounts -> Nat]], NEW w,
         BallotsSound(p, pv, b)
  PROVE  BallotsSound(p, [pv EXCEPT ![b] = w], b + 1)
<1>1. p.createdAt \in Nat /\ p.createdAt <= b /\ MaxBlock \in Nat
  BY NDAOLogicV1Assumption DEF Proposal, BallotsSound
<1>2. /\ p.createdAt <= b + 1 /\ p.createdAt # b + 1
      /\ p.createdAt <= p.startBlock
  BY <1>1 DEF BallotsSound
<1>3. ASSUME ~DelayMoved(p)
      PROVE  \A s \in 0 .. 2 :
               p[Tally(s)] = Total([pv EXCEPT ![b] = w][p.createdAt], Supporters(p, s))
  <2>1. CASE p.createdAt = b
    <3>1. \A s \in 0 .. 2 : Supporters(p, s) = {}
      BY <2>1 DEF BallotsSound, Supporters
    <3> QED BY <1>3, <3>1, TotalEmpty DEF BallotsSound
  <2>2. CASE p.createdAt # b
    <3>1. p.createdAt \in 0 .. MaxBlock
      BY <2>2, <1>1
    <3>2. [pv EXCEPT ![b] = w][p.createdAt] = pv[p.createdAt]
      BY <2>2, <3>1
    <3> QED BY <1>3, <3>2 DEF BallotsSound
  <2> QED BY <2>1, <2>2
<1> QED BY <1>2, <1>3 DEF BallotsSound

-----------------------------------------------------------------------------
(* The steps                                                               *)

\* A step that adds no proposal and no ballot.
NoBallot ==
  /\ dao'.proposalCount = dao.proposalCount
  /\ \A id \in 1 .. dao.proposalCount :
       SameBallots(dao.proposals[id], dao'.proposals[id])

LEMMA NoBallotKeeps ==
  ASSUME TalliesSound(dao, pastVotes, block), NoBallot
  PROVE  TalliesSound(dao', pastVotes, block)
BY SameBallotsSound DEF TalliesSound, NoBallot

LEMMA SameProposals ==
  ASSUME dao'.proposals = dao.proposals, dao'.proposalCount = dao.proposalCount
  PROVE  NoBallot
BY DEF NoBallot, SameBallots

\* Calls that rewrite one proposal and none of its ballots.
LEMMA RewrittenHasNoBallot ==
  ASSUME dao \in DaoStorage, NEW id \in Ids, NEW q \in Proposal,
         SameBallots(dao.proposals[id], q),
         dao' = [dao EXCEPT !.proposals[id] = q]
  PROVE  NoBallot
<1>1. /\ dao'.proposalCount = dao.proposalCount
      /\ \A i \in Ids : dao'.proposals[i] = IF i = id THEN q ELSE dao.proposals[i]
      /\ \A i \in 1 .. dao.proposalCount : i \in Ids
  BY OneProposal
<1> QED BY <1>1 DEF NoBallot, SameBallots

LEMMA ProposeTallies ==
  ASSUME World, Current, TalliesSound(dao, pastVotes, block),
         NEW a \in Accounts, NEW actions \in ActionLists, Propose(a, actions)
  PROVE  TalliesSound(dao', pastVotes, block)
<1> DEFINE id == dao.proposalCount + 1
<1>1. dao \in DaoStorage /\ block \in Nat /\ dao.votingDelay \in Nat
  BY NDAOLogicV1Assumption DEF Current, StoresSound, DaoSound, World, DaoStorage
<1>2. dao.proposalCount \in Nat /\ id \in Ids
  BY ProposeDoes
<1>3. PICK new \in Proposal : ProposeMakes(new, a, actions)
  BY ProposeDoes
<1>4. /\ dao'.proposalCount = id
      /\ \A i \in Ids : dao'.proposals[i] = IF i = id THEN new ELSE dao.proposals[i]
  BY <1>1, <1>2, <1>3 DEF DaoStorage, ProposeMakes
<1>5. /\ \A i \in 1 .. id : i = id \/ i \in 1 .. dao.proposalCount
      /\ \A i \in 1 .. dao.proposalCount : i \in Ids /\ i # id
  BY <1>2, IdsType
<1> HIDE DEF id
<1>6. BallotsSound(new, pastVotes, block)
  <2>1. /\ new.createdAt = block /\ new.startBlock = block + dao.votingDelay
        /\ new.forVotes = 0 /\ new.againstVotes = 0 /\ new.abstainVotes = 0
        /\ new.receipts = [x \in Accounts |-> NoReceipt]
    BY <1>3 DEF ProposeMakes
  <2>2. \A x \in Accounts : ~new.receipts[x].hasVoted
    BY <2>1 DEF NoReceipt
  <2>3. \A s \in 0 .. 2 : Supporters(new, s) = {}
    BY <2>2 DEF Supporters
  <2>4. \A s \in 0 .. 2 : new[Tally(s)] = 0
    BY <2>1, TalliesOf
  <2>5. new.createdAt <= block /\ new.createdAt <= new.startBlock
    BY <2>1, <1>1
  <2> QED BY <2>1, <2>2, <2>3, <2>4, <2>5, TotalEmpty DEF BallotsSound
<1> QED BY <1>2, <1>4, <1>5, <1>6 DEF TalliesSound

LEMMA CastVoteTallies ==
  ASSUME World, Current, TalliesSound(dao, pastVotes, block),
         NEW voter \in Accounts, NEW id \in Ids, NEW support \in 0 .. 2,
         CastVote(voter, id, support)
  PROVE  TalliesSound(dao', pastVotes, block)
<1>1. /\ dao \in DaoStorage /\ DaoSound(dao, block) /\ block \in Nat \ {0}
      /\ pastVotes \in [0 .. MaxBlock -> [Accounts -> Nat]]
      /\ dao.votingDelay \in Nat
      /\ block - 1 <= MaxBlock /\ MaxBlock \in Nat
  <2>1. dao \in DaoStorage /\ DaoSound(dao, block)
    BY DEF Current, StoresSound, DaoSound
  <2>2. dao.votingDelay \in Nat
    BY <2>1, NDAOLogicV1Assumption DEF DaoStorage
  <2> QED BY <2>1, <2>2, NDAOLogicV1Assumption DEF World
<1>2. PICK p \in Proposal : p = dao.proposals[id]
  BY <1>1 DEF DaoStorage
<1>3. PICK votes \in Nat : votes = PriorVotes(voter, SnapshotBlock(p))
  BY <1>2, CastVoteDoes
<1>4. PICK q \in Proposal : q = Counted(p, voter, support, votes)
  BY <1>2, <1>3, CastVoteDoes
<1>5. /\ dao' = [dao EXCEPT !.proposals[id] = q]
      /\ SnapshotBlock(p) \in 0 .. MaxBlock
      /\ block > p.startBlock /\ block <= p.endBlock
  BY <1>2, <1>3, <1>4, CastVoteDoes
<1>6. id \in 1 .. dao.proposalCount
  <2>1. id # 0
    <3>1. CASE id = 0
      <4>1. p.endBlock = 0
        BY <3>1, <1>1, <1>2 DEF DaoSound, Blank
      <4> QED BY <4>1, <1>1, <1>5
    <3> QED BY <3>1
  <2>2. id <= dao.proposalCount /\ dao.proposalCount \in Nat
    BY <1>1, IdsType DEF CastVote, DaoStorage
  <2> QED BY <2>1, <2>2, IdsType
<1>7. BallotsSound(p, pastVotes, block)
  BY <1>2, <1>6 DEF TalliesSound
<1>8. p.createdAt \in Nat /\ p.startBlock \in Nat /\ p.createdAt <= p.startBlock
  BY <1>2, <1>7 DEF Proposal, BallotsSound
<1>10. p.createdAt < block /\ p.createdAt \in 0 .. MaxBlock
  BY <1>1, <1>5, <1>8
<1>11. dao.votingDelay = p.startBlock - p.createdAt =>
          votes = pastVotes[p.createdAt][voter]
  <2>1. voter # Zero
    BY NDAOExecutorAssumption
  <2>2. dao.votingDelay = p.startBlock - p.createdAt =>
          SnapshotBlock(p) = p.createdAt
    BY <1>1, <1>8 DEF SnapshotBlock
  <2> QED BY <2>1, <2>2, <1>3 DEF PriorVotes
<1>12. ~p.receipts[voter].hasVoted
  BY <1>2 DEF CastVote, NotYetVoted
<1>13. BallotsSound(q, pastVotes, block)
  BY <1>1, <1>2, <1>4, <1>7, <1>10, <1>11, <1>12, CountedIsSound
<1>14. /\ dao'.proposalCount = dao.proposalCount
       /\ \A i \in Ids : dao'.proposals[i] = IF i = id THEN q ELSE dao.proposals[i]
       /\ \A i \in 1 .. dao.proposalCount : i \in Ids
  <2>1. dao \in DaoStorage /\ q \in Proposal
    BY <1>1, <1>4
  <2>2. dao' = [dao EXCEPT !.proposals[id] = q]
    BY <1>5
  <2>3. /\ dao'.proposalCount = dao.proposalCount
        /\ \A i \in Ids : dao'.proposals[i] = IF i = id THEN q ELSE dao.proposals[i]
    BY <2>1, <2>2 DEF DaoStorage
  <2>4. \A i \in 1 .. dao.proposalCount : i \in Ids
    BY <2>1, IdsType DEF DaoStorage
  <2> QED BY <2>3, <2>4
<1> QED BY <1>13, <1>14 DEF TalliesSound

\* The other calls, and the steps of an execution that keep its frame.
LEMMA OthersHaveNoBallot ==
  ASSUME GovInv,
         \/ \E a \in Accounts :
              \/ \E id \in Ids : CancelProposal(a, id) \/ Veto(a, id)
              \/ \E c \in Calls : AccountCalls(a, c)
              \/ TimelockCall(a)
         \/ \E id \in Ids : QueueProposal(id) \/ Execute(id)
         \/ ExecuteAction
         \/ UNCHANGED dao
  PROVE  NoBallot
<1>1. /\ World /\ Current /\ dao \in DaoStorage /\ DaoSound(dao, block)
      /\ block \in Nat /\ timestamp \in Nat /\ timelock.delay \in Nat
  BY DEF GovInv, Current, StoresSound, DaoSound, World, TimelockSound, TimelockStorage
<1>2. ASSUME NEW id \in Ids PROVE dao.proposals[id] \in Proposal
  BY <1>1 DEF DaoStorage
<1>3. ASSUME NEW a \in Accounts, NEW id \in Ids, CancelProposal(a, id) PROVE NoBallot
  <2>1. PICK p \in Proposal : p = dao.proposals[id]
    BY <1>2
  <2>2. PICK q : q = [p EXCEPT !.canceled = TRUE]
    OBVIOUS
  <2>3. q \in Proposal /\ SameBallots(p, q)
    BY <2>1, <2>2 DEF Proposal, SameBallots
  <2>4. dao' = [dao EXCEPT !.proposals[id] = q]
    BY <2>1, <2>2, <1>3 DEF CancelProposal
  <2> QED BY <2>1, <2>3, <2>4, <1>1, RewrittenHasNoBallot
<1>4. ASSUME NEW a \in Accounts, NEW id \in Ids, Veto(a, id) PROVE NoBallot
  <2>1. PICK p \in Proposal : p = dao.proposals[id]
    BY <1>2
  <2>2. PICK q : q = [p EXCEPT !.vetoed = TRUE]
    OBVIOUS
  <2>3. q \in Proposal /\ SameBallots(p, q)
    BY <2>1, <2>2 DEF Proposal, SameBallots
  <2>4. dao' = [dao EXCEPT !.proposals[id] = q]
    BY <2>1, <2>2, <1>4 DEF Veto
  <2> QED BY <2>1, <2>3, <2>4, <1>1, RewrittenHasNoBallot
<1>5. ASSUME NEW a \in Accounts, NEW c \in Calls, AccountCalls(a, c) PROVE NoBallot
  <2>1. a \in Address
    BY DEF Address
  <2>2. dao' = DaoCall(dao, a, c) /\ c.fn \in DaoCalls /\ CanDaoCall(dao, a, c)
    BY <1>5 DEF AccountCalls
  <2> QED BY <2>1, <2>2, <1>1, DaoCallKeeps, SameProposals
<1>6. ASSUME NEW tx, tx.call \in Calls, CanMake(Run(timelock, tx), dao, tx.call),
             dao' = DaoAfter(dao, tx.call)
      PROVE  NoBallot
  <2>1. tx.call.fn \in DaoCalls => CanDaoCall(dao, Executor, tx.call)
    BY <1>6 DEF CanMake
  <2> QED BY <2>1, <1>1, <1>6, DaoAfterKeeps, SameProposals
<1>7. CASE UNCHANGED dao
  BY <1>7, SameProposals
<1>8. ASSUME NEW a \in Accounts, TimelockCall(a) PROVE NoBallot
  <2>1. ASSUME NEW tx \in DirectTxs, ExecuteTransaction(a, tx) PROVE NoBallot
    <3>1. tx.call \in Calls
      <4>1. tx \in Transaction
        BY NDAOLogicV1Assumption
      <4> QED BY <4>1 DEF Transaction
    <3> QED BY <3>1, <2>1, <1>6 DEF ExecuteTransaction
  <2> QED BY <2>1, <1>7, <1>8 DEF TimelockCall
<1>9. ASSUME NEW id \in Ids, QueueProposal(id) PROVE NoBallot
  <2>1. PICK p \in Proposal : p = dao.proposals[id]
    BY <1>2
  <2>2. PICK eta \in Nat : eta = timestamp + timelock.delay
    BY <1>1
  <2>3. PICK q : q = [p EXCEPT !.eta = eta]
    OBVIOUS
  <2>4. q \in Proposal /\ SameBallots(p, q)
    BY <2>1, <2>2, <2>3 DEF Proposal, SameBallots
  <2>5. dao' = [dao EXCEPT !.proposals[id] = q]
    BY <2>1, <2>2, <2>3, <1>9 DEF QueueProposal
  <2> QED BY <2>1, <2>4, <2>5, <1>1, RewrittenHasNoBallot
<1>10. ASSUME NEW id \in Ids, Execute(id) PROVE NoBallot
  <2>1. PICK p \in Proposal : p = dao.proposals[id]
    BY <1>2
  <2>2. PICK q : q = [p EXCEPT !.executed = TRUE]
    OBVIOUS
  <2>3. q \in Proposal /\ SameBallots(p, q)
    BY <2>1, <2>2 DEF Proposal, SameBallots
  <2>4. dao' = [dao EXCEPT !.proposals[id] = q]
    BY <2>1, <2>2, <1>10 DEF Execute
  <2> QED BY <2>1, <2>3, <2>4, <1>1, RewrittenHasNoBallot
<1>11. CASE ExecuteAction
  <2>1. /\ CanMake(Run(timelock, NextTx), dao, NextTx.call)
        /\ dao' = DaoAfter(dao, NextTx.call)
        /\ frames # <<>> /\ Top.next <= Len(dao.proposals[Top.id].actions)
    BY <1>11 DEF ExecuteAction, Running, ActionsLeft
  <2>2. Top.id \in Ids /\ Top.next \in Nat \ {0}
    <3>1. frames \in Seq(Frame) /\ Len(frames) \in 1 .. Len(frames)
      BY <2>1 DEF GovInv
    <3>2. Top \in Frame
      BY <3>1 DEF Top
    <3> QED BY <3>2 DEF Frame
  <2>3. dao.proposals[Top.id].actions \in Seq(Calls)
    BY <2>2, <1>2, ActionsType
  <2>4. Top.next \in DOMAIN dao.proposals[Top.id].actions
    BY <2>1, <2>2, <2>3
  <2>5. dao.proposals[Top.id].actions[Top.next] \in Calls
    BY <2>3, <2>4, SeqElement
  <2>6. NextTx.call \in Calls
    BY <2>5 DEF NextTx, Tx
  <2> QED BY <2>1, <2>6, <1>6
<1> QED BY <1>3, <1>4, <1>5, <1>7, <1>8, <1>9, <1>10, <1>11, SMTT(30)

\* Within a block, a frame saves the storage there is or was saved before.
LEMMA VotesInBlock ==
  ASSUME VotesInv, UNCHANGED <<pastVotes, block>>,
         TalliesSound(dao', pastVotes, block),
         \A k \in 1 .. Len(frames') :
           \/ frames'[k].saved.dao = dao
           \/ \E j \in 1 .. Len(frames) : frames'[k].saved.dao = frames[j].saved.dao
  PROVE  VotesInv'
<1>1. ASSUME NEW k \in 1 .. Len(frames')
      PROVE  TalliesSound(frames'[k].saved.dao, pastVotes, block)
  BY <1>1 DEF VotesInv
<1> QED BY <1>1 DEF VotesInv

LEMMA VotesExecute ==
  ASSUME GovInv, VotesInv, NEW id \in Ids, Execute(id)
  PROVE  VotesInv'
<1>1. TalliesSound(dao', pastVotes, block)
  BY OthersHaveNoBallot, NoBallotKeeps DEF VotesInv
<1>2. /\ frames \in Seq(Frame)
      /\ frames' = Append(frames, [id |-> id, next |-> 1, outside |-> FALSE,
                                   saved |-> Saved])
      /\ UNCHANGED <<pastVotes, block>>
  BY DEF GovInv, Execute
<1>3. PICK n \in Nat : n = Len(frames)
  BY <1>2
<1>4. /\ Len(frames') = n + 1 /\ \A k \in 1 .. n : frames'[k] = frames[k]
      /\ frames'[n + 1].saved.dao = dao
  BY <1>2, <1>3 DEF Saved
<1>5. \A k \in 1 .. n + 1 : k = n + 1 \/ k \in 1 .. n
  BY <1>3
<1> QED BY <1>1, <1>2, <1>3, <1>4, <1>5, VotesInBlock

\* ReturnFromCall and ExecuteAction.
LEMMA VotesTop ==
  ASSUME GovInv, VotesInv, frames # <<>>, UNCHANGED <<pastVotes, block>>,
         NEW f, f.saved = Top.saved, frames' = [frames EXCEPT ![Len(frames)] = f],
         TalliesSound(dao', pastVotes, block)
  PROVE  VotesInv'
<1>1. PICK n \in Nat : n = Len(frames)
  BY DEF GovInv
<1>2. Len(frames') = n /\ frames \in Seq(Frame) /\ DOMAIN frames = 1 .. n
  BY <1>1 DEF GovInv
<1>3. ASSUME NEW k \in 1 .. n PROVE frames'[k].saved.dao = frames[k].saved.dao
  <2>1. CASE k = n
    BY <2>1, <1>1, <1>2 DEF Top
  <2>2. CASE k # n
    BY <2>2, <1>1, <1>2
  <2> QED BY <2>1, <2>2
<1> QED BY <1>1, <1>2, <1>3, VotesInBlock

LEMMA VotesPopped ==
  ASSUME GovInv, VotesInv, frames # <<>>, UNCHANGED <<pastVotes, block>>,
         frames' = Front(frames), TalliesSound(dao', pastVotes, block)
  PROVE  VotesInv'
<1>1. /\ Len(frames) \in Nat \ {0} /\ Len(frames') = Len(frames) - 1
      /\ \A k \in 1 .. Len(frames) - 1 : frames'[k] = frames[k]
  BY FrontFacts
<1>2. \A k \in 1 .. Len(frames') : k \in 1 .. Len(frames) - 1 /\ k \in 1 .. Len(frames)
  BY <1>1
<1> QED BY <1>1, <1>2, VotesInBlock

LEMMA VotesBlock ==
  ASSUME GovInv, VotesInv, NextBlock
  PROVE  VotesInv'
<1>1. /\ block \in Nat /\ block - 1 <= MaxBlock
      /\ pastVotes \in [0 .. MaxBlock -> [Accounts -> Nat]]
      /\ DaoSound(dao, block)
  BY DEF GovInv, World, Current, StoresSound
<1>2. /\ frames' = <<>> /\ UNCHANGED dao /\ block' = block + 1
      /\ pastVotes' = [pastVotes EXCEPT ![block] = electorate.votes]
  BY DEF NextBlock
<1>3. ASSUME NEW id \in 1 .. dao.proposalCount
      PROVE  BallotsSound(dao.proposals[id], pastVotes', block')
  <2>1. id \in Ids
    BY <1>1, IdsType DEF DaoSound, DaoStorage
  <2>2. dao.proposals[id] \in Proposal
    BY <2>1, <1>1 DEF DaoSound, DaoStorage
  <2>3. BallotsSound(dao.proposals[id], pastVotes, block)
    BY DEF VotesInv, TalliesSound
  <2> QED BY <2>2, <2>3, <1>1, <1>2, BallotsLater
<1>4. TalliesSound(dao', pastVotes', block')
  <2>1. dao' = dao
    BY <1>2
  <2> QED BY <2>1, <1>3 DEF TalliesSound
<1>5. \A k \in 1 .. Len(frames') : FALSE
  <2>1. Len(frames') = 0
    BY <1>2
  <2> QED BY <2>1
<1> QED BY <1>4, <1>5 DEF VotesInv

LEMMA VotesInit == Init => VotesInv
<1> SUFFICES ASSUME Init PROVE VotesInv
  OBVIOUS
<1>1. Len(frames) = 0 /\ dao.proposalCount = 0
  BY DEF Init
<1> QED BY <1>1 DEF VotesInv, TalliesSound

LEMMA VotesNext == GovInv /\ VotesInv /\ [Next]_vars => VotesInv'
<1> SUFFICES ASSUME GovInv, VotesInv, [Next]_vars PROVE VotesInv'
  OBVIOUS
<1>0. World /\ Current /\ TalliesSound(dao, pastVotes, block)
  BY DEF GovInv, VotesInv
<1>1. ASSUME UNCHANGED <<pastVotes, block, frames>>, TalliesSound(dao', pastVotes, block)
      PROVE  VotesInv'
  BY <1>1, VotesInBlock
<1>2. ASSUME NEW a \in Accounts, NEW actions \in ActionLists, Propose(a, actions)
      PROVE  VotesInv'
  <2>1. UNCHANGED <<pastVotes, block, frames>>
    BY <1>2 DEF Propose
  <2> QED BY <2>1, <1>0, <1>1, <1>2, ProposeTallies
<1>3. ASSUME NEW id \in Ids, NEW b \in Ballots, CastVote(b[1], id, b[2])
      PROVE  VotesInv'
  <2>1. UNCHANGED <<pastVotes, block, frames>>
    BY <1>3 DEF CastVote
  <2>2. b[1] \in Accounts /\ b[2] \in 0 .. 2
    BY NDAOLogicV1Assumption
  <2>3. TalliesSound(dao', pastVotes, block)
    BY <2>2, <1>0, <1>3, CastVoteTallies
  <2> QED BY <2>1, <2>3, <1>1
<1>4. ASSUME NEW a \in Accounts,
             \/ \E id \in Ids : CancelProposal(a, id) \/ Veto(a, id)
             \/ \E c \in Calls : AccountCalls(a, c)
             \/ TimelockCall(a)
      PROVE  VotesInv'
  <2>1. UNCHANGED <<pastVotes, block, frames>>
    BY <1>4 DEF CancelProposal, Veto, AccountCalls, TimelockCall
  <2>2. NoBallot
    BY <1>4, OthersHaveNoBallot
  <2> QED BY <2>1, <2>2, <1>0, <1>1, NoBallotKeeps
<1>5. ASSUME NEW id \in Ids, QueueProposal(id)
      PROVE  VotesInv'
  <2>1. UNCHANGED <<pastVotes, block, frames>>
    BY <1>5 DEF QueueProposal
  <2>2. NoBallot
    BY <1>5, OthersHaveNoBallot
  <2> QED BY <2>1, <2>2, <1>0, <1>1, NoBallotKeeps
<1>6. CASE ExecuteAction
  <2>1. /\ frames # <<>> /\ UNCHANGED <<pastVotes, block>>
        /\ frames \in Seq(Frame) /\ Len(frames) \in 1 .. Len(frames)
    BY <1>6 DEF ExecuteAction, Running, GovInv
  <2>2. Top \in Frame
    BY <2>1 DEF Top
  <2>3. PICK o : o = (NextTx.call.fn \notin SelfCalls \cup DaoCalls)
    OBVIOUS
  <2>4. PICK f : f = [Top EXCEPT !.next = @ + 1, !.outside = o]
    OBVIOUS
  <2>5. frames' = [frames EXCEPT ![Len(frames)] = f]
    BY <2>1, <2>3, <2>4, <1>6 DEF ExecuteAction, Top
  <2> HIDE DEF Top
  <2>6. f.saved = Top.saved
    BY <2>2, <2>4 DEF Frame
  <2>7. NoBallot
    BY <1>6, OthersHaveNoBallot
  <2> QED BY <2>1, <2>5, <2>6, <2>7, <1>0, NoBallotKeeps, VotesTop
<1>7. CASE ReturnFromCall
  <2>1. /\ frames # <<>> /\ UNCHANGED <<pastVotes, block, dao>>
        /\ frames \in Seq(Frame) /\ Len(frames) \in 1 .. Len(frames)
    BY <1>7 DEF ReturnFromCall, GovInv
  <2>2. Top \in Frame
    BY <2>1 DEF Top
  <2>3. PICK f : f = [Top EXCEPT !.outside = FALSE]
    OBVIOUS
  <2>4. frames' = [frames EXCEPT ![Len(frames)] = f]
    BY <2>1, <2>3, <1>7 DEF ReturnFromCall, Top
  <2> HIDE DEF Top
  <2>5. f.saved = Top.saved
    BY <2>2, <2>3 DEF Frame
  <2> QED BY <2>1, <2>4, <2>5, <1>0, VotesTop
<1>8. CASE RevertExecution
  <2>1. /\ frames # <<>> /\ UNCHANGED <<pastVotes, block>>
        /\ frames' = Front(frames) /\ dao' = frames[Len(frames)].saved.dao
    BY <1>8 DEF RevertExecution, Top
  <2>2. Len(frames) \in 1 .. Len(frames)
    BY <2>1 DEF GovInv
  <2>3. TalliesSound(dao', pastVotes, block)
    BY <2>1, <2>2 DEF VotesInv
  <2> QED BY <2>1, <2>3, VotesPopped
<1>9. CASE FinishExecution
  <2>1. /\ frames # <<>> /\ UNCHANGED <<pastVotes, block, dao>>
        /\ frames' = Front(frames)
    BY <1>9 DEF FinishExecution, Running
  <2> QED BY <2>1, <1>0, VotesPopped
<1>10. CASE ElectorateChanges \/ UNCHANGED vars
  <2>1. UNCHANGED <<pastVotes, block, frames, dao>>
    BY <1>10 DEF ElectorateChanges, vars
  <2> QED BY <2>1, <1>0, <1>1
<1> QED BY <1>2, <1>3, <1>4, <1>5, <1>6, <1>7, <1>8, <1>9, <1>10,
           VotesExecute, VotesBlock DEF Next

\* Every tally of a proposal, if its ballots were cast under the voting delay
\* that it was created with, is the sum of what its voters had when the block
\* of propose() ended: neither transfers, delegations and mints after it, nor
\* failing executions that call castVote, nor votes that change the delay
\* before or between the ballots and take it back, change what a ballot
\* weighs.
THEOREM BallotsWeighAsAtCreation == Spec => []VotesCountFromCreation
<1>1. VotesInv => VotesCountFromCreation
  <2> SUFFICES ASSUME VotesInv, NEW id \in 1 .. dao.proposalCount,
                      NEW support \in 0 .. 2, ~DelayMoved(dao.proposals[id])
               PROVE  dao.proposals[id][Tally(support)] = Recount(dao.proposals[id], support)
    BY SMTT(30) DEF VotesCountFromCreation
  <2>1. dao.proposals[id][Tally(support)] =
          Total(pastVotes[dao.proposals[id].createdAt], Supporters(dao.proposals[id], support))
    BY DEF VotesInv, TalliesSound, BallotsSound
  <2>2. Recount(dao.proposals[id], support) =
          Total(pastVotes[dao.proposals[id].createdAt], Supporters(dao.proposals[id], support))
    BY DEF Recount, Total, Supporters
  <2> QED BY <2>1, <2>2
<1>2. Spec => []VotesInv
  BY VotesInit, VotesNext, GovHolds, PTL DEF Spec
<1> QED BY <1>1, <1>2, PTL
=============================================================================
