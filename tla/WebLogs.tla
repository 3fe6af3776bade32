------------------------------ MODULE WebLogs -------------------------------
(***************************************************************************)
(* The list of proposals in the web app when the subgraph does not answer: *)
(* the logs slice (state/slices/logs.ts), its updater                      *)
(* (state/updaters/logs.ts), useLogs and useAllProposalsViaChain.  One     *)
(* filter, ProposalCreated, is listened to by one page.                    *)
(***************************************************************************)
EXTENDS Integers, Sequences, FiniteSets, SequencesExt

CONSTANTS
  MaxBlocksPerCall,  \* MAX_BLOCKS_PER_CALL, 1 000 000
  LastBlock          \* bound on the chain

ASSUME WebLogsAssumption ==
  MaxBlocksPerCall \in Nat \ {0} /\ LastBlock \in Nat

VARIABLES
  created,       \* created[i] is the block of the event of proposal i
  head,          \* number of the last block
  known,         \* useBlockNumber; 0 is undefined
  slice,         \* state.logs[key]
  calls          \* getLogs calls on their way, by the block they were made at

logsVars == <<created, head, known, slice, calls>>

NoResults == [block |-> -1, error |-> FALSE, logs |-> <<>>]
NoSlice == [listeners |-> 0, fetching |-> -1, results |-> NoResults]

-----------------------------------------------------------------------------
(* slices/logs.ts                                                          *)

AddListener(s) == [s EXCEPT !.listeners = @ + 1]
RemoveListener(s) == [s EXCEPT !.listeners = @ - 1]
FetchingLogs(s, b) == [s EXCEPT !.fetching = b]

\* fetchedLogs and fetchedLogsError.
Fetched(s, results) ==
  IF s.results.block > results.block THEN s
  ELSE [s EXCEPT !.results = results]

-----------------------------------------------------------------------------
(* updaters/logs.ts                                                        *)

\* The number of proposals created up to block b.
CountUpTo(b) == Cardinality({i \in DOMAIN created : created[i] <= b})

\* The ids of the proposals in blocks from .. to, in order, which is that of
\* their creation.
LogsBetween(from, to) ==
  [k \in 1 .. CountUpTo(to) - CountUpTo(from - 1) |-> CountUpTo(from - 1) + k]

Smaller(a, b) == IF a < b THEN a ELSE b

\* Variant: the next range starts one block too far.
RangesApart(last) ==
  [i \in 1 .. last \div (MaxBlocksPerCall + 2) + 1 |->
     LET from == (i - 1) * (MaxBlocksPerCall + 2) IN
     <<from, Smaller(from + MaxBlocksPerCall, last)>>]

\* The last block of a range is the first one of the next.  The filter made
\* from the slice's key has no fromBlock: the first range starts at 0.
Ranges(last) ==
  [i \in 1 .. last \div MaxBlocksPerCall + 1 |->
     LET from == (i - 1) * MaxBlocksPerCall IN
     <<from, Smaller(from + MaxBlocksPerCall, last)>>]

GetLogs(last) ==
  FlattenSeq([i \in DOMAIN Ranges(last) |->
                LogsBetween(Ranges(last)[i][1], Ranges(last)[i][2])])

\* Variant: logs that are there are not fetched again.
NeedsFetchOnce ==
  /\ known # 0
  /\ slice.listeners > 0
  /\ slice.fetching = -1

NeedsFetch ==
  /\ known # 0
  /\ slice.listeners > 0
  /\ slice.fetching < known
  /\ slice.results.block < known

Fetch ==
  /\ NeedsFetch
  /\ slice' = FetchingLogs(slice, known)
  /\ calls' = calls \cup {known}
  /\ UNCHANGED <<created, head, known>>

\* Promise.all is done, or one of the calls failed.
Answer(b) ==
  /\ b \in calls
  /\ calls' = calls \ {b}
  /\ \/ slice' = Fetched(slice, [block |-> b, error |-> FALSE,
                                 logs |-> GetLogs(b)])
     \/ slice' = Fetched(slice, [block |-> b, error |-> TRUE,
                                 logs |-> <<>>])
  /\ UNCHANGED <<created, head, known>>

-----------------------------------------------------------------------------
(* The page with the list, and the chain.                                  *)

UseLogs ==
  IF known = 0 \/ slice.listeners = 0 THEN "INVALID"
  ELSE IF slice.results = NoResults THEN "LOADING"
  ELSE IF slice.results.error THEN "ERROR"
  ELSE IF slice.results.block >= known THEN "SYNCED" ELSE "SYNCING"

\* useAllProposalsViaChain: the proposals that the DAO has at the block the
\* app knows, each with the description of the log at the same index.
Listed == {i \in DOMAIN created : created[i] <= known}

Loading == UseLogs \notin {"SYNCED", "SYNCING"} \/ slice.results.logs = <<>>

Described(i) ==
  IF Loading THEN {}
  ELSE {slice.results.logs[j] : j \in DOMAIN slice.results.logs \cap {i}}

Mine(events) ==
  /\ head < LastBlock
  /\ head' = head + 1
  /\ created' = created \o [i \in 1 .. events |-> head + 1]
  /\ UNCHANGED <<known, slice, calls>>

NoticeBlock ==
  /\ known < head
  /\ known' = head
  /\ UNCHANGED <<created, head, slice, calls>>

Mount ==
  /\ slice.listeners = 0
  /\ slice' = AddListener(slice)
  /\ UNCHANGED <<created, head, known, calls>>

Unmount ==
  /\ slice.listeners = 1
  /\ slice' = RemoveListener(slice)
  /\ UNCHANGED <<created, head, known, calls>>

LogsInit ==
  /\ created = <<>> /\ head = 1 /\ known = 0
  /\ slice = NoSlice
  /\ calls = {}

LogsNext ==
  \/ \E events \in 0 .. 1 : Mine(events)
  \/ NoticeBlock
  \/ Mount
  \/ Unmount
  \/ Fetch
  \/ \E b \in calls : Answer(b)

\* Blocks are noticed, effects run and calls are answered.
LogsProgress ==
  \/ NoticeBlock
  \/ Fetch
  \/ \E b \in calls : Answer(b)

-----------------------------------------------------------------------------
(* Properties                                                              *)

LogsTypeOK ==
  /\ slice.listeners \in {0, 1}
  /\ slice.fetching \in -1 .. head
  /\ slice.results.block \in -1 .. slice.fetching
  /\ calls \subseteq 1 .. head
  /\ UseLogs = "SYNCED" => slice.results.block = known

\* Every proposal of the list that has a description has its own, although
\* proposals and logs are fetched at different blocks and paired by index,
\* unless a proposal was created in a block that two ranges have in common.
DescriptionsAligned ==
  (\A i \in DOMAIN created : created[i] % MaxBlocksPerCall # 0)
  => \A i \in Listed : Described(i) \subseteq {i}

\* When the app says it is synced no log is missing.
SyncedIsComplete ==
  UseLogs = "SYNCED" =>
    Listed \subseteq ToSet(slice.results.logs)

\* The logs in the store are complete and each is shown with its proposal.
LogsComplete == LogsTypeOK /\ DescriptionsAligned /\ SyncedIsComplete

\* A page that stays ends up with the logs of the last block, or with the
\* error of having fetched them.
LogsSync ==
  <>[](slice.listeners = 1) =>
    <>[](known = head => UseLogs \in {"SYNCED", "ERROR"})
=============================================================================
