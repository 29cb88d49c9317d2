# ore-cluster in TLA+

ore-cluster mines ORE with many machines. One process, **ore-guide**, holds the
miner's keys, follows the miner's *proof* account on Solana, hands every
connected machine a slice of the nonce space for the current challenge, keeps
the best answer and submits it as a transaction. On every machine an
**ore-worker** process mines what it is handed and writes its best hash back.

This directory models the parts of the system that carry its logic, checks
them with TLC on small instances, and proves the most important properties
with TLAPS for every value of the constants.

    tlc -workers 2 -config faults.cfg MCCluster       # a run of PROJECT.json
    tlapm ClusterProofs.tla                           # a proof module

`PROJECT.json` lists components, runs, mutants, findings, hazards and theorems,
and maps every definition to the lines it stands for. Line numbers below are
those of `src/ore-guide/src/main.rs` unless a file is named.

## 1. Inventory

| component | source | state | operations | module |
|---|---|---|---|---|
| main loop, dispatch | main.rs 215-390 | `last_hash_at`, one `Notify`, `SharedState` | `select!` over accept and notified; arms Start (fetch, dispatch or resend), Send (submit), Wait | `GuideServer` |
| client tasks | main.rs 392-479 | `SharedState`: `clients`, `total_cores`, `action_type`, `mining_clients`, `best_difficulty`, `solution`, each behind its own `std::sync::RwLock` | register, receive, decide to submit, leave, return to Wait | `GuideServer` |
| proof fetch, cutoff | mine.rs 22-80, 148-156; utils.rs 53-88 | `Miner.last_hash_at` | retried query for a newer proof, clock query | `GuideServer` (partly) |
| submission | mine.rs 82-140; send_and_confirm*.rs | `LandStatus`, `Miner.last_hash_at`, `tip` | choose jito, RPC or dynamic-fee RPC; sign, send, poll, retry, fall back | `SendAndConfirm`, promise in `Submission` |
| config listener | listener.rs 60-175; utils.rs 23-35 | `last_reset_at` | pull loop or websocket subscription; read by `submit` to pack a reset | `EpochReset` |
| jito tip listener | listener.rs 177-196 | `tip` | store each tip of a stream | `SendAndConfirm` (partly) |
| dynamic fee | dynamic_fee.rs; send_and_confirm_rpc.rs 35-75 | none | five strategies: estimate from RPC answers, cap | `DynamicFee` |
| boost data | listener.rs 198-255 | constant after start | read once | not modelled |
| CLI, configuration, logs | main.rs, args.rs, config.rs | none | parse | CONSTANTS |
| worker loop | ore-worker/src/main.rs 52-152 | stream, `retry_count` | connect, announce cores, read, mine, answer | `OreWorker` |
| nonce search | ore-worker/src/main.rs 154-243 | per thread: nonce, timer, best | one thread per core, join | `NonceSearch` |

**How they interact.** Workers and guide share TCP connections: a `CORES:n`
line, 56-byte orders (challenge, cutoff time, offset, total cores), 24-byte
answers (digest, nonce). Inside the guide the tasks and main share
`SharedState` and a `tokio::sync::Notify`. Tasks run on the runtime's worker
threads, main in `block_on`. Main alone talks to the RPC nodes.

**What is hard.**

- Six cells, six locks, no transaction over two of them: registration,
  the comparison and storing of a best solution, and the test and store of
  `action_type` are each spread over several critical sections.
- Lock guards held long: main keeps `clients` over the writes of a dispatch;
  the last client's task keeps `clients` while it sleeps in a loop.
- `notify_one` stores one permit, so wake-ups merge.
- Clients join and leave at any moment; a worker that times out comes back as
  another client while its old task still lives.
- The RPC side may fail, be late, answer from a node that is behind the chain, or
  land a transaction after the guide has given it up; jito and RPC may both have
  one in flight.
- The chain's epoch ends at a second that the guide knows from a copy, of any
  age, by another clock.
- The nonce space is a `u64` that saturates and wraps, and the timer is looked
  at only at every 128th nonce.

**What makes each part correct.**

- *Tasks and main*: `total_cores` is exact; slices are disjoint while proofs
  are read from nodes that are up to date; a decided Send is served; an answer that is in is not left lying; Wait means nobody is there;
  without drop-outs every epoch submits one of the answers to it, after the last
  of them, the best unless two are being stored at once; and no registered client is
  left out for ever if every answer is difficult enough.
- *Submission*: the result says what happened on the chain; the local
  `last_hash_at` is reset when a call fails with a transaction signed on the
  route it is on (a call that has turned from jito to RPC and gets no blockhash
  there keeps it, although its jito transaction may have landed); each
  submission is counted once; each call returns.
- *Reset*: a submission is not refused for want of a reset instruction that
  the copy and the buffer should have called for, as far as the clocks agree;
  the copy follows the chain; an epoch that has ended is reset.
- *Dynamic fee*: each estimate is the statistic that its comment names, of the
  slots that it names.
- *Nonce search*: shares do not overlap before they must; the best hash wins
  and keeps its nonce; the time is overrun by one stride at most.

## 2. Modules

    Network            TCP connections          MiningEpochs   abstract: epochs
      GuideServer      main loop and tasks      Submission     abstract: one submission
      OreWorker        worker processes
        Cluster        the two composed, fairness, properties
          MCCluster        instances for TLC
            MCCalm         with a history of the answers of an epoch
          ClusterProofs    theorems about the guide's books
            DispatchProofs theorems about the slices and answers of all clients
              CalmProofs   theorems about a cluster that nobody leaves, which
                           implements MiningEpochs, on any number of threads
    NonceSearch        find_hash_par            -> MCNonceSearch, NonceSearchProofs
    SendAndConfirm     Miner::submit and routes -> SendAndConfirmProofs
    DynamicFee         the dynamic-fee estimate -> DynamicFeeProofs
    EpochReset         last_reset_at            -> MCEpochReset, EpochResetProofs
    Sums               lemmas: sums over finite sets, counting, division, for
                       SendAndConfirmProofs and DynamicFeeProofs

**Network.** A connection is named by the client's address. Data arrives in
order; a worker that closes may lose what it wrote last (reset) or not (FIN);
an address is reused after both ends forgot it. Challenges are numbers, the
`last_hash_at` of their proof.

**GuideServer.** `mpc` is main's place, `hpc[a]` that of the task of `a`. One
action is one critical section or one await. A lock that is held over several
actions is a predicate over who is inside: `ClientsLocked` (dispatch, and the
last client's return to Wait), `MiningLocked` (Finish to Wake), and `~Dispatching` for
`total_cores`, of which main holds a read guard. `permit` is the `Notify`.
A task between two awaits occupies a thread, `FreeThread`, also while it is
blocked in a lock or sleeps in `thread::sleep`. `panic = 'abort'` in the
release profile makes a panic the end of the process (`mpc = "crashed"`):
`UnwrapPanic`, `ClockPanic`. The result of a submission is one of
`SubmitConfirmed`, `SubmitRejected`, `SubmitGivesUp(sent)`: the three ways out
of `Submission`, with `TxLands` for its `Land`, also after the call;
`SubmitGivesUp(FALSE)` is its `FailUnsigned` or its `FailTurned`. `FetchProof(seen)`
takes what the node has, with `LaggingNodes` any proof there ever was: a newer one
than `Miner.last_hash_at`, or, from the fourth read on and after a reset of that
cell, any, also one older than main's own `last_hash_at`.

**OreWorker.** The outer loop of the worker. `MineAndSend` is
`find_hash_par` from outside: any difficulty out of a set. A `Drop` is a read
time-out or a killed and restarted process. A total of 0 in an order ends the
process (`DividePanic`); such an order exists, when a dispatch meets a client
that is inserted but not yet counted and the counted ones have left.

**NonceSearch.** All machines with an order for one challenge. The space is
`0..NonceSpace-1` (2^64 in the code), `nonce_unit`, the saturating start and
the wrapping increment as in the code; `x & CHECK_POINT` is a remainder,
`CHECK_POINT` being one less than a power of two. `Score` is the best
difficulty of a nonce's hashes. `tried` and `late` are history variables.

**SendAndConfirm.** The four `send_and_confirm*` functions with one program
counter, since their loops differ only in what the actions show: the
fee, the node, the endpoint swap of the RPC route, and jito's own
limit and fallback. `fee_multiple`, an `f32`, is kept in thousandths.
`Execute` is the chain: one of two transactions with the same solution can
succeed. `fallbacks`, `unsigned`, `landings` are history variables.
A `PollErr` may happen although the solution landed over the other route:
that is how the code behaves, and `Submission` allows its `Fail` at any time.
`changes`, a history variable too, tells `FailUnsigned`, after which nothing of
the call can land, from `FailTurned`, after which the jito transaction may
(send_and_confirm_jito.rs:185-191, then send_and_confirm.rs:107).

**EpochReset.** One listener, polling or subscribed (`websocket`), `submit`'s
read of the copy and its decision, and the chain. A poll is three steps (query,
store, sleep): a reset may come between any two, and the node that is asked may
have the account as it was up to `NodeLag` seconds ago (`Recent`). A subscription reports the
values that the chain has had, in order and with gaps; a connection after a
break may be to a node that lags (`node`). `Monus` is the saturating
subtraction. `flying` are transactions whose decision was made at `decided`;
they land at any later time or expire. `resets` is a history variable.

**DynamicFee.** One request. The answer is a sequence of slots and fees: of
every length up to `MaxSamples`, in order, and for the strategies that do not
rely on it reversed and rotated. The Alchemy estimate is in floats (`Float`): a
number is rounded to `Unit` steps of its binade, to the even one of two that are as
near, after the sum, the division and the product; `Unit` is 2^24 for `f32`.
A real is kept in parts of a `Unit`, so below 1/2 the model's floats are coarser
than `f32`; what is computed there is only rounded up to the next whole
number. Sorting is by `Place`: where an entry comes is
how many entries are smaller, or equal and not behind it. Percentiles are kept in integers: `Rank` is
`round()` with its halves away from 0, then `saturating_sub(1)`. An empty
answer has three fates: an error and `--priority-fee` (LOCAL), a fee of 0
(Alchemy, NaN as `u64`), and a panic (Triton, `EmptyPanic`).

**MiningEpochs** and **Submission** are what the guide promises its clients and
what `Miner::submit` promises its caller, without locks, tasks and RPC. In
`MiningEpochs` a challenge that has passed may be handed out if nodes lag
(`Stale`), an answer may be lost to another that is taken in at the same time if
there are several threads (`Parallel`), and the guide does not go on from a
challenge to which nobody has an answer.

## 3. Runs

| run | instance | checks | shows |
|---|---|---|---|
| `faults` | 2 workers (1 and 2 cores), 2 addresses, 2 challenges, 2 threads, one drop, early answers, RPC faults | `TypeOK TotalCoresExact NoLostWakeup WaitOnlyWhenEmpty WorkDisjoint SharesTile NoIdleAnswer` | the guide's books under faults; 1.8 M states |
| `calm` | the same workers, 3 challenges, 2 threads, any old proof, every answer difficult enough, no drops, fair | `SendAfterAllAnswers SubmitsCurrent SubmitsBest ImplementsEpochs ClientServed` | the protocol when nobody leaves; 77 k states |
| `resend_panic` | 1 worker, one drop | `ResendHasSolution` (violated) | finding 1 |
| `send_to_wait` | same | `NoSendToWait` (violated) | finding 2 |
| `stuck_drain` | same, fair | `TurnsIntoWaiting` (violated) | finding 3 |
| `ghost_miner` | 1 worker, one drop | `MinersConnected` (violated) | finding 4 |
| `nonces` | 8 nonces, stride 2, total 2, machines of 1 and 2 cores | `TypeOK NoDoubleWork AnswersBest OverrunBounded AllReturn` | 280 k states |
| `min_difficulty` | 1 thread | `MinedUntilMin` (violated) | finding 5 |
| `submit` | 3 submissions, ring of 2, one retry each | `TypeOK Accounted PaceIsRecent ImplementsSubmission SubmitReturns RetriesRunOut` | 0.8 M states |
| `fee_cap` | 1 submission | `CappedByPriorityFee` (violated) | finding 6 |
| `epoch` | epochs of 5 s, buffer 2 s, clocks 1 s behind and 2 s ahead, nodes 1 s behind, 15 s, fair | `TypeOK BufferSuffices PollFollows EpochRenewed` | 1.3 M states |
| `fees` | up to 7 slots of 3 fees, chunks of 3, 2 of them, window of 3, floats of 7 bits | `TypeOK LocalIsPercentile AveragesLastSlots CoversMean` | 69 k states |

**Bounds.** `MaxHashAt` bounds the challenges: 2 give an epoch that follows
another, 3 a third one with a client that joined in the second. `MaxDrops`
bounds drop-outs: one is enough for a client to leave in every state of the
guide and, while the other worker has not yet connected, to come back under
the other address beside its old task. Two workers are the least
number with another client to wait for, and differ in cores so that a wrong
sum shows. In `nonces` the second machine joined while the first was already
counted, so its second thread is beyond the total; the space is small enough
for every thread to leave its share, wrap, and meet the others. In `submit`
the ring wraps (3 landings, 2 slots), every limit of retries is reached, and
`Seconds` has a landing in each branch of the fee and one within the second.
`MaxSubmissions` bounds only the calls. In `faults`
an answer may have difficulty 0, which the guide does not count as one. In
`epoch` the `Horizon` leaves two whole epochs and the beginning of the third: a
copy can be current, one epoch old, and older; the buffer is shorter than the
epoch, the retry delay shorter than both, as in the code. In `fees` chunk and
window are scaled down so that answers are shorter than a chunk, exactly one,
two, and cut off after two, and shorter and longer than the window; real nodes
return 150 slots, one chunk. Floats of 7 bits (`Unit` 128) round sums of 7 fees up and
down, to even and across a power of two, as 24 bits do with sums of real fees.
Addresses are symmetric in `faults`, where no temporal property is checked. Every component stops when its bound
is reached (or its process is dead), hence `CHECK_DEADLOCK FALSE`.

**Fairness** (`FairSpec`). Tokio runs every ready task and main's code in
finite time (weak fairness of `MainRuns` and `TaskStep`). What main awaits, RPC
answers and connections, is driven by an idle runtime thread: fair only while
`FreeThread`. `select!` picks at random among ready branches, so a connection
that waits is accepted in the end (strong fairness of `Accept`); the sleep of
the drain loop ends at times that no other loop is tied to (strong fairness of
`DrainExit`). A valid solution that is submitted again and again lands
at last (`TxLands`, strong), and a proof that is read again and again is at last the
chain's current one (`FetchProof(chain)`, strong); without these the chain, or what
the guide sees of it, could stop and nothing could be promised. Workers are
healthy processes. In `NonceSearch` the operating system schedules every thread and clocks advance; in `SendAndConfirm` every query of
the RPC client is answered or times out (`WF(Proceeds)`); the chain and the tip
stream owe nothing. In `EpochReset` the guide, having workers, goes on submitting,
every transaction lands or expires, and not all of those that carry a reset
expire; the listener owes nothing: `EpochRenewed` holds with a copy that is never
right, because 0 and an old value are due at once.

**Assumptions of `EpochReset`.** The two clocks run at the same pace, `Skews`
apart: when the chain's is ahead, that much of the buffer is gone, and with a
guide whose clock is further behind than the buffer a transaction may be
refused at once (`BufferSuffices` says so: `Buffer - skew`). A query is answered, and
the task scheduled, within `Latency`; the node that answers it is at most `NodeLag`
behind the chain. A subscribed node may be behind by any time. The chain
refuses a solution from the end of an epoch to the next reset. Nothing is
assumed of how soon anybody resets.

**What needs the calm.** `SendAfterAllAnswers`, `SubmitsCurrent` and
`ImplementsEpochs` do not hold when a worker drops out, nor with a cutoff time of
0, where an answer can overtake the dispatch loop. `calm` says what the design
gives without them.

**What needs one thread, a fresh node, or good answers.** On several threads two
tasks may interleave between comparing `best_difficulty` and storing `solution`
(441-443), and the worse answer may stay: `MiningEpochs` allows it if `Parallel`, as
in `calm`. There `SubmitsBest` says that this is the only way to lose the best: `MCCalm`
keeps, as history, the best answer since the hand-out (`top`), and forgets it
when two were being stored at once (`raced`). On one thread, where that cannot
happen, the best answer is a part of what `EpochsImplemented` proves.
`WorkDisjoint` does not hold with `LaggingNodes`: when an old challenge is handed out a second time, to other
clients or in another order, a worker may still be at its slice of the first
cut; so `faults` has nodes that are up to date, and `calm` has those that lag.
`ClientServed` holds in `calm` because every difficulty there reaches
`MinDifficulty`. An answer of difficulty 0 starts no submission, and one that is below
the minimum is submitted, rejected and resent for ever, since nobody mines
the same challenge again: in either case the clients that joined meanwhile wait.

## 4. Findings

1. `resend_panic`: a resend stores Send without a look at `solution` (341-344),
   and 386 unwraps it. A first client that leaves before it answers, and a
   client that starts the mining again for the same proof, end the guide.
2. `send_to_wait`: "Cannot change mode to Wait from Send" (473): test and store
   are two critical sections; the resend's Send is overwritten.
3. `stuck_drain`: "Turn into waiting if no clients" (470): the last client's
   task waits for Send to end with `clients` locked. When its Send is stored
   after main has already taken up a Start, main finds a new proof and blocks on
   `clients` (364): neither moves again.
4. `ghost_miner`: "Update current mining number" (452). The dispatch loop marks
   an address as mining after it has written the order (376-381), with no look
   at the client. When the client has left in between, its task has made its
   removal (454) already: the mark stays, `mining_clients` is never empty again,
   and no epoch ends while the guide runs, whoever joins. `NoIdleAnswer`, which
   holds under all faults, says that this mark and an epoch without any answer
   are the only ways in which answers fail to become a submission.
5. `min_difficulty`: "Mine until min difficulty has been met"
   (ore-worker/src/main.rs:202); the break below it is unconditional.
6. `fee_cap`: the help of `--priority-fee` (177) calls it the cap of dynamic
   fees; `MAX_RPC_PRIORITY_FEE` is (send_and_confirm_rpc.rs:66).

## 5. Proofs

All theorems hold for any constants that satisfy the named assumptions
(`NetworkAssumption`, `GuideAssumption`, `WorkerAssumption`, `EarlyAssumption`,
`SearchAssumption`, `SubmitAssumption`, `FeeAssumption`, `FloatAssumption`,
`EpochAssumption`), which
TLC evaluates in the runs. Every safety property of a passing run but
`SubmitsBest` is a theorem here.

**ClusterProofs**: `TypeCorrect`, `TotalCoresCorrect`, `WakeupsKept`,
`WaitIsEmpty`. `TypeOK` alone is not inductive: `total_cores - cores` stays a
natural number only because `total_cores` is the sum, the sum is exact only
because a task counts exactly the client it has inserted and removes the one
it has counted, and a work order has a proper challenge only because main
holds a fetched proof. Hence `IInv == TypeOK /\ MainInv /\ WorkerInv /\
TaskInv /\ CoreInv`. The sum is the cardinality of a set of core slots, so that
no induction is needed: adding or removing a client adds or removes a disjoint
finite set (`CoreSlotsAdd`). `NoLostWakeup` is then inductive by itself.
`WaitOnlyWhenEmpty` rests on `DrainInv`: while a task turns the guide to Wait
the map is empty, which the lock of `clients` protects; a newcomer is counted
only after it was inserted, and its test for the first mining comes with the
count.

**DispatchProofs**: `WorkDisjointCorrect`, `SharesTileCorrect`,
`NoIdleAnswerCorrect`, on top of `IInv`. `ConnInv` says whose connection is whose
(`SockInv`: two workers never have the same address; `LinkInv`, `SlotInv`: an
address that is free has no task, no entry and nothing under way), so that the
orders of a worker are those written to its own client with its own core count.
`LoopInv`: no proof is ahead of the chain, the one that is being dispatched is not
the last one, and the loop serves clients of the map. For `WorkDisjoint` nodes are
assumed to be up to date (`~LaggingNodes`); then main's challenges only grow
(`FreshInv`). `SliceInv` ties the
orders to the loop: no order is newer than the challenge being handed out, and one
for it ends at or below `offset`, or is the one just written there. So a new slice
is disjoint from every order in the system (`ShareInv`); elsewhere orders only
become fewer (`FewerOrders`). `SharesTile` is inductive given these: no task
changes the map, the total or the cores while the loop holds its guards
(`DispatchFreezes`), and a client moves from the sum still to come to the offset
(`CoreSlotsUnion`).

`NoIdleAnswer` is proved under all faults (`IdleInv`). The core, `RestInv`, says
that whoever makes the guide rest in Start, the task of the last answer or a
dispatch loop that is done, has no answer to rest with. A loop that served
anybody has marked a client as mining. The hard case is a loop that finds the map
empty: then Start must come with a `best_difficulty` of 0 (`EmptyInv`). It does,
because an answer is stored only for a client of the map (`LeftInv`), and the last
one to leave turns the guide to Wait unless a submission is under way; when
main ends that one, it has set `best_difficulty` to 0 a step before Start
(`ResetInv`), and when a task has turned the mode to Wait under it, nothing was
outstanding that could have raised it since (`ArmInv`). `LockInv` is the lock
of `clients`: one task at a time turns the guide to Wait, and never during a
dispatch.

**CalmProofs**: `SendAfterAllAnswersCorrect`, `SubmitsCurrentCorrect`, assuming
`MaxDrops = 0` and `~EarlyAnswers`, for any number of workers and task threads,
with answers that do not count, lost submissions and a guide that dies. The
argument is that of a token (`CalmInv`). Either somebody has the turn (a stored
permit, main outside of its select and its dispatch, the task that saw the last
answer), and then nothing is under way between any client, worker and task
(`Quiet`); or nobody has, and then each client has at most one piece of work,
is marked as mining for it, and during a dispatch has not answered (`WorkInv`).
`TurnInv` says that the turn is one, `BestInv` that `best_difficulty` and
`solution` belong to the current proof, `PeaceInv` that no task ends.
Neither property is inductive without the others: that an answer meets its mark in
`mining_clients` is what makes the test in `handle_client` see the last one.

At the end of the module `EpochsImplemented`, under the same two assumptions and no
other: any number of workers and threads, nodes that lag or not, answers of any
difficulty. Every step of `Cluster` is a step of `MiningEpochs` or a stutter.
`AnswerInv` says that what is on its way to be stored counts, so that the first
answer that counts is not lost; on one thread `RunnerInv` (one task runs) makes the
comparison with `best_difficulty` and the two updates one atomic act, and the two
cells are the abstract `best` but between the updates. `ChainInv` says what the solution and
the transaction under way may be for; with nodes that are up to date, no other
challenge than those that were handed out.

**NonceSearchProofs**: `SearchTypeCorrect`, `NoDoubleWorkCorrect`,
`AnswersBestCorrect`, `OverrunCorrect`. A counted thread is inside its share and has hashed
exactly what lies before its nonce, or it has been through the whole share
(`Walked`); shares of different counted threads are disjoint intervals (`ShareOrder`,
linear arithmetic over a product that is named once). `FoundBest` and
`JoinedBest` carry the best from a thread to its call. For `OverrunBounded` the
strengthening is `LateInv`: a thread has hashed no more nonces since its time
was up than since the last check point, whatever the space: nonce 0, to which
the increment wraps, is a check point of its own (`SinceNext`).

**SendAndConfirmProofs**: `AccountedCorrect`, `SubmissionImplemented`,
`TypeCorrect`, `PaceIsRecentCorrect`, `RetriesRunOutCorrect`. A call
under way is one solution ahead of the records, and until it enters its
route one behind in `total_hash_times` (`Records`). Refinement: every step maps to a
step or a stutter of `Submission`; the type of `tx` is the only fact it needs.
`TypeOK` needs that a status is polled for only after an attempt was counted
(`TypeInv`): the retries of a landing are one less. For `PaceIsRecent`, `RingInv`
says where the ring holds each of the latest landings: a landing replaces the one
a full round before it (`SlotsDiffer`, `ModRound`), and slots that no landing has
reached are 0, which the average leaves out. The ring and the list of the latest
landings are then one function under two sets of names, and a sum does not
depend on names (`AverageRenamed`). `RetriesRunOut` is a number of steps,
`StepsLeft`, that every step of the call makes smaller and no step of anybody
else larger. A retry spends an attempt; only the turn from jito to RPC starts
another budget, and it has no way back. The bound is `2 * RouteSteps`. With the
fairness of `Proceeds` this is why `SubmitReturns` holds, of which TLC checks the
liveness.

**DynamicFeeProofs**: `TypeCorrect`, `CoversMeanCorrect`,
`AveragesLastSlotsCorrect`, `LocalIsPercentileCorrect`, for every set of fees,
chunk, window and length of the answer. The invariant (`AnswerInv`,
`EstimateInv`) only carries over the steps that the answer has one sample per
slot, and that the estimate is that of the answer; the work is in the lemmas
about the estimates. For `CoversMean` a float is off by at most half a place
(`FloatIs`; `FloatAssumption` gives every number its binade). A mean of up to 8
is still covered when it is rounded up, because `Unit > 16 * MaxSamples` leaves too
little room between it and the whole number above (`CeilOfMeanIs`); a greater one
may come out too low, but by two roundings only, which the added fifth makes
good with those of the product (`EstimateCovers`). Places of a sort are a permutation (`PlacesDiffer`,
`PlaceTaken`, `AtPlace`), so as many entries of a sorted list are at most its
k-th as k says (`SortedAt`, `PercentileIs`). Sorted newest first, a list has at
place k the slot that k - 1 others are later than (`NewestFirstIs`), so the chunk
a slot falls into follows from how many are later. The sum over the list is the
sum over the set of its samples (`TotalOfSet`).

**Sums** has the lemmas that need induction over data: that `FoldFunction`, a
recursive function over subsets, has one value, and that sums over finite sets
lose an element, ignore zeros and do not depend on names. The library's induction
theorems take an operator; here a property is a *set* (of naturals, or of
subsets of a finite set) and what is proved is that it is the whole set, because
otherwise it lacks a least element (`NatInduct`, `SubsetInduct`).

**EpochResetProofs**: `EpochTypeCorrect`, `BufferCorrect`, `PollCorrect`. For the
buffer: every value that a copy can have is one the chain had at or before that
moment, so a transaction decided without a reset was decided more than the
buffer before the end, by the guide's clock, of the epoch of its copy, and the
epochs of the chain only end later. For the polling: where the task stands (`wake`,
and what it has read) bounds how long ago the reset it missed was, and a
value that a node still has was replaced at most `NodeLag` ago, an epoch or
more after it was new.

**Only model-checked.** Liveness: `ClientServed`, `EpochRenewed`, `AllReturn`, `SubmitReturns`
and the fairness part of `ImplementsEpochs` need ENABLED, which is out of the
prover's reach. Of `ImplementsEpochs` every step is proved, of `SubmitReturns` that
a call has a bounded number of steps. `SubmitsBest` rests on the
history of `MCCalm`; on one thread `EpochsImplemented` contains it. The properties of
the runs that expect a violation are, of course, false.

## 6. Not modelled

- Reads that return a part of a message (ore-worker/src/main.rs:150), and
  `CORES:` lines that arrive in pieces (403): what the rest of a message is then
  taken for depends on its bytes, and the source handles neither.
- The arithmetic of `cutoff_time` (mine.rs 148-156); only whether an answer can
  be early. It is one expression on three clocks, and its result matters to
  the rest of the system only by being 0 or not.
- The choice of a bus and the boost accounts that `submit` packs, the amounts,
  log text.
- Boost data, read once before the server listens, and constant from then on.
- The two reads of the jito tip (send_and_confirm_auto.rs:26,
  send_and_confirm_jito.rs:43) are one step; a stream that has ended is one
  that stores no more.
- `RefCell` borrows of `Miner`: main is their only user and holds none
  across a call that takes the same cell.
- The command line option `--buffer-time` is parsed and never used (336 takes a
  constant).
- Panics on answers that cannot be parsed: `expect` in utils.rs (also of the
  polled config account), `unwrap` of a malformed entry of an Alchemy answer
  (dynamic_fee.rs:121); and a core count of more than four digits, which the
  10-byte buffer of `handle_client` cuts off.
- `skip_confirm`, which every caller passes as false.
- Hashing (`drillx`): its outcome is a constant.
- Parsing of the command line and the environment, build files.

## 7. Plan

In the order of their worth: a `ProofFetch` module with the chain's clock, the proof's age and the cutoff; a step of its own for
the jito route's second read of the tip; partial reads in `Network`, with a run
in which an order arrives in two pieces; and as a theorem, that a thread of
`NonceSearch` looks at the timer within one stride from anywhere, the step bound
behind `AllReturn`.
