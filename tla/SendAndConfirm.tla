--------------------------- MODULE SendAndConfirm ---------------------------
(***************************************************************************)
(* Miner::submit of ore-guide: send_and_confirm_auto chooses among jito,   *)
(* RPC with a dynamic fee, and RPC with a fee that adapts to the pace of   *)
(* the latest landings; each route signs a transaction once, and sends it  *)
(* and polls its status until it is confirmed, refused, or out of retries. *)
(* Jito falls back to the RPC route.  skip_confirm is false in every call. *)
(***************************************************************************)
EXTENDS Naturals, Sequences, FiniteSets, Functions

CONSTANTS
  gateway_retries,      \* UserConfig
  confirm_retries,
  jito_retries,
  max_jito_tip,
  max_rpc_priority_fee,
  StepPercent,          \* step_multiple, in percent
  priority_fee,         \* --priority-fee
  MaxMultiple,          \* MAX_MULTIPLE, in thousandths
  RingSize,             \* of last_15_times: 15
  Seconds,              \* how long a landing may take
  Tips,                 \* tips the stream may report, the initial 0 among them
  Fees,                 \* dynamic fees the RPC may estimate
  MaxSubmissions        \* bound on the calls of submit

ASSUME SubmitAssumption ==
  /\ gateway_retries \in Nat /\ confirm_retries \in Nat /\ jito_retries \in Nat
  /\ max_jito_tip \in Nat /\ max_rpc_priority_fee \in Nat
  /\ StepPercent \in Nat \ {0} /\ priority_fee \in Nat
  /\ MaxMultiple \in Nat /\ RingSize \in Nat \ {0}
  /\ Seconds \subseteq Nat /\ Fees \subseteq Nat
  /\ Tips \subseteq Nat /\ 0 \in Tips
  /\ MaxSubmissions \in Nat

VARIABLES
  enable_jito, enable_dynamic_fee,  \* command line flags
  tip,                              \* the tip of the jito stream
  last_hash_at,                     \* Miner.last_hash_at: 0 when reset
  \* LandStatus
  hits,                             \* the sum of difficulty_hits
  total_hash_times, total_error_times, total_failed_times, total_retry_times,
  count, last_15_times, fee_multiple,
  \* the locals of a call
  pc, route, endpoint, attempts, polls, per_time, fee, result,
  tx,                               \* the fate of each route's transaction
  \* history
  fallbacks, unsigned, landings,
  changes                           \* how often the latest call changed route

flags == <<enable_jito, enable_dynamic_fee>>
recordVars == <<count, last_15_times, total_retry_times, landings>>
landVars == <<recordVars, total_error_times, total_failed_times>>
entryVars == <<total_hash_times, fee_multiple, fee>>
callVars == <<route, endpoint, attempts, polls, per_time>>
historyVars == <<fallbacks, unsigned, changes>>

vars == <<flags, tip, last_hash_at, hits, landVars, entryVars, callVars,
          historyVars, pc, result, tx>>

Busy == pc # "idle"

\* Dynamic and plain RPC are never both tried for one solution.
Tx == {"jito", "rpc"}
TxOf(r) == IF r = "jito" THEN "jito" ELSE "rpc"
NoTx == [k \in Tx |-> "unsent"]

Init ==
  /\ enable_jito \in BOOLEAN /\ enable_dynamic_fee \in BOOLEAN
  /\ tip = 0 /\ last_hash_at = 0 /\ hits = 0
  /\ total_hash_times = 0 /\ total_error_times = 0
  /\ total_failed_times = 0 /\ total_retry_times = 0
  /\ count = 0
  /\ last_15_times = [i \in 0..(RingSize - 1) |-> 0]
  /\ fee_multiple = 1000
  /\ pc = "idle" /\ route = "rpc" /\ endpoint = "send" /\ result = "none"
  /\ attempts = 0 /\ polls = 0 /\ per_time = 0 /\ fee = 0
  /\ tx = NoTx
  /\ fallbacks = 0 /\ unsigned = 0 /\ landings = <<>>
  /\ changes = 0

-----------------------------------------------------------------------------
\* get_average_time: over the entries that are not 0.
AverageTime(ring) ==
  LET measured == {i \in DOMAIN ring : ring[i] # 0}
  IN  IF measured = {} THEN 0
      ELSE FoldFunction(+, 0, ring) \div Cardinality(measured)

AtMost(bound, x) == IF x < bound THEN x ELSE bound

\* Mutant: the doubling is not limited.
Limited(x) == x

Limit(x) == AtMost(MaxMultiple, x)

\* The multiple that follows m; an f32 in the code, thousandths here.
NextMultiple(m, pace) ==
  Limit(IF pace > 6000 THEN (IF m < 2000 THEN 2000 ELSE m * 2)
        ELSE IF m >= 2000 THEN 1000
        ELSE IF pace >= 3000 THEN (m * StepPercent) \div 100
        ELSE (m * 100) \div StepPercent)

\* The way into a route, up to the query for a blockhash.
EnterRoute(r) ==
  /\ route' = r
  /\ attempts' = 0
  /\ polls' = 0
  /\ endpoint' = "send"
  /\ total_hash_times' = total_hash_times + 1

EnterJito ==
  /\ EnterRoute("jito")
  /\ UNCHANGED <<fee_multiple, fee>>

EnterRpc(pace) ==
  /\ EnterRoute("rpc")
  /\ fee_multiple' = NextMultiple(fee_multiple, pace)
  /\ fee' = AtMost(max_rpc_priority_fee,
                   (priority_fee * fee_multiple') \div 1000)

\* The estimate, or --priority-fee when there is none.
EnterDynamic ==
  /\ EnterRoute("dynamic")
  /\ \E estimate \in Fees \cup {priority_fee} :
       fee' = AtMost(max_rpc_priority_fee, estimate)
  /\ UNCHANGED fee_multiple

\* The proof of the next epoch was fetched, by Miner::mine.
Mine ==
  /\ ~Busy
  /\ last_hash_at' = 1
  /\ UNCHANGED <<flags, tip, hits, landVars, entryVars, callVars, historyVars,
                 pc, result, tx>>

\* The jito stream's task stores a tip at any time.
StoreTip(t) ==
  /\ enable_jito
  /\ tip' = t
  /\ UNCHANGED <<flags, last_hash_at, hits, landVars, entryVars, callVars,
                 historyVars, pc, result, tx>>

\* Miner::submit up to send_and_confirm_auto.
Submit ==
  /\ pc = "idle"
  /\ hits < MaxSubmissions
  /\ pc' = "auto"
  /\ hits' = hits + 1
  /\ result' = "none"
  /\ tx' = NoTx
  /\ changes' = 0
  /\ UNCHANGED <<flags, tip, last_hash_at, landVars, entryVars, callVars,
                 fallbacks, unsigned>>

\* send_and_confirm_auto
ChooseRoute ==
  /\ pc = "auto"
  /\ per_time' = AverageTime(last_15_times)
  /\ pc' = "blockhash"
  /\ \/ /\ enable_jito /\ tip <= max_jito_tip
        /\ EnterJito
     \/ /\ ~(enable_jito /\ tip <= max_jito_tip)
        /\ IF enable_dynamic_fee THEN EnterDynamic ELSE EnterRpc(per_time')
  /\ UNCHANGED <<flags, tip, last_hash_at, hits, landVars, historyVars,
                 result, tx>>

Return(answer) ==
  /\ pc' = "idle"
  /\ result' = answer

Signed ==
  /\ pc = "blockhash"
  /\ pc' = "send"
  /\ UNCHANGED <<flags, tip, last_hash_at, hits, landVars, entryVars,
                 callVars, historyVars, result, tx>>

\* get_latest_blockhash_with_retries gave up, and the ? operator returns.
NoBlockhash ==
  /\ pc = "blockhash"
  /\ Return("err")
  /\ unsigned' = unsigned + 1
  /\ UNCHANGED <<flags, tip, last_hash_at, hits, landVars, entryVars,
                 callVars, fallbacks, changes, tx>>

-----------------------------------------------------------------------------
Reaches(k) == tx' = [tx EXCEPT ![k] = IF @ = "unsent" THEN "sent" ELSE @]

SendOk ==
  /\ pc = "send"
  /\ pc' = IF confirm_retries > 0 THEN "poll" ELSE "retry"
  /\ attempts' = attempts + 1
  /\ polls' = 0
  /\ Reaches(TxOf(route))
  /\ UNCHANGED <<flags, tip, last_hash_at, hits, landVars, entryVars, route,
                 endpoint, per_time, historyVars, result>>

OtherEndpoint == IF endpoint = "send" THEN "rpc" ELSE "send"

\* Mutant: a failed send is not counted as an attempt.
FreeAttempt == attempts

FailedAttempt == attempts + 1

\* The node may have taken the transaction although its answer was lost.
SendErr(taken) ==
  /\ pc = "send"
  /\ pc' = "retry"
  /\ attempts' = FailedAttempt
  /\ endpoint' = IF route = "rpc" THEN OtherEndpoint ELSE endpoint
  /\ IF taken THEN Reaches(TxOf(route)) ELSE UNCHANGED tx
  /\ UNCHANGED <<flags, tip, last_hash_at, hits, landVars, entryVars, route,
                 polls, per_time, historyVars, result>>

\* The chain executes a transaction; the program accepts one at most.
Execute(k) ==
  /\ tx[k] = "sent"
  /\ \E fate \in {"ok", "err"} :
       /\ fate = "ok" => \A j \in Tx : tx[j] # "ok"
       /\ tx' = [tx EXCEPT ![k] = fate]
  /\ UNCHANGED <<flags, tip, last_hash_at, hits, landVars, entryVars,
                 callVars, historyVars, pc, result>>

\* No status yet, only a processed one, or no answer.
PollAgain ==
  /\ pc = "poll"
  /\ polls' = polls + 1
  /\ pc' = IF polls' < confirm_retries THEN "poll" ELSE "retry"
  /\ UNCHANGED <<flags, tip, last_hash_at, hits, landVars, entryVars, route,
                 endpoint, attempts, per_time, historyVars, result, tx>>

PollErr ==
  /\ pc = "poll"
  /\ tx[TxOf(route)] = "err"
  /\ last_hash_at' = 0
  /\ total_error_times' = total_error_times + 1
  /\ Return("err")
  /\ UNCHANGED <<flags, tip, hits, recordVars, total_failed_times,
                 entryVars, callVars, historyVars, tx>>

\* Mutant: the ring is indexed by the submissions, landed or not.
IndexBySubmission == total_hash_times % RingSize

RingIndex == count % RingSize

\* Mutant: a processed transaction is taken for a confirmed one.
AnyStatus(k) == tx[k] \in {"sent", "ok"}

ConfirmedStatus(k) == tx[k] = "ok"

PollOk(elapsed) ==
  /\ pc = "poll"
  /\ ConfirmedStatus(TxOf(route))
  /\ total_retry_times' = total_retry_times + attempts - 1
  /\ last_15_times' = [last_15_times EXCEPT ![RingIndex] = elapsed * 1000]
  /\ count' = count + 1
  /\ landings' = Append(landings, elapsed * 1000)
  /\ Return("ok")
  /\ UNCHANGED <<flags, tip, last_hash_at, hits, total_error_times,
                 total_failed_times, entryVars, callVars, historyVars, tx>>

-----------------------------------------------------------------------------
(* The end of a round: another one, the other route, or none.              *)

JitoIsOver == route = "jito" /\ attempts > jito_retries

SendAgain ==
  /\ pc = "retry"
  /\ ~JitoIsOver
  /\ attempts <= gateway_retries
  /\ pc' = "send"
  /\ UNCHANGED <<flags, tip, last_hash_at, hits, landVars, entryVars,
                 callVars, historyVars, result, tx>>

\* Mutant: the jito route is counted as failed before its fallback.
FailsFirst == total_failed_times + 1

FailedSoFar == total_failed_times

\* send_and_confirm, with all the retries of its own.
TurnToRpc ==
  /\ pc = "retry"
  /\ JitoIsOver
  /\ pc' = "blockhash"
  /\ total_failed_times' = FailedSoFar
  /\ EnterRpc(per_time)
  /\ fallbacks' = fallbacks + 1
  /\ changes' = 1
  /\ UNCHANGED <<flags, tip, last_hash_at, hits, recordVars,
                 total_error_times, per_time, unsigned, result, tx>>

MaxRetries ==
  /\ pc = "retry"
  /\ ~JitoIsOver
  /\ attempts > gateway_retries
  /\ last_hash_at' = 0
  /\ total_failed_times' = total_failed_times + 1
  /\ Return("err")
  /\ UNCHANGED <<flags, tip, hits, recordVars, total_error_times,
                 entryVars, callVars, historyVars, tx>>

Proceeds ==
  \/ ChooseRoute \/ Signed \/ NoBlockhash
  \/ SendOk \/ (\E taken \in BOOLEAN : SendErr(taken))
  \/ PollAgain \/ PollErr \/ (\E s \in Seconds : PollOk(s))
  \/ SendAgain \/ TurnToRpc \/ MaxRetries

Next ==
  \/ Mine \/ Submit \/ Proceeds
  \/ \E t \in Tips : StoreTip(t)
  \/ \E k \in Tx : Execute(k)

Spec == Init /\ [][Next]_vars

(***************************************************************************)
(* Every query of the RPC client is answered or times out, and every sleep *)
(* ends.                                                                   *)
(***************************************************************************)
FairSpec == Spec /\ WF_vars(Proceeds)

-----------------------------------------------------------------------------
TypeOK ==
  /\ enable_jito \in BOOLEAN /\ enable_dynamic_fee \in BOOLEAN
  /\ tip \in Tips
  /\ last_hash_at \in {0, 1}
  /\ hits \in Nat /\ total_hash_times \in Nat /\ total_error_times \in Nat
  /\ total_failed_times \in Nat /\ total_retry_times \in Nat /\ count \in Nat
  /\ last_15_times \in [0..(RingSize - 1) -> Nat]
  /\ fee_multiple \in 0..(IF MaxMultiple < 1000 THEN 1000 ELSE MaxMultiple)
  /\ pc \in {"idle", "auto", "blockhash", "send", "poll", "retry"}
  /\ route \in {"jito", "rpc", "dynamic"}
  /\ endpoint \in {"send", "rpc"}
  /\ attempts \in Nat /\ polls \in Nat /\ per_time \in Nat /\ fee \in Nat
  /\ result \in {"none", "ok", "err"}
  /\ tx \in [Tx -> {"unsent", "sent", "ok", "err"}]
  /\ fallbacks \in Nat /\ unsigned \in Nat /\ landings \in Seq(Nat)
  /\ changes \in {0, 1}

\* Between two submissions every solution of difficulty_hits is in exactly
\* one of the counters of LandStatus, except those that failed for want of a
\* blockhash; total_hash_times counts a fallback from jito a second time.
Accounted ==
  pc = "idle" =>
    /\ hits = count + total_error_times + total_failed_times + unsigned
    /\ total_hash_times = hits + fallbacks

\* The pace that the next fee follows is the average of the latest RingSize
\* landings, whatever failed in between.
Latest == SubSeq(landings, IF count > RingSize THEN count - RingSize + 1 ELSE 1,
                 count)

PaceIsRecent == AverageTime(last_15_times) = AverageTime(Latest)

\* "Price to pay for compute units. If dynamic fees are enabled, this value
\* will be used as the cap."
CappedByPriorityFee == (Busy /\ route = "dynamic") => fee <= priority_fee

\* The routes, their retries and the fallback implement Submission.
Promise == INSTANCE Submission WITH
  busy   <- Busy,
  signed <- pc \in {"send", "poll", "retry"},
  turned <- changes = 1,
  sent   <- \E k \in Tx : tx[k] # "unsent",
  landed <- \E k \in Tx : tx[k] = "ok",
  known  <- last_hash_at # 0,
  ok     <- result = "ok"

ImplementsSubmission == Promise!Spec

\* Every call returns.
SubmitReturns == Busy ~> pc = "idle"

\* At most so many steps does a call still take: a round of a route is a send,
\* its polls and the decision, and jito has a whole other route to go.
RoundsAfter(sends) == (gateway_retries + 1 - sends) * (confirm_retries + 3)
RouteSteps == RoundsAfter(0) + 2

StepsLeft ==
  LET turns == IF route = "jito" THEN RouteSteps ELSE 0
      rounds == RoundsAfter(attempts)
  IN  CASE pc = "idle"      -> 0
        [] pc = "auto"      -> 2 * RouteSteps
        [] pc = "blockhash" -> turns + RouteSteps - 1
        [] pc = "send"      -> turns + rounds
        [] pc = "poll"      -> turns + rounds + (confirm_retries - polls) + 1
        [] pc = "retry"     -> turns + rounds + 1

\* No retry, swap of endpoints or fallback gives a call more to do than it had
\* left: with gateway_retries and confirm_retries its steps are bounded.
RetriesRunOut ==
  [][/\ Proceeds => StepsLeft' \in 0..(StepsLeft - 1)
     /\ Busy => StepsLeft' \in 0..StepsLeft]_vars
=============================================================================
