---------------------------- MODULE NonceSearch ----------------------------
(***************************************************************************)
(* find_hash_par of ore-worker, run by all the machines that were handed   *)
(* one challenge.  Each call splits into one thread per core; a thread     *)
(* walks the nonces up from the start of its share and looks at its timer  *)
(* only at every CHECK_POINT + 1st nonce.  The call joins its threads in   *)
(* the order it spawned them and returns the best hash.                    *)
(***************************************************************************)
EXTENDS Integers

CONSTANTS
  NonceSpace,   \* 2^64
  CHECK_POINT,  \* a mask, one less than a power of two
  Calls,        \* the work orders: offset and cores of each machine
  total_cores,  \* as every order of this challenge has it
  cutoff_time,  \* seconds
  Score,        \* drillx: the best difficulty among the hashes of a nonce
  MIN_DIFFICULTY \* what the program accepts; the worker has it commented out

Nonce == 0..(NonceSpace - 1)

\* x & CHECK_POINT is x modulo this.
Stride == CHECK_POINT + 1

ASSUME SearchAssumption ==
  /\ NonceSpace \in Nat \ {0}
  /\ CHECK_POINT \in Nat
  /\ Calls \subseteq [offset : Nat, cores : Nat]
  /\ \A c, d \in Calls :
       c # d => \/ c.offset + c.cores <= d.offset
                \/ d.offset + d.cores <= c.offset
  /\ total_cores \in Nat \ {0}
  /\ cutoff_time \in Nat
  /\ Score \in [Nonce -> Nat]

\* The range offset .. cores + offset of global core numbers.
Threads(c) == c.offset .. (c.offset + c.cores - 1)

Thread == UNION {Threads(c) : c \in Calls}

\* u64::MAX.saturating_div(total_cores), saturating_mul(i).
nonce_unit == (NonceSpace - 1) \div total_cores

\* Mutant: shares are counted from 1, and the first two threads collide.
StartBehind(i) == IF i = 0 THEN 0 ELSE nonce_unit * (i - 1)

StartNonce(i) ==
  IF nonce_unit * i < NonceSpace THEN nonce_unit * i ELSE NonceSpace - 1

VARIABLES
  tpc,      \* "spawned", "hash" or "done", for each thread
  nonce,    \* the nonce a thread is at
  elapsed,  \* whole seconds on a thread's timer, cutoff_time at most
  found,    \* best_nonce, best_difficulty and best_hash of a thread
  joined,   \* how many of its threads a call has joined
  best,     \* best_nonce, best_difficulty and best_hash of a call
  tried,    \* history: the nonces a thread has hashed
  late      \* history: how many of them after its time was up

threadVars == <<tpc, nonce, elapsed, found, tried, late>>
vars == <<threadVars, joined, best>>

\* Hash::default(), the hash of no nonce.
DefaultHash == -1

Hit == [nonce : Nonce, difficulty : Nat, hash : Nonce \cup {DefaultHash}]

Nothing(n) == [nonce |-> n, difficulty |-> 0, hash |-> DefaultHash]

Init ==
  /\ tpc = [i \in Thread |-> "spawned"]
  /\ nonce = [i \in Thread |-> StartNonce(i)]
  /\ elapsed = [i \in Thread |-> 0]
  /\ found = [i \in Thread |-> Nothing(StartNonce(i))]
  /\ joined = [c \in Calls |-> 0]
  /\ best = [c \in Calls |-> Nothing(0)]
  /\ tried = [i \in Thread |-> {}]
  /\ late = [i \in Thread |-> 0]

\* The thread is scheduled and starts its timer.
StartTimer(i) ==
  /\ tpc[i] = "spawned"
  /\ tpc' = [tpc EXCEPT ![i] = "hash"]
  /\ UNCHANGED <<nonce, elapsed, found, tried, late, joined, best>>

SecondPasses(i) ==
  /\ tpc[i] = "hash"
  /\ elapsed[i] < cutoff_time
  /\ elapsed' = [elapsed EXCEPT ![i] = @ + 1]
  /\ UNCHANGED <<tpc, nonce, found, tried, late, joined, best>>

\* Mutant: a thread without an acceptable hash mines on.
TimeUpWithHit(i) ==
  elapsed[i] >= cutoff_time /\ found[i].difficulty >= MIN_DIFFICULTY

TimeUp(i) == elapsed[i] >= cutoff_time

\* Mutant: the time is looked at only when the nonce wraps.
CheckAtWrap(n) == n = 0

CheckPoint(n) == n % Stride = 0

\* Mutant: the last hash wins.
LastHit(i) ==
  [nonce |-> nonce[i], difficulty |-> Score[nonce[i]], hash |-> nonce[i]]

BetterHit(i) ==
  IF Score[nonce[i]] > found[i].difficulty
  THEN [nonce |-> nonce[i], difficulty |-> Score[nonce[i]], hash |-> nonce[i]]
  ELSE found[i]

\* Mutant: the nonce does not wrap at the width of its type.
CountOn(n) == n + 1

\* A release build wraps at overflow.
NextNonce(n) == (n + 1) % NonceSpace

\* One round of the thread's loop.
HashNonce(i) ==
  /\ tpc[i] = "hash"
  /\ tried' = [tried EXCEPT ![i] = @ \cup {nonce[i]}]
  /\ late' = [late EXCEPT ![i] = IF TimeUp(i) THEN @ + 1 ELSE 0]
  /\ found' = [found EXCEPT ![i] = BetterHit(i)]
  /\ IF CheckPoint(nonce[i]) /\ TimeUp(i)
     THEN /\ tpc' = [tpc EXCEPT ![i] = "done"]
          /\ UNCHANGED nonce
     ELSE /\ nonce' = [nonce EXCEPT ![i] = NextNonce(@)]
          /\ UNCHANGED tpc
  /\ UNCHANGED <<elapsed, joined, best>>

\* Join the next thread of the call.
Join(c) ==
  /\ joined[c] < c.cores
  /\ LET i == c.offset + joined[c]
     IN  /\ tpc[i] = "done"
         /\ best' = [best EXCEPT ![c] =
                       IF found[i].difficulty > @.difficulty
                       THEN found[i] ELSE @]
  /\ joined' = [joined EXCEPT ![c] = @ + 1]
  /\ UNCHANGED threadVars

Next ==
  \/ \E i \in Thread : StartTimer(i) \/ SecondPasses(i) \/ HashNonce(i)
  \/ \E c \in Calls : Join(c)

Spec == Init /\ [][Next]_vars

(***************************************************************************)
(* Threads are scheduled, clocks advance, and the caller blocks in join.   *)
(***************************************************************************)
Fairness ==
  /\ \A i \in Thread : /\ WF_vars(StartTimer(i))
                       /\ WF_vars(SecondPasses(i))
                       /\ WF_vars(HashNonce(i))
  /\ \A c \in Calls : WF_vars(Join(c))

FairSpec == Spec /\ Fairness

-----------------------------------------------------------------------------
TypeOK ==
  /\ tpc \in [Thread -> {"spawned", "hash", "done"}]
  /\ nonce \in [Thread -> Nonce]
  /\ elapsed \in [Thread -> 0..cutoff_time]
  /\ found \in [Thread -> Hit]
  /\ joined \in [Calls -> Nat]
  /\ best \in [Calls -> Hit]
  /\ tried \in [Thread -> SUBSET Nonce]
  /\ late \in [Thread -> Nat]

\* The nonces that the split of the u64 range means a thread to search.
Share(i) == (nonce_unit * i) .. (nonce_unit * i + nonce_unit - 1)

\* No work is done twice before it must be: two counted cores, of one
\* machine or of two, hash the same nonce only after one of them has been
\* through its whole share.
NoDoubleWork ==
  \A i, j \in Thread :
    (i # j /\ i < total_cores /\ j < total_cores) =>
      \/ tried[i] \cap tried[j] = {}
      \/ Share(i) \subseteq tried[i]
      \/ Share(j) \subseteq tried[j]

Returned(c) == joined[c] = c.cores

\* A machine answers with the best that any of its threads has hashed, and
\* the digest it sends belongs to the nonce it sends.
AnswersBest ==
  \A c \in Calls : Returned(c) =>
    /\ \A i \in Threads(c), n \in Nonce :
         n \in tried[i] => Score[n] <= best[c].difficulty
    /\ best[c].difficulty > 0 =>
         /\ \E i \in Threads(c) : best[c].nonce \in tried[i]
         /\ best[c].hash = best[c].nonce
         /\ best[c].difficulty = Score[best[c].nonce]

\* A thread overruns its time by one stride of nonces at most.
OverrunBounded == \A i \in Thread : late[i] <= Stride

\* Every call returns in the end.
AllReturn == <>(\A c \in Calls : Returned(c))

\* "Mine until min difficulty has been met": a thread whose time is up stays
\* in its loop until it has a hash that the program accepts.
MinedUntilMin ==
  \A i \in Thread : tpc[i] = "done" => found[i].difficulty >= MIN_DIFFICULTY
=============================================================================
