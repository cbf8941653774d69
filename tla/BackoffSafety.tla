--------------------------- MODULE BackoffSafety ---------------------------
(***************************************************************************)
(* Backoff for any interval, any length of a pass and any number of        *)
(* failures: retryDelay is what is documented, and the controller attempts *)
(* a tunnel never before its delay is over and always by the deadline.     *)
(***************************************************************************)
EXTENDS Backoff, WellFoundedInduction, TLAPS

-----------------------------------------------------------------------------
(* The library's induction theorems are about operators; this is what they
   come to for a set of numbers: the counterexample of a claim about all of
   them is a least one. *)
LEMMA LeastNumber ==
    ASSUME NEW T \in SUBSET Nat, T # {}
    PROVE  \E n \in T : \A m \in T : n <= m
  <1> DEFINE below == {ss \in Nat \X Nat : ss[1] < ss[2]}
  <1>1. IsWellFoundedOn(below, Nat)
    BY NatLessThanWellFounded DEF OpToRel
  <1>2. \A m, n \in Nat : m < n => <<m, n>> \in below
    OBVIOUS
  <1> HIDE DEF below
  <1>3. PICK n \in T : \A m \in T : <<m, n>> \notin below
    BY <1>1, WFMin
  <1>4. ASSUME NEW m \in T PROVE n <= m
    <2>1. m \in Nat /\ n \in Nat
      OBVIOUS
    <2>2. ~(m < n)
      BY <1>2, <1>3, <2>1, Zenon
    <2> QED
      BY <2>1, <2>2
  <1> QED
    BY <1>4

-----------------------------------------------------------------------------
(* The loop of retryDelay. *)

(* One turn of it, for all values of i together. *)
Turn(delays) ==
    [i \in Nat |-> IF i <= 1 THEN 1
                   ELSE IF delays[i - 1] < FiveMinutes THEN 2 * delays[i - 1]
                                                       ELSE delays[i - 1]]

(* Where it stands: it stops doubling at 64, the first value not below the
   cap. *)
Reached(i) ==
    IF i <= 1 THEN 1
    ELSE IF i \in DOMAIN Increasing THEN Increasing[i] ELSE 64

(* There is a function that satisfies the equation of Doubled. *)
LEMMA DoubledEquation == Doubled = Turn(Doubled)
  <1> DEFINE reached == [i \in Nat |-> Reached(i)]
  <1>1. reached = Turn(reached)
    <2>1. \A i \in Nat : reached[i] = Turn(reached)[i]
      BY DEF Turn, Reached, Increasing, FiveMinutes
    <2> QED BY <2>1 DEF Turn
  <1>2. Doubled = CHOOSE f : f = Turn(f)
    BY DEF Doubled, Turn
  <1> QED BY <1>1, <1>2

(* And it has no other solution, by induction on i. *)
LEMMA DoubledValues == \A i \in Nat : Doubled[i] = Reached(i)
  <1> DEFINE Wrong == {i \in Nat : Doubled[i] # Reached(i)}
  <1> SUFFICES ASSUME Wrong # {} PROVE FALSE
    OBVIOUS
  <1>1. PICK n \in Wrong : \A m \in Wrong : n <= m
    BY LeastNumber
  <1>2. CASE n <= 1
    BY <1>1, <1>2, DoubledEquation DEF Turn, Reached
  <1>3. CASE n > 1
    <2>1. n - 1 \in Nat /\ n - 1 \notin Wrong
      BY <1>1, <1>3
    <2>2. Doubled[n - 1] = Reached(n - 1)
      BY <2>1
    <2>3. Doubled[n] = IF Doubled[n - 1] < FiveMinutes THEN 2 * Doubled[n - 1]
                                                       ELSE Doubled[n - 1]
      BY <1>1, <1>3, DoubledEquation DEF Turn
    <2> QED BY <1>1, <1>3, <2>2, <2>3 DEF Reached, Increasing, FiveMinutes
  <1> QED BY <1>1, <1>2, <1>3

LEMMA MinMaxOfTwo ==
    \A a, b \in Int : /\ Min({a, b}) = IF a <= b THEN a ELSE b
                      /\ Max({a, b}) = IF a <= b THEN b ELSE a
  BY DEF Min, Max

(* retryDelay is 5 seconds, 10, 20 and so on up to 5 minutes, after however
   many failures: the doubling, the place where it stops and the clamp agree
   with docs/architecture.md. *)
THEOREM DelayIsDocumented ==
    \A failures \in Nat \ {0} : RetryDelay(failures) = Documented(failures)
  <1> SUFFICES ASSUME NEW failures \in Nat \ {0}
               PROVE  RetryDelay(failures) = Documented(failures)
    OBVIOUS
  <1>1. Doubled[failures] = Reached(failures)
    BY DoubledValues
  <1>2. Reached(failures) \in Nat
    BY DEF Reached, Increasing
  <1>3. RetryDelay(failures) = IF Reached(failures) <= FiveMinutes
                               THEN Reached(failures) ELSE FiveMinutes
    BY <1>1, <1>2, MinMaxOfTwo DEF RetryDelay, FiveMinutes
  <1> QED
    BY <1>3 DEF Reached, Documented, Increasing, FiveMinutes

LEMMA DelayBounds ==
    \A failures \in Nat \ {0} : Documented(failures) \in 1..FiveMinutes
  BY DEF Documented, Increasing, FiveMinutes

-----------------------------------------------------------------------------
(* Types. *)
Retry == [failures: Nat, wait: Nat \cup {None}]

Points == {"boot", "idle", "list", "turn", "attempt", "rest"}

BackoffTypeOK ==
    /\ row \in Retry
    /\ copy \in Retry
    /\ pass \in [pc: Points, busy: 0..MaxBusy]
    /\ pass.pc = "idle" => pass.busy = 0
    /\ ticker \in [left: 1..Interval, fired: BOOLEAN]
    /\ earliest \in Nat
    /\ latest \in Int

(* While the copy decides about the skip and during an attempt, the row has
   the wait that was listed, unless a handler has cleared it. *)
CopyStands ==
    /\ pass.pc = "turn" => row.wait \in {None, copy.wait}
    /\ pass.pc = "attempt" => row.wait \in {None, 0}

(* The time for which the tunnel is to be left alone is that of the row, and
   of the copy that decides. *)
Respected ==
    earliest # 0 => /\ row.wait = earliest
                    /\ pass.pc = "turn" => copy.wait = earliest

-----------------------------------------------------------------------------
(* How long it can take until the next attempt. *)
Waiting == row.wait \notin {None, 0}

(* The pass under way comes to the tunnel and does not skip it. *)
ComesToIt ==
    \/ pass.pc \in {"boot", "attempt"}
    \/ pass.pc = "list" /\ ~Waiting
    \/ pass.pc = "turn" /\ Due

LeftOfPass == IF pass.pc = "idle" THEN 0 ELSE MaxBusy - pass.busy

UntilTick == IF ticker.fired THEN 0 ELSE ticker.left

UntilAttempt ==
    IF ComesToIt THEN LeftOfPass
    ELSE IF Waiting THEN row.wait + OneMorePass
    ELSE Max({LeftOfPass, UntilTick}) + MaxBusy

InReach == latest >= UntilAttempt

BackoffInv ==
    /\ BackoffTypeOK
    /\ WaitsForFailures
    /\ CopyStands
    /\ Respected
    /\ InReach

-----------------------------------------------------------------------------
LEMMA TimeTypes ==
    /\ Interval \in Nat \ {0} /\ MaxBusy \in Nat /\ None \notin Int
    /\ OneMorePass \in Nat
    /\ OneMorePass >= Interval + MaxBusy
    /\ OneMorePass >= MaxBusy + MaxBusy
    /\ \A time \in Nat \cup {None} : Passing(time) \in Nat \cup {None}
    /\ \A time \in Nat : Passing(time) = IF time = 0 THEN 0 ELSE time - 1
    /\ Passing(None) = None
  BY BackoffAssumption, MinMaxOfTwo DEF OneMorePass, Passing

(* UntilAttempt without its maximum, and as a number. *)
Distances ==
    /\ LeftOfPass \in Nat /\ LeftOfPass <= MaxBusy
    /\ UntilTick \in Nat /\ UntilTick <= Interval
    /\ UntilAttempt =
           IF ComesToIt THEN LeftOfPass
           ELSE IF Waiting THEN row.wait + OneMorePass
           ELSE IF LeftOfPass <= UntilTick THEN UntilTick + MaxBusy
                                           ELSE LeftOfPass + MaxBusy
    /\ UntilAttempt \in Nat
    /\ ~Waiting => UntilAttempt <= OneMorePass

LEMMA DistancesHold == BackoffTypeOK => Distances
  <1> SUFFICES ASSUME BackoffTypeOK PROVE Distances
    OBVIOUS
  <1>1. LeftOfPass \in Nat /\ UntilTick \in Nat
    BY TimeTypes DEF BackoffTypeOK, LeftOfPass, UntilTick
  <1>2. Max({LeftOfPass, UntilTick})
            = IF LeftOfPass <= UntilTick THEN UntilTick ELSE LeftOfPass
    BY <1>1, MinMaxOfTwo
  <1>3. UntilTick <= Interval /\ LeftOfPass <= MaxBusy
    BY TimeTypes DEF BackoffTypeOK, LeftOfPass, UntilTick
  <1>4. UntilAttempt =
            IF ComesToIt THEN LeftOfPass
            ELSE IF Waiting THEN row.wait + OneMorePass
            ELSE IF LeftOfPass <= UntilTick THEN UntilTick + MaxBusy
                                            ELSE LeftOfPass + MaxBusy
    BY <1>2 DEF UntilAttempt
  <1>5. UntilAttempt \in Nat
    BY <1>1, <1>4, TimeTypes DEF Waiting, BackoffTypeOK, Retry
  <1>6. ~Waiting => UntilAttempt <= OneMorePass
    <2>1. CASE ComesToIt
      BY <1>1, <1>3, <1>4, <2>1, TimeTypes
    <2>2. CASE ~ComesToIt /\ LeftOfPass <= UntilTick
      <3>1. UntilTick + MaxBusy <= OneMorePass
        BY <1>1, <1>3, TimeTypes
      <3> QED BY <1>4, <2>2, <3>1
    <2>3. CASE ~ComesToIt /\ ~(LeftOfPass <= UntilTick)
      <3>1. LeftOfPass + MaxBusy <= OneMorePass
        BY <1>1, <1>3, TimeTypes
      <3> QED BY <1>4, <2>3, <3>1
    <2> QED BY <2>1, <2>2, <2>3
  <1> QED
    BY <1>1, <1>3, <1>4, <1>5, <1>6 DEF Distances

LEMMA TypesKept == BackoffTypeOK /\ [Next]_vars => BackoffTypeOK'
  <1> SUFFICES ASSUME BackoffTypeOK, [Next]_vars PROVE BackoffTypeOK'
    OBVIOUS
  <1> USE TimeTypes DEF BackoffTypeOK, Points
  <1>1. CASE Elapse
    BY <1>1 DEF Elapse, Retry
  <1>2. CASE Hear \/ List \/ Skip
    BY <1>2 DEF Hear, List, Skip, Goto
  <1>3. CASE Requeue
    BY <1>3 DEF Requeue, Goto, Retry
  <1>4. CASE RequeueFails
    <2>1. row.wait # None => row.wait \in Nat
      BY DEF Retry
    <2> QED
      BY <1>4, <2>1 DEF RequeueFails, Goto
  <1>5. CASE Attempt \/ Succeed
    BY <1>5 DEF Attempt, Succeed, Goto, Clear, Retry
  <1>6. CASE EndPass
    BY <1>6 DEF EndPass, Clear, Retry
  <1>7. CASE Restart
    BY <1>7 DEF Restart, Clear, Retry
  <1>8. CASE Fail
    <2>1. copy.failures + 1 \in Nat \ {0}
      BY DEF Retry
    <2>2. RetryDelay(copy.failures + 1) \in Nat
        /\ Documented(copy.failures + 1) \in Nat
      BY <2>1, DelayIsDocumented, DelayBounds
    <2> QED
      BY <1>8, <2>1, <2>2 DEF Fail, Goto, Retry
  <1>9. CASE StoreError
    <2>1. latest \in Int /\ OneMorePass \in Int
      OBVIOUS
    <2>2. Max({latest, OneMorePass}) \in Int
      BY <2>1, MinMaxOfTwo, Zenon
    <2> QED
      BY <1>9, <2>2 DEF StoreError, Goto
  <1>10. CASE Change
    BY <1>10, MinMaxOfTwo DEF Change, Clear, Retry
  <1>11. CASE UNCHANGED vars
    BY <1>11 DEF vars
  <1> QED
    BY <1>1, <1>2, <1>3, <1>4, <1>5, <1>6, <1>7, <1>8, <1>9, <1>10,
       <1>11 DEF Next

(* A write by fail is the only one that sets a wait, to the delay of its own
   count; time shortens it and everything else clears it. *)
LEMMA ExplainedKept ==
    BackoffTypeOK /\ WaitsForFailures /\ [Next]_vars => WaitsForFailures'
  <1> SUFFICES ASSUME BackoffTypeOK, WaitsForFailures, [Next]_vars
               PROVE  WaitsForFailures'
    OBVIOUS
  <1> USE TimeTypes DEF BackoffTypeOK, WaitsForFailures, Retry
  <1>1. CASE Elapse
    BY <1>1, DelayBounds DEF Elapse, FiveMinutes
  <1>2. CASE Fail
    BY <1>2, DelayIsDocumented, DelayBounds DEF Fail
  <1>3. CASE Succeed \/ Change \/ Requeue
    BY <1>3 DEF Succeed, Change, Requeue, Clear
  <1>4. CASE UNCHANGED row
    BY <1>4
  <1> QED
    BY <1>1, <1>2, <1>3, <1>4
    DEF Next, vars, Hear, List, Skip, Attempt, EndPass, RequeueFails,
        StoreError, Restart

LEMMA CopyKept == BackoffTypeOK /\ CopyStands /\ [Next]_vars => CopyStands'
  <1> SUFFICES ASSUME BackoffTypeOK, CopyStands, [Next]_vars PROVE CopyStands'
    OBVIOUS
  <1> USE TimeTypes DEF BackoffTypeOK, CopyStands, Retry
  <1>1. CASE Elapse
    BY <1>1 DEF Elapse
  <1>2. CASE Attempt
    BY <1>2 DEF Attempt, Due, Goto
  <1>3. CASE List \/ Change
    BY <1>3 DEF List, Change, Goto, Clear
  <1>4. CASE Hear \/ Skip \/ Succeed \/ Fail \/ EndPass \/ Requeue
                 \/ RequeueFails \/ StoreError \/ Restart
    BY <1>4 DEF Hear, Skip, Succeed, Fail, EndPass, Requeue, RequeueFails,
       StoreError, Restart, Goto
  <1>5. CASE UNCHANGED vars
    BY <1>5 DEF vars
  <1> QED
    BY <1>1, <1>2, <1>3, <1>4, <1>5 DEF Next

LEMMA RespectKept ==
    BackoffTypeOK /\ Respected /\ [Next]_vars => Respected'
  <1> SUFFICES ASSUME BackoffTypeOK, Respected, [Next]_vars PROVE Respected'
    OBVIOUS
  <1> USE TimeTypes DEF BackoffTypeOK, Respected, Retry
  <1>1. CASE Elapse
    BY <1>1 DEF Elapse
  <1>2. CASE Fail
    BY <1>2, DelayIsDocumented DEF Fail, Goto
  <1>3. CASE Succeed \/ Change \/ Requeue
    BY <1>3 DEF Succeed, Change, Requeue
  <1>4. CASE Hear \/ List \/ Skip \/ Attempt \/ EndPass \/ RequeueFails
                 \/ StoreError \/ Restart
    BY <1>4 DEF Hear, List, Skip, Attempt, EndPass, RequeueFails, StoreError,
       Restart, Goto
  <1>5. CASE UNCHANGED vars
    BY <1>5 DEF vars
  <1> QED
    BY <1>1, <1>2, <1>3, <1>4, <1>5 DEF Next

(* Time brings the attempt nearer by what it takes from the deadline. *)
LEMMA ElapseInReach ==
    BackoffTypeOK /\ CopyStands /\ InReach /\ Elapse => InReach'
  <1> SUFFICES ASSUME BackoffTypeOK, CopyStands, InReach, Elapse
               PROVE  InReach'
    OBVIOUS
  <1>0. BackoffTypeOK' /\ latest' = latest - 1 /\ latest \in Int
    BY TypesKept DEF Next, Elapse, BackoffTypeOK
  <1>d. Distances /\ Distances'
    BY <1>0, DistancesHold, PTL
  <1>1. pass'.pc = pass.pc
    BY DEF Elapse, BackoffTypeOK
  <1>2. LeftOfPass' = IF pass.pc = "idle" THEN 0 ELSE LeftOfPass - 1
    BY <1>1, TimeTypes DEF LeftOfPass, Elapse, BackoffTypeOK
  <1>3. UntilTick' = IF UntilTick = 0 THEN 0 ELSE UntilTick - 1
    <2>1. CASE ticker.fired
      BY <2>1 DEF UntilTick, Elapse, BackoffTypeOK
    <2>2. CASE ~ticker.fired
      <3>1. ticker'.fired <=> ticker.left = 1
        BY <2>2 DEF Elapse, BackoffTypeOK
      <3>2. ticker.left # 1 => ticker'.left = ticker.left - 1
        BY DEF Elapse
      <3> QED BY <2>2, <3>1, <3>2 DEF UntilTick, BackoffTypeOK
    <2> QED BY <2>1, <2>2
  <1>4. pass.pc = "idle" => UntilTick >= 1
    BY TimeTypes DEF UntilTick, Elapse, BackoffTypeOK
  <1>5. /\ Waiting' => Waiting /\ row'.wait = row.wait - 1
        /\ row.wait \in Nat \cup {None} /\ row'.wait \in Nat \cup {None}
        /\ Waiting /\ ~Waiting' => row.wait = 1
        /\ Waiting => row.wait \in Nat
    BY TimeTypes DEF Waiting, Elapse, BackoffTypeOK, Retry
  <1>6. ComesToIt => ComesToIt'
    BY <1>1, <1>5, TimeTypes DEF ComesToIt, Due, Elapse, BackoffTypeOK, Retry
  <1>7. ComesToIt' => pass'.pc # "idle"
    BY DEF ComesToIt
  <1>9. /\ pass.pc # "idle" => LeftOfPass >= 1
        /\ pass.pc = "idle" => LeftOfPass = 0
    BY TimeTypes DEF LeftOfPass, Elapse, BackoffTypeOK
  <1>10. UntilAttempt' <= UntilAttempt - 1
    <2>1. CASE ComesToIt
      BY <1>0, <1>1, <1>2, <1>6, <1>7, <1>9, <2>1, <1>d DEF Distances
    <2>2. CASE ~ComesToIt /\ Waiting
      BY <1>0, <1>1, <1>2, <1>3, <1>5, <1>7, <1>9, <2>2, <1>d,
         TimeTypes DEF Distances
    <2>3. CASE ~ComesToIt /\ ~Waiting
      BY <1>0, <1>1, <1>2, <1>3, <1>4, <1>5, <1>7, <1>9, <2>3, <1>d,
         TimeTypes DEF Distances
    <2> QED BY <2>1, <2>2, <2>3
  <1> QED
    BY <1>0, <1>10, <1>d DEF Distances, InReach

(* The steps of the goroutine take no time and do not put the attempt off. *)
LEMMA StepsInReach ==
    BackoffTypeOK /\ CopyStands /\ InReach
        /\ (Hear \/ List \/ Skip \/ EndPass \/ Requeue) => InReach'
  <1> SUFFICES ASSUME BackoffTypeOK, CopyStands, InReach,
                      Hear \/ List \/ Skip \/ EndPass \/ Requeue
               PROVE  InReach'
    OBVIOUS
  <1>0. BackoffTypeOK' /\ latest' = latest /\ latest \in Int
    BY TypesKept DEF Next, Hear, List, Skip, EndPass, Requeue, BackoffTypeOK
  <1>d. Distances /\ Distances'
    BY <1>0, DistancesHold, PTL
  <1> SUFFICES UntilAttempt' <= UntilAttempt
    BY <1>0, <1>d DEF Distances, InReach
  <1>1. CASE Hear
    <2>1. /\ UntilTick = 0 /\ LeftOfPass = 0 /\ LeftOfPass' = MaxBusy
          /\ ~ComesToIt /\ (ComesToIt' <=> ~Waiting)
          /\ (Waiting' <=> Waiting) /\ row' = row
      BY <1>1, TimeTypes DEF Hear, Goto, UntilTick, LeftOfPass, ComesToIt,
         Waiting, BackoffTypeOK
    <2> QED BY <1>0, <2>1, <1>d, TimeTypes DEF Distances
  <1>2. CASE List \/ Skip
    <2>1. /\ LeftOfPass' = LeftOfPass /\ UntilTick' = UntilTick
          /\ (Waiting' <=> Waiting) /\ row' = row
      BY <1>2 DEF List, Skip, Goto, LeftOfPass, UntilTick, Waiting,
         BackoffTypeOK
    <2>2. ComesToIt' <=> ComesToIt
      BY <1>2, <2>1 DEF List, Skip, Goto, Due, ComesToIt, Waiting,
         BackoffTypeOK
    <2> QED BY <1>0, <2>1, <2>2, <1>d DEF Distances
  <1>3. CASE EndPass
    <2>1. /\ LeftOfPass' = 0 /\ UntilTick' = UntilTick
          /\ (Waiting' <=> Waiting) /\ row' = row /\ ~ComesToIt /\ ~ComesToIt'
      BY <1>3 DEF EndPass, LeftOfPass, UntilTick, Waiting, ComesToIt
    <2>2. CASE Waiting
      BY <2>1, <2>2, <1>d DEF Distances
    <2>3. CASE ~Waiting
      BY <2>1, <2>3, <1>d, TimeTypes DEF Distances
    <2> QED BY <2>2, <2>3
  <1>4. CASE Requeue
    <2>1. LeftOfPass' = LeftOfPass /\ ComesToIt /\ ComesToIt'
      BY <1>4 DEF Requeue, Goto, LeftOfPass, ComesToIt, Waiting, BackoffTypeOK,
         Retry
    <2> QED BY <1>0, <2>1, <1>d DEF Distances
  <1> QED BY <1>1, <1>2, <1>3, <1>4

(* Those that set the deadline anew leave time enough. *)
LEMMA ResultsInReach ==
    BackoffTypeOK /\ CopyStands /\ InReach
        /\ (Attempt \/ Succeed \/ Fail \/ Restart) => InReach'
  <1> SUFFICES ASSUME BackoffTypeOK, CopyStands, InReach,
                      Attempt \/ Succeed \/ Fail \/ Restart
               PROVE  InReach'
    OBVIOUS
  <1>0. BackoffTypeOK'
    BY TypesKept DEF Next
  <1>d. Distances /\ Distances'
    BY <1>0, DistancesHold, PTL
  <1>1. CASE Attempt \/ Restart
    <2>1. ComesToIt' /\ latest' >= MaxBusy /\ latest' \in Int
      BY <1>0, <1>1, TimeTypes DEF Attempt, Restart, Goto, ComesToIt,
         BackoffTypeOK
    <2> QED BY <2>1, <1>d, TimeTypes DEF Distances, InReach
  <1>2. CASE Succeed
    <2>1. ~ComesToIt' /\ ~Waiting' /\ latest' = OneMorePass
      BY <1>2 DEF Succeed, Goto, Clear, ComesToIt, Waiting, BackoffTypeOK
    <2>2. UntilAttempt' <= OneMorePass
      BY <2>1, <1>d DEF Distances
    <2> QED BY <2>1, <2>2 DEF InReach
  <1>3. CASE Fail
    <2>1. copy.failures + 1 \in Nat \ {0}
      BY DEF BackoffTypeOK, Retry
    <2>2. /\ RetryDelay(copy.failures + 1) = Documented(copy.failures + 1)
          /\ Documented(copy.failures + 1) \in Nat \ {0}
      BY <2>1, DelayIsDocumented, DelayBounds
    <2>3. ~ComesToIt' /\ Waiting' /\ latest' = row'.wait + OneMorePass
      BY <1>3, <2>2, TimeTypes DEF Fail, Goto, ComesToIt, Waiting, BackoffTypeOK
    <2> QED BY <2>3, <1>d DEF Distances, InReach
  <1> QED BY <1>1, <1>2, <1>3

(* And so do those that go wrong, and the handlers. *)
LEMMA MishapsInReach ==
    BackoffTypeOK /\ CopyStands /\ InReach
        /\ (StoreError \/ Change \/ RequeueFails) => InReach'
  <1> SUFFICES ASSUME BackoffTypeOK, CopyStands, InReach,
                      StoreError \/ Change \/ RequeueFails
               PROVE  InReach'
    OBVIOUS
  <1>0. BackoffTypeOK' /\ latest \in Int /\ OneMorePass \in Int
    BY TypesKept, TimeTypes DEF Next, BackoffTypeOK
  <1>d. Distances /\ Distances'
    BY <1>0, DistancesHold, PTL
  <1>1. CASE StoreError
    <2>1. /\ ~ComesToIt' /\ (Waiting' <=> Waiting) /\ row' = row
          /\ Waiting => ~ComesToIt /\ row.wait \in Nat
      BY <1>1, TimeTypes DEF StoreError, Goto, ComesToIt, Waiting, Due,
         CopyStands, BackoffTypeOK, Retry
    <2>2. latest' >= latest /\ latest' >= OneMorePass /\ latest' \in Int
      BY <1>0, <1>1, MinMaxOfTwo DEF StoreError
    <2>3. CASE Waiting
      BY <1>0, <2>1, <2>2, <2>3, <1>d DEF Distances, InReach
    <2>4. CASE ~Waiting
      <3>1. UntilAttempt' \in Nat /\ UntilAttempt' <= OneMorePass
        BY <2>1, <2>4, <1>d DEF Distances
      <3> QED BY <1>0, <2>2, <3>1 DEF InReach
    <2> QED BY <2>3, <2>4
  <1>2. CASE Change
    <2>1. /\ ~Waiting' /\ (ComesToIt => ComesToIt')
          /\ LeftOfPass' = LeftOfPass /\ UntilTick' = UntilTick
      BY <1>2 DEF Change, Clear, ComesToIt, Waiting, Due, LeftOfPass, UntilTick
    <2>2. latest' = IF latest <= OneMorePass THEN latest ELSE OneMorePass
      BY <1>0, <1>2, MinMaxOfTwo DEF Change
    <2>3. UntilAttempt' <= OneMorePass
      BY <2>1, <1>d, TimeTypes DEF Distances
    <2>4. UntilAttempt' <= UntilAttempt
      <3>1. CASE ComesToIt
        BY <2>1, <3>1, <1>d DEF Distances
      <3>2. CASE ~ComesToIt /\ Waiting
        <4>1. UntilAttempt = row.wait + OneMorePass /\ row.wait \in Nat
          BY <3>2, <1>d DEF Distances, Waiting, BackoffTypeOK, Retry
        <4>2. UntilAttempt' \in Nat
          BY <1>d DEF Distances
        <4> QED BY <2>3, <4>1, <4>2, TimeTypes
      <3>3. CASE ~ComesToIt /\ ~Waiting
        BY <2>1, <3>3, <1>d, TimeTypes DEF Distances
      <3> QED BY <3>1, <3>2, <3>3
    <2> QED
      BY <1>0, <2>2, <2>3, <2>4, <1>d DEF Distances, InReach
  <1>3. CASE RequeueFails
    <2>1. /\ ComesToIt /\ (ComesToIt' <=> ~Waiting) /\ (Waiting' <=> Waiting)
          /\ LeftOfPass' = LeftOfPass /\ row' = row
      BY <1>3 DEF RequeueFails, Goto, ComesToIt, Waiting, LeftOfPass,
         BackoffTypeOK
    <2>2. latest' = IF row.wait = None THEN latest ELSE row.wait + OneMorePass
      BY <1>3 DEF RequeueFails
    <2>3. row.wait # None => row.wait \in Nat
      BY DEF BackoffTypeOK, Retry
    <2>4. CASE row.wait = None
      BY <1>0, <2>1, <2>2, <2>4, <1>d DEF Distances, InReach, Waiting
    <2>5. CASE row.wait = 0
      BY <2>1, <2>2, <2>5, <1>d, TimeTypes DEF Distances, InReach, Waiting
    <2>6. CASE Waiting
      BY <2>1, <2>2, <2>3, <2>6, <1>d, TimeTypes DEF Distances, InReach, Waiting
    <2> QED BY <2>4, <2>5, <2>6 DEF Waiting
  <1> QED BY <1>1, <1>2, <1>3

-----------------------------------------------------------------------------
THEOREM ScheduleCorrect == Spec => []BackoffInv
  <1>1. Init => BackoffInv
    <2> SUFFICES ASSUME Init PROVE BackoffInv
      OBVIOUS
    <2>1. BackoffTypeOK
      BY TimeTypes DEF Init, Clear, BackoffTypeOK, Retry, Points
    <2>2. ComesToIt /\ latest = MaxBusy
      BY DEF Init, ComesToIt
    <2>3. InReach
      BY <2>1, <2>2, DistancesHold, TimeTypes DEF Distances, InReach
    <2> QED
      BY <2>1, <2>3 DEF Init, Clear, BackoffInv, WaitsForFailures, CopyStands,
         Respected
  <1>2. BackoffInv /\ [Next]_vars => BackoffInv'
    <2> SUFFICES ASSUME BackoffInv, [Next]_vars PROVE BackoffInv'
      OBVIOUS
    <2>1. /\ BackoffTypeOK' /\ WaitsForFailures' /\ CopyStands' /\ Respected'
      BY TypesKept, ExplainedKept, CopyKept, RespectKept DEF BackoffInv
    <2>2. CASE Next
      BY <2>1, <2>2, ElapseInReach, StepsInReach, ResultsInReach, MishapsInReach
      DEF BackoffInv, Next
    <2>3. CASE UNCHANGED vars
      <3>1. InReach'
        BY <2>3 DEF vars, BackoffInv, InReach, UntilAttempt, ComesToIt, Due,
           Waiting, LeftOfPass, UntilTick
      <3> QED BY <2>1, <3>1 DEF BackoffInv
    <2> QED BY <2>2, <2>3
  <1> QED
    BY <1>1, <1>2, PTL DEF Spec

(* However passes, changes, lost ticks and restarts follow each other, the
   deadline for the next attempt is never missed. *)
THEOREM InTimeCorrect == Spec => []InTime
  <1>1. BackoffInv => InTime
    BY DistancesHold DEF BackoffInv, BackoffTypeOK, InReach, Distances, InTime
  <1> QED
    BY <1>1, ScheduleCorrect, PTL

(* Whoever has written the row, it waits no longer than its count explains. *)
THEOREM WaitsCorrect == Spec => []WaitsForFailures
  <1>1. BackoffInv => WaitsForFailures
    BY DEF BackoffInv
  <1> QED
    BY <1>1, ScheduleCorrect, PTL

(* No attempt is made while the delay of the last failure runs. *)
THEOREM NeverEarlyCorrect == Spec => NeverEarly
  <1>1. BackoffInv /\ [Next]_vars
            => [pass.pc = "turn" /\ pass'.pc = "attempt" => earliest = 0]_vars
    <2> SUFFICES ASSUME BackoffInv, Next,
                        pass.pc = "turn", pass'.pc = "attempt"
                 PROVE  earliest = 0
      OBVIOUS
    <2>1. Attempt
      BY DEF Next, Elapse, Hear, List, Skip, Succeed, Fail, EndPass, Requeue,
         RequeueFails, StoreError, Change, Restart, Goto, BackoffInv,
         BackoffTypeOK
    <2> QED
      BY <2>1, TimeTypes DEF Attempt, Due, BackoffInv, Respected, BackoffTypeOK
  <1> QED
    BY <1>1, ScheduleCorrect, PTL DEF Spec, NeverEarly

(* Nothing puts the deadline off by more than the cap: no sequence of
   failures, changes, failing requeues and restarts keeps a tunnel waiting for
   longer than five minutes and the pass after them (README.md: retried with
   capped exponential backoff). *)
THEOREM WithinCap == Spec => [](latest <= FiveMinutes + OneMorePass)
  <1> DEFINE Capped == latest <= FiveMinutes + OneMorePass
  <1>0. FiveMinutes \in Nat
    BY DEF FiveMinutes
  <1>1. Init => Capped
    BY <1>0, TimeTypes DEF Init
  <1>2. BackoffInv /\ Capped /\ [Next]_vars => Capped'
    <2> SUFFICES ASSUME BackoffInv, Capped, [Next]_vars PROVE Capped'
      OBVIOUS
    <2> USE <1>0, TimeTypes DEF BackoffInv, BackoffTypeOK
    <2>1. CASE Elapse
      BY <2>1 DEF Elapse
    <2>2. CASE Attempt \/ Succeed \/ Restart
      BY <2>2 DEF Attempt, Succeed, Restart
    <2>3. CASE Fail
      <3>1. Documented(copy.failures + 1) \in 1..FiveMinutes
        BY DelayBounds DEF Retry
      <3> QED BY <2>3, <3>1 DEF Fail
    <2>4. CASE StoreError \/ Change
      <3>1. /\ Max({latest, OneMorePass}) \in {latest, OneMorePass}
            /\ Min({latest, OneMorePass}) \in {latest, OneMorePass}
        BY MinMaxOfTwo
      <3>2. latest' \in {latest, OneMorePass}
        BY <2>4, <3>1 DEF StoreError, Change
      <3> QED BY <3>2
    <2>5. CASE RequeueFails
      <3>1. row.wait # None => row.wait \in Nat /\ row.wait <= FiveMinutes
        BY DelayBounds DEF WaitsForFailures, Retry
      <3> QED BY <2>5, <3>1 DEF RequeueFails
    <2>6. CASE UNCHANGED latest
      BY <2>6
    <2> QED
      BY <2>1, <2>2, <2>3, <2>4, <2>5, <2>6
      DEF Next, vars, Hear, List, Skip, EndPass, Requeue
  <1> QED
    BY <1>1, <1>2, ScheduleCorrect, PTL DEF Spec
=============================================================================
