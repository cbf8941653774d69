------------------------------ MODULE Backoff ------------------------------
(***************************************************************************)
(* When the controller attempts a tunnel: Run, ReconcileAll, the skip at   *)
(* the head of ReconcileOne and fail of internal/controller/reconciler.go, *)
(* with time, which ControlPlane leaves out.  One tunnel; the others of a  *)
(* pass only take time.  Time passes in units of five seconds, the delay   *)
(* after a first failure; retry_at is kept as the time left until it.      *)
(***************************************************************************)
EXTENDS Integers, FiniteSetsExt

CONSTANTS
    Interval,       \* of the ticker
    MaxBusy,        \* bound: the longest that a pass, or a start, takes
    MaxFailures,    \* bound on failures in a row
    None

ASSUME BackoffAssumption ==
    /\ {Interval, MaxFailures} \subseteq Nat \ {0}
    /\ MaxBusy \in Nat
    /\ None \notin Int

VARIABLES
    row,        \* failure_count, and the time left until retry_at
    copy,       \* the row as the pass has listed it
    pass,       \* where the goroutine is, and for how long it has been busy
    ticker,     \* time until it fires; whether it has fired unheard
    earliest,   \* history: time for which the tunnel is to be left alone
    latest      \* history: time within which it is to be attempted

vars == <<row, copy, pass, ticker, earliest, latest>>

FiveMinutes == 60

(* The loop of retryDelay: the delay once i has reached a value. *)
Doubled[i \in Nat] ==
    IF i <= 1 THEN 1
    ELSE IF Doubled[i - 1] < FiveMinutes THEN 2 * Doubled[i - 1]
                                         ELSE Doubled[i - 1]

RetryDelay_Unclamped(failures) == IF failures < 1 THEN 0 ELSE Doubled[failures]

RetryDelay(failures) ==
    IF failures < 1 THEN 0 ELSE Min({Doubled[failures], FiveMinutes})

(* 5 seconds, 10 seconds, 20 seconds, continuing to a maximum of 5 minutes
   (architecture.md): what the history goes by. *)
Increasing == <<1, 2, 4, 8, 16, 32>>

Documented(failures) ==
    IF failures \in DOMAIN Increasing THEN Increasing[failures] ELSE FiveMinutes

Clear == [failures |-> 0, wait |-> None]

Passing(time) == IF time \in {None, 0} THEN time ELSE time - 1

(* The pass under way may have gone by the tunnel, the next one attempts it:
   a pass starts with the tick after the start of the one before, or at its
   end if that is later, and may come to the tunnel last. *)
OneMorePass == Max({Interval, MaxBusy}) + MaxBusy

Goto(pc) == pass' = [pass EXCEPT !.pc = pc]

-----------------------------------------------------------------------------
(* A pass, and its start, end in time; a tick that is due is heard at once
   by a goroutine that waits for it. *)
Elapse ==
    /\ IF pass.pc = "idle" THEN ~ticker.fired ELSE pass.busy < MaxBusy
    /\ row' = [row EXCEPT !.wait = Passing(@)]
    /\ copy' = [copy EXCEPT !.wait = Passing(@)]
    /\ pass' = [pass EXCEPT !.busy = IF pass.pc = "idle" THEN 0 ELSE @ + 1]
    /\ ticker' = [left |-> IF ticker.left = 1 THEN Interval ELSE ticker.left - 1,
                  fired |-> ticker.fired \/ ticker.left = 1]
    /\ earliest' = Passing(earliest)
    /\ latest' = latest - 1

(* <-ticker.C: its channel holds one tick, further ones are dropped. *)
Hear ==
    /\ pass.pc = "idle"
    /\ ticker.fired
    /\ ticker' = [ticker EXCEPT !.fired = FALSE]
    /\ Goto("list")
    /\ UNCHANGED <<row, copy, earliest, latest>>

List ==
    /\ pass.pc = "list"
    /\ copy' = row
    /\ Goto("turn")
    /\ UNCHANGED <<row, ticker, earliest, latest>>

Due == copy.wait \in {None, 0}

Skip ==
    /\ pass.pc = "turn"
    /\ ~Due
    /\ Goto("rest")
    /\ UNCHANGED <<row, copy, ticker, earliest, latest>>

Attempt_Always ==
    /\ pass.pc = "turn"
    /\ Goto("attempt")
    /\ latest' = OneMorePass
    /\ UNCHANGED <<row, copy, ticker, earliest>>

(* An attempt that ends without a write leaves the row to the next pass. *)
Attempt ==
    /\ pass.pc = "turn"
    /\ Due
    /\ Goto("attempt")
    /\ latest' = OneMorePass
    /\ UNCHANGED <<row, copy, ticker, earliest>>

(* mark of a tunnel observed up or down *)
Succeed ==
    /\ pass.pc = "attempt"
    /\ row' = Clear
    /\ Goto("rest")
    /\ earliest' = 0
    /\ latest' = OneMorePass
    /\ UNCHANGED <<copy, ticker>>

(* fail counts on from the copy, whatever the row has become since.  The mark
   before it, of an unhealthy observation, is left out: it writes the copy
   back, which was due, and so holds up no attempt. *)
Fail ==
    /\ pass.pc = "attempt"
    /\ copy.failures < MaxFailures
    /\ LET failures == copy.failures + 1
       IN  /\ row' = [failures |-> failures, wait |-> RetryDelay(failures)]
           /\ earliest' = Documented(failures)
           /\ latest' = Documented(failures) + OneMorePass
    /\ Goto("rest")
    /\ UNCHANGED <<copy, ticker>>

EndPass ==
    /\ pass.pc = "rest"
    /\ pass' = [pc |-> "idle", busy |-> 0]
    /\ copy' = Clear
    /\ UNCHANGED <<row, ticker, earliest, latest>>

-----------------------------------------------------------------------------
(* A statement fails: no list, no attempt, or an attempt without a result. *)
StoreError ==
    /\ pass.pc \in {"list", "turn", "attempt"}
    /\ Goto("rest")
    /\ latest' = Max({latest, OneMorePass})
    /\ UNCHANGED <<row, copy, ticker, earliest>>

(* A handler has changed the tunnel. *)
Change ==
    /\ row' = Clear
    /\ earliest' = 0
    /\ latest' = Min({latest, OneMorePass})
    /\ UNCHANGED <<copy, pass, ticker>>

(* The process ends and is started: Run makes a new ticker. *)
Restart ==
    /\ pass' = [pc |-> "boot", busy |-> 0]
    /\ copy' = Clear
    /\ ticker' = [left |-> Interval, fired |-> FALSE]
    /\ latest' = MaxBusy
    /\ UNCHANGED <<row, earliest>>

Requeue_KeepsRetry ==
    /\ pass.pc = "boot"
    /\ Goto("list")
    /\ earliest' = 0
    /\ UNCHANGED <<row, copy, ticker, latest>>

(* RequeueInterruptedOperations drops the backoff and keeps the count; the
   first pass follows without a tick. *)
Requeue ==
    /\ pass.pc = "boot"
    /\ row' = [row EXCEPT !.wait = None]
    /\ Goto("list")
    /\ earliest' = 0
    /\ UNCHANGED <<copy, ticker, latest>>

RequeueFails ==
    /\ pass.pc = "boot"
    /\ Goto("list")
    /\ latest' = IF row.wait = None THEN latest ELSE row.wait + OneMorePass
    /\ UNCHANGED <<row, copy, ticker, earliest>>

-----------------------------------------------------------------------------
Init ==
    /\ row = Clear
    /\ copy = Clear
    /\ pass = [pc |-> "boot", busy |-> 0]
    /\ ticker = [left |-> Interval, fired |-> FALSE]
    /\ earliest = 0
    /\ latest = MaxBusy

Next ==
    \/ Elapse
    \/ Hear \/ List \/ Skip \/ Attempt \/ Succeed \/ Fail \/ EndPass
    \/ Requeue \/ RequeueFails
    \/ StoreError \/ Change \/ Restart

Spec == Init /\ [][Next]_vars

-----------------------------------------------------------------------------
(* After a failure the tunnel is left alone for the whole delay, unless it is
   changed or the process restarted, although the skip is decided on a copy
   (README.md: retried with capped exponential backoff). *)
NeverEarly == [][pass.pc = "turn" /\ pass'.pc = "attempt" => earliest = 0]_vars

(* And no longer: when the delay is over, the next pass attempts it; a pass
   attempts one that is well; a change is taken up by the next pass, unless
   the failure of an attempt under way is written over it; and a restart
   attempts at once what was in backoff (sqlite.go: reconcile the desired
   state immediately). *)
InTime == latest >= 0

(* No row waits for longer than its count of failures explains, whatever
   changes, restarts and lost write-backs came before. *)
WaitsForFailures ==
    row.wait # None => row.failures > 0 /\ row.wait <= Documented(row.failures)
=============================================================================
