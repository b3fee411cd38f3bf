------------------------------- MODULE Limits -------------------------------
(***************************************************************************)
(* What is spent is bounded three ways: units per repository and hour      *)
(* (BudgetService) and triggers per actor and day (ActorQuotaService),     *)
(* each asking a ledger for what was spent and then adding to it, and      *)
(* tokens of a bucket (RateLimiter), taken without an await.               *)
(*                                                                         *)
(* The two ledgers differ in their key, their limit and what a refusal     *)
(* does; a period is an hour of one and a day of the other.                *)
(***************************************************************************)
EXTENDS Integers, FiniteSets, FiniteSetsExt

CONSTANTS
    Ledgers,        \* {"budget", "quota"}
    Limit,          \* [Ledgers -> Nat]: units per period
    Spenders,       \* callers of consume at the same time
    MaxUnits,       \* most units one call asks of the budget
    Capacity,       \* of the bucket
    RefillPerTick,  \* tokens the bucket gains per tick of the clock
    Periods,        \* bound: hours and days that pass
    MaxClock,       \* bound: the wall clock's last tick
    MaxCalls        \* bound: calls of consume, and of take

ASSUME LimitAssumption ==
    /\ Capacity \in Nat /\ RefillPerTick \in Nat /\ MaxUnits \in Nat \ {0}
    /\ Limit \in [Ledgers -> Nat]
    /\ Periods \in Nat \ {0}
    /\ IsFiniteSet(Spenders) /\ Spenders # {}
    /\ MaxClock \in Nat /\ MaxCalls \in Nat

VARIABLES
    period,     \* the current one
    spent,      \* [Ledgers -> [periods -> units]]
    spender,    \* per spender: the call it is in
    exhausted,  \* budget.exhausted events: the periods they are about
    clock,      \* Date.now, which may step back
    bucket,     \* tokens and time of the last refill, in ticks
    granted,    \* history: tokens take() granted
    latest,     \* history: the highest the clock stood when take() looked at it
    calls

limitVars == <<period, spent, spender, exhausted, clock, bucket, granted, latest, calls>>

bucketVars == <<clock, bucket, granted, latest>>
NotSpending == [pc |-> "not_spending"]

LimitInit ==
    /\ period = 1
    /\ spent = [l \in Ledgers |-> [p \in 1 .. Periods |-> 0]]
    /\ spender = [s \in Spenders |-> NotSpending]
    /\ exhausted = {}
    /\ clock = 0 /\ bucket = [tokens |-> Capacity, lastRefill |-> 0]
    /\ granted = 0 /\ latest = 0 /\ calls = 0

-----------------------------------------------------------------------------

Spends(s, call) == spender' = [spender EXCEPT ![s] = call]

(* The quota always asks for one. *)
UnitsOf(ledger) == IF ledger = "quota" THEN {1} ELSE 1 .. MaxUnits

(* consume takes its period from the clock before it awaits anything. *)
AskToSpend(s) ==
    /\ spender[s] = NotSpending
    /\ calls < MaxCalls
    /\ calls' = calls + 1
    /\ \E ledger \in Ledgers : \E units \in UnitsOf(ledger) :
         Spends(s, [pc |-> "check", ledger |-> ledger, units |-> units, period |-> period])
    /\ UNCHANGED <<period, spent, exhausted, bucketVars>>

Fits_Mutant(prior, units, limit) == prior <= limit

Fits(prior, units, limit) == prior + units <= limit

(* getHour, getQuotaDay. *)
CheckSpent(s) ==
    /\ spender[s].pc = "check"
    /\ LET call == spender[s]
           prior == spent[call.ledger][call.period]
       IN Spends(s, IF Fits(prior, call.units, Limit[call.ledger])
                    THEN [call EXCEPT !.pc = "consume"]
                    ELSE IF call.ledger = "quota" THEN [call EXCEPT !.pc = "publish"]
                    ELSE NotSpending)
    /\ UNCHANGED <<period, spent, exhausted, bucketVars, calls>>

(* The ledger adds to the row, whatever it has become. *)
ConsumeUnits(s) ==
    /\ spender[s].pc = "consume"
    /\ spent' = [spent EXCEPT ![spender[s].ledger][spender[s].period] = @ + spender[s].units]
    /\ Spends(s, NotSpending)
    /\ UNCHANGED <<period, exhausted, bucketVars, calls>>

PublishExhausted(s) ==
    /\ spender[s].pc = "publish"
    /\ exhausted' = exhausted \union {spender[s].period}
    /\ Spends(s, NotSpending)
    /\ UNCHANGED <<period, spent, bucketVars, calls>>

NextPeriod ==
    /\ period < Periods
    /\ period' = period + 1
    /\ UNCHANGED <<spent, spender, exhausted, bucketVars, calls>>

-----------------------------------------------------------------------------

Refill_Mutant(b, now) ==
    IF now <= b.lastRefill THEN b
    ELSE [tokens |-> b.tokens + ((now - b.lastRefill) * RefillPerTick), lastRefill |-> now]

(* refill: nothing while the clock is behind the last refill. *)
Refill(b, now) ==
    IF now <= b.lastRefill THEN b
    ELSE [tokens |-> Min({Capacity, b.tokens + ((now - b.lastRefill) * RefillPerTick)}),
          lastRefill |-> now]

TakeToken ==
    /\ calls < MaxCalls
    /\ calls' = calls + 1
    /\ \E n \in 1 .. MaxUnits :
         LET b == Refill(bucket, clock)
         IN IF b.tokens >= n
            THEN bucket' = [b EXCEPT !.tokens = @ - n] /\ granted' = granted + n
            ELSE bucket' = b /\ UNCHANGED granted
    /\ latest' = Max({latest, clock})
    /\ UNCHANGED <<period, spent, spender, exhausted, clock>>

ClockMoves ==
    /\ clock' \in {clock - 1, clock + 1} \intersect 0 .. MaxClock
    /\ UNCHANGED <<period, spent, spender, exhausted, bucket, granted, latest, calls>>

LimitNext ==
    \/ \E s \in Spenders : \/ AskToSpend(s) \/ CheckSpent(s) \/ ConsumeUnits(s)
                           \/ PublishExhausted(s)
    \/ NextPeriod \/ TakeToken \/ ClockMoves

LimitSpec == LimitInit /\ [][LimitNext]_limitVars

-----------------------------------------------------------------------------

LimitTypeOK ==
    /\ period \in 1 .. Periods /\ clock \in 0 .. MaxClock /\ calls \in 0 .. MaxCalls
    /\ spent \in [Ledgers -> [1 .. Periods -> Nat]]
    /\ bucket.tokens \in 0 .. Capacity /\ bucket.lastRefill \in 0 .. MaxClock
    /\ exhausted \subseteq 1 .. Periods

(* budget-service.ts, actor-quota-service.ts, rate-limiter.ts: callers that *)
(* check at the same time may all be admitted, but a period is overrun by   *)
(* less than what the others of them asked for; an actor is told of an      *)
(* exhausted quota only when it was; and the bucket never grants more than  *)
(* it held and gained by the latest time it saw, the clock stepping back or *)
(* not.                                                                     *)
OverrunIsBounded ==
    /\ \A l \in Ledgers, p \in 1 .. Periods :
         spent[l][p] <= Limit[l] + (Cardinality(Spenders) - 1) * Max(UnitsOf(l))
    /\ \A p \in exhausted : spent["quota"][p] >= Limit["quota"]
    /\ granted <= Capacity + latest * RefillPerTick

=============================================================================
