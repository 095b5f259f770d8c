------------------------------- MODULE Backoff -------------------------------
(***************************************************************************)
(* Retry-delay arithmetic of the supervisor (supervisor/core_proc.rs and   *)
(* supervisor/mod.rs).  Durations are natural numbers of milliseconds for  *)
(* the Core and of seconds for the per-peer dial backoff.  Every function  *)
(* is pure; the modules that model the supervisor apply them to its state. *)
(***************************************************************************)
EXTENDS Integers

CONSTANTS
    MIN_BACKOFF,           \* first retry delay of the Core
    MAX_BACKOFF,           \* cap of the exponential backoff, server role
    CLIENT_MAX_BACKOFF,    \* cap of the exponential backoff, client role
    MAX_FAST_FAILS,        \* failures that open the circuit breaker
    CIRCUIT_BREAKER_MIN,   \* first cooldown of an open circuit breaker
    CIRCUIT_BREAKER_MAX,   \* cap of the cooldown
    U32_MAX                \* where the failure counter saturates

ASSUME BackoffAssumption ==
    /\ MIN_BACKOFF \in Nat \ {0}
    /\ CLIENT_MAX_BACKOFF \in Nat
    /\ MAX_BACKOFF \in Nat
    /\ MIN_BACKOFF <= CLIENT_MAX_BACKOFF
    /\ CLIENT_MAX_BACKOFF <= MAX_BACKOFF
    /\ MAX_FAST_FAILS \in Nat \ {0}
    /\ CIRCUIT_BREAKER_MIN \in Nat
    /\ CIRCUIT_BREAKER_MAX \in Nat
    /\ MAX_BACKOFF <= CIRCUIT_BREAKER_MIN
    /\ CIRCUIT_BREAKER_MIN <= CIRCUIT_BREAKER_MAX
    /\ U32_MAX \in Nat
    /\ MAX_FAST_FAILS <= U32_MAX

Roles == {"Client", "Server"}

Lesser(a, b) == IF a <= b THEN a ELSE b

\* The failure counter: u32::saturating_add(1).
SaturatingIncr(n) == Lesser(n + 1, U32_MAX)

\* Mutant of BackoffCap: a client backs off like a server.
OneCapForAll(role) == MAX_BACKOFF

\* restart_backoff: the cap of a role, the delay to use now and the backoff
\* to remember for the next failure.
BackoffCap(role) == IF role = "Client" THEN CLIENT_MAX_BACKOFF ELSE MAX_BACKOFF

RestartDelay(backoff, role) == Lesser(backoff, BackoffCap(role))

NextBackoff(backoff, role) ==
    Lesser(2 * RestartDelay(backoff, role), BackoffCap(role))

\* circuit_breaker_delay: 60 s doubled per further failure, at most three
\* times, and never beyond the cap.
Doublings == <<1, 2, 4, 8>>

CircuitBreakerDelay(failures) ==
    Lesser(CIRCUIT_BREAKER_MIN * Doublings[1 + Lesser(failures - MAX_FAST_FAILS, 3)],
           CIRCUIT_BREAKER_MAX)

\* schedule_restart: the delay armed after `failures` consecutive failures.
ScheduledDelay(failures, backoff, role) ==
    IF failures >= MAX_FAST_FAILS
    THEN CircuitBreakerDelay(failures)
    ELSE RestartDelay(backoff, role)
=============================================================================
