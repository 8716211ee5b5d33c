------------------------- MODULE InvocationService --------------------------
(* A logical request to the LLM providers: admission of the candidates of a   *)
(* route, the retry loop of runAdmittedExecution over their attempt states,   *)
(* the availability that all invocations of the process share, suspension for *)
(* compaction and the pinned request after a refusal.  Time is kept as what   *)
(* is left of each delay; a delay that is over is 0.  Requests, bytes and     *)
(* credentials are data.                                                      *)
EXTENDS Integers, FiniteSets, FiniteSetsExt

CONSTANTS Route,         \* number of candidates of the route
          MaxRetries,    \* MAX_INVOCATION_RECOVERY_RETRIES
          Recovery,      \* INVOCATION_RECOVERY_DELAY_MS
          Rates,         \* delays asked for by rate limits
          FirstBackoff,  \* first delay after an overload
          LastBackoff,   \* its cap
          Block,         \* availability block after an authentication failure
          Timeout,       \* LLM_UNAVAILABILITY_TIMEOUT_MS
          MaxOverloads,  \* bound: overload answers
          MaxOthers      \* bound: outcomes of other invocations

InvocationAssumption ==
  /\ {Route, Recovery, FirstBackoff, LastBackoff, Timeout, Block} \subseteq Nat \ {0}
  /\ Rates \subseteq Nat \ {0} /\ {MaxRetries, MaxOverloads, MaxOthers} \subseteq Nat

Candidates == 1..Route

VARIABLES mode,       \* ordinary or pinned
          pc,
          rec,        \* attempt state of each candidate
          avail,      \* availability of each candidate
          left,       \* time to the deadline
          cur,        \* candidate of the call in flight
          wake,       \* time to the end of the wait
          mandatory,  \* mandatoryFirst, 0 when none
          recovery,   \* recoveryMode
          calls,      \* provider attempts made
          settled,    \* exchanges retained
          overloads, others

vars == <<mode, pc, rec, avail, left, cur, wake, mandatory, recovery, calls, settled, overloads, others>>

-----------------------------------------------------------------------------
(* MemoryCandidateAvailability *)

Healthy == [until |-> 0, reason |-> "healthy"]
Available(c) == avail[c].reason = "healthy" \/ avail[c].until = 0
Waitable(c) == avail[c].reason = "waitable"

\* markFailed: a failure does not shorten a block.
MarkFailed(c, until, reason) ==
  [until |-> IF avail[c].reason # "healthy" THEN Max({until, avail[c].until}) ELSE until, reason |-> reason]

-----------------------------------------------------------------------------
(* Attempt states *)

Untried == [kind |-> "untried", wait |-> "none", until |-> 0, finite |-> 0, delay |-> FirstBackoff]
Absent == [Untried EXCEPT !.kind = "exhausted"]

Overload(r) == r.kind \in {"waiting", "ready"} /\ r.wait = "overload"

\* The deadline ends every wait but that for an overloaded candidate.
Expires(r) == left = 0 /\ ~Overload(r) /\ r.kind \in {"waiting", "ready", "unavailable"}

\* refreshRecordStates for one record.
Refreshed(c) ==
  LET noticed == IF mode = "ordinary" /\ rec[c].kind = "untried" /\ ~Available(c) /\ Waitable(c)
                   THEN [rec[c] EXCEPT !.kind = "unavailable", !.until = avail[c].until] ELSE rec[c]
  IN IF Expires(noticed) THEN [noticed EXCEPT !.kind = "exhausted", !.wait = "none"]
     ELSE IF noticed.kind = "waiting" /\ noticed.until = 0 THEN [noticed EXCEPT !.kind = "ready"]
     ELSE IF noticed.kind # "unavailable" THEN noticed
     ELSE IF Available(c) THEN [noticed EXCEPT !.kind = "ready", !.wait = "standard"]
     ELSE [noticed EXCEPT !.until = avail[c].until]

Is(r, c, kind, wait) == r[c].kind = kind /\ r[c].wait = wait
Attempt(cs) == [kind |-> "attempt", who |-> cs, until |-> 0]
Until(t) == [kind |-> IF left = 0 THEN "timeout" ELSE "wait", who |-> {}, until |-> Min({t, left})]

\* While a candidate is overloaded: finite work that is ready, then overloads
\* that are due, then a wait for the first event.
ChooseOverloaded(r, over) ==
  LET finite == {c \in Candidates \ over : r[c].kind \in {"untried", "ready"} /\ Available(c)}
      due == {c \in over : r[c].kind = "ready"}
      times == {r[c].until : c \in over}
               \cup {Min({r[c].until, left}) : c \in {x \in Candidates \ over : r[x].kind \in {"waiting", "unavailable"}}}
               \cup {Min({avail[c].until, left}) :
                       c \in {x \in Candidates \ over : r[x].kind \in {"untried", "ready"} /\ Waitable(x) /\ left > 0}}
  IN IF finite # {} THEN Attempt({Min(finite)})
     ELSE IF due # {} THEN Attempt(due)
     ELSE [kind |-> "wait", who |-> {}, until |-> Min(times)]

\* nextCandidateState without overloads, in its order.
ChooseFinite(r) ==
  LET untried == {c \in Candidates : r[c].kind = "untried" /\ Available(c)}
      cooling == {c \in Candidates : Is(r, c, "waiting", "standard")}
      ready == {c \in Candidates : Is(r, c, "ready", "standard")}
      rateReady == {c \in Candidates : Is(r, c, "ready", "rate")}
      rated == {r[c].until : c \in {x \in Candidates : Is(r, x, "waiting", "rate")}}
      blocked == {c \in Candidates : r[c].kind # "exhausted" /\ Waitable(c)}
  IN IF cooling # {} THEN IF untried # {} THEN Attempt({Min(untried)}) ELSE Until(r[Min(cooling)].until)
     ELSE IF ready # {} THEN Attempt({Min(ready)})
     ELSE IF untried # {} THEN Attempt({Min(untried)})
     ELSE IF rateReady # {} THEN Attempt({Min(rateReady)})
     ELSE IF rated # {} THEN Until(Min(rated))
     ELSE IF blocked # {} THEN Until(avail[Min(blocked)].until)
     ELSE [kind |-> IF left = 0 THEN "timeout" ELSE "none", who |-> {}, until |-> 0]

\* The pinned request knows one candidate and no availability.
ChoosePinned(r) == IF r[1].kind = "waiting" THEN [kind |-> "wait", who |-> {}, until |-> r[1].until] ELSE Attempt({1})

\* Seeded fault: overloaded candidates are not waited for.
ChooseWithoutOverload(r) == IF mode = "pinned" THEN ChoosePinned(r) ELSE ChooseFinite(r)
\* nextCandidateState
Choose(r) ==
  LET over == {c \in Candidates : Overload(r[c])} IN
    IF mode = "pinned" THEN ChoosePinned(r) ELSE IF over # {} THEN ChooseOverloaded(r, over) ELSE ChooseFinite(r)

-----------------------------------------------------------------------------
Init ==
  /\ mode \in {"ordinary", "pinned"} /\ pc = "admit"
  /\ rec = [c \in Candidates |-> Absent] /\ avail = [c \in Candidates |-> Healthy]
  /\ left = Timeout /\ cur = 0 /\ wake = 0 /\ mandatory = 0 /\ recovery = FALSE
  /\ calls = 0 /\ settled = 0 /\ overloads = 0 /\ others = 0

\* preparePrimaryRequestAdmission and preflightPinnedContentPolicyRequest: every
\* candidate is admitted, too large for its context or ineligible.
Admit ==
  /\ pc = "admit"
  /\ \E verdict \in [IF mode = "pinned" THEN {1} ELSE Candidates -> {"admitted", "too_large", "ineligible"}] :
       LET admitted == {c \in DOMAIN verdict : verdict[c] = "admitted"} IN
         /\ rec' = [c \in Candidates |-> IF c \in admitted THEN Untried ELSE Absent]
         /\ pc' = IF admitted # {} THEN "loop"
                  ELSE IF \E c \in DOMAIN verdict : verdict[c] = "too_large" THEN "compaction" ELSE "failed"
  /\ UNCHANGED <<mode, avail, left, cur, wake, mandatory, recovery, calls, settled, overloads, others>>

Call(c) == pc' = "call" /\ cur' = c /\ calls' = calls + 1

\* One turn of the loop: refresh, then the mandatory candidate or the choice.
Loop ==
  /\ pc = "loop"
  /\ LET r == [c \in Candidates |-> Refreshed(c)] IN
       IF mandatory # 0 THEN /\ Call(mandatory) /\ mandatory' = 0 /\ rec' = r /\ UNCHANGED wake
       ELSE LET next == Choose(r) IN
         /\ UNCHANGED mandatory
         /\ \/ /\ next.kind = "attempt" /\ UNCHANGED wake
               /\ \E c \in next.who :
                    IF mode = "pinned" \/ Overload(r[c]) \/ Available(c)
                      THEN Call(c) /\ rec' = r
                      ELSE /\ rec' = [r EXCEPT ![c] = IF Waitable(c)
                                        THEN [@ EXCEPT !.kind = "unavailable", !.wait = "none", !.until = avail[c].until]
                                        ELSE [@ EXCEPT !.kind = "exhausted", !.wait = "none"]]
                           /\ UNCHANGED <<pc, cur, calls>>
            \/ next.kind = "wait" /\ pc' = "sleep" /\ wake' = next.until /\ rec' = r /\ UNCHANGED <<cur, calls>>
            \/ next.kind \in {"timeout", "none"} /\ pc' = "failed" /\ rec' = r /\ UNCHANGED <<cur, wake, calls>>
  /\ UNCHANGED <<mode, avail, left, recovery, settled, overloads, others>>

Wake == /\ pc = "sleep" /\ wake = 0 /\ pc' = "loop"
        /\ UNCHANGED <<mode, rec, avail, left, cur, wake, mandatory, recovery, calls, settled, overloads, others>>

Succeed ==
  /\ pc = "call" /\ pc' = "done" /\ settled' = settled + 1
  /\ avail' = [avail EXCEPT ![cur] = Healthy]
  /\ UNCHANGED <<mode, rec, left, cur, wake, mandatory, recovery, calls, overloads, others>>

-----------------------------------------------------------------------------
(* handleAdmittedAttemptFailure with the decisions of InvocationRecoveryPolicy *)

Failing == pc = "call" /\ settled' = settled + 1

\* An ordinary retry: the candidate waits, while its finite budget lasts.
Retried(r, kind, delay) ==
  IF r.finite + 1 < 1 + MaxRetries
    THEN [kind |-> "waiting", wait |-> kind, until |-> delay, finite |-> r.finite + 1, delay |-> FirstBackoff]
    ELSE [r EXCEPT !.kind = "exhausted", !.wait = "none", !.finite = @ + 1, !.delay = FirstBackoff]

Settle(kind, delay, availability) ==
  /\ IF mode = "pinned" THEN pc' = "failed" /\ UNCHANGED <<rec, avail>>
     ELSE /\ pc' = "loop"
          /\ rec' = [rec EXCEPT ![cur] = Retried(@, kind, delay)] /\ avail' = [avail EXCEPT ![cur] = availability]
  /\ UNCHANGED <<mode, left, cur, wake, mandatory, recovery, calls, overloads, others>>

FailTransient ==
  /\ Failing /\ Settle("standard", Recovery, MarkFailed(cur, Recovery, "waitable"))
FailParse ==
  /\ Failing /\ Settle("standard", Recovery, avail[cur])
FailRate ==
  /\ Failing /\ \E delay \in Rates : Settle("rate", delay, MarkFailed(cur, delay, "waitable"))

\* A confirmed overload is repeated without limit, with a growing delay.
FailOverload ==
  /\ Failing /\ overloads < MaxOverloads /\ overloads' = overloads + 1 /\ pc' = "loop"
  /\ rec' = [rec EXCEPT ![cur] = [@ EXCEPT !.kind = "waiting", !.wait = "overload", !.until = rec[cur].delay,
                                          !.delay = Min({LastBackoff, 2 * @})]]
  /\ avail' = [avail EXCEPT ![cur] = MarkFailed(cur, rec[cur].delay, "waitable")]
  /\ UNCHANGED <<mode, left, cur, wake, mandatory, recovery, calls, others>>

\* Authentication, capability, protocol, policy and size failures end the turn.
FailTerminal ==
  /\ Failing /\ pc' = "failed"
  /\ avail' \in IF mode = "ordinary" THEN {avail, [avail EXCEPT ![cur] = MarkFailed(cur, Block, "auth")]} ELSE {avail}
  /\ UNCHANGED <<mode, rec, left, cur, wake, mandatory, recovery, calls, overloads, others>>

\* An exhausted context suspends the execution once; in recovery it is terminal.
FailContext ==
  /\ Failing /\ UNCHANGED <<mode, avail, left, cur, wake, mandatory, recovery, calls, overloads, others>>
  /\ IF mode = "ordinary" /\ ~recovery
       THEN /\ pc' = "suspended"
            /\ rec' = [rec EXCEPT ![cur] = [@ EXCEPT !.kind = "context", !.finite = @ + 1, !.delay = FirstBackoff]]
       ELSE pc' = "failed" /\ UNCHANGED rec

\* prepareAdmittedRecovery after compaction, and resumeAdmittedExecution.
Resume ==
  /\ pc = "suspended"
  /\ \/ pc' = "loop" /\ mandatory' = cur /\ recovery' = TRUE
     \/ pc' = "failed" /\ UNCHANGED <<mandatory, recovery>>
  /\ UNCHANGED <<mode, rec, avail, left, cur, wake, calls, settled, overloads, others>>

Fail == FailTransient \/ FailParse \/ FailRate \/ FailOverload \/ FailTerminal \/ FailContext

\* The owner aborts: what was settled is kept, a call in flight settles first.
Abort ==
  /\ pc \in {"loop", "sleep", "call"} /\ pc' = "aborted"
  /\ settled' = IF pc = "call" THEN settled + 1 ELSE settled
  /\ UNCHANGED <<mode, rec, avail, left, cur, wake, mandatory, recovery, calls, overloads, others>>

\* Other invocations of the process fail or succeed with a candidate.
Other ==
  /\ pc \in {"call", "sleep"} /\ others < MaxOthers /\ others' = others + 1
  /\ \E c \in Candidates :
       avail' \in {[avail EXCEPT ![c] = a] : a \in {Healthy, MarkFailed(c, Recovery, "waitable"), MarkFailed(c, Block, "auth")}}
  /\ UNCHANGED <<mode, pc, rec, left, cur, wake, mandatory, recovery, calls, settled, overloads>>

Less(t) == IF t = 0 THEN 0 ELSE t - 1
\* Time passes while the loop waits, for a delay or for an answer.
Tick ==
  /\ (pc = "sleep" /\ wake > 0) \/ pc = "call"
  /\ rec' = [c \in Candidates |-> [rec[c] EXCEPT !.until = Less(@)]]
  /\ avail' = [c \in Candidates |-> [avail[c] EXCEPT !.until = Less(@)]]
  /\ left' = Less(left) /\ wake' = Less(wake)
  /\ UNCHANGED <<mode, pc, cur, mandatory, recovery, calls, settled, overloads, others>>

Next == Admit \/ Loop \/ Wake \/ Succeed \/ Fail \/ Resume \/ Abort \/ Other \/ Tick

\* Timers fire, and every call is bounded by the deadlines of its transport.
Spec == /\ Init /\ [][Next]_vars
        /\ WF_vars(Admit) /\ WF_vars(Loop) /\ WF_vars(Wake) /\ WF_vars(Succeed \/ Fail) /\ WF_vars(Resume)
        /\ WF_vars(pc = "sleep" /\ Tick)

-----------------------------------------------------------------------------
\* The retry loop ends when overloads end: it neither spins between candidates
\* that are unavailable nor retries without limit.
Retrying == pc \notin {"done", "failed", "aborted", "compaction"}

\* The loop never waits for an event that has already happened, and never while
\* an untried candidate is available.
WaitsForSomething ==
     pc = "loop" /\ pc' = "sleep" =>
       wake' > 0 /\ \A c \in Candidates : mode = "ordinary" /\ rec'[c].kind = "untried" => ~Available(c)

\* A candidate whose last failure is an overload stays in the route until it is
\* tried again, past the deadline and whatever other invocations report.
OverloadPersists ==
     \A c \in Candidates : Overload(rec[c]) /\ rec'[c].kind \in {"exhausted", "unavailable"} => pc = "call" /\ cur = c

\* While any candidate is overloaded the turn does not fail for lack of a candidate.
OverloadKeepsTurn ==
     pc = "loop" /\ pc' = "failed" => \A c \in Candidates : ~Overload(rec[c])

\* A turn makes at most the finite attempts of its candidates, one forced retry
\* after compaction and the retries of overloads.
Budget == calls <= Route * (1 + MaxRetries) + overloads + 1

\* The horizon a provider asked for is not shortened by a later failure; only
\* time and a success end it.
HorizonKept ==
     \A c \in Candidates : avail[c].reason # "healthy" /\ avail'[c].reason # "healthy" =>
       avail'[c].until >= avail[c].until - 1

\* Every call to a provider leaves exactly one exchange, also when the turn is
\* aborted, suspended or fails.
ExchangesComplete == settled = IF pc = "call" THEN calls - 1 ELSE calls
=============================================================================
