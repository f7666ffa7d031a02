---------------------------- MODULE Diagnostics ----------------------------
(***************************************************************************)
(* The diagnostic tests of a repair session and the guard against          *)
(* recommending the same one again and again                               *)
(* (src/app/diagnostics/state_manager.py, anti_loop.py).                   *)
(***************************************************************************)
EXTENDS Naturals, Sequences, FiniteSets

CONSTANTS
    Names,       \* the names of tests
    Window,      \* seconds a recommendation counts for
    MaxRepeats,  \* recommendations of a name that silence it
    MaxRetries,  \* the retries of an INVALID test
    MaxTests,    \* bound: tests registered
    MaxTime      \* bound: the clock

ASSUME DiagnosticsAssumption ==
    /\ {Window, MaxRetries, MaxTests, MaxTime} \subseteq Nat
    /\ MaxRepeats \in Nat \ {0}

VARIABLES
    tests,      \* _tests, in the order of registration
    history,    \* for each name, the times the detector keeps
    proposed,   \* ghost: for each name, the times of all its recommendations
    now

diagnosticsVars == <<tests, history, proposed, now>>

Completed == {"PASSED", "FAILED", "SKIPPED"}

register_test(name) ==
    Append(tests, [name |-> name, status |-> "PENDING", evidence |-> FALSE, retry_count |-> 0])

\* Mutant: a skipped test is proposed again.
ShouldRecommendSkipped(record) ==
    IF record.status = "INVALID" THEN record.retry_count < MaxRetries
    ELSE record.status \in {"PENDING", "IN_PROGRESS", "SKIPPED"}

\* should_recommend_test; nothing in the code counts retries.
ShouldRecommend(record) ==
    /\ ~(record.status \in Completed /\ record.evidence)
    /\ IF record.status = "INVALID" THEN record.retry_count < MaxRetries
       ELSE record.status \in {"PENDING", "IN_PROGRESS"}

\* Mutant: one recommendation too many.
IsRepeatedLate(name) == Len(history[name]) > MaxRepeats

\* is_repeated: the times kept, however old they are by now.
IsRepeated(name) == Len(history[name]) >= MaxRepeats

\* The least member of a set of numbers.
Least(S) == CHOOSE k \in S : \A j \in S : k <= j

\* record_recommendation adds a time and drops those that left the window; the
\* times are in their order, so those come first.
Recorded(name) ==
    LET times == Append(history[name], now)
    IN  SubSeq(times, Least({i \in DOMAIN times : now - times[i] <= Window}), Len(times))

\* The first record with a name is the one that is asked.
First(ts, name) ==
    ts[Least({i \in DOMAIN ts : ts[i].name = name})]

Register(name) ==
    /\ Len(tests) < MaxTests
    /\ tests' = register_test(name)
    /\ UNCHANGED <<history, proposed, now>>

StartTest(i) ==
    /\ tests' = [tests EXCEPT ![i].status = "IN_PROGRESS"]
    /\ UNCHANGED <<history, proposed, now>>

CompleteTest(i, status, evidence) ==
    /\ tests' = [tests EXCEPT ![i].status = status, ![i].evidence = evidence]
    /\ UNCHANGED <<history, proposed, now>>

\* recommend_next_test registers a test that is not known.
Recommend(name) ==
    LET known == \E i \in DOMAIN tests : tests[i].name = name
        ts == IF known THEN tests ELSE register_test(name)
    IN  /\ Len(ts) <= MaxTests
        /\ tests' = ts
        /\ IF ShouldRecommend(First(ts, name)) /\ ~IsRepeated(name)
           THEN /\ history' = [history EXCEPT ![name] = Recorded(name)]
                /\ proposed' = [proposed EXCEPT ![name] = Append(@, now)]
           ELSE UNCHANGED <<history, proposed>>
        /\ UNCHANGED now

Tick ==
    /\ now < MaxTime
    /\ now' = now + 1
    /\ UNCHANGED <<tests, history, proposed>>

DiagnosticsInit ==
    /\ tests = <<>>
    /\ history = [n \in Names |-> <<>>]
    /\ proposed = [n \in Names |-> <<>>]
    /\ now = 0

DiagnosticsNext ==
    \/ \E n \in Names : Register(n) \/ Recommend(n)
    \/ \E i \in DOMAIN tests :
          \/ StartTest(i)
          \/ \E status \in {"INVALID"} \cup Completed, e \in BOOLEAN : CompleteTest(i, status, e)
    \/ Tick

DiagnosticsSpec == DiagnosticsInit /\ [][DiagnosticsNext]_diagnosticsVars

-----------------------------------------------------------------------------
(* Properties *)

\* The type of the state.
DiagnosticsTypeOK ==
    /\ tests \in Seq([name : Names,
                      status : {"PENDING", "IN_PROGRESS", "INVALID"} \cup Completed,
                      evidence : BOOLEAN, retry_count : Nat])
    /\ history \in [Names -> Seq(Nat)]
    /\ proposed \in [Names -> Seq(Nat)]
    /\ now \in Nat

\* No test is recommended more than MaxRepeats times in any window, however
\* recommendations, completions and the clock interleave.
NoLoop ==
    \A n \in Names : \A i \in DOMAIN proposed[n] :
        i + MaxRepeats \in DOMAIN proposed[n] =>
            proposed[n][i + MaxRepeats] - proposed[n][i] > Window

\* "Valid completed tests are not re-proposed unless forced or retries allow":
\* a recommendation is never for a test that is completed, unless the name was
\* registered twice and the second record is the one that was completed.
CompletedNotProposed ==
    [][\A n \in Names : proposed'[n] # proposed[n] =>
          \A i \in DOMAIN tests : tests[i].name = n /\ tests[i].status \in Completed =>
              \E j \in DOMAIN tests : j < i /\ tests[j].name = n]_diagnosticsVars

=============================================================================
