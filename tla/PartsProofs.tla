----------------------------- MODULE PartsProofs -----------------------------
(***************************************************************************)
(* Proofs about the parts of the hub that share no state: Diagnostics, for *)
(* every window, number of repeats, number of tests and length of time;    *)
(* DeviceScanner and SessionStore, whose state outlives a connection or a  *)
(* process, for any phones, connections, users, devices and sessions;      *)
(* LocalHub, however many processes are launched, killed and launched      *)
(* again.                                                                  *)
(***************************************************************************)
EXTENDS Diagnostics, DeviceScanner, SessionStore, LocalHub, WellFoundedInduction,
        SequenceTheorems, FiniteSetTheorems, TLAPS

-----------------------------------------------------------------------------
(* Diagnostics *)

\* The order of numbers as a well-founded relation.
LEMMA LessIsWellFounded ==
    \E R : IsWellFoundedOn(R, Nat) /\ \A x, y \in Nat : y < x => <<y, x>> \in R
  <1>1. \A x, y \in Nat : y < x => <<y, x>> \in OpToRel(<, Nat)
    BY Zenon DEF OpToRel
  <1> QED BY <1>1, NatLessThanWellFounded, Zenon

\* A nonempty set of numbers has a least member.
LEMMA LeastIs ==
    ASSUME NEW S \in SUBSET Nat, S # {}
    PROVE  Least(S) \in S /\ \A j \in S : Least(S) <= j
  <1>1. PICK R : IsWellFoundedOn(R, Nat) /\ \A x, y \in Nat : y < x => <<y, x>> \in R
    BY LessIsWellFounded
  <1>2. PICK x \in S : \A y \in S : ~(<<y, x>> \in R)
    BY <1>1, WFMin
  <1>3. ASSUME NEW y \in S PROVE x <= y
    <2>1. x \in Nat /\ y \in Nat
      OBVIOUS
    <2>2. ~(y < x)
      BY <1>1, <1>2, <2>1, Zenon
    <2> QED BY <2>1, <2>2
  <1> QED BY <1>3 DEF Least

Record == [name : Names,
           status : {"PENDING", "IN_PROGRESS", "INVALID"} \cup Completed,
           evidence : BOOLEAN, retry_count : Nat]

-----------------------------------------------------------------------------
(* What recording a recommendation makes of the history. *)

\* The times kept are the last ones, and those dropped are out of the window.
LEMMA RecordedIs ==
    ASSUME NEW n \in Names, history \in [Names -> Seq(Nat)], now \in Nat, Window \in Nat
    PROVE  \E k \in 1..(Len(history[n]) + 1) :
              /\ Recorded(n) \in Seq(Nat)
              /\ Len(Recorded(n)) = Len(history[n]) + 2 - k
              /\ \A i \in 1..Len(Recorded(n)) :
                    Recorded(n)[i] = Append(history[n], now)[i + k - 1]
              /\ \A i \in 1..(k - 1) : now - history[n][i] > Window
  <1> DEFINE times == Append(history[n], now)
             kept == {i \in DOMAIN times : now - times[i] <= Window}
             k == Least(kept)
  <1>1. /\ times \in Seq(Nat) /\ Len(times) = Len(history[n]) + 1
        /\ times[Len(history[n]) + 1] = now
        /\ \A i \in 1..Len(history[n]) : times[i] = history[n][i]
        /\ DOMAIN times = 1..(Len(history[n]) + 1)
    BY AppendProperties
  <1>2. Len(history[n]) + 1 \in kept /\ kept \in SUBSET Nat
    BY <1>1
  <1>3. k \in kept /\ \A j \in kept : k <= j
    BY <1>2, LeastIs
  <1>4. k \in 1..(Len(history[n]) + 1)
    BY <1>1, <1>3
  <1>5. Recorded(n) = SubSeq(times, k, Len(times))
    BY DEF Recorded
  <1>6. \A i \in 1..(k - 1) : i \in DOMAIN times /\ ~(now - times[i] <= Window)
    <2>1. \A i \in 1..(k - 1) : i \in DOMAIN times /\ ~(k <= i)
      <3> HIDE DEF times, k
      <3> QED BY <1>1, <1>4
    <2> QED BY <1>3, <2>1
  <1> HIDE DEF times, kept, k
  <1>7. /\ Recorded(n) \in Seq(Nat)
        /\ Len(Recorded(n)) = Len(times) - k + 1
        /\ \A i \in 1..(Len(times) - k + 1) : Recorded(n)[i] = times[k + i - 1]
    <2>1. \A i \in k..Len(times) : times[i] \in Nat
      BY <1>1, <1>4
    <2> QED BY <1>1, <1>4, <1>5, <2>1, SubSeqProperties
  <1>8. ASSUME NEW i \in 1..(k - 1) PROVE now - history[n][i] > Window
    <2>1. i \in 1..Len(history[n])
      BY <1>4
    <2>2. history[n][i] \in Nat /\ times[i] = history[n][i]
      BY <1>1, <2>1
    <2> QED BY <1>6, <2>2
  <1>9. Len(Recorded(n)) = Len(history[n]) + 2 - k
    BY <1>1, <1>4, <1>7
  <1>10. \A i \in 1..Len(Recorded(n)) : Recorded(n)[i] = times[i + k - 1]
    BY <1>1, <1>4, <1>7
  <1> QED BY <1>4, <1>7, <1>8, <1>9, <1>10 DEF times

-----------------------------------------------------------------------------
(* Types *)

LEMMA FirstIs ==
    ASSUME NEW ts \in Seq(Record), NEW n \in Names, \E i \in DOMAIN ts : ts[i].name = n
    PROVE  \E i \in DOMAIN ts : /\ First(ts, n) = ts[i] /\ ts[i].name = n
                                /\ \A j \in DOMAIN ts : ts[j].name = n => i <= j
  <1> DEFINE S == {i \in DOMAIN ts : ts[i].name = n}
  <1>1. S \in SUBSET Nat /\ S # {}
    OBVIOUS
  <1>2. Least(S) \in S /\ \A j \in S : Least(S) <= j
    BY <1>1, LeastIs
  <1> QED BY <1>2 DEF First

LEMMA StatusType ==
    ASSUME NEW t \in Record, NEW st \in {"INVALID"} \cup Completed, NEW e \in BOOLEAN
    PROVE  /\ [t EXCEPT !.status = "IN_PROGRESS"] \in Record
           /\ [t EXCEPT !.status = st, !.evidence = e] \in Record
  BY DEF Record, Completed

LEMMA RegisterType ==
    ASSUME tests \in Seq(Record), NEW n \in Names
    PROVE  /\ register_test(n) \in Seq(Record)
           /\ \A i \in DOMAIN tests : i \in DOMAIN register_test(n) /\ register_test(n)[i] = tests[i]
           /\ \E i \in DOMAIN register_test(n) : register_test(n)[i].name = n
  <1> DEFINE r == [name |-> n, status |-> "PENDING", evidence |-> FALSE, retry_count |-> 0]
  <1>1. r \in Record
    BY DEF Record
  <1> HIDE DEF r
  <1>2. /\ Append(tests, r) \in Seq(Record) /\ Len(Append(tests, r)) = Len(tests) + 1
        /\ Append(tests, r)[Len(tests) + 1] = r
        /\ \A i \in 1..Len(tests) : Append(tests, r)[i] = tests[i]
    BY <1>1, AppendProperties
  <1>3. r.name = n
    BY DEF r
  <1>4. register_test(n) = Append(tests, r)
    BY DEF register_test, r
  <1> QED BY <1>2, <1>3, <1>4

LEMMA DiagnosticsTypeInit == DiagnosticsInit => DiagnosticsTypeOK
  BY DEF DiagnosticsInit, DiagnosticsTypeOK

LEMMA DiagnosticsTypeStep ==
    DiagnosticsTypeOK /\ [DiagnosticsNext]_diagnosticsVars => DiagnosticsTypeOK'
  <1> SUFFICES ASSUME DiagnosticsTypeOK, [DiagnosticsNext]_diagnosticsVars
               PROVE  DiagnosticsTypeOK'
    OBVIOUS
  <1> USE DiagnosticsAssumption
  <1>0. /\ tests \in Seq(Record) /\ history \in [Names -> Seq(Nat)]
        /\ proposed \in [Names -> Seq(Nat)] /\ now \in Nat
    BY DEF DiagnosticsTypeOK, Record
  <1>1. ASSUME NEW n \in Names, Register(n) PROVE DiagnosticsTypeOK'
    BY <1>0, <1>1, RegisterType DEF Register, DiagnosticsTypeOK, Record
  <1>2. ASSUME NEW n \in Names, Recommend(n) PROVE DiagnosticsTypeOK'
    <2>1. tests' \in Seq(Record)
      BY <1>0, <1>2, RegisterType DEF Recommend
    <2>2. history' \in [Names -> Seq(Nat)]
      BY <1>0, <1>2, RecordedIs DEF Recommend
    <2>3. proposed' \in [Names -> Seq(Nat)]
      <3>1. Append(proposed[n], now) \in Seq(Nat)
        BY <1>0, AppendProperties
      <3> QED BY <1>0, <1>2, <3>1 DEF Recommend
    <2> QED BY <1>0, <1>2, <2>1, <2>2, <2>3 DEF Recommend, DiagnosticsTypeOK, Record
  <1>3. ASSUME NEW i \in DOMAIN tests, StartTest(i) PROVE DiagnosticsTypeOK'
    <2>0. tests[i] \in Record
      BY <1>0, ElementOfSeq
    <2>1. [tests[i] EXCEPT !.status = "IN_PROGRESS"] \in Record
      BY <2>0, StatusType, Zenon
    <2>2. tests' = [tests EXCEPT ![i] = [tests[i] EXCEPT !.status = "IN_PROGRESS"]]
      BY <1>0, <1>3 DEF StartTest
    <2>3. tests' \in Seq(Record)
      BY <1>0, <2>1, <2>2, ExceptSeq
    <2> QED BY <1>0, <1>3, <2>3 DEF StartTest, DiagnosticsTypeOK, Record
  <1>4. ASSUME NEW i \in DOMAIN tests, NEW st \in {"INVALID"} \cup Completed,
               NEW e \in BOOLEAN, CompleteTest(i, st, e)
        PROVE  DiagnosticsTypeOK'
    <2>0. tests[i] \in Record
      BY <1>0, ElementOfSeq
    <2>1. [tests[i] EXCEPT !.status = st, !.evidence = e] \in Record
      BY <2>0, StatusType, Zenon
    <2>2. tests' = [tests EXCEPT ![i] = [tests[i] EXCEPT !.status = st, !.evidence = e]]
      BY <1>0, <1>4 DEF CompleteTest
    <2>3. tests' \in Seq(Record)
      BY <1>0, <2>1, <2>2, ExceptSeq
    <2> QED BY <1>0, <1>4, <2>3 DEF CompleteTest, DiagnosticsTypeOK, Record
  <1>5. CASE Tick
    BY <1>0, <1>5 DEF Tick, DiagnosticsTypeOK, Record
  <1>6. CASE UNCHANGED diagnosticsVars
    BY <1>6 DEF diagnosticsVars, DiagnosticsTypeOK
  <1> QED BY <1>1, <1>2, <1>3, <1>4, <1>5, <1>6 DEF DiagnosticsNext

\* The variables keep their types.
THEOREM DiagnosticsTypeCorrect == DiagnosticsSpec => []DiagnosticsTypeOK
  BY DiagnosticsTypeInit, DiagnosticsTypeStep, PTL DEF DiagnosticsSpec

-----------------------------------------------------------------------------
(* The history of a name is the end of the list of its recommendations; those *)
(* before have left the window.                                               *)

KeptAreLast(n) ==
    LET old == Len(proposed[n]) - Len(history[n])
    IN  /\ Len(history[n]) <= Len(proposed[n])
        /\ \A i \in 1..Len(history[n]) : history[n][i] = proposed[n][i + old]
        /\ \A i \in 1..old : now - proposed[n][i] > Window

LoopInv == \A n \in Names : KeptAreLast(n)

LEMMA RecommendKeeps ==
    ASSUME DiagnosticsTypeOK, NEW n \in Names, KeptAreLast(n),
           history'[n] = Recorded(n), proposed'[n] = Append(proposed[n], now), now' = now
    PROVE  KeptAreLast(n)'
  <1> DEFINE h == Len(history[n])
             m == Len(proposed[n])
  <1>1. /\ history[n] \in Seq(Nat) /\ proposed[n] \in Seq(Nat) /\ now \in Nat /\ Window \in Nat
        /\ h \in Nat /\ m \in Nat
    BY DiagnosticsAssumption DEF DiagnosticsTypeOK
  <1>2. PICK k \in 1..(h + 1) :
           /\ Len(Recorded(n)) = h + 2 - k
           /\ \A i \in 1..Len(Recorded(n)) : Recorded(n)[i] = Append(history[n], now)[i + k - 1]
           /\ \A i \in 1..(k - 1) : now - history[n][i] > Window
    BY <1>1, RecordedIs DEF DiagnosticsTypeOK
  <1>3. /\ Len(proposed'[n]) = m + 1 /\ proposed'[n][m + 1] = now
        /\ \A i \in 1..m : proposed'[n][i] = proposed[n][i]
    BY <1>1, AppendProperties
  <1>4. /\ Append(history[n], now)[h + 1] = now
        /\ \A i \in 1..h : Append(history[n], now)[i] = history[n][i]
    BY <1>1, AppendProperties
  <1>5. /\ h <= m
        /\ \A i \in 1..h : history[n][i] = proposed[n][i + (m - h)]
        /\ \A i \in 1..(m - h) : now - proposed[n][i] > Window
    BY DEF KeptAreLast
  <1> HIDE DEF h, m
  <1>6. /\ Len(history'[n]) = h + 2 - k /\ Len(history'[n]) <= Len(proposed'[n])
        /\ Len(proposed'[n]) - Len(history'[n]) = (m - h) + (k - 1)
    BY <1>1, <1>2, <1>3, <1>5
  <1>7. ASSUME NEW i \in 1..(h + 2 - k)
        PROVE  history'[n][i] = proposed'[n][i + ((m - h) + (k - 1))]
    <2>1. history'[n][i] = Append(history[n], now)[i + k - 1]
      BY <1>2, <1>6
    <2>2. CASE i + k - 1 = h + 1
      <3>1. i + ((m - h) + (k - 1)) = m + 1
        BY <1>1, <2>2
      <3> QED BY <1>3, <1>4, <2>1, <2>2, <3>1
    <2>3. CASE i + k - 1 # h + 1
      <3>1. i + k - 1 \in 1..h
        BY <1>1, <2>3
      <3>2. history[n][i + k - 1] = proposed[n][(i + k - 1) + (m - h)]
        BY <1>5, <3>1
      <3>3. (i + k - 1) + (m - h) \in 1..m /\ (i + k - 1) + (m - h) = i + ((m - h) + (k - 1))
        BY <1>1, <1>5, <3>1
      <3> QED BY <1>3, <1>4, <2>1, <3>1, <3>2, <3>3
    <2> QED BY <2>2, <2>3
  <1>8. ASSUME NEW i \in 1..((m - h) + (k - 1))
        PROVE  now' - proposed'[n][i] > Window
    <2>1. proposed'[n][i] = proposed[n][i]
      BY <1>1, <1>2, <1>3, <1>5
    <2>2. CASE i <= m - h
      BY <1>1, <1>5, <2>1, <2>2
    <2>3. CASE i > m - h
      <3>1. i - (m - h) \in 1..(k - 1) /\ i - (m - h) \in 1..h
        BY <1>1, <1>2, <1>5, <2>3
      <3>2. history[n][i - (m - h)] = proposed[n][i]
        <4>1. (i - (m - h)) + (m - h) = i
          BY <1>1
        <4> QED BY <1>5, <3>1, <4>1
      <3>3. now - history[n][i - (m - h)] > Window
        BY <1>2, <3>1
      <3> QED BY <2>1, <3>2, <3>3
    <2>4. i \in Nat /\ m - h \in Int
      BY <1>1, <1>5
    <2>5. i <= m - h \/ i > m - h
      BY <2>4
    <2> QED BY <2>2, <2>3, <2>5
  <1> QED BY <1>6, <1>7, <1>8 DEF KeptAreLast

LEMMA RecommendNoLoop ==
    ASSUME DiagnosticsTypeOK, NEW n \in Names, KeptAreLast(n), ~IsRepeated(n),
           NEW i \in 1..(Len(proposed[n]) + 1),
           i + MaxRepeats = Len(proposed[n]) + 1
    PROVE  now - proposed[n][i] > Window
  <1>1. /\ Len(history[n]) \in Nat /\ Len(proposed[n]) \in Nat /\ MaxRepeats \in Nat
    BY DiagnosticsAssumption DEF DiagnosticsTypeOK
  <1>2. Len(history[n]) < MaxRepeats
    BY <1>1 DEF IsRepeated
  <1>3. i \in 1..(Len(proposed[n]) - Len(history[n]))
    BY <1>1, <1>2
  <1> QED BY <1>3 DEF KeptAreLast

\* A name with the same lists keeps its relation as long as the clock runs forward.
LEMMA LaterKeeps ==
    ASSUME DiagnosticsTypeOK, NEW n \in Names, KeptAreLast(n),
           history'[n] = history[n], proposed'[n] = proposed[n],
           now' \in Nat, now <= now'
    PROVE  KeptAreLast(n)'
  <1>1. /\ proposed[n] \in Seq(Nat) /\ now \in Nat /\ Window \in Nat
        /\ Len(proposed[n]) \in Nat /\ Len(history[n]) \in Nat
    BY DiagnosticsAssumption DEF DiagnosticsTypeOK
  <1>2. ASSUME NEW i \in 1..(Len(proposed[n]) - Len(history[n]))
        PROVE  now' - proposed[n][i] > Window
    <2>1. now - proposed[n][i] > Window
      BY DEF KeptAreLast
    <2>2. i \in 1..Len(proposed[n])
      BY <1>1
    <2>3. proposed[n][i] \in Nat
      BY <1>1, <2>2
    <2> DEFINE x == proposed[n][i]
    <2> HIDE DEF x
    <2>4. now - x > Window /\ x \in Nat
      BY <2>1, <2>3 DEF x
    <2>5. now \in Nat /\ now' \in Nat /\ now <= now' /\ Window \in Nat
      BY <1>1
    <2>6. \A a, b, y, w \in Nat : a - y > w /\ a <= b => b - y > w
      OBVIOUS
    <2>7. now' - x > Window
      BY <2>4, <2>5, <2>6
    <2> QED BY <2>7 DEF x
  <1> QED BY <1>2 DEF KeptAreLast

\* What a step does to the lists of a name: a recommendation records it, and
\* any other step leaves them alone.
LEMMA StepOfName ==
    ASSUME DiagnosticsTypeOK, [DiagnosticsNext]_diagnosticsVars, NEW n \in Names
    PROVE  \/ /\ Recommend(n) /\ ~IsRepeated(n) /\ now' = now
              /\ history'[n] = Recorded(n) /\ proposed'[n] = Append(proposed[n], now)
           \/ /\ history'[n] = history[n] /\ proposed'[n] = proposed[n]
              /\ now' \in Nat /\ now <= now'
  <1>0. /\ history \in [Names -> Seq(Nat)] /\ proposed \in [Names -> Seq(Nat)] /\ now \in Nat
    BY DEF DiagnosticsTypeOK
  <1>1. CASE \E m \in Names : Register(m)
    BY <1>0, <1>1 DEF Register
  <1>2. CASE \E m \in Names : Recommend(m)
    BY <1>0, <1>2 DEF Recommend
  <1>3. CASE \E i \in DOMAIN tests : StartTest(i)
    BY <1>0, <1>3 DEF StartTest
  <1>4. CASE \E i \in DOMAIN tests : \E st \in {"INVALID"} \cup Completed, e \in BOOLEAN :
                CompleteTest(i, st, e)
    BY <1>0, <1>4 DEF CompleteTest
  <1>5. CASE Tick
    BY <1>0, <1>5 DEF Tick
  <1>6. CASE UNCHANGED diagnosticsVars
    BY <1>0, <1>6 DEF diagnosticsVars
  <1> QED BY <1>1, <1>2, <1>3, <1>4, <1>5, <1>6 DEF DiagnosticsNext

LEMMA LoopInvStep ==
    DiagnosticsTypeOK /\ LoopInv /\ [DiagnosticsNext]_diagnosticsVars => LoopInv'
  <1> SUFFICES ASSUME DiagnosticsTypeOK, LoopInv, [DiagnosticsNext]_diagnosticsVars,
                      NEW n \in Names
               PROVE  KeptAreLast(n)'
    BY DEF LoopInv
  <1>1. KeptAreLast(n)
    BY DEF LoopInv
  <1> QED BY <1>1, StepOfName, RecommendKeeps, LaterKeeps

LEMMA NoLoopStep ==
    DiagnosticsTypeOK /\ LoopInv /\ NoLoop /\ [DiagnosticsNext]_diagnosticsVars => NoLoop'
  <1> SUFFICES ASSUME DiagnosticsTypeOK, LoopInv, NoLoop, [DiagnosticsNext]_diagnosticsVars,
                      NEW n \in Names,
                      NEW i \in DOMAIN proposed'[n], i + MaxRepeats \in DOMAIN proposed'[n]
               PROVE  proposed'[n][i + MaxRepeats] - proposed'[n][i] > Window
    BY DEF NoLoop
  <1>1. KeptAreLast(n)
    BY DEF LoopInv
  <1>2. proposed[n] \in Seq(Nat) /\ Len(proposed[n]) \in Nat /\ MaxRepeats \in Nat /\ now \in Nat
        /\ MaxRepeats > 0
    BY DiagnosticsAssumption DEF DiagnosticsTypeOK
  <1>3. CASE proposed'[n] = proposed[n]
    BY <1>3 DEF NoLoop
  <1>4. CASE ~IsRepeated(n) /\ proposed'[n] = Append(proposed[n], now)
    <2>1. /\ DOMAIN proposed'[n] = 1..(Len(proposed[n]) + 1)
          /\ proposed'[n][Len(proposed[n]) + 1] = now
          /\ \A j \in 1..Len(proposed[n]) : proposed'[n][j] = proposed[n][j]
      BY <1>2, <1>4, AppendProperties
    <2>2. CASE i + MaxRepeats = Len(proposed[n]) + 1
      <3>1. i \in 1..Len(proposed[n]) /\ i \in 1..(Len(proposed[n]) + 1)
        BY <1>2, <2>1, <2>2
      <3>2. now - proposed[n][i] > Window
        BY <1>1, <1>4, <2>2, <3>1, RecommendNoLoop
      <3> QED BY <2>1, <2>2, <3>1, <3>2
    <2>3. CASE i + MaxRepeats # Len(proposed[n]) + 1
      <3>1. i \in 1..Len(proposed[n]) /\ i + MaxRepeats \in 1..Len(proposed[n])
        BY <1>2, <2>1, <2>3
      <3>2. i \in DOMAIN proposed[n] /\ i + MaxRepeats \in DOMAIN proposed[n]
        BY <1>2, <3>1
      <3>3. proposed[n][i + MaxRepeats] - proposed[n][i] > Window
        BY <3>2, Zenon DEF NoLoop
      <3> QED BY <2>1, <3>1, <3>3
    <2> QED BY <2>2, <2>3
  <1> QED BY <1>3, <1>4, StepOfName

\* A test is recommended at most MaxRepeats times in a window, whatever the
\* window, the tests and the order of recommendations, completions and time.
THEOREM NoLoopHolds == DiagnosticsSpec => []NoLoop
  <1>1. DiagnosticsInit => LoopInv /\ NoLoop
    BY DEF DiagnosticsInit, LoopInv, KeptAreLast, NoLoop
  <1> QED BY <1>1, DiagnosticsTypeInit, DiagnosticsTypeStep, LoopInvStep, NoLoopStep, PTL
          DEF DiagnosticsSpec

\* The record that is asked is the first of its name, and it is not completed.
LEMMA RecommendsUncompleted ==
    ASSUME DiagnosticsTypeOK, NEW n \in Names, Recommend(n), proposed'[n] # proposed[n],
           NEW i \in DOMAIN tests, tests[i].name = n, tests[i].status \in Completed
    PROVE  \E j \in DOMAIN tests : j < i /\ tests[j].name = n
  <1>1. tests \in Seq(Record)
    BY DEF DiagnosticsTypeOK, Record
  <1>2. ShouldRecommend(First(tests, n))
    BY DEF Recommend
  <1>3. PICK k \in DOMAIN tests : First(tests, n) = tests[k] /\ tests[k].name = n
                 /\ \A j \in DOMAIN tests : tests[j].name = n => k <= j
    BY <1>1, FirstIs
  <1>4. k # i
    BY <1>2, <1>3 DEF ShouldRecommend, Completed
  <1>5. k <= i /\ k \in Nat /\ i \in Nat
    BY <1>1, <1>3
  <1> QED BY <1>3, <1>4, <1>5

\* A recommendation is never for a completed test that is the first of its name.
THEOREM CompletedStaysAway == DiagnosticsSpec => CompletedNotProposed
  <1> DEFINE Away == \A n \in Names : proposed'[n] # proposed[n] =>
                        \A i \in DOMAIN tests :
                            tests[i].name = n /\ tests[i].status \in Completed =>
                                \E j \in DOMAIN tests : j < i /\ tests[j].name = n
  <1>1. DiagnosticsTypeOK /\ [DiagnosticsNext]_diagnosticsVars => [Away]_diagnosticsVars
    <2> SUFFICES ASSUME DiagnosticsTypeOK, [DiagnosticsNext]_diagnosticsVars,
                        NEW n \in Names, proposed'[n] # proposed[n],
                        NEW i \in DOMAIN tests, tests[i].name = n, tests[i].status \in Completed
                 PROVE  \E j \in DOMAIN tests : j < i /\ tests[j].name = n
      OBVIOUS
    <2>1. Recommend(n)
      BY StepOfName
    <2> QED BY <2>1, RecommendsUncompleted
  <1> QED BY <1>1, DiagnosticsTypeInit, DiagnosticsTypeStep, PTL
          DEF DiagnosticsSpec, CompletedNotProposed

-----------------------------------------------------------------------------
(* The device scanner *)

Scanner == [pc : {"stopped", "idle", "listed", "report"},
            seen : [Serials -> {"absent", "unauthorized", "device"}],
            previous : [Serials -> {"absent", "unauthorized", "device", "nameless"}],
            reported : BOOLEAN]

\* What the proofs use of the types of the scanner's state.
ScannerTyped ==
    /\ usb \in [Serials -> {"absent", "unauthorized", "device"}]
    /\ socket \in {"down", "up", "broken"}
    /\ conn \in 0..MaxConns /\ (socket # "down" => conn \in Conns)
    /\ scanner \in Scanner
    /\ (scanner.pc = "stopped" <=> socket = "down")
    /\ wire \in [Conns -> Seq(SUBSET Serials)]
    /\ busy \subseteq Conns
    /\ detected \subseteq Serials /\ stored \subseteq Serials
    /\ changes \in Nat /\ fails \in Nat /\ overtaken \in BOOLEAN

LEMMA ScannerTypedIs == ScannerTypeOK <=> ScannerTyped
  BY DEF ScannerTypeOK, ScannerTyped, Scanner

LEMMA ScannerTypedIsNext == ScannerTypeOK' <=> ScannerTyped'
  BY DEF ScannerTypeOK, ScannerTyped, Scanner

LEMMA NothingIs == Nothing \in [Serials -> {"absent", "unauthorized", "device"}]
                   /\ Nothing \in [Serials -> {"absent", "unauthorized", "device", "nameless"}]
  BY DEF Nothing

\* The updates of a scanner.
LEMMA ScannerIs ==
    ASSUME NEW x \in Scanner
    PROVE  /\ \A at \in {"stopped", "idle"} :
                 LET m == [x EXCEPT !.pc = at]
                 IN  m \in Scanner /\ m.pc = at /\ m.previous = x.previous /\ m.reported = x.reported
           /\ LET m == [x EXCEPT !.pc = "idle", !.reported = TRUE]
              IN  m \in Scanner /\ m.pc = "idle" /\ m.previous = x.previous
  <1>1. ASSUME NEW at \in {"stopped", "idle"}
        PROVE  LET m == [x EXCEPT !.pc = at]
               IN  m \in Scanner /\ m.pc = at /\ m.previous = x.previous /\ m.reported = x.reported
    BY DEF Scanner
  <1>2. LET m == [x EXCEPT !.pc = "idle", !.reported = TRUE]
        IN  m \in Scanner /\ m.pc = "idle" /\ m.previous = x.previous
    BY DEF Scanner
  <1> QED BY <1>1, <1>2

-----------------------------------------------------------------------------
(* The scanner's reports: the last one that is on its way, or the hub's list, *)
(* is what the scanner saw last.                                              *)

LastIsSeen ==
    socket = "up" /\ scanner.pc # "report" /\ scanner.reported =>
        LET w == wire[conn]
        IN  IF w = <<>>
            THEN \/ detected = Detected(scanner.previous)
                 \/ overtaken
                 \/ Cardinality(Detected(scanner.previous)) > MaxReport
            ELSE w[Len(w)] = Detected(scanner.previous)

LEMMA AppendLast ==
    ASSUME NEW S, NEW w \in Seq(S), NEW x \in S
    PROVE  /\ Append(w, x) \in Seq(S) /\ Append(w, x) # <<>>
           /\ Append(w, x)[Len(Append(w, x))] = x
  BY AppendProperties

LEMMA LenEmpty == Len(<<>>) = 0
  OBVIOUS

LEMMA TailLast ==
    ASSUME NEW S, NEW w \in Seq(S), w # <<>>
    PROVE  /\ Tail(w) \in Seq(S) /\ Head(w) \in S
           /\ Tail(w) = <<>> => w[Len(w)] = Head(w)
           /\ Tail(w) # <<>> => Tail(w)[Len(Tail(w))] = w[Len(w)]
  <1>1. /\ Tail(w) \in Seq(S) /\ Len(Tail(w)) = Len(w) - 1 /\ Len(w) \in Nat /\ Len(w) >= 1
        /\ \A i \in 1..Len(Tail(w)) : Tail(w)[i] = w[i + 1]
        /\ Head(w) = w[1] /\ Head(w) \in S
    BY HeadTailProperties, EmptySeq
  <1>2. CASE Tail(w) = <<>>
    <2>1. Len(Tail(w)) = 0
      BY <1>2, LenEmpty
    <2> DEFINE m == Len(w)
               t == Len(Tail(w))
    <2>2. m \in Nat /\ t = m - 1 /\ t = 0
      BY <1>1, <2>1
    <2> HIDE DEF m, t
    <2>3. m = 1
      BY <2>2
    <2>4. Len(w) = 1
      BY <2>3 DEF m
    <2> QED BY <1>1, <1>2, <2>4
  <1>3. CASE Tail(w) # <<>>
    <2>1. Len(Tail(w)) \in 1..Len(Tail(w))
      BY <1>1, <1>3, EmptySeq
    <2>2. Len(Tail(w)) + 1 = Len(w)
      BY <1>1
    <2> QED BY <1>1, <1>3, <2>1, <2>2
  <1> QED BY <1>1, <1>2, <1>3

LEMMA DetectedType == ASSUME NEW l PROVE Detected(l) \in SUBSET Serials
  BY DEF Detected

LEMMA EnrichedType ==
    ASSUME ScannerTyped
    PROVE  Enriched \in [Serials -> {"absent", "unauthorized", "device", "nameless"}]
  BY DEF ScannerTyped, Scanner, Enriched

LEMMA ScannerStep ==
    ScannerTyped /\ LastIsSeen /\ [ScannerNext]_scannerVars => ScannerTyped' /\ LastIsSeen'
  <1> SUFFICES ASSUME ScannerTyped, LastIsSeen, [ScannerNext]_scannerVars
               PROVE  ScannerTyped' /\ LastIsSeen'
    OBVIOUS
  <1> USE ScannerAssumption
  <1>0. /\ scanner \in Scanner /\ wire \in [Conns -> Seq(SUBSET Serials)]
        /\ usb \in [Serials -> {"absent", "unauthorized", "device"}]
    BY DEF ScannerTyped
  <1>1. ASSUME NEW s \in Serials, NEW st \in {"absent", "unauthorized", "device"}, Plug(s, st)
        PROVE  ScannerTyped' /\ LastIsSeen'
    BY <1>1 DEF Plug, ScannerTyped, LastIsSeen
  <1>2. CASE Connect
    <2> DEFINE x == [pc |-> "idle", seen |-> Nothing, previous |-> Nothing, reported |-> FALSE]
    <2>1. x \in Scanner /\ x.pc = "idle" /\ ~x.reported
      BY NothingIs DEF Scanner
    <2>2. /\ scanner' = x /\ socket' = "up" /\ conn' = conn + 1 /\ conn < MaxConns
          /\ UNCHANGED <<usb, wire, busy, detected, stored, changes, fails, overtaken>>
      BY <1>2 DEF Connect
    <2> HIDE DEF x
    <2>3. conn' \in Conns /\ conn' \in 0..MaxConns
      BY <2>2 DEF ScannerTyped, Conns
    <2> QED BY <2>1, <2>2, <2>3 DEF ScannerTyped, LastIsSeen
  <1>3. CASE Break
    <2>1. PICK n \in 0..Len(wire[conn]) : wire' = [wire EXCEPT ![conn] = SubSeq(wire[conn], 1, n)]
      BY <1>3 DEF Break
    <2>2. conn \in Conns /\ wire[conn] \in Seq(SUBSET Serials)
      BY <1>0, <1>3 DEF Break, ScannerTyped
    <2>3. SubSeq(wire[conn], 1, n) \in Seq(SUBSET Serials)
      <3>1. \A i \in 1..n : wire[conn][i] \in SUBSET Serials
        BY <2>2
      <3> QED BY <2>2, <3>1, SubSeqProperties
    <2>4. wire' \in [Conns -> Seq(SUBSET Serials)]
      BY <1>0, <2>1, <2>3
    <2> QED BY <1>3, <2>2, <2>4 DEF Break, ScannerTyped, LastIsSeen
  <1>4. CASE Disconnect
    <2>1. scanner' \in Scanner /\ scanner'.pc = "stopped" /\ socket' = "down"
      BY <1>0, <1>4, ScannerIs DEF Disconnect
    <2> QED BY <1>4, <2>1 DEF Disconnect, ScannerTyped, LastIsSeen
  <1>5. CASE List
    <2>1. /\ scanner' \in Scanner /\ scanner'.pc = "listed"
          /\ scanner'.previous = scanner.previous /\ scanner'.reported = scanner.reported
      <3>1. PICK l \in {usb, Nothing} : scanner' = [scanner EXCEPT !.pc = "listed", !.seen = l]
        BY <1>5 DEF List
      <3>2. l \in [Serials -> {"absent", "unauthorized", "device"}]
        BY <1>0, NothingIs
      <3>3. LET m == [scanner EXCEPT !.pc = "listed", !.seen = l]
            IN  m \in Scanner /\ m.pc = "listed" /\ m.previous = scanner.previous
                /\ m.reported = scanner.reported
        BY <1>0, <3>2 DEF Scanner
      <3> QED BY <3>1, <3>3
    <2>2. fails' \in Nat
      BY <1>5 DEF List, ScannerTyped
    <2> QED BY <1>5, <2>1, <2>2 DEF List, ScannerTyped, LastIsSeen
  <1>6. CASE Compare
    <2>1. CASE States(Enriched) = States(scanner.previous)
      <3>1. scanner' = [scanner EXCEPT !.pc = "idle"]
        BY <1>6, <2>1 DEF Compare
      <3>2. /\ scanner' \in Scanner /\ scanner'.pc = "idle"
            /\ scanner'.previous = scanner.previous /\ scanner'.reported = scanner.reported
        BY <1>0, <3>1, ScannerIs
      <3> QED BY <1>6, <3>2 DEF Compare, ScannerTyped, LastIsSeen
    <2>2. CASE States(Enriched) # States(scanner.previous)
      <3>1. scanner' = [scanner EXCEPT !.pc = "report", !.previous = Enriched]
        BY <1>6, <2>2 DEF Compare
      <3>2. scanner' \in Scanner /\ scanner'.pc = "report"
        <4> DEFINE l == Enriched
        <4>1. l \in [Serials -> {"absent", "unauthorized", "device", "nameless"}]
          BY EnrichedType
        <4> HIDE DEF l
        <4>2. LET m == [scanner EXCEPT !.pc = "report", !.previous = l]
              IN  m \in Scanner /\ m.pc = "report"
          BY <1>0, <4>1 DEF Scanner
        <4> QED BY <3>1, <4>2 DEF l
      <3> QED BY <1>6, <3>2 DEF Compare, ScannerTyped, LastIsSeen
    <2> QED BY <2>1, <2>2
  <1>7. CASE Report
    <2>1. scanner' \in Scanner /\ scanner'.pc = "idle" /\ scanner'.previous = scanner.previous
      BY <1>0, <1>7, ScannerIs DEF Report
    <2>2. CASE socket = "up"
      <3> DEFINE r == Detected(scanner.previous)
      <3>1. conn \in Conns /\ wire[conn] \in Seq(SUBSET Serials) /\ r \in SUBSET Serials
        BY <1>0, <2>2, DetectedType DEF ScannerTyped
      <3>2. /\ Append(wire[conn], r) \in Seq(SUBSET Serials) /\ Append(wire[conn], r) # <<>>
            /\ Append(wire[conn], r)[Len(Append(wire[conn], r))] = r
        <4> HIDE DEF r
        <4> QED BY <3>1, AppendLast
      <3>3. wire' = [wire EXCEPT ![conn] = Append(wire[conn], r)]
        BY <1>7, <2>2 DEF Report
      <3>4. Detected(scanner.previous)' = r
        BY <2>1 DEF Detected, States
      <3>5. wire' \in [Conns -> Seq(SUBSET Serials)] /\ wire'[conn] = Append(wire[conn], r)
        BY <1>0, <3>1, <3>2, <3>3
      <3>6. conn' = conn
        BY <1>7 DEF Report
      <3> HIDE DEF r
      <3>7. LastIsSeen'
        BY <3>2, <3>4, <3>5, <3>6 DEF LastIsSeen
      <3> QED BY <1>7, <2>1, <2>2, <3>5, <3>7 DEF Report, ScannerTyped
    <2>3. CASE socket # "up"
      BY <1>7, <2>1, <2>3 DEF Report, ScannerTyped, LastIsSeen
    <2> QED BY <2>2, <2>3
  <1>8. ASSUME NEW c \in Conns, HubReceive(c) PROVE ScannerTyped' /\ LastIsSeen'
    <2> DEFINE w == wire[c]
               report == Head(w)
               seen == Detected(scanner.previous)
    <2>1. w \in Seq(SUBSET Serials) /\ w # <<>>
      BY <1>0, <1>8 DEF HubReceive
    <2>2. /\ Tail(w) \in Seq(SUBSET Serials) /\ report \in SUBSET Serials
          /\ Tail(w) = <<>> => w[Len(w)] = report
          /\ Tail(w) # <<>> => Tail(w)[Len(Tail(w))] = w[Len(w)]
      <3> HIDE DEF w
      <3> QED BY <2>1, TailLast
    <2>3. /\ wire' = [wire EXCEPT ![c] = Tail(w)]
          /\ UNCHANGED <<usb, socket, conn, scanner, stored, changes, fails>>
          /\ \/ Cardinality(report) > MaxReport /\ UNCHANGED <<detected, busy, overtaken>>
             \/ detected' = report /\ busy' = busy \cup {c} /\ overtaken' = (c # conn)
      BY <1>8 DEF HubReceive
    <2> HIDE DEF report, seen
    <2>4. ScannerTyped'
      BY <1>0, <2>2, <2>3 DEF ScannerTyped
    <2>5. Detected(scanner.previous)' = seen
      BY <2>3 DEF Detected, States, seen
    <2>6. CASE c = conn
      <3>1. wire'[conn'] = Tail(w)
        BY <1>0, <2>3, <2>6
      <3>2. socket = "up" /\ scanner.pc # "report" /\ scanner.reported => w[Len(w)] = seen
        BY <2>1, <2>6 DEF LastIsSeen, seen
      <3> HIDE DEF w
      <3>3. LastIsSeen'
        BY <2>2, <2>3, <2>5, <3>1, <3>2 DEF LastIsSeen
      <3> QED BY <2>4, <3>3
    <2>7. CASE c # conn
      <3>1. wire'[conn'] = wire[conn]
        <4>1. conn \in Conns \/ socket = "down"
          BY DEF ScannerTyped
        <4> QED BY <1>0, <2>3, <2>7
      <3> HIDE DEF w
      <3>2. LastIsSeen'
        <4>1. UNCHANGED <<detected, overtaken>> \/ overtaken' = TRUE
          BY <2>3, <2>7
        <4>2. CASE UNCHANGED <<detected, overtaken>>
          BY <2>3, <2>5, <3>1, <4>2 DEF LastIsSeen, seen
        <4>3. CASE overtaken' = TRUE
          BY <2>3, <2>5, <3>1, <4>3 DEF LastIsSeen, seen
        <4> QED BY <4>1, <4>2, <4>3
      <3> QED BY <2>4, <3>2
    <2> QED BY <2>6, <2>7
  <1>9. ASSUME NEW c \in Conns, HubSave(c) PROVE ScannerTyped' /\ LastIsSeen'
    BY <1>9 DEF HubSave, ScannerTyped, LastIsSeen
  <1>10. CASE HubRestart
    <2>1. wire' \in [Conns -> Seq(SUBSET Serials)]
      BY <1>10, EmptySeq DEF HubRestart
    <2> QED BY <1>10, <2>1 DEF HubRestart, ScannerTyped, LastIsSeen
  <1>11. CASE UNCHANGED scannerVars
    BY <1>11 DEF scannerVars, ScannerTyped, LastIsSeen
  <1> QED BY <1>1, <1>2, <1>3, <1>4, <1>5, <1>6, <1>7, <1>8, <1>9, <1>10, <1>11
          DEF ScannerNext, Scan

LEMMA ScannerInvHolds == ScannerSpec => [](ScannerTyped /\ LastIsSeen)
  <1>1. ScannerInit => ScannerTyped /\ LastIsSeen
    <2> SUFFICES ASSUME ScannerInit PROVE ScannerTyped /\ LastIsSeen
      OBVIOUS
    <2>1. scanner \in Scanner /\ scanner.pc = "stopped"
      BY NothingIs DEF ScannerInit, Scanner
    <2>2. wire \in [Conns -> Seq(SUBSET Serials)]
      BY EmptySeq DEF ScannerInit
    <2>3. conn \in 0..MaxConns
      BY ScannerAssumption DEF ScannerInit
    <2> QED BY <2>1, <2>2, <2>3 DEF ScannerInit, ScannerTyped, LastIsSeen
  <1> QED BY <1>1, ScannerStep, PTL DEF ScannerSpec

\* The variables of the scanner and the hub's list keep their types.
THEOREM ScannerTypeCorrect == ScannerSpec => []ScannerTypeOK
  BY ScannerInvHolds, ScannerTypedIs, PTL

\* The hub's list is what the scanner of the connection saw last, whatever is
\* plugged, lost and restarted, with the exceptions the property names.
THEOREM ListStaysLastSeen == ScannerSpec => []ListIsLastSeen
  <1>1. LastIsSeen => ListIsLastSeen
    BY DEF LastIsSeen, ListIsLastSeen
  <1> QED BY <1>1, ScannerInvHolds, PTL

-----------------------------------------------------------------------------
(* The session store *)

Context == [at : Nat, ids : SUBSET Devices, last : Devices \cup {NoSession}]

Joining == [pc : {"list", "create", "touch"}, device : Devices, session : Sessions]

StoreTyped ==
    /\ owner \in [Devices -> Users \cup {NoSession}]
    /\ participants \subseteq Devices \X Sessions
    /\ contexts \in [Sessions -> Context]
    /\ join \in {NoJoin} \cup Joining
    /\ saves \in Nat
    /\ joined \subseteq Devices \X Sessions /\ cut \subseteq Devices \X Sessions

LEMMA StoreTypedIs == StoreTypeOK <=> StoreTyped
  BY DEF StoreTypeOK, StoreTyped, Context, Joining

\* Every participant's join was completed, cut short, or is under way, and a
\* session that was joined has a context.
JoinsKept ==
    /\ \A d \in Devices, s \in Sessions : <<d, s>> \in participants =>
          \/ <<d, s>> \in joined \/ <<d, s>> \in cut
          \/ join # NoJoin /\ join.device = d /\ join.session = s
    /\ joined \subseteq participants
    /\ join # NoJoin => <<join.device, join.session>> \in participants
    /\ \A d \in Devices, s \in Sessions : <<d, s>> \in joined => contexts[s].at > 0

LEMMA JoiningIs ==
    /\ NoJoin.pc = "idle" /\ NoJoin \notin Joining
    /\ \A x \in Joining : /\ x.pc \in {"list", "create", "touch"}
                          /\ x.device \in Devices /\ x.session \in Sessions
    /\ \A x \in Joining, at \in {"create", "touch"} :
          LET y == [x EXCEPT !.pc = at]
          IN  y \in Joining /\ y.device = x.device /\ y.session = x.session
    /\ \A d \in Devices, s \in Sessions :
          LET y == [pc |-> "list", device |-> d, session |-> s]
          IN  y \in Joining /\ y.device = d /\ y.session = s
  <1>1. NoJoin.pc = "idle" /\ NoJoin \notin Joining
    BY DEF NoJoin, Joining
  <1>2. ASSUME NEW x \in Joining, NEW at \in {"create", "touch"}
        PROVE  LET y == [x EXCEPT !.pc = at]
               IN  y \in Joining /\ y.device = x.device /\ y.session = x.session
    BY DEF Joining
  <1>3. ASSUME NEW x \in Joining
        PROVE  /\ x.pc \in {"list", "create", "touch"}
               /\ x.device \in Devices /\ x.session \in Sessions
    BY DEF Joining
  <1>4. ASSUME NEW d \in Devices, NEW s \in Sessions
        PROVE  LET y == [pc |-> "list", device |-> d, session |-> s]
               IN  y \in Joining /\ y.device = d /\ y.session = s
    BY DEF Joining
  <1> QED BY <1>1, <1>2, <1>3, <1>4

\* A saved context is stamped, and no other context changes.
LEMMA SavedIs ==
    ASSUME StoreTyped, NEW s \in Sessions, NEW c \in Context, Saved(s, c)
    PROVE  /\ contexts' \in [Sessions -> Context] /\ saves' \in Nat
           /\ contexts'[s].at > 0 /\ \A t \in Sessions \ {s} : contexts'[t] = contexts[t]
  <1>1. saves + 1 \in Nat /\ saves + 1 > 0
    BY DEF StoreTyped
  <1>2. [c EXCEPT !.at = saves + 1] \in Context /\ [c EXCEPT !.at = saves + 1].at = saves + 1
    BY <1>1 DEF Context
  <1>3. contexts' = [contexts EXCEPT ![s] = [c EXCEPT !.at = saves + 1]] /\ saves' = saves + 1
    BY DEF Saved
  <1> QED BY <1>1, <1>2, <1>3 DEF StoreTyped

\* The steps of a join that is under way.
LEMMA JoinStep ==
    ASSUME StoreTyped, JoinsKept, ListParticipant \/ CreateContext \/ Touch
    PROVE  StoreTyped' /\ JoinsKept'
  <1> USE StoreAssumption
  <1>1. /\ join \in Joining /\ join # NoJoin
        /\ join.session \in Sessions /\ join.device \in Devices
        /\ contexts[join.session] \in Context
    BY JoiningIs DEF StoreTyped, ListParticipant, CreateContext, Touch
  <1> DEFINE d == join.device
             s == join.session
             c == contexts[s]
  <1>2. /\ NoContext \in Context
        /\ [c EXCEPT !.ids = c.ids \cup {d}, !.last = d] \in Context
        /\ [c EXCEPT !.last = d] \in Context
    BY <1>1 DEF Context, NoContext
  <1>3. /\ contexts' \in [Sessions -> Context] /\ saves' \in Nat
        /\ \A t \in Sessions : contexts[t].at > 0 => contexts'[t].at > 0
        /\ (Touch => contexts'[s].at > 0)
    <2>1. CASE UNCHANGED <<contexts, saves>> /\ ~Touch
      BY <2>1 DEF StoreTyped
    <2>2. CASE \E x \in Context : Saved(s, x)
      BY <1>1, <2>2, SavedIs
    <2> QED BY <1>2, <2>1, <2>2 DEF ListParticipant, CreateContext, Touch, Saved
  <1>4. UNCHANGED <<owner, participants, cut>>
    BY DEF ListParticipant, CreateContext, Touch
  <1>5. CASE Touch
    <2>1. join' = NoJoin /\ joined' = joined \cup {<<d, s>>}
      BY <1>5 DEF Touch
    <2> HIDE DEF d, s, c
    <2>2. StoreTyped'
      BY <1>1, <1>3, <1>4, <2>1 DEF StoreTyped, d, s
    <2>3. JoinsKept'
      <3>1. <<d, s>> \in participants
        BY <1>1 DEF JoinsKept, d, s
      <3>2. \A e \in Devices, t \in Sessions : <<e, t>> \in joined' => <<e, t>> \in joined \/ t = s
        BY <2>1
      <3>3. \A e \in Devices, t \in Sessions : <<e, t>> \in participants =>
               <<e, t>> \in joined' \/ <<e, t>> \in cut
        BY <2>1 DEF JoinsKept, d, s
      <3> QED BY <1>3, <1>4, <1>5, <2>1, <3>1, <3>2, <3>3 DEF JoinsKept
    <2> QED BY <2>2, <2>3
  <1>6. CASE ListParticipant \/ CreateContext
    <2>1. PICK at \in {"create", "touch"} : join' = [join EXCEPT !.pc = at]
      BY <1>6 DEF ListParticipant, CreateContext
    <2>2. join' \in Joining /\ join'.device = d /\ join'.session = s /\ join' # NoJoin
      BY <1>1, <2>1, JoiningIs
    <2>3. joined' = joined
      BY <1>6 DEF ListParticipant, CreateContext
    <2> QED BY <1>1, <1>3, <1>4, <2>2, <2>3 DEF StoreTyped, JoinsKept
  <1> QED BY <1>5, <1>6

LEMMA StoreStep ==
    StoreTyped /\ JoinsKept /\ [StoreNext]_storeVars => StoreTyped' /\ JoinsKept'
  <1> SUFFICES ASSUME StoreTyped, JoinsKept, [StoreNext]_storeVars
               PROVE  StoreTyped' /\ JoinsKept'
    OBVIOUS
  <1>1. ASSUME NEW d \in Devices, NEW u \in Users, SaveDevice(d, u)
        PROVE  StoreTyped' /\ JoinsKept'
    BY <1>1 DEF SaveDevice, StoreTyped, JoinsKept
  <1>2. ASSUME NEW d \in Devices, NEW s \in Sessions, AddParticipant(d, s)
        PROVE  StoreTyped' /\ JoinsKept'
    <2>1. /\ join' \in Joining /\ join' # NoJoin /\ join'.device = d /\ join'.session = s
          /\ join = NoJoin /\ participants' = participants \cup {<<d, s>>}
          /\ UNCHANGED <<owner, contexts, saves, joined, cut>>
      BY <1>2, JoiningIs DEF AddParticipant
    <2> QED BY <2>1 DEF StoreTyped, JoinsKept
  <1>3. CASE ListParticipant \/ CreateContext \/ Touch
    BY <1>3, JoinStep
  <1>4. CASE KillStore
    <2>1. join \in Joining /\ join.device \in Devices /\ join.session \in Sessions
      BY <1>4, JoiningIs DEF KillStore, StoreTyped
    <2>2. /\ join' = NoJoin /\ cut' = cut \cup {<<join.device, join.session>>}
          /\ UNCHANGED <<owner, participants, contexts, saves, joined>>
      BY <1>4 DEF KillStore
    <2> QED BY <2>1, <2>2 DEF StoreTyped, JoinsKept
  <1>5. CASE UNCHANGED storeVars
    BY <1>5 DEF storeVars, StoreTyped, JoinsKept
  <1> QED BY <1>1, <1>2, <1>3, <1>4, <1>5 DEF StoreNext

LEMMA ResumesIs == StoreTyped /\ JoinsKept => ResumesOwn
  <1> SUFFICES ASSUME StoreTyped, JoinsKept, join = NoJoin, NEW u \in Users, NEW s \in Sessions,
                      \A d \in Devices : owner[d] = u => \A t \in Sessions : <<d, t>> \notin cut,
                      {j \in joined : owner[j[1]] = u} # {},
                      \A j \in joined : owner[j[1]] = u => j[2] = s
               PROVE  Resume(u) = s
    BY DEF ResumesOwn
  <1>1. PICK d \in Devices, t \in Sessions : <<d, t>> \in joined /\ owner[d] = u
    <2>1. PICK j \in joined : owner[j[1]] = u
      OBVIOUS
    <2>2. j \in Devices \X Sessions
      BY DEF StoreTyped
    <2>3. j[1] \in Devices /\ j[2] \in Sessions /\ j = <<j[1], j[2]>>
      BY <2>2
    <2> QED BY <2>1, <2>3
  <1>2. t = s
    BY <1>1
  <1>3. s \in Active(u)
    BY <1>1, <1>2 DEF JoinsKept, Active, Stored
  <1>4. ASSUME NEW r \in Active(u) PROVE r = s
    <2>1. r \in Sessions
      BY DEF Active, Stored
    <2>2. PICK e \in Devices : owner[e] = u /\ <<e, r>> \in participants
      BY DEF Active
    <2>3. <<e, r>> \in joined
      BY <2>1, <2>2 DEF JoinsKept
    <2> QED BY <2>2, <2>3
  <1>5. Active(u) = {s}
    BY <1>3, <1>4
  <1>6. Cardinality({s}) = 1
    BY FS_Singleton
  <1> QED BY <1>5, <1>6 DEF Resume

LEMMA StoreInvHolds == StoreSpec => [](StoreTyped /\ JoinsKept)
  <1>1. StoreInit => StoreTyped /\ JoinsKept
    <2>1. NoContext \in Context
      BY DEF NoContext, Context
    <2> QED BY <2>1 DEF StoreInit, StoreTyped, JoinsKept
  <1> QED BY <1>1, StoreStep, PTL DEF StoreSpec

\* The variables of the store keep their types.
THEOREM StoreTypeCorrect == StoreSpec => []StoreTypeOK
  BY StoreInvHolds, StoreTypedIs, PTL

\* A user whose devices joined one session resumes that one, whoever owns the
\* devices by now and whatever other users join, unless a kill cut a join.
THEOREM UsersResumeTheirSession == StoreSpec => []ResumesOwn
  BY StoreInvHolds, ResumesIs, PTL

-----------------------------------------------------------------------------
(* The local hub process *)

\* The steps of the process p alone.
Step(p) == Proceed(p) \/ Launch(p) \/ Close(p) \/ Kill(p)

\* A step of p moves only p.
LEMMA StepMovesOne ==
    ASSUME NEW p \in Launches, HubTypeOK, Step(p)
    PROVE  \A q \in Launches \ {p} : pc'[q] = pc[q]
  <1>1. ASSUME NEW from, NEW to, Goto(p, from, to)
        PROVE  \A q \in Launches \ {p} : pc'[q] = pc[q]
    BY <1>1 DEF Goto, HubTypeOK
  <1>2. CASE Kill(p)
    BY <1>2 DEF Kill, HubTypeOK
  <1>3. CASE \E from, to : Goto(p, from, to)
    BY <1>1, <1>3
  <1> QED
    BY <1>2, <1>3 DEF Step, Proceed, Launch, Acquire, Configure, Advertise, Serve, Ready,
       NotReady, StartAgent, NoServer, Close, Terminate, Unregister, Exit

\* What moving p from one label to another does to the types.
LEMMA GotoType ==
    ASSUME NEW p \in Launches, NEW from, NEW to \in {"off", "lock", "gone"} \cup Running,
           HubTypeOK, Goto(p, from, to)
    PROVE  /\ pc' \in [Launches -> {"off", "lock", "gone"} \cup Running]
           /\ pc[p] = from /\ pc'[p] = to
  BY DEF HubTypeOK, Goto

\* What the end of p leaves of the ports and the name.
LEMMA EndedType ==
    ASSUME NEW p \in Launches, HubTypeOK, Ended(p)
    PROVE  /\ lock' \in Launches \cup {None} /\ lock' \in {lock, None}
           /\ port' \in Launches \cup {None, Other} /\ port' # p /\ port' \in {port, None}
           /\ names' \subseteq Launches \cup {Other} /\ names' = names \ {p}
           /\ options' = options /\ agents' = agents /\ dismissed' = dismissed
  BY HubAssumption DEF HubTypeOK, Ended

LEMMA TypeInit == HubInit => HubTypeOK
  BY DEF HubInit, HubTypeOK, Running

LEMMA TypeStep == HubTypeOK /\ [HubNext]_hubVars => HubTypeOK'
  <1> SUFFICES ASSUME HubTypeOK, [HubNext]_hubVars PROVE HubTypeOK'
    OBVIOUS
  <1> USE DEF Running
  <1>1. ASSUME NEW p \in Launches, Launch(p) PROVE HubTypeOK'
    BY <1>1, GotoType DEF Launch, HubTypeOK
  <1>2. ASSUME NEW p \in Launches, Acquire(p) PROVE HubTypeOK'
    BY <1>2, GotoType DEF Acquire, HubTypeOK
  <1>3. ASSUME NEW p \in Launches, Configure(p) PROVE HubTypeOK'
    BY <1>3, GotoType DEF Configure, HubTypeOK
  <1>4. ASSUME NEW p \in Launches, Advertise(p) PROVE HubTypeOK'
    <2>1. CASE options[p].mdns /\ names # {}
      BY <1>4, <2>1, GotoType, EndedType DEF Advertise, HubTypeOK
    <2>2. CASE ~(options[p].mdns /\ names # {})
      BY <1>4, <2>2, GotoType DEF Advertise, HubTypeOK
    <2> QED BY <2>1, <2>2
  <1>5. ASSUME NEW p \in Launches, Serve(p) PROVE HubTypeOK'
    BY <1>5, GotoType DEF Serve, HubTypeOK
  <1>6. ASSUME NEW p \in Launches, Ready(p) PROVE HubTypeOK'
    BY <1>6, GotoType DEF Ready, HubTypeOK
  <1>7. ASSUME NEW p \in Launches, NotReady(p) PROVE HubTypeOK'
    BY <1>7, GotoType, EndedType DEF NotReady, HubTypeOK
  <1>8. ASSUME NEW p \in Launches, StartAgent(p) PROVE HubTypeOK'
    BY <1>8, GotoType DEF StartAgent, HubTypeOK
  <1>9. ASSUME NEW p \in Launches, Close(p) PROVE HubTypeOK'
    BY <1>9, GotoType DEF Close, HubTypeOK
  <1>10. ASSUME NEW p \in Launches, Terminate(p) PROVE HubTypeOK'
    BY <1>10, GotoType DEF Terminate, HubTypeOK
  <1>11. ASSUME NEW p \in Launches, Unregister(p) PROVE HubTypeOK'
    BY <1>11, GotoType DEF Unregister, HubTypeOK
  <1>12. ASSUME NEW p \in Launches, Exit(p) PROVE HubTypeOK'
    BY <1>12, GotoType, EndedType DEF Exit, HubTypeOK
  <1>13. ASSUME NEW p \in Launches, Kill(p) PROVE HubTypeOK'
    BY <1>13, EndedType DEF Kill, HubTypeOK
  <1>14. ASSUME NEW p \in Launches, AgentExits(p) PROVE HubTypeOK'
    BY <1>14 DEF AgentExits, HubTypeOK
  <1>15. CASE OtherPort \/ OtherName \/ UNCHANGED hubVars
    BY <1>15 DEF OtherPort, OtherName, hubVars, HubTypeOK
  <1> QED
    BY <1>1, <1>2, <1>3, <1>4, <1>5, <1>6, <1>7, <1>8, <1>9, <1>10, <1>11, <1>12, <1>13,
       <1>14, <1>15 DEF HubNext, Proceed, NoServer

\* The variables keep their types.
THEOREM HubTypeCorrect == HubSpec => []HubTypeOK
  BY TypeInit, TypeStep, PTL DEF HubSpec

-----------------------------------------------------------------------------
(* AgentHasItsHub is inductive with the types. *)

LEMMA AgentStep == HubTypeOK /\ AgentHasItsHub /\ [HubNext]_hubVars => AgentHasItsHub'
  <1> SUFFICES ASSUME HubTypeOK, AgentHasItsHub, [HubNext]_hubVars,
                      NEW a \in agents'
               PROVE  pc'[a] \in {"run", "stop"} \/ a \in dismissed' \cup killed'
    BY DEF AgentHasItsHub
  <1>1. ASSUME NEW p \in Launches, Step(p)
        PROVE  pc'[a] \in {"run", "stop"} \/ a \in dismissed' \cup killed'
    <2>1. dismissed \subseteq dismissed' /\ killed \subseteq killed'
      BY <1>1 DEF Step, Proceed, Launch, Acquire, Configure, Advertise, Serve, Ready, NotReady,
         StartAgent, NoServer, Close, Terminate, Unregister, Exit, Kill, Ended
    <2>2. agents' \subseteq agents \cup {p} /\ a \in Launches
      BY <1>1 DEF Step, Proceed, Launch, Acquire, Configure, Advertise, Serve, Ready, NotReady,
         StartAgent, NoServer, Close, Terminate, Unregister, Exit, Kill, Ended, HubTypeOK
    <2>3. CASE a # p
      BY <1>1, <2>1, <2>2, <2>3, StepMovesOne DEF AgentHasItsHub
    <2>4. CASE a = p
      <3>1. CASE StartAgent(p) \/ Close(p) \/ NoServer(p) \/ Terminate(p) \/ Kill(p)
        BY <2>4, <3>1 DEF StartAgent, NoServer, Close, Terminate, Kill, Goto, HubTypeOK
      <3>2. CASE ~(StartAgent(p) \/ Close(p) \/ NoServer(p) \/ Terminate(p) \/ Kill(p))
        <4>1. agents' = agents /\ pc[p] \notin {"run", "stop"}
          BY <1>1, <3>2 DEF Step, Proceed, Launch, Acquire, Configure, Advertise, Serve, Ready,
             NotReady, Unregister, Exit, Ended, Goto
        <4> QED BY <2>1, <2>4, <4>1 DEF AgentHasItsHub
      <3> QED BY <3>1, <3>2
    <2> QED BY <2>3, <2>4
  <1>2. ASSUME NEW p \in Launches, AgentExits(p)
        PROVE  pc'[a] \in {"run", "stop"} \/ a \in dismissed' \cup killed'
    BY <1>2 DEF AgentExits, AgentHasItsHub
  <1>3. CASE OtherPort \/ OtherName \/ UNCHANGED hubVars
    BY <1>3 DEF OtherPort, OtherName, hubVars, AgentHasItsHub
  <1> QED BY <1>1, <1>2, <1>3 DEF HubNext, Step

\* An agent process outlives its hub only when it was told to end or the hub
\* was killed.
THEOREM AgentsEndWithTheirHub == HubSpec => []AgentHasItsHub
  <1>1. HubInit => AgentHasItsHub
    BY DEF HubInit, AgentHasItsHub
  <1> QED BY <1>1, AgentStep, HubTypeCorrect, PTL DEF HubSpec

-----------------------------------------------------------------------------
(* One hub at a time: whoever is past the lock holds it. *)

HolderRuns ==
    /\ \A p \in Launches : pc[p] \in Running => lock = p
    /\ \A p \in Launches : p = port \/ p \in names => pc[p] \in Running

LEMMA HolderStep == HubTypeOK /\ HolderRuns /\ [HubNext]_hubVars => HolderRuns'
  <1> SUFFICES ASSUME HubTypeOK, HolderRuns, [HubNext]_hubVars,
                      NEW q \in Launches
               PROVE  /\ pc'[q] \in Running => lock' = q
                      /\ q = port' \/ q \in names' => pc'[q] \in Running
    BY DEF HolderRuns
  <1> USE HubAssumption
  <1>1. ASSUME NEW p \in Launches, Step(p), q = p
        PROVE  /\ pc'[q] \in Running => lock' = q
               /\ q = port' \/ q \in names' => pc'[q] \in Running
    <2>1. CASE Launch(p) \/ Acquire(p)
      BY <1>1, <2>1 DEF Launch, Acquire, Goto, HolderRuns, HubTypeOK, Running
    <2>2. CASE Kill(p) \/ NotReady(p) \/ Exit(p) \/ (Advertise(p) /\ options[p].mdns /\ names # {})
      <3>1. pc'[p] = "gone"
        BY <2>2 DEF Kill, NotReady, Exit, Advertise, Goto, HubTypeOK, Running
      <3>2. port' # p /\ p \notin names'
        BY <2>2, EndedType DEF Kill, NotReady, Exit, Advertise
      <3> QED BY <1>1, <3>1, <3>2 DEF Running
    <2>3. CASE (Advertise(p) /\ ~(options[p].mdns /\ names # {})) \/ Configure(p) \/ Serve(p) \/ Ready(p)
               \/ StartAgent(p) \/ Close(p) \/ NoServer(p) \/ Terminate(p) \/ Unregister(p)
      BY <1>1, <2>3 DEF Configure, Advertise, Serve, Ready, StartAgent, NoServer, Close,
         Terminate, Unregister, Goto, HolderRuns, HubTypeOK, Running
    <2> QED BY <1>1, <2>1, <2>2, <2>3 DEF Step, Proceed
  <1>2. ASSUME NEW p \in Launches, Step(p), q # p
        PROVE  /\ pc'[q] \in Running => lock' = q
               /\ q = port' \/ q \in names' => pc'[q] \in Running
    <2>1. pc'[q] = pc[q]
      BY <1>2, StepMovesOne
    <2>2. port' = q => port = q
      BY <1>2 DEF Step, Proceed, Launch, Acquire, Configure, Advertise, Serve, Ready, NotReady,
         StartAgent, NoServer, Close, Terminate, Unregister, Exit, Kill, Ended
    <2>3. q \in names' => q \in names
      BY <1>2 DEF Step, Proceed, Launch, Acquire, Configure, Advertise, Serve, Ready, NotReady,
         StartAgent, NoServer, Close, Terminate, Unregister, Exit, Kill, Ended
    <2>4. lock = q => lock' = q
      BY <1>2 DEF Step, Proceed, Launch, Acquire, Configure, Advertise, Serve, Ready, NotReady,
         StartAgent, NoServer, Close, Terminate, Unregister, Exit, Kill, Ended
    <2> QED BY <2>1, <2>2, <2>3, <2>4 DEF HolderRuns
  <1>3. CASE (\E p \in Launches : AgentExits(p)) \/ OtherPort \/ OtherName \/ UNCHANGED hubVars
    BY <1>3 DEF AgentExits, OtherPort, OtherName, hubVars, HolderRuns
  <1> QED BY <1>1, <1>2, <1>3 DEF HubNext, Step

\* However often the program is started, one process at most is past the lock,
\* and only it serves the port or answers for the name.
THEOREM OneHubAtATime == HubSpec => []OneHub
  <1>1. HubInit => HolderRuns
    BY HubAssumption DEF HubInit, HolderRuns, Running
  <1>2. HolderRuns => OneHub
    BY DEF HolderRuns, OneHub
  <1> QED BY <1>1, <1>2, HolderStep, HubTypeCorrect, PTL DEF HubSpec
==============================================================================
