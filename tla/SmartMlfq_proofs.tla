-------------------------- MODULE SmartMlfq_proofs --------------------------
(***************************************************************************)
(* Proofs about SmartMlfq, for any number of processes, any slices, any    *)
(* boost period and any score scale.                                       *)
(*                                                                         *)
(* Argument: each operator of the class preserves Holds(m, R), "the class  *)
(* is in order and the processes of R are those in its queues" (lemmas     *)
(* ...Holds).  The inductive invariant says that Holds(mlfq, R) is true    *)
(* with R the set of processes that are ready, which ties the queues to    *)
(* proc->state and current; schedule() passes through two intermediate     *)
(* states of the class, to which the same lemmas apply.                    *)
(***************************************************************************)
EXTENDS SmartMlfq, SequenceFacts, TLAPS

\* The queues hold each process of R once and nothing else, and every process
\* the level of its queue and a slice no longer than its level grants;
\* rq->proc_num is the number of the queued processes, and every score is a
\* fraction of SCORE_SCALE.
Counted(m) == m.proc_num = Len(m.queues[0]) + Len(m.queues[1])
                           + Len(m.queues[2]) + Len(m.queues[3])

Scored(m) == \A p \in Procs : m.cpu_score[p] \in 0 .. SCORE_SCALE

Holds(m, R) ==
  /\ m \in MlfqState
  /\ Counted(m)
  /\ Scored(m)
  /\ \A p \in Procs : (\E l \in Level : InQueue(m, l, p)) <=> p \in R
  /\ \A l, k \in Level : \A i \in 1 .. Len(m.queues[l]), j \in 1 .. Len(m.queues[k]) :
       m.queues[l][i] = m.queues[k][j] => l = k /\ i = j
  /\ \A l \in Level : \A i \in 1 .. Len(m.queues[l]) :
       /\ m.mlfq_level[m.queues[l][i]] = l
       /\ m.current_slice_ticks[m.queues[l][i]] = level_slice[l]
  /\ \A p \in Procs : m.current_slice_ticks[p] <= level_slice[m.mlfq_level[p]]

----------------------------------------------------------------------------
\* The share of s that u is, on a scale of c.
LEMMA ShareOfScale ==
  ASSUME NEW u \in Nat, NEW s \in Nat \ {0}, NEW c \in Nat, u <= s
  PROVE  (u * c) \div s \in 0 .. c
<1> DEFINE x == u * c
           d == x \div s
<1>1. x \in Nat /\ x <= s * c
  OBVIOUS
<1> HIDE DEF x
<1>2. d \in Int /\ s * d <= x /\ x < s * d + s
  BY <1>1
<1>3. d >= 0
  BY <1>1, <1>2
<1>4. d <= c
  <2>1. SUFFICES ASSUME d >= c + 1 PROVE FALSE
    BY <1>2
  <2>2. s * d >= s * (c + 1)
    BY <1>2, <2>1
  <2>3. s * (c + 1) = s * c + s
    OBVIOUS
  <2> QED
    BY <1>1, <1>2, <2>2, <2>3
<1> QED
  BY <1>2, <1>3, <1>4 DEF x

\* The weighted mean of two scores is a score.
LEMMA MeanOfScores ==
  ASSUME NEW c \in Nat, NEW a \in 0 .. c, NEW b \in 0 .. c
  PROVE  (6 * a + 4 * b) \div 10 \in 0 .. c
OBVIOUS

\* The update keeps the score in range when the slice fits its level.
LEMMA NextScoreInRange ==
  ASSUME NEW m \in MlfqState, NEW p \in Procs,
         m.current_slice_ticks[p] <= level_slice[m.mlfq_level[p]],
         m.cpu_score[p] \in 0 .. SCORE_SCALE
  PROVE  NextScore(m, p) \in 0 .. SCORE_SCALE
<1>1. /\ m.current_slice_ticks[p] \in Nat
      /\ level_slice[m.mlfq_level[p]] \in Nat \ {0}
      /\ SCORE_SCALE \in Nat
  BY MlfqAssumption DEF MlfqState
<1>2. Used(m, p) \in Nat /\ Used(m, p) <= level_slice[m.mlfq_level[p]]
  BY <1>1 DEF Used
<1>3. Ratio(m, p) \in 0 .. SCORE_SCALE
  BY <1>1, <1>2, ShareOfScale DEF Ratio
<1> QED
  BY <1>1, <1>3, MeanOfScores DEF NextScore

\* The level update yields a level and an integer score.
LEMMA UpdateType ==
  ASSUME NEW m \in MlfqState, NEW p \in Procs
  PROVE  NextScore(m, p) \in Int /\ NextLevel(m, p) \in Level
<1>1. m.mlfq_level[p] \in Level /\ m.cpu_score[p] \in Int
      /\ m.current_slice_ticks[p] \in Nat
  BY DEF MlfqState
<1>2. level_slice[m.mlfq_level[p]] \in Nat \ {0}
  BY <1>1, MlfqAssumption
<1>3. Ratio(m, p) \in Int
  BY <1>1, <1>2, MlfqAssumption DEF Ratio, Used
<1>4. NextScore(m, p) \in Int
  BY <1>1, <1>3 DEF NextScore
<1>5. NextLevel(m, p) \in Level
  BY <1>1 DEF NextLevel, Level, MLFQ_LEVELS
<1> QED
  BY <1>4, <1>5

\* What mlfq_enqueue does to each field, whatever the level update decides.
LEMMA EnqueueEffect ==
  ASSUME NEW m \in MlfqState, NEW p \in Procs
  PROVE  LET e == Enqueue(m, p) IN
         /\ e \in MlfqState
         /\ e.proc_num = m.proc_num + 1
         /\ e.cpu_score[p] = IF m.sched_count[p] > 0 THEN NextScore(m, p)
                            ELSE m.cpu_score[p]
         /\ \A q \in Procs \ {p} : e.cpu_score[q] = m.cpu_score[q]
         /\ \E l \in Level :
              /\ e.queues = [m.queues EXCEPT ![l] = Append(@, p)]
              /\ e.mlfq_level = [m.mlfq_level EXCEPT ![p] = l]
              /\ e.current_slice_ticks =
                   [m.current_slice_ticks EXCEPT ![p] = level_slice[l]]
<1> DEFINE u == IF m.sched_count[p] > 0 THEN PredictAndLevelUpdate(m, p)
                ELSE [m EXCEPT !.mlfq_level[p] = 0]
           l == u.mlfq_level[p]
<1>1. /\ u \in MlfqState
      /\ l \in Level
      /\ u.queues = m.queues
      /\ u.proc_num = m.proc_num
      /\ u.current_slice_ticks = m.current_slice_ticks
      /\ u.mlfq_level = [m.mlfq_level EXCEPT ![p] = l]
      /\ u.cpu_score[p] = IF m.sched_count[p] > 0 THEN NextScore(m, p)
                         ELSE m.cpu_score[p]
      /\ \A q \in Procs \ {p} : u.cpu_score[q] = m.cpu_score[q]
  <2>1. CASE m.sched_count[p] > 0
    BY <2>1, UpdateType DEF PredictAndLevelUpdate, MlfqState
  <2>2. CASE ~ (m.sched_count[p] > 0)
    <3>1. u = [m EXCEPT !.mlfq_level[p] = 0]
      BY <2>2
    <3>2. 0 \in Level
      BY DEF Level, MLFQ_LEVELS
    <3> HIDE DEF u
    <3>3. /\ u \in MlfqState
          /\ u.mlfq_level = [m.mlfq_level EXCEPT ![p] = 0]
          /\ u.queues = m.queues
          /\ u.proc_num = m.proc_num
          /\ u.cpu_score = m.cpu_score
          /\ u.current_slice_ticks = m.current_slice_ticks
      BY <3>1, <3>2 DEF MlfqState
    <3> QED
      BY <2>2, <3>2, <3>3 DEF MlfqState
  <2> QED
    BY <2>1, <2>2
<1>2. level_slice[l] \in Nat
  BY <1>1, MlfqAssumption
<1>3. Append(u.queues[l], p) \in Seq(Procs)
  BY <1>1 DEF MlfqState
<1>4. Enqueue(m, p) = [u EXCEPT !.current_slice_ticks[p] = level_slice[l],
                                !.queues[l] = Append(@, p),
                                !.proc_num = @ + 1]
  BY DEF Enqueue
<1> HIDE DEF u, l
<1>5. Enqueue(m, p) \in MlfqState
  <2>1. [u.queues EXCEPT ![l] = Append(@, p)] \in [Level -> Seq(Procs)]
    BY <1>1, <1>3 DEF MlfqState
  <2>2. [u.current_slice_ticks EXCEPT ![p] = level_slice[l]] \in [Procs -> Nat]
    BY <1>1, <1>2 DEF MlfqState
  <2>3. Enqueue(m, p) =
          [queues              |-> [u.queues EXCEPT ![l] = Append(@, p)],
           global_timer        |-> u.global_timer,
           proc_num            |-> u.proc_num + 1,
           mlfq_level          |-> u.mlfq_level,
           current_slice_ticks |->
             [u.current_slice_ticks EXCEPT ![p] = level_slice[l]],
           sched_count         |-> u.sched_count,
           cpu_score           |-> u.cpu_score]
    BY <1>1, <1>4 DEF MlfqState
  <2> QED
    BY <1>1, <2>1, <2>2, <2>3 DEF MlfqState
<1>6. /\ Enqueue(m, p).proc_num = m.proc_num + 1
      /\ Enqueue(m, p).cpu_score = u.cpu_score
      /\ Enqueue(m, p).queues = [m.queues EXCEPT ![l] = Append(@, p)]
      /\ Enqueue(m, p).mlfq_level = [m.mlfq_level EXCEPT ![p] = l]
      /\ Enqueue(m, p).current_slice_ticks =
           [m.current_slice_ticks EXCEPT ![p] = level_slice[l]]
  <2>1. /\ u \in MlfqState
        /\ u.queues = m.queues
        /\ u.proc_num = m.proc_num
        /\ u.current_slice_ticks = m.current_slice_ticks
        /\ u.mlfq_level = [m.mlfq_level EXCEPT ![p] = l]
    BY <1>1
  <2> QED
    BY <1>4, <2>1 DEF MlfqState
<1>7. /\ Enqueue(m, p).cpu_score[p] = IF m.sched_count[p] > 0 THEN NextScore(m, p)
                                  ELSE m.cpu_score[p]
      /\ \A q \in Procs \ {p} : Enqueue(m, p).cpu_score[q] = m.cpu_score[q]
  <2>1. Enqueue(m, p).cpu_score = u.cpu_score
    BY <1>6
  <2>2. /\ u.cpu_score[p] = IF m.sched_count[p] > 0 THEN NextScore(m, p)
                         ELSE m.cpu_score[p]
        /\ \A q \in Procs \ {p} : u.cpu_score[q] = m.cpu_score[q]
    BY <1>1
  <2> QED
    BY <2>1, <2>2, Zenon
<1>8. l \in Level
  BY <1>1
<1> QED
  <2> DEFINE e == Enqueue(m, p)
  <2>1. \E k \in Level :
          /\ e.queues = [m.queues EXCEPT ![k] = Append(@, p)]
          /\ e.mlfq_level = [m.mlfq_level EXCEPT ![p] = k]
          /\ e.current_slice_ticks =
               [m.current_slice_ticks EXCEPT ![p] = level_slice[k]]
    <3> HIDE DEF e
    <3> QED
      BY <1>6, <1>8 DEF e
  <2> QED
    BY <1>5, <1>6, <1>7, <2>1, Zenon

\* The slices of the other processes are left alone.
LEMMA EnqueueOthers ==
  ASSUME NEW m \in MlfqState, NEW p \in Procs, NEW q \in Procs, q # p
  PROVE  Enqueue(m, p).current_slice_ticks[q] = m.current_slice_ticks[q]
<1> DEFINE e == Enqueue(m, p)
<1>1. PICK l \in Level :
        /\ e.queues = [m.queues EXCEPT ![l] = Append(@, p)]
        /\ e.mlfq_level = [m.mlfq_level EXCEPT ![p] = l]
        /\ e.current_slice_ticks =
             [m.current_slice_ticks EXCEPT ![p] = level_slice[l]]
  BY EnqueueEffect
<1> QED
  BY <1>1 DEF MlfqState

\* Enqueueing a process that is in no queue adds it to the queued ones.
LEMMA EnqueueHolds ==
  ASSUME NEW m, NEW R, Holds(m, R), NEW p \in Procs, p \notin R
  PROVE  Holds(Enqueue(m, p), R \cup {p})
<1> DEFINE e == Enqueue(m, p)
<1>1. m \in MlfqState
  BY DEF Holds
<1>2. PICK l \in Level :
        /\ e.queues = [m.queues EXCEPT ![l] = Append(@, p)]
        /\ e.mlfq_level = [m.mlfq_level EXCEPT ![p] = l]
        /\ e.current_slice_ticks =
             [m.current_slice_ticks EXCEPT ![p] = level_slice[l]]
  BY <1>1, EnqueueEffect
<1>3. e \in MlfqState /\ e.proc_num = m.proc_num + 1
  BY <1>1, EnqueueEffect
<1> HIDE DEF e
<1>4. \A k \in Level : m.queues[k] \in Seq(Procs)
  BY <1>1 DEF MlfqState
<1>5. \A k \in Level, i \in Nat :
        i \in 1 .. Len(e.queues[k]) <=>
          i \in 1 .. Len(m.queues[k]) \/ (k = l /\ i = Len(m.queues[l]) + 1)
  BY <1>1, <1>2, <1>4 DEF MlfqState
<1>6. \A k \in Level : \A i \in 1 .. Len(e.queues[k]) :
        e.queues[k][i] = IF k = l /\ i = Len(m.queues[l]) + 1 THEN p
                         ELSE m.queues[k][i]
  BY <1>1, <1>2, <1>4 DEF MlfqState
<1>7. \A k \in Level : \A i \in 1 .. Len(m.queues[k]) :
        m.queues[k][i] \in Procs /\ m.queues[k][i] # p
  BY <1>4 DEF Holds, InQueue
<1>8. \A q \in Procs : (\E k \in Level : InQueue(e, k, q)) <=> q \in R \cup {p}
  <2> TAKE q \in Procs
  <2>1. CASE q = p
    <3>1. Len(m.queues[l]) + 1 \in 1 .. Len(e.queues[l])
      BY <1>4, <1>5
    <3>2. InQueue(e, l, p)
      BY <3>1, <1>6 DEF InQueue
    <3> QED
      BY <2>1, <3>2
  <2>2. CASE q # p
    <3>1. ASSUME NEW k \in Level
          PROVE  InQueue(e, k, q) <=> InQueue(m, k, q)
      <4>1. ASSUME NEW i \in 1 .. Len(e.queues[k]), e.queues[k][i] = q
            PROVE  InQueue(m, k, q)
        <5>1. i \in Nat /\ ~ (k = l /\ i = Len(m.queues[l]) + 1)
          BY <2>2, <4>1, <1>6
        <5>2. i \in 1 .. Len(m.queues[k]) /\ m.queues[k][i] = q
          BY <4>1, <5>1, <1>5, <1>6
        <5> QED
          BY <5>2 DEF InQueue
      <4>2. ASSUME NEW i \in 1 .. Len(m.queues[k]), m.queues[k][i] = q
            PROVE  InQueue(e, k, q)
        <5>1. i \in Nat /\ ~ (k = l /\ i = Len(m.queues[l]) + 1)
          BY <1>4
        <5>2. i \in 1 .. Len(e.queues[k]) /\ e.queues[k][i] = q
          BY <4>2, <5>1, <1>5, <1>6
        <5> QED
          BY <5>2 DEF InQueue
      <4> QED
        BY <4>1, <4>2 DEF InQueue
    <3> QED
      BY <2>2, <3>1 DEF Holds
  <2> QED
    BY <2>1, <2>2
<1>9. \A h, k \in Level : \A i \in 1 .. Len(e.queues[h]), j \in 1 .. Len(e.queues[k]) :
        e.queues[h][i] = e.queues[k][j] => h = k /\ i = j
  <2> SUFFICES ASSUME NEW h \in Level, NEW k \in Level,
                      NEW i \in 1 .. Len(e.queues[h]), NEW j \in 1 .. Len(e.queues[k]),
                      e.queues[h][i] = e.queues[k][j]
               PROVE  h = k /\ i = j
    OBVIOUS
  <2>1. i \in 1 .. Len(m.queues[h]) \/ (h = l /\ i = Len(m.queues[l]) + 1)
    BY <1>4, <1>5
  <2>2. j \in 1 .. Len(m.queues[k]) \/ (k = l /\ j = Len(m.queues[l]) + 1)
    BY <1>4, <1>5
  <2>3. CASE i \in 1 .. Len(m.queues[h]) /\ j \in 1 .. Len(m.queues[k])
    BY <2>3, <1>4, <1>6 DEF Holds
  <2>4. CASE ~ (i \in 1 .. Len(m.queues[h])) /\ ~ (j \in 1 .. Len(m.queues[k]))
    BY <2>1, <2>2, <2>4
  <2>5. CASE i \in 1 .. Len(m.queues[h]) /\ ~ (j \in 1 .. Len(m.queues[k]))
    BY <2>2, <2>5, <1>4, <1>6, <1>7
  <2>6. CASE ~ (i \in 1 .. Len(m.queues[h])) /\ j \in 1 .. Len(m.queues[k])
    BY <2>1, <2>6, <1>4, <1>6, <1>7
  <2> QED
    BY <2>3, <2>4, <2>5, <2>6
<1>10. \A k \in Level : \A i \in 1 .. Len(e.queues[k]) :
         /\ e.mlfq_level[e.queues[k][i]] = k
         /\ e.current_slice_ticks[e.queues[k][i]] = level_slice[k]
  <2> TAKE k \in Level
  <2> TAKE i \in 1 .. Len(e.queues[k])
  <2>1. CASE k = l /\ i = Len(m.queues[l]) + 1
    BY <2>1, <1>1, <1>2, <1>6 DEF MlfqState
  <2>2. CASE ~ (k = l /\ i = Len(m.queues[l]) + 1)
    <3>1. i \in 1 .. Len(m.queues[k]) /\ e.queues[k][i] = m.queues[k][i]
      BY <2>2, <1>5, <1>6
    <3>2. m.queues[k][i] \in Procs /\ m.queues[k][i] # p
      BY <3>1, <1>7
    <3>3. /\ m.mlfq_level[m.queues[k][i]] = k
          /\ m.current_slice_ticks[m.queues[k][i]] = level_slice[k]
      BY <3>1 DEF Holds
    <3> QED
      BY <3>1, <3>2, <3>3, <1>1, <1>2 DEF MlfqState
  <2> QED
    BY <2>1, <2>2
<1>11. \A q \in Procs : e.current_slice_ticks[q] <= level_slice[e.mlfq_level[q]]
  BY <1>1, <1>2, MlfqAssumption DEF MlfqState, Holds
<1>12. Counted(e)
  <2>1. /\ Len(e.queues[l]) = Len(m.queues[l]) + 1
        /\ \A k \in Level \ {l} : e.queues[k] = m.queues[k]
    BY <1>1, <1>2, <1>4 DEF MlfqState
  <2> DEFINE old(k) == Len(m.queues[k])
             new(k) == Len(e.queues[k])
  <2>2. old(0) \in Nat /\ old(1) \in Nat /\ old(2) \in Nat /\ old(3) \in Nat
    BY <1>4 DEF Level, MLFQ_LEVELS
  <2>3. /\ new(l) = old(l) + 1
        /\ \A k \in {0, 1, 2, 3} : k # l => new(k) = old(k)
    BY <2>1 DEF Level, MLFQ_LEVELS
  <2>4. m.proc_num = old(0) + old(1) + old(2) + old(3)
    BY DEF Holds, Counted
  <2> HIDE DEF old, new
  <2>5. e.proc_num = new(0) + new(1) + new(2) + new(3)
    <3>1. l \in {0, 1, 2, 3}
      BY DEF Level, MLFQ_LEVELS
    <3> QED
      BY <1>3, <2>2, <2>3, <2>4, <3>1
  <2> QED
    BY <2>5 DEF Counted, new
<1>13. Scored(e)
  <2>1. /\ e.cpu_score[p] \in {NextScore(m, p), m.cpu_score[p]}
        /\ \A q \in Procs \ {p} : e.cpu_score[q] = m.cpu_score[q]
    BY <1>1, EnqueueEffect DEF e
  <2>2. /\ m.cpu_score[p] \in 0 .. SCORE_SCALE
        /\ m.current_slice_ticks[p] <= level_slice[m.mlfq_level[p]]
    BY DEF Holds, Scored
  <2>3. NextScore(m, p) \in 0 .. SCORE_SCALE
    BY <1>1, <2>2, NextScoreInRange
  <2> QED
    BY <2>1, <2>2, <2>3 DEF Holds, Scored
<1> QED
  BY <1>3, <1>8, <1>9, <1>10, <1>11, <1>12, <1>13 DEF Holds, e

----------------------------------------------------------------------------
\* What Holds says of the queues, in these terms.
LEMMA HoldsElems ==
  ASSUME NEW m, NEW R, Holds(m, R)
  PROVE  /\ \A l \in Level : m.queues[l] \in Seq(Procs) /\ Once(m.queues[l])
         /\ \A l, k \in Level : l # k => Elems(m.queues[l]) \cap Elems(m.queues[k]) = {}
         /\ \A l \in Level, p \in Procs : p \in Elems(m.queues[l]) <=> InQueue(m, l, p)
<1>1. \A l \in Level : m.queues[l] \in Seq(Procs)
  BY DEF Holds, MlfqState
<1>2. \A l \in Level : Once(m.queues[l])
  BY DEF Holds, Once
<1>3. \A l, k \in Level : l # k => Elems(m.queues[l]) \cap Elems(m.queues[k]) = {}
  BY DEF Holds, Elems
<1>4. \A l \in Level, p \in Procs : p \in Elems(m.queues[l]) <=> InQueue(m, l, p)
  BY DEF Elems, InQueue
<1> QED
  BY <1>1, <1>2, <1>3, <1>4

\* priority_boost neither loses nor duplicates a process, and leaves each with
\* the level and the slice of the queue it is in now.
LEMMA BoostHolds ==
  ASSUME NEW m, NEW R, Holds(m, R)
  PROVE  Holds(PriorityBoost(m), R)
<1> DEFINE q == m.queues
           s1 == q[0] \o q[1]
           s2 == s1 \o q[2]
           s3 == s2 \o q[3]
           Moved(p) == \E l \in Level \ {0} : InQueue(m, l, p)
           b == PriorityBoost(m)
<1>0. Level = {0, 1, 2, 3}
  BY DEF Level, MLFQ_LEVELS
<1>1. m \in MlfqState
  BY DEF Holds
<1>2. /\ s3 \in Seq(Procs)
      /\ Once(s3)
      /\ Elems(s3) = Elems(q[0]) \cup Elems(q[1]) \cup Elems(q[2]) \cup Elems(q[3])
  <2> HIDE DEF s1, s2, s3
  <2>0. /\ \A l \in {0, 1, 2, 3} : q[l] \in Seq(Procs) /\ Once(q[l])
        /\ \A l, k \in {0, 1, 2, 3} : l # k => Elems(q[l]) \cap Elems(q[k]) = {}
    BY <1>0, HoldsElems
  <2>1. s1 \in Seq(Procs) /\ Once(s1) /\ Elems(s1) = Elems(q[0]) \cup Elems(q[1])
    BY <2>0, ConcatOnce DEF s1
  <2>2. Elems(s1) \cap Elems(q[2]) = {}
    BY <2>0, <2>1
  <2>3. s2 \in Seq(Procs) /\ Once(s2) /\ Elems(s2) = Elems(s1) \cup Elems(q[2])
    BY <2>0, <2>1, <2>2, ConcatOnce DEF s2
  <2>4. Elems(s2) \cap Elems(q[3]) = {}
    BY <2>0, <2>1, <2>3
  <2>5. s3 \in Seq(Procs) /\ Once(s3) /\ Elems(s3) = Elems(s2) \cup Elems(q[3])
    BY <2>0, <2>3, <2>4, ConcatOnce DEF s3
  <2> QED
    BY <2>1, <2>3, <2>5
<1> DEFINE Q == [l \in Level |-> IF l = 0 THEN s3 ELSE <<>>]
           L == [p \in Procs |-> IF Moved(p) THEN 0 ELSE m.mlfq_level[p]]
           S == [p \in Procs |-> IF Moved(p) THEN level_slice[0]
                                  ELSE m.current_slice_ticks[p]]
<1>3. b.queues = Q /\ b.mlfq_level = L /\ b.current_slice_ticks = S
      /\ b = [queues              |-> Q,
              global_timer        |-> m.global_timer,
              proc_num            |-> m.proc_num,
              mlfq_level          |-> L,
              current_slice_ticks |-> S,
              sched_count         |-> m.sched_count,
              cpu_score           |-> m.cpu_score]
  <2>1. b = [[[m EXCEPT !.queues = Q] EXCEPT !.mlfq_level = L]
               EXCEPT !.current_slice_ticks = S]
    BY <1>1 DEF PriorityBoost, MlfqState
  <2> HIDE DEF Q, L, S, b
  <2> QED
    BY <1>1, <2>1 DEF MlfqState
<1>14. Len(s3) = Len(q[0]) + Len(q[1]) + Len(q[2]) + Len(q[3])
  <2>1. \A l \in {0, 1, 2, 3} : q[l] \in Seq(Procs)
    BY <1>0, <1>1 DEF MlfqState
  <2> HIDE DEF q
  <2> QED
    BY <2>1
<1> HIDE DEF s3, b
<1>4. b \in MlfqState
  <2>1. b.queues \in [Level -> Seq(Procs)]
    BY <1>2, <1>3
  <2>2. b.mlfq_level \in [Procs -> Level]
    BY <1>0, <1>1, <1>3 DEF MlfqState
  <2>3. b.current_slice_ticks \in [Procs -> Nat]
    BY <1>0, <1>1, <1>3, MlfqAssumption DEF MlfqState
  <2> QED
    BY <1>1, <1>3, <2>1, <2>2, <2>3 DEF MlfqState
<1>5. b.queues[0] = s3 /\ \A l \in Level \ {0} : b.queues[l] = <<>>
  BY <1>0, <1>3
<1>6. \A p \in Procs : p \in Elems(s3) <=> p \in R
  <2>1. \A p \in Procs : p \in Elems(s3) <=> \E l \in Level : InQueue(m, l, p)
    BY <1>0, <1>2, HoldsElems
  <2> QED
    BY <2>1 DEF Holds
<1>7. \A p \in Procs : (\E l \in Level : InQueue(b, l, p)) <=> p \in R
  <2>1. \A l \in Level \ {0}, p \in Procs : ~ InQueue(b, l, p)
    BY <1>5 DEF InQueue
  <2>2. \A p \in Procs : InQueue(b, 0, p) <=> p \in Elems(s3)
    BY <1>5 DEF InQueue, Elems
  <2> QED
    BY <1>0, <1>6, <2>1, <2>2
<1>8. \A l \in Level, i \in Nat : i \in 1 .. Len(b.queues[l]) => l = 0
  BY <1>5
<1>9. \A l, k \in Level : \A i \in 1 .. Len(b.queues[l]), j \in 1 .. Len(b.queues[k]) :
        b.queues[l][i] = b.queues[k][j] => l = k /\ i = j
  BY <1>2, <1>5, <1>8 DEF Once
<1>10. ASSUME NEW i \in 1 .. Len(s3)
       PROVE  b.mlfq_level[s3[i]] = 0 /\ b.current_slice_ticks[s3[i]] = level_slice[0]
  <2>1. s3[i] \in Procs /\ s3[i] \in Elems(s3)
    BY <1>2 DEF Elems
  <2>2. CASE Moved(s3[i])
    BY <1>3, <2>1, <2>2
  <2>3. CASE ~ Moved(s3[i])
    <3>1. InQueue(m, 0, s3[i])
      BY <1>0, <1>2, <2>1, <2>3, HoldsElems
    <3>2. m.mlfq_level[s3[i]] = 0 /\ m.current_slice_ticks[s3[i]] = level_slice[0]
      BY <1>0, <3>1 DEF Holds, InQueue
    <3> QED
      BY <1>3, <2>1, <2>3, <3>2
  <2> QED
    BY <2>2, <2>3
<1>11. \A l \in Level : \A i \in 1 .. Len(b.queues[l]) :
         /\ b.mlfq_level[b.queues[l][i]] = l
         /\ b.current_slice_ticks[b.queues[l][i]] = level_slice[l]
  BY <1>5, <1>8, <1>10
<1>12. ASSUME NEW p \in Procs
       PROVE  b.current_slice_ticks[p] <= level_slice[b.mlfq_level[p]]
  <2>1. CASE Moved(p)
    <3>1. b.current_slice_ticks[p] = level_slice[0] /\ b.mlfq_level[p] = 0
      BY <1>3, <2>1
    <3> QED
      BY <1>0, <3>1, MlfqAssumption
  <2>2. CASE ~ Moved(p)
    <3>1. /\ b.current_slice_ticks[p] = m.current_slice_ticks[p]
          /\ b.mlfq_level[p] = m.mlfq_level[p]
      BY <1>3, <2>2
    <3> QED
      BY <3>1 DEF Holds
  <2> QED
    BY <2>1, <2>2
<1>13. Counted(b)
  <2>1. /\ Len(b.queues[0]) = Len(s3)
        /\ Len(b.queues[1]) = 0
        /\ Len(b.queues[2]) = 0
        /\ Len(b.queues[3]) = 0
    BY <1>0, <1>5
  <2>2. b.proc_num = m.proc_num
    BY <1>3
  <2>3. \A l \in {0, 1, 2, 3} : Len(q[l]) \in Nat
    BY <1>0, <1>1 DEF MlfqState
  <2>4. m.proc_num = Len(q[0]) + Len(q[1]) + Len(q[2]) + Len(q[3])
    BY DEF Holds, Counted
  <2> HIDE DEF q
  <2> QED
    BY <1>14, <2>1, <2>2, <2>3, <2>4 DEF Counted
<1>15. Scored(b)
  <2>1. b.cpu_score = m.cpu_score
    BY <1>3
  <2> QED
    BY <2>1 DEF Holds, Scored
<1> QED
  BY <1>4, <1>7, <1>9, <1>11, <1>12, <1>13, <1>15 DEF Holds, b

----------------------------------------------------------------------------
\* Holds reads five fields only.
LEMMA SameQueuesHolds ==
  ASSUME NEW m, NEW R, Holds(m, R), NEW n \in MlfqState,
         n.queues = m.queues, n.mlfq_level = m.mlfq_level,
         n.current_slice_ticks = m.current_slice_ticks, n.proc_num = m.proc_num,
         n.cpu_score = m.cpu_score
  PROVE  Holds(n, R)
BY DEF Holds, InQueue, Counted, Scored

\* The boost at the beginning of mlfq_pick_next.
LEMMA BoostIfDueHolds ==
  ASSUME NEW m, NEW R, Holds(m, R)
  PROVE  Holds(BoostIfDue(m), R)
<1> DEFINE b == PriorityBoost(m)
           n == [b EXCEPT !.global_timer = 0]
<1>1. CASE m.global_timer >= BOOST_TICKS
  <2>1. Holds(b, R)
    BY BoostHolds
  <2>2. b \in MlfqState
    BY <2>1 DEF Holds
  <2>3. BoostIfDue(m) = n
    BY <1>1 DEF BoostIfDue
  <2> HIDE DEF b
  <2>4. /\ n \in MlfqState
        /\ n.queues = b.queues
        /\ n.proc_num = b.proc_num
        /\ n.cpu_score = b.cpu_score
        /\ n.mlfq_level = b.mlfq_level
        /\ n.current_slice_ticks = b.current_slice_ticks
    <3>1. 0 \in 0 .. BOOST_TICKS
      BY MlfqAssumption
    <3> QED
      BY <2>2, <3>1 DEF MlfqState
  <2> QED
    BY <2>1, <2>3, <2>4, SameQueuesHolds
<1>2. CASE ~ (m.global_timer >= BOOST_TICKS)
  BY <1>2 DEF BoostIfDue
<1> QED
  BY <1>1, <1>2

\* mlfq_pick_next returns the first process of the highest level that has one,
\* and NULL only when no process is queued.
LEMMA FirstProcIsFirst ==
  ASSUME NEW m, NEW R \in SUBSET Procs, Holds(m, R)
  PROVE  \/ R = {} /\ FirstProc(m) = Idle
         \/ /\ FirstProc(m) \in R
            /\ \E l \in Level : /\ m.queues[l] # <<>>
                                /\ FirstProc(m) = m.queues[l][1]
                                /\ \A k \in Level : k < l => m.queues[k] = <<>>
<1> DEFINE full == {l \in Level : m.queues[l] # <<>>}
           first == CHOOSE l \in full : \A k \in full : l <= k
<1>0. Level = {0, 1, 2, 3}
  BY DEF Level, MLFQ_LEVELS
<1>1. \A l \in Level : m.queues[l] \in Seq(Procs)
  BY DEF Holds, MlfqState
<1>2. CASE full = {}
  <2>1. \A l \in Level, p \in Procs : ~ InQueue(m, l, p)
    BY <1>2 DEF InQueue
  <2>2. R = {}
    BY <2>1 DEF Holds
  <2> QED
    BY <1>2, <2>2 DEF FirstProc
<1>3. CASE full # {}
  <2>1. \E l \in full : \A k \in full : l <= k
    BY <1>0, <1>3
  <2>2. first \in full /\ \A k \in full : first <= k
    BY <2>1
  <2>3. FirstProc(m) = m.queues[first][1]
    BY <1>3 DEF FirstProc
  <2> HIDE DEF first
  <2>4. first \in Level /\ m.queues[first] # <<>>
    BY <2>2
  <2>5. \A k \in Level : k < first => m.queues[k] = <<>>
    BY <1>0, <2>2, <2>4
  <2>6. 1 \in 1 .. Len(m.queues[first]) /\ m.queues[first][1] \in Procs
    BY <1>1, <2>4
  <2>7. InQueue(m, first, FirstProc(m)) /\ FirstProc(m) \in Procs
    BY <2>3, <2>6 DEF InQueue
  <2>8. FirstProc(m) \in R
    BY <2>4, <2>7 DEF Holds
  <2> QED
    BY <2>3, <2>4, <2>5, <2>8
<1> QED
  BY <1>2, <1>3

\* mlfq_dequeue writes the queue of the process's level and the counter.
LEMMA DequeueEffect ==
  ASSUME NEW m \in MlfqState, NEW p \in Procs, m.queues[m.mlfq_level[p]] # <<>>
  PROVE  LET d == Dequeue(m, p) IN
         /\ d \in MlfqState
         /\ d.queues = [m.queues EXCEPT ![m.mlfq_level[p]] = Tail(@)]
         /\ d.mlfq_level = m.mlfq_level
         /\ d.current_slice_ticks = m.current_slice_ticks
         /\ d.proc_num = m.proc_num - 1
         /\ d.cpu_score = m.cpu_score
<1> DEFINE Q == [m.queues EXCEPT ![m.mlfq_level[p]] = Tail(@)]
           c == m.proc_num - 1
<1>1. m.mlfq_level[p] \in Level /\ c \in Int
  BY DEF MlfqState
<1>2. Tail(m.queues[m.mlfq_level[p]]) \in Seq(Procs)
  BY <1>1 DEF MlfqState
<1>3. Q \in [Level -> Seq(Procs)]
  BY <1>1, <1>2 DEF MlfqState
<1>4. Dequeue(m, p) = [m EXCEPT !.queues = Q, !.proc_num = c]
  BY DEF Dequeue, MlfqState
<1> HIDE DEF Q, c
<1>5. LET d == Dequeue(m, p) IN
      /\ d \in MlfqState
      /\ d.queues = Q
      /\ d.mlfq_level = m.mlfq_level
      /\ d.current_slice_ticks = m.current_slice_ticks
      /\ d.proc_num = c
      /\ d.cpu_score = m.cpu_score
  BY <1>1, <1>3, <1>4 DEF MlfqState
<1> QED
  BY <1>5 DEF Q, c

\* mlfq_dequeue of the first process of a queue removes it from the queued
\* ones and changes nothing else of what Holds speaks of.
LEMMA TakeHolds ==
  ASSUME NEW m, NEW R \in SUBSET Procs, Holds(m, R), NEW l \in Level,
         m.queues[l] # <<>>
  PROVE  LET p == m.queues[l][1]
             t == Take(m, p)
         IN  /\ Holds(t, R \ {p})
             /\ t.mlfq_level = m.mlfq_level
             /\ t.current_slice_ticks = m.current_slice_ticks
             /\ t.cpu_score = m.cpu_score
             /\ m.current_slice_ticks[p] = level_slice[l]
<1> DEFINE p == m.queues[l][1]
           c == [m EXCEPT !.sched_count[p] = 1]
           t == Take(m, p)
<1>1. /\ m \in MlfqState
      /\ \A k \in Level : m.queues[k] \in Seq(Procs)
  BY DEF Holds, MlfqState
<1>2. 1 \in 1 .. Len(m.queues[l]) /\ p \in Procs
  BY <1>1
<1>3. m.mlfq_level[p] = l /\ m.current_slice_ticks[p] = level_slice[l]
  BY <1>2 DEF Holds
<1> HIDE DEF p
<1>4. /\ t \in MlfqState
      /\ t.queues = [m.queues EXCEPT ![l] = Tail(@)]
      /\ t.mlfq_level = m.mlfq_level
      /\ t.current_slice_ticks = m.current_slice_ticks
      /\ t.proc_num = m.proc_num - 1
      /\ t.cpu_score = m.cpu_score
  <2>1. /\ c \in MlfqState
        /\ c.queues = m.queues
        /\ c.proc_num = m.proc_num
        /\ c.cpu_score = m.cpu_score
        /\ c.mlfq_level = m.mlfq_level
        /\ c.current_slice_ticks = m.current_slice_ticks
    BY <1>1, <1>2 DEF MlfqState
  <2>2. t = Dequeue(c, p)
    BY DEF Take
  <2> HIDE DEF c
  <2>3. c.mlfq_level[p] = l /\ c.queues[c.mlfq_level[p]] # <<>>
    BY <1>3, <2>1
  <2>4. LET d == Dequeue(c, p) IN
        /\ d \in MlfqState
        /\ d.queues = [c.queues EXCEPT ![c.mlfq_level[p]] = Tail(@)]
        /\ d.mlfq_level = c.mlfq_level
        /\ d.current_slice_ticks = c.current_slice_ticks
        /\ d.proc_num = c.proc_num - 1
        /\ d.cpu_score = c.cpu_score
    BY <1>2, <2>1, <2>3, DequeueEffect, Zenon
  <2> HIDE DEF t
  <2> QED
    BY <2>1, <2>2, <2>3, <2>4
<1> HIDE DEF t
<1>5. /\ \A k \in Level \ {l} : t.queues[k] = m.queues[k]
      /\ t.queues[l] = Tail(m.queues[l])
  BY <1>1, <1>4 DEF MlfqState
<1>6. /\ Len(m.queues[l]) \in Nat
      /\ \A i \in Nat : i \in 1 .. Len(t.queues[l]) <=>
                          i + 1 \in 2 .. Len(m.queues[l])
      /\ \A i \in 1 .. Len(t.queues[l]) : t.queues[l][i] = m.queues[l][i + 1]
  BY <1>1, <1>5
\* The positions of t's queues are those of m's, but for the first of level l.
<1> DEFINE At(k, i) == IF k = l THEN i + 1 ELSE i
<1>7. ASSUME NEW k \in Level, NEW i \in 1 .. Len(t.queues[k])
      PROVE  /\ At(k, i) \in 1 .. Len(m.queues[k])
             /\ t.queues[k][i] = m.queues[k][At(k, i)]
             /\ k = l => At(k, i) # 1
  <2>1. CASE k = l
    <3>1. i \in Nat /\ i \in 1 .. Len(t.queues[l])
      BY <2>1
    <3>2. i + 1 \in 2 .. Len(m.queues[l]) /\ t.queues[l][i] = m.queues[l][i + 1]
      BY <1>6, <3>1
    <3>3. At(k, i) = i + 1
      BY <2>1
    <3> HIDE DEF At
    <3> QED
      BY <1>6, <2>1, <3>1, <3>2, <3>3
  <2>2. CASE k # l
    BY <1>5, <2>2
  <2> QED
    BY <2>1, <2>2
<1>8. ASSUME NEW q \in Procs
      PROVE  (\E k \in Level : InQueue(t, k, q)) <=> q \in R \ {p}
  <2>1. ASSUME NEW k \in Level, InQueue(t, k, q)
        PROVE  q \in R \ {p}
    <3>1. PICK i \in 1 .. Len(t.queues[k]) : t.queues[k][i] = q
      BY <2>1 DEF InQueue
    <3>2. /\ At(k, i) \in 1 .. Len(m.queues[k])
          /\ m.queues[k][At(k, i)] = q
          /\ ~ (k = l /\ At(k, i) = 1)
      BY <3>1, <1>7
    <3> HIDE DEF At
    <3>3. q \in R
      BY <3>2 DEF Holds, InQueue
    <3>4. q # p
      <4>1. m.queues[k][At(k, i)] = m.queues[l][1] => k = l /\ At(k, i) = 1
        BY <1>2, <3>2 DEF Holds
      <4> QED
        BY <3>2, <4>1 DEF p
    <3> QED
      BY <3>3, <3>4
  <2>2. ASSUME q \in R, q # p
        PROVE  \E k \in Level : InQueue(t, k, q)
    <3>1. PICK k \in Level : InQueue(m, k, q)
      BY <2>2 DEF Holds
    <3>2. PICK i \in 1 .. Len(m.queues[k]) : m.queues[k][i] = q
      BY <3>1 DEF InQueue
    <3>3. CASE k # l
      BY <1>5, <3>2, <3>3 DEF InQueue
    <3>4. CASE k = l
      <4>1. i # 1
        BY <2>2, <3>2, <3>4 DEF p
      <4>2. i - 1 \in Nat /\ (i - 1) + 1 = i /\ i \in 2 .. Len(m.queues[l])
        BY <1>6, <3>4, <4>1
      <4>3. i - 1 \in 1 .. Len(t.queues[l])
        BY <1>6, <4>2
      <4>4. t.queues[l][i - 1] = q
        BY <1>6, <3>2, <3>4, <4>2, <4>3
      <4> QED
        BY <3>4, <4>3, <4>4 DEF InQueue
    <3> QED
      BY <3>3, <3>4
  <2> QED
    BY <2>1, <2>2
<1>9. ASSUME NEW h \in Level, NEW k \in Level,
             NEW i \in 1 .. Len(t.queues[h]), NEW j \in 1 .. Len(t.queues[k]),
             t.queues[h][i] = t.queues[k][j]
      PROVE  h = k /\ i = j
  <2>1. /\ At(h, i) \in 1 .. Len(m.queues[h])
        /\ At(k, j) \in 1 .. Len(m.queues[k])
        /\ m.queues[h][At(h, i)] = m.queues[k][At(k, j)]
    BY <1>7, <1>9
  <2>2. h = k /\ At(h, i) = At(k, j)
    <3> HIDE DEF At
    <3> QED
      BY <2>1 DEF Holds
  <2> QED
    BY <2>2
<1>10. ASSUME NEW k \in Level, NEW i \in 1 .. Len(t.queues[k])
       PROVE  /\ t.mlfq_level[t.queues[k][i]] = k
              /\ t.current_slice_ticks[t.queues[k][i]] = level_slice[k]
  BY <1>4, <1>7 DEF Holds
<1>11. \A q \in Procs : t.current_slice_ticks[q] <= level_slice[t.mlfq_level[q]]
  BY <1>4 DEF Holds
<1>12. Counted(t)
  <2>1. /\ Len(t.queues[l]) = Len(m.queues[l]) - 1
        /\ \A k \in Level \ {l} : t.queues[k] = m.queues[k]
    BY <1>1, <1>5
  <2> DEFINE old(k) == Len(m.queues[k])
             new(k) == Len(t.queues[k])
  <2>2. old(0) \in Nat /\ old(1) \in Nat /\ old(2) \in Nat /\ old(3) \in Nat
    <3>1. \A k \in Level : old(k) \in Nat
      BY <1>1
    <3> HIDE DEF old
    <3> QED
      BY <3>1 DEF Level, MLFQ_LEVELS
  <2>3. /\ new(l) = old(l) - 1
        /\ \A k \in {0, 1, 2, 3} : k # l => new(k) = old(k)
    BY <2>1 DEF Level, MLFQ_LEVELS
  <2>4. m.proc_num = old(0) + old(1) + old(2) + old(3)
    BY DEF Holds, Counted
  <2> HIDE DEF old, new
  <2>5. t.proc_num = new(0) + new(1) + new(2) + new(3)
    <3>1. l \in {0, 1, 2, 3}
      BY DEF Level, MLFQ_LEVELS
    <3> QED
      BY <1>4, <2>2, <2>3, <2>4, <3>1
  <2> QED
    BY <2>5 DEF Counted, new
<1>13. Scored(t)
  BY <1>4 DEF Holds, Scored
<1>14. Holds(t, R \ {p})
  BY <1>4, <1>8, <1>9, <1>10, <1>11, <1>12, <1>13 DEF Holds
<1> QED
  BY <1>3, <1>4, <1>14 DEF t, p

\* mlfq_proc_tick of the process that runs leaves the queues in order.
LEMMA TickHolds ==
  ASSUME NEW m, NEW R, Holds(m, R), NEW p \in Procs, p \notin R, NEW r \in BOOLEAN
  PROVE  LET n == ProcTick(m, p, r) IN
         /\ Holds(n, R)
         /\ n.current_slice_ticks =
              [m.current_slice_ticks EXCEPT ![p] = IF r /\ @ > 0 THEN @ - 1 ELSE @]
<1> DEFINE S == [m.current_slice_ticks EXCEPT ![p] = IF r /\ @ > 0 THEN @ - 1 ELSE @]
           t == Saturated(m.global_timer + 1, BOOST_TICKS)
           n == ProcTick(m, p, r)
<1>1. m \in MlfqState
  BY DEF Holds
<1>2. t \in 0 .. BOOST_TICKS
  BY <1>1, MlfqAssumption DEF MlfqState, Saturated
<1>3. /\ S \in [Procs -> Nat]
      /\ S[p] <= m.current_slice_ticks[p]
      /\ \A q \in Procs : q # p => S[q] = m.current_slice_ticks[q]
  BY <1>1 DEF MlfqState
<1>4. n = [m EXCEPT !.current_slice_ticks = S, !.global_timer = t]
  BY <1>1 DEF ProcTick, MlfqState
<1> HIDE DEF S, t, n
<1>5. /\ n \in MlfqState
      /\ n.queues = m.queues
      /\ n.proc_num = m.proc_num
      /\ n.cpu_score = m.cpu_score
      /\ n.mlfq_level = m.mlfq_level
      /\ n.current_slice_ticks = S
  BY <1>1, <1>2, <1>3, <1>4 DEF MlfqState
<1>6. \A l \in Level : \A i \in 1 .. Len(m.queues[l]) :
        m.queues[l][i] \in Procs /\ m.queues[l][i] # p
  BY <1>1 DEF Holds, InQueue, MlfqState
<1>7. \A l \in Level : \A i \in 1 .. Len(n.queues[l]) :
        /\ n.mlfq_level[n.queues[l][i]] = l
        /\ n.current_slice_ticks[n.queues[l][i]] = level_slice[l]
  BY <1>3, <1>5, <1>6 DEF Holds
<1>8. ASSUME NEW q \in Procs
      PROVE  n.current_slice_ticks[q] <= level_slice[n.mlfq_level[q]]
  <2>1. /\ m.current_slice_ticks[q] <= level_slice[m.mlfq_level[q]]
        /\ m.current_slice_ticks[q] \in Nat
        /\ S[q] \in Nat
        /\ level_slice[m.mlfq_level[q]] \in Nat
    BY <1>1, <1>3, MlfqAssumption DEF Holds, MlfqState
  <2> QED
    BY <1>3, <1>5, <2>1
<1>9. Counted(n) /\ Scored(n)
  BY <1>5 DEF Holds, Counted, Scored
<1>10. Holds(n, R)
  BY <1>5, <1>7, <1>8, <1>9 DEF Holds, InQueue
<1> QED
  BY <1>5, <1>10 DEF S, n

\* alloc_proc of a proc_struct in no queue.
LEMMA AllocHolds ==
  ASSUME NEW m, NEW R, Holds(m, R), NEW p \in Procs, p \notin R
  PROVE  LET n == AllocProc(m, p) IN
         /\ Holds(n, R)
         /\ n.current_slice_ticks = [m.current_slice_ticks EXCEPT ![p] = 0]
<1> DEFINE L == [m.mlfq_level EXCEPT ![p] = 0]
           S == [m.current_slice_ticks EXCEPT ![p] = 0]
           C == [m.sched_count EXCEPT ![p] = 0]
           E == [m.cpu_score EXCEPT ![p] = 0]
           n == AllocProc(m, p)
<1>1. m \in MlfqState /\ 0 \in Level
  BY DEF Holds, Level, MLFQ_LEVELS
<1>2. /\ L \in [Procs -> Level]
      /\ S \in [Procs -> Nat]
      /\ C \in [Procs -> {0, 1}]
      /\ E \in [Procs -> Int]
  BY <1>1 DEF MlfqState
<1>3. /\ L[p] = 0 /\ S[p] = 0 /\ E[p] = 0
      /\ \A q \in Procs : q # p => /\ L[q] = m.mlfq_level[q]
                                   /\ S[q] = m.current_slice_ticks[q]
                                   /\ E[q] = m.cpu_score[q]
  BY <1>1 DEF MlfqState
<1>4. n = [m EXCEPT !.mlfq_level = L, !.current_slice_ticks = S,
                    !.sched_count = C, !.cpu_score = E]
  BY <1>1 DEF AllocProc, MlfqState
<1> HIDE DEF L, S, C, E, n
<1>5. /\ n \in MlfqState
      /\ n.queues = m.queues
      /\ n.proc_num = m.proc_num
      /\ n.mlfq_level = L
      /\ n.current_slice_ticks = S
      /\ n.cpu_score = E
  BY <1>1, <1>2, <1>4 DEF MlfqState
<1>6. \A l \in Level : \A i \in 1 .. Len(m.queues[l]) :
        m.queues[l][i] \in Procs /\ m.queues[l][i] # p
  BY <1>1 DEF Holds, InQueue, MlfqState
<1>7. \A l \in Level : \A i \in 1 .. Len(n.queues[l]) :
        /\ n.mlfq_level[n.queues[l][i]] = l
        /\ n.current_slice_ticks[n.queues[l][i]] = level_slice[l]
  BY <1>3, <1>5, <1>6 DEF Holds
<1>8. ASSUME NEW q \in Procs
      PROVE  n.current_slice_ticks[q] <= level_slice[n.mlfq_level[q]]
  <2>1. m.current_slice_ticks[q] <= level_slice[m.mlfq_level[q]]
    BY DEF Holds
  <2>2. level_slice[0] \in Nat
    BY <1>1, MlfqAssumption
  <2> QED
    BY <1>3, <1>5, <2>1, <2>2
<1>9. Counted(n)
  BY <1>5 DEF Holds, Counted
<1>10. Scored(n)
  <2>1. 0 \in 0 .. SCORE_SCALE
    BY MlfqAssumption
  <2> QED
    BY <1>3, <1>5, <2>1 DEF Holds, Scored
<1>11. Holds(n, R)
  BY <1>5, <1>7, <1>8, <1>9, <1>10 DEF Holds, InQueue
<1> QED
  BY <1>5, <1>11 DEF S, n

----------------------------------------------------------------------------
(* The inductive invariant.                                                *)

ReadySet == {p \in Procs : Ready(p)}
Runnable == {p \in Procs : state[p] = "RUNNABLE"}

\* Outside of the calls that lead to schedule(), the process on the CPU is
\* runnable; idleproc always is.
CurrentIsRunnable ==
  /\ state[Idle] = "RUNNABLE"
  /\ leaving => current \in Procs
  /\ ~ leaving => state[current] = "RUNNABLE"

IInv == /\ TypeOK
        /\ Holds(mlfq, ReadySet)
        /\ CurrentIsRunnable
        /\ ReschedOnlyCurrent
        /\ OverrunIsNoticed

\* proc_init and sched_init establish it.
LEMMA InitInv == Init => IInv
<1> SUFFICES ASSUME Init PROVE IInv
  OBVIOUS
<1>1. PICK init \in Procs :
        /\ state = [p \in AllProcs |->
                      IF p \in {Idle, init} THEN "RUNNABLE" ELSE "UNINIT"]
        /\ mlfq = Enqueue(EmptyMlfq, init)
  BY DEF Init
<1>2. /\ current = Idle
      /\ leaving = FALSE
      /\ need_resched = [p \in AllProcs |-> p = Idle]
      /\ Idle \notin Procs
  BY MlfqAssumption DEF Init
<1>3. Holds(EmptyMlfq, {})
  <2>1. Level = {0, 1, 2, 3}
    BY DEF Level, MLFQ_LEVELS
  <2>2. /\ 0 \in 0 .. BOOST_TICKS /\ 0 \in 0 .. SCORE_SCALE
        /\ \A l \in Level : level_slice[l] \in Nat
    BY MlfqAssumption
  <2>3. EmptyMlfq \in MlfqState
    BY <2>1, <2>2 DEF EmptyMlfq, MlfqState
  <2>4. \A l \in Level : EmptyMlfq.queues[l] = <<>>
    BY DEF EmptyMlfq
  <2>5. Counted(EmptyMlfq)
    <3>1. EmptyMlfq.proc_num = 0
      BY DEF EmptyMlfq
    <3> DEFINE n(l) == Len(EmptyMlfq.queues[l])
    <3>2. n(0) = 0 /\ n(1) = 0 /\ n(2) = 0 /\ n(3) = 0
      BY <2>1, <2>4
    <3> HIDE DEF n
    <3>3. EmptyMlfq.proc_num = n(0) + n(1) + n(2) + n(3)
      BY <3>1, <3>2
    <3> QED
      BY <3>3 DEF Counted, n
  <2>6. Scored(EmptyMlfq)
    BY <2>2 DEF EmptyMlfq, Scored
  <2>7. \A p \in Procs : EmptyMlfq.current_slice_ticks[p]
                           <= level_slice[EmptyMlfq.mlfq_level[p]]
    BY <2>1, <2>2 DEF EmptyMlfq
  <2> QED
    BY <2>3, <2>4, <2>5, <2>6, <2>7 DEF Holds, InQueue
<1>4. Holds(mlfq, {} \cup {init})
  BY <1>1, <1>3, EnqueueHolds
<1>5. ReadySet = {} \cup {init}
  BY <1>1, <1>2 DEF ReadySet, Ready, AllProcs
<1>6. TypeOK
  BY <1>1, <1>2, <1>4 DEF TypeOK, Holds, AllProcs, States
<1>7. CurrentIsRunnable
  BY <1>1, <1>2 DEF CurrentIsRunnable, AllProcs
<1>8. ReschedOnlyCurrent /\ OverrunIsNoticed
  BY <1>2 DEF ReschedOnlyCurrent, OverrunIsNoticed, Running
<1> QED
  BY <1>4, <1>5, <1>6, <1>7, <1>8 DEF IInv

\* The ready processes after a change of one process's state.
LEMMA ReadyAfter ==
  ASSUME TypeOK, NEW p \in Procs, NEW s \in States,
         state' = [state EXCEPT ![p] = s], current' = current
  PROVE  ReadySet' = IF s = "RUNNABLE" /\ p # current THEN ReadySet \cup {p}
                     ELSE ReadySet \ {p}
<1>1. \A q \in Procs : state'[q] = IF q = p THEN s ELSE state[q]
  BY DEF TypeOK, AllProcs
<1> QED
  BY <1>1 DEF ReadySet, Ready

\* do_fork
LEMMA ForkInv == ASSUME IInv, NEW p \in Procs, Fork(p) PROVE IInv'
<1>1. /\ state' = [state EXCEPT ![p] = "RUNNABLE"]
      /\ state[p] = "UNINIT"
      /\ mlfq' = Enqueue(mlfq, p)
      /\ current' = current /\ leaving' = leaving /\ need_resched' = need_resched
      /\ current \in Procs /\ ~ leaving
  BY DEF Fork, Running
<1>2. p # current /\ p \notin ReadySet
  BY <1>1 DEF IInv, CurrentIsRunnable, ReadySet, Ready
<1>3. ReadySet' = ReadySet \cup {p}
  BY <1>1, <1>2, ReadyAfter DEF IInv, States
<1>4. Holds(mlfq', ReadySet')
  BY <1>1, <1>2, <1>3, EnqueueHolds DEF IInv
<1>5. TypeOK'
  BY <1>1, <1>4 DEF IInv, TypeOK, Holds, AllProcs, States
<1>6. CurrentIsRunnable'
  BY <1>1, <1>2, MlfqAssumption DEF IInv, TypeOK, CurrentIsRunnable, AllProcs
<1>7. mlfq'.current_slice_ticks[current] = mlfq.current_slice_ticks[current]
  <2>1. mlfq \in MlfqState
    BY DEF IInv, TypeOK
  <2> QED
    BY <1>1, <1>2, <2>1, EnqueueOthers
<1>8. ReschedOnlyCurrent' /\ OverrunIsNoticed'
  BY <1>1, <1>7 DEF IInv, ReschedOnlyCurrent, OverrunIsNoticed, Running
<1> QED
  BY <1>4, <1>5, <1>6, <1>8 DEF IInv

\* wakeup_proc
LEMMA WakeupInv == ASSUME IInv, NEW p \in Procs, Wakeup(p) PROVE IInv'
<1>1. /\ state' = [state EXCEPT ![p] = "RUNNABLE"]
      /\ state[p] = "SLEEPING"
      /\ mlfq' = IF p # current THEN Enqueue(mlfq, p) ELSE mlfq
      /\ current' = current /\ leaving' = leaving /\ need_resched' = need_resched
  BY DEF Wakeup
<1>2. p \notin ReadySet
  BY <1>1 DEF ReadySet, Ready
<1>3. ReadySet' = IF p # current THEN ReadySet \cup {p} ELSE ReadySet
  BY <1>1, <1>2, ReadyAfter DEF IInv, States
<1>4. Holds(mlfq', ReadySet')
  BY <1>1, <1>2, <1>3, EnqueueHolds DEF IInv
<1>5. TypeOK'
  BY <1>1, <1>4 DEF IInv, TypeOK, Holds, AllProcs, States
<1>6. CurrentIsRunnable'
  BY <1>1, MlfqAssumption DEF IInv, TypeOK, CurrentIsRunnable, AllProcs
<1>7. Running => mlfq'.current_slice_ticks[current] = mlfq.current_slice_ticks[current]
  <2> SUFFICES ASSUME Running
               PROVE  mlfq'.current_slice_ticks[current] =
                        mlfq.current_slice_ticks[current]
    OBVIOUS
  <2>1. mlfq \in MlfqState /\ current \in Procs /\ p # current
    BY <1>1 DEF IInv, TypeOK, CurrentIsRunnable, Running
  <2> QED
    BY <1>1, <2>1, EnqueueOthers
<1>8. ReschedOnlyCurrent' /\ OverrunIsNoticed'
  BY <1>1, <1>7 DEF IInv, ReschedOnlyCurrent, OverrunIsNoticed, Running
<1> QED
  BY <1>4, <1>5, <1>6, <1>8 DEF IInv

\* do_wait frees a zombie.
LEMMA ReapInv == ASSUME IInv, NEW p \in Procs, Reap(p) PROVE IInv'
<1>1. /\ state' = [state EXCEPT ![p] = "UNINIT"]
      /\ state[p] = "ZOMBIE"
      /\ mlfq' = AllocProc(mlfq, p)
      /\ need_resched' = [need_resched EXCEPT ![p] = FALSE]
      /\ current' = current /\ leaving' = leaving
      /\ current \in Procs /\ ~ leaving
  BY DEF Reap, Running
<1>2. p # current /\ p \notin ReadySet
  BY <1>1 DEF IInv, CurrentIsRunnable, ReadySet, Ready
<1>3. ReadySet' = ReadySet
  <2>1. ReadySet' = ReadySet \ {p}
    BY <1>1, ReadyAfter DEF IInv, States
  <2> QED
    BY <1>2, <2>1
<1>4. /\ Holds(mlfq', ReadySet')
      /\ mlfq'.current_slice_ticks = [mlfq.current_slice_ticks EXCEPT ![p] = 0]
  BY <1>1, <1>2, <1>3, AllocHolds DEF IInv
<1>5. TypeOK'
  BY <1>1, <1>4 DEF IInv, TypeOK, Holds, AllProcs, States
<1>6. CurrentIsRunnable'
  BY <1>1, <1>2, MlfqAssumption DEF IInv, TypeOK, CurrentIsRunnable, AllProcs
<1>7. mlfq'.current_slice_ticks[current] = mlfq.current_slice_ticks[current]
  BY <1>1, <1>2, <1>4 DEF IInv, TypeOK, MlfqState
<1>8. ReschedOnlyCurrent' /\ OverrunIsNoticed'
  BY <1>1, <1>2, <1>7
  DEF IInv, TypeOK, ReschedOnlyCurrent, OverrunIsNoticed, Running, AllProcs
<1> QED
  BY <1>4, <1>5, <1>6, <1>8 DEF IInv

\* do_wait and do_exit up to their call of schedule().
LEMMA LeaveInv ==
  ASSUME IInv, Running, NEW s \in {"SLEEPING", "ZOMBIE"},
         state' = [state EXCEPT ![current] = s], leaving' = TRUE,
         UNCHANGED <<current, need_resched, mlfq>>
  PROVE  IInv'
<1>1. current \in Procs
  BY DEF Running
<1>2. ReadySet' = ReadySet
  <2>1. current \notin ReadySet
    BY DEF ReadySet, Ready
  <2>2. ReadySet' = ReadySet \ {current}
    BY <1>1, ReadyAfter DEF IInv, States
  <2> QED
    BY <2>1, <2>2
<1>3. Holds(mlfq', ReadySet')
  BY <1>2 DEF IInv
<1>4. TypeOK'
  BY <1>1 DEF IInv, TypeOK, AllProcs, States
<1>5. CurrentIsRunnable'
  BY <1>1, MlfqAssumption DEF IInv, TypeOK, CurrentIsRunnable, AllProcs
<1>6. ReschedOnlyCurrent' /\ OverrunIsNoticed'
  BY DEF IInv, ReschedOnlyCurrent, OverrunIsNoticed, Running
<1> QED
  BY <1>3, <1>4, <1>5, <1>6 DEF IInv

\* do_yield
LEMMA YieldInv == ASSUME IInv, Yield PROVE IInv'
<1>1. /\ need_resched' = [need_resched EXCEPT ![current] = TRUE]
      /\ UNCHANGED <<state, current, leaving, mlfq>>
  BY DEF Yield
<1>2. ReadySet' = ReadySet
  BY <1>1 DEF ReadySet, Ready
<1>3. Holds(mlfq', ReadySet') /\ TypeOK' /\ CurrentIsRunnable'
  BY <1>1, <1>2 DEF IInv, TypeOK, CurrentIsRunnable
<1>4. ReschedOnlyCurrent' /\ OverrunIsNoticed'
  BY <1>1 DEF IInv, TypeOK, ReschedOnlyCurrent, OverrunIsNoticed, Running, AllProcs
<1> QED
  BY <1>3, <1>4 DEF IInv

\* run_timer_list
LEMMA TickInv == ASSUME IInv, Tick PROVE IInv'
<1>1. UNCHANGED <<state, current, leaving>> /\ ReadySet' = ReadySet
  BY DEF Tick, ReadySet, Ready
<1>2. CASE current = Idle
  <2>1. need_resched' = [need_resched EXCEPT ![Idle] = TRUE] /\ mlfq' = mlfq
    BY <1>2 DEF Tick
  <2>2. Holds(mlfq', ReadySet') /\ TypeOK' /\ CurrentIsRunnable'
    BY <1>1, <2>1 DEF IInv, TypeOK, CurrentIsRunnable
  <2>3. ReschedOnlyCurrent' /\ OverrunIsNoticed'
    BY <1>1, <1>2, <2>1, MlfqAssumption
    DEF IInv, TypeOK, ReschedOnlyCurrent, OverrunIsNoticed, Running, AllProcs
  <2> QED
    BY <2>2, <2>3 DEF IInv
<1>3. CASE current # Idle
  <2> DEFINE runnable == state[current] = "RUNNABLE"
  <2>1. /\ mlfq' = ProcTick(mlfq, current, runnable)
        /\ need_resched' =
             [need_resched EXCEPT ![current] =
                @ \/ (runnable /\ mlfq'.current_slice_ticks[current] <= 0)]
    BY <1>3 DEF Tick
  <2>2. current \in Procs /\ current \notin ReadySet /\ runnable \in BOOLEAN
    BY <1>3 DEF IInv, TypeOK, AllProcs, ReadySet, Ready
  <2> HIDE DEF runnable
  <2>3. Holds(mlfq', ReadySet)
    BY <2>1, <2>2, TickHolds DEF IInv
  <2>4. need_resched' \in [AllProcs -> BOOLEAN]
    BY <2>1, <2>2 DEF IInv, TypeOK, AllProcs
  <2>5. Holds(mlfq', ReadySet') /\ TypeOK' /\ CurrentIsRunnable'
    BY <1>1, <2>3, <2>4 DEF IInv, TypeOK, CurrentIsRunnable, Holds
  <2>6. ReschedOnlyCurrent'
    BY <1>1, <2>1 DEF IInv, TypeOK, ReschedOnlyCurrent
  <2>7. OverrunIsNoticed'
    <3> SUFFICES ASSUME Running, mlfq'.current_slice_ticks[current] <= 0
                 PROVE  need_resched'[current]
      BY <1>1 DEF OverrunIsNoticed, Running
    <3>1. runnable
      BY DEF IInv, CurrentIsRunnable, Running, runnable
    <3> QED
      BY <2>1, <2>2, <3>1 DEF IInv, TypeOK, AllProcs
  <2> QED
    BY <2>5, <2>6, <2>7 DEF IInv
<1> QED
  BY <1>2, <1>3

\* After schedule() put the current process back, the queues hold all that
\* are runnable.
LEMMA RequeuedHolds == ASSUME IInv PROVE Holds(Requeued, Runnable)
<1>1. CASE current # Idle /\ state[current] = "RUNNABLE"
  <2>1. current \in Procs /\ current \notin ReadySet
    BY <1>1 DEF IInv, TypeOK, AllProcs, ReadySet, Ready
  <2>2. Runnable = ReadySet \cup {current}
    BY <1>1, <2>1 DEF Runnable, ReadySet, Ready
  <2> QED
    BY <1>1, <2>1, <2>2, EnqueueHolds DEF IInv, Requeued
<1>2. CASE ~ (current # Idle /\ state[current] = "RUNNABLE")
  <2>1. Runnable = ReadySet
    BY <1>2, MlfqAssumption DEF Runnable, ReadySet, Ready
  <2> QED
    BY <1>2, <2>1 DEF IInv, Requeued
<1> QED
  BY <1>1, <1>2

\* What schedule() does, in terms of the class when the queues are scanned.
LEMMA ScheduleEffect ==
  ASSUME IInv, Schedule
  PROVE  \/ /\ Runnable = {}
            /\ current' = Idle
            /\ Holds(mlfq', {})
         \/ /\ current' \in Runnable
            /\ Holds(mlfq', Runnable \ {current'})
            /\ mlfq'.current_slice_ticks[current'] > 0
<1>1. Holds(Requeued, Runnable)
  BY RequeuedHolds
<1> DEFINE m == BoostIfDue(Requeued)
<1>2. Holds(m, Runnable)
  BY <1>1, BoostIfDueHolds
<1>3. /\ current' = FirstProc(m)
      /\ mlfq' = IF current' = Idle THEN m ELSE Take(m, current')
  BY DEF Schedule, Dispatch
<1>4. Runnable \in SUBSET Procs /\ Idle \notin Runnable
  BY MlfqAssumption DEF Runnable
<1> HIDE DEF m
<1>5. CASE Runnable = {} /\ FirstProc(m) = Idle
  BY <1>2, <1>3, <1>5
<1>6. CASE /\ FirstProc(m) \in Runnable
           /\ \E l \in Level : m.queues[l] # <<>> /\ FirstProc(m) = m.queues[l][1]
  <2>1. PICK l \in Level : m.queues[l] # <<>> /\ FirstProc(m) = m.queues[l][1]
    BY <1>6
  <2>2. current' # Idle /\ current' = m.queues[l][1]
    BY <1>3, <1>4, <1>6, <2>1
  <2>3. mlfq' = Take(m, m.queues[l][1])
    BY <1>3, <2>2
  <2>4. /\ Holds(mlfq', Runnable \ {m.queues[l][1]})
        /\ mlfq'.current_slice_ticks = m.current_slice_ticks
        /\ m.current_slice_ticks[m.queues[l][1]] = level_slice[l]
    BY <1>2, <1>4, <2>1, <2>3, TakeHolds
  <2>5. level_slice[l] > 0
    BY MlfqAssumption
  <2> QED
    BY <1>3, <1>6, <2>2, <2>4, <2>5
<1> QED
  BY <1>2, <1>4, <1>5, <1>6, FirstProcIsFirst

\* schedule()
LEMMA ScheduleInv == ASSUME IInv, Schedule PROVE IInv'
<1>1. /\ leaving' = FALSE
      /\ need_resched' = [need_resched EXCEPT ![current] = FALSE]
      /\ state' = state
  BY DEF Schedule, Dispatch
<1>2. \A q \in AllProcs : ~ need_resched'[q]
  BY <1>1 DEF IInv, TypeOK, ReschedOnlyCurrent
<1>3. /\ current' \in AllProcs
      /\ state[current'] = "RUNNABLE"
      /\ Holds(mlfq', ReadySet')
      /\ current' \in Procs => mlfq'.current_slice_ticks[current'] > 0
  <2>1. ReadySet' = Runnable \ {current'}
    BY <1>1 DEF ReadySet, Ready, Runnable
  <2>2. CASE Runnable = {} /\ current' = Idle /\ Holds(mlfq', {})
    BY <2>1, <2>2, MlfqAssumption DEF AllProcs, IInv, CurrentIsRunnable
  <2>3. CASE /\ current' \in Runnable
             /\ Holds(mlfq', Runnable \ {current'})
             /\ mlfq'.current_slice_ticks[current'] > 0
    BY <2>1, <2>3 DEF AllProcs, Runnable
  <2> QED
    BY <2>2, <2>3, ScheduleEffect
<1>4. TypeOK'
  BY <1>1, <1>3 DEF IInv, TypeOK, Holds
<1>5. CurrentIsRunnable'
  BY <1>1, <1>3 DEF IInv, CurrentIsRunnable
<1>6. ReschedOnlyCurrent'
  BY <1>2 DEF ReschedOnlyCurrent
<1>7. OverrunIsNoticed'
  <2> SUFFICES ASSUME current' \in Procs, mlfq'.current_slice_ticks[current'] <= 0
               PROVE  FALSE
    BY DEF OverrunIsNoticed, Running
  <2>1. mlfq'.current_slice_ticks[current'] \in Nat
    BY <1>3 DEF Holds, MlfqState
  <2> QED
    BY <1>3, <2>1
<1> QED
  BY <1>3, <1>4, <1>5, <1>6, <1>7 DEF IInv

\* Every step preserves the invariant.
LEMMA NextInv == IInv /\ [Next]_vars => IInv'
<1> SUFFICES ASSUME IInv, [Next]_vars PROVE IInv'
  OBVIOUS
<1>1. ASSUME NEW p \in Procs, Fork(p) PROVE IInv'
  BY <1>1, ForkInv
<1>2. ASSUME NEW p \in Procs, Wakeup(p) PROVE IInv'
  BY <1>2, WakeupInv
<1>3. ASSUME NEW p \in Procs, Reap(p) PROVE IInv'
  BY <1>3, ReapInv
<1>4. CASE Sleep
  BY <1>4, LeaveInv DEF Sleep
<1>5. CASE Exit
  BY <1>5, LeaveInv DEF Exit
<1>6. CASE Yield
  BY <1>6, YieldInv
<1>7. CASE Tick
  BY <1>7, TickInv
<1>8. CASE Schedule
  BY <1>8, ScheduleInv
<1>9. CASE UNCHANGED vars
  BY <1>9 DEF vars, IInv, TypeOK, ReadySet, Ready, CurrentIsRunnable,
              ReschedOnlyCurrent, OverrunIsNoticed, Running
<1> QED
  BY <1>1, <1>2, <1>3, <1>4, <1>5, <1>6, <1>7, <1>8, <1>9 DEF Next

\* The class and the process states stay in order, in every behaviour of
\* sched.c with mlfq_sched_class.
THEOREM Invariance == Spec => []IInv
<1>1. Init => IInv
  BY InitInv
<1>2. IInv /\ [Next]_vars => IInv'
  BY NextInv
<1> QED
  BY <1>1, <1>2, PTL DEF Spec

----------------------------------------------------------------------------
(* The properties of SmartMlfq.                                            *)

\* Every field of a proc_struct and of the run queue keeps its type.
THEOREM TypeCorrect == Spec => []TypeOK
<1>1. IInv => TypeOK
  BY DEF IInv
<1> QED
  BY <1>1, Invariance, PTL

\* The queues hold exactly the processes that wait for the CPU, once each, at
\* their level and with its slice, and rq->proc_num counts them.
THEOREM QueuesAlwaysAgree == Spec => []QueuesAgree
<1>1. IInv => QueuedIffReady
  BY DEF IInv, Holds, QueuedIffReady, ReadySet
<1>2. IInv => QueuedOnce
  BY DEF IInv, Holds, QueuedOnce
<1>3. IInv => QueuedAtItsLevel
  BY DEF IInv, Holds, QueuedAtItsLevel
<1>4. IInv => ProcNumCounts
  BY DEF IInv, Holds, Counted, ProcNumCounts
<1>5. IInv => QueuesAgree
  BY <1>1, <1>2, <1>3, <1>4 DEF QueuesAgree
<1> QED
  BY <1>5, Invariance, PTL

\* The EWMA never leaves its scale, whatever the slices, the scale and the
\* order of the events.
THEOREM ScoresStayInRange == Spec => []ScoreInRange
<1>1. IInv => SliceFitsLevel
  BY DEF IInv, Holds, SliceFitsLevel
<1>2. IInv => ScoreInRange
  BY <1>1 DEF IInv, Holds, Scored, ScoreInRange
<1> QED
  BY <1>2, Invariance, PTL

\* need_resched is set for a process that runs with its slice used up, and
\* for no process but the one on the CPU.
THEOREM ReschedStaysRight == Spec => []ReschedIsRight
<1>1. IInv => ReschedIsRight
  BY DEF IInv, ReschedIsRight
<1> QED
  BY <1>1, Invariance, PTL

\* The scheduler with this class implements SchedCore: it hands the CPU to a
\* runnable process whenever there is one, and to idleproc only otherwise.
THEOREM Refinement == Spec => ImplementsCore
<1>1. Init => Core!Init
  BY DEF Init, Core!Init, AllProcs, Core!AllProcs
<1>2. IInv /\ [Next]_vars => [Core!Next]_(Core!vars)
  <2> SUFFICES ASSUME IInv, [Next]_vars
               PROVE  Core!Next \/ UNCHANGED <<state, current>>
    BY DEF Core!vars
  <2>1. Running => Core!Running
    BY DEF IInv, CurrentIsRunnable, Running, Core!Running
  <2>2. ASSUME NEW p \in Procs, Fork(p) PROVE Core!Fork(p)
    BY <2>1, <2>2 DEF Fork, Core!Fork, Core!SetState
  <2>3. ASSUME NEW p \in Procs, Wakeup(p) PROVE Core!Wakeup(p)
    BY <2>3 DEF Wakeup, Core!Wakeup, Core!SetState
  <2>4. ASSUME NEW p \in Procs, Reap(p) PROVE Core!Reap(p)
    BY <2>1, <2>4 DEF Reap, Core!Reap, Core!SetState
  <2>5. CASE Sleep
    BY <2>1, <2>5 DEF Sleep, Core!Next, Core!Sleep, Core!SetState
  <2>6. CASE Exit
    BY <2>1, <2>6 DEF Exit, Core!Next, Core!Exit, Core!SetState
  <2>7. CASE Yield \/ Tick \/ UNCHANGED vars
    BY <2>7 DEF Yield, Tick, vars
  <2>8. CASE Schedule
    <3>1. state' = state
      BY <2>8 DEF Schedule, Dispatch
    <3>2. \/ Runnable = {} /\ current' = Idle
          \/ current' \in Runnable
      BY <2>8, ScheduleEffect
    <3> QED
      BY <3>1, <3>2 DEF Core!Next, Core!Schedule, Runnable
  <2> QED
    BY <2>2, <2>3, <2>4, <2>5, <2>6, <2>7, <2>8 DEF Next, Core!Next
<1> QED
  BY <1>1, <1>2, Invariance, PTL DEF Spec, ImplementsCore, Core!Spec

----------------------------------------------------------------------------
(* The score follows the behaviour.                                        *)

\* What ScoreFollowsBurst says of one process when the class's state goes
\* from m to n; dead is whether it is a zombie.
Follows(m, n, p, dead) ==
  /\ m.current_slice_ticks[p] <= 0 /\ ~ dead => n.cpu_score[p] >= m.cpu_score[p]
  /\ m.current_slice_ticks[p] <= 0 /\ n.current_slice_ticks[p] > 0
       /\ m.sched_count[p] > 0 => n.cpu_score[p] >= IO_BOUND_THRESHOLD
  /\ Used(m, p) = 0 => n.cpu_score[p] <= m.cpu_score[p]

\* Division undoes multiplication.
LEMMA MultipleDivided ==
  ASSUME NEW s \in Nat \ {0}, NEW c \in Nat
  PROVE  (s * c) \div s = c
<1> DEFINE x == s * c
           d == x \div s
<1>1. x \in Nat /\ x = s * c
  OBVIOUS
<1> HIDE DEF x
<1>2. d \in Int /\ s * d <= x /\ x < s * d + s
  BY <1>1
<1>3. ~ (d >= c + 1)
  <2> SUFFICES ASSUME d >= c + 1 PROVE FALSE
    OBVIOUS
  <2>1. s * d >= s * (c + 1)
    BY <1>2
  <2>2. s * (c + 1) = s * c + s
    OBVIOUS
  <2> QED
    BY <1>1, <1>2, <2>1, <2>2
<1>4. ~ (d <= c - 1)
  <2> SUFFICES ASSUME d <= c - 1 PROVE FALSE
    OBVIOUS
  <2>1. s * d <= s * (c - 1)
    BY <1>2
  <2>2. s * (c - 1) = s * c - s
    OBVIOUS
  <2> QED
    BY <1>1, <1>2, <2>1, <2>2
<1> QED
  BY <1>2, <1>3, <1>4 DEF x

\* The update after a slice used up, and after one not touched.
LEMMA NextScoreFollows ==
  ASSUME NEW m \in MlfqState, NEW p \in Procs,
         m.cpu_score[p] \in 0 .. SCORE_SCALE,
         10 * IO_BOUND_THRESHOLD <= 4 * SCORE_SCALE + 6
  PROVE  /\ m.current_slice_ticks[p] = 0 =>
              /\ NextScore(m, p) >= m.cpu_score[p]
              /\ NextScore(m, p) >= IO_BOUND_THRESHOLD
         /\ Used(m, p) = 0 => NextScore(m, p) <= m.cpu_score[p]
<1> DEFINE a == m.cpu_score[p]
           s == level_slice[m.mlfq_level[p]]
<1>1. /\ m.current_slice_ticks[p] \in Nat
      /\ s \in Nat \ {0}
      /\ SCORE_SCALE \in Nat \ {0}
      /\ IO_BOUND_THRESHOLD \in 0 .. SCORE_SCALE
      /\ a \in 0 .. SCORE_SCALE
  BY MlfqAssumption DEF MlfqState
<1>2. ASSUME m.current_slice_ticks[p] = 0
      PROVE  NextScore(m, p) >= a /\ NextScore(m, p) >= IO_BOUND_THRESHOLD
  <2>1. Ratio(m, p) = SCORE_SCALE
    <3>1. Ratio(m, p) = (s * SCORE_SCALE) \div s
      BY <1>1, <1>2 DEF Ratio, Used
    <3> HIDE DEF s
    <3> QED
      BY <1>1, <3>1, MultipleDivided
  <2>2. NextScore(m, p) = IF a = 0 THEN SCORE_SCALE
                          ELSE (6 * a + 4 * SCORE_SCALE) \div 10
    BY <2>1 DEF NextScore
  <2> HIDE DEF a
  <2> QED
    BY <1>1, <2>2
<1>3. ASSUME Used(m, p) = 0 PROVE NextScore(m, p) <= a
  <2>1. Ratio(m, p) = 0
    <3>1. Ratio(m, p) = 0 \div s
      BY <1>1, <1>3 DEF Ratio
    <3> HIDE DEF s
    <3> QED
      BY <1>1, <3>1
  <2>2. NextScore(m, p) = IF a = 0 THEN 0 ELSE (6 * a + 4 * 0) \div 10
    BY <2>1 DEF NextScore
  <2> HIDE DEF a
  <2> QED
    BY <1>1, <2>2
<1> QED
  BY <1>2, <1>3 DEF a

\* mlfq_enqueue: the score of the process is updated, or left alone with the
\* process counted as new; those of the others are left alone.
LEMMA EnqueueFollows ==
  ASSUME NEW m, NEW R, Holds(m, R), NEW p \in Procs, NEW q \in Procs,
         10 * IO_BOUND_THRESHOLD <= 4 * SCORE_SCALE + 6
  PROVE  Follows(m, Enqueue(m, p), q, FALSE)
<1> DEFINE e == Enqueue(m, p)
<1>1. /\ m \in MlfqState
      /\ m.cpu_score[p] \in 0 .. SCORE_SCALE
      /\ m.cpu_score[q] \in 0 .. SCORE_SCALE
      /\ m.current_slice_ticks[p] \in Nat
      /\ m.current_slice_ticks[q] \in Nat
      /\ SCORE_SCALE \in Nat
  BY MlfqAssumption DEF Holds, Scored, MlfqState
<1>2. CASE q # p
  <2>1. /\ e.cpu_score[q] = m.cpu_score[q]
        /\ e.current_slice_ticks[q] = m.current_slice_ticks[q]
    BY <1>1, <1>2, EnqueueEffect, EnqueueOthers
  <2> HIDE DEF e
  <2> QED
    BY <1>1, <2>1 DEF Follows, e
<1>3. CASE q = p
  <2>1. e.cpu_score[p] = IF m.sched_count[p] > 0 THEN NextScore(m, p)
                         ELSE m.cpu_score[p]
    BY <1>1, EnqueueEffect
  <2>2. NextScore(m, p) \in Int
    BY <1>1, UpdateType
  <2> HIDE DEF e
  <2> QED
    BY <1>1, <1>3, <2>1, <2>2, NextScoreFollows DEF Follows, e
<1> QED
  BY <1>2, <1>3

\* What schedule() does after it put the current process back keeps every
\* score, and fills no slice that is empty.
LEMMA PickKeepsScores ==
  ASSUME NEW m, NEW R \in SUBSET Procs, Holds(m, R), NEW q \in Procs
  PROVE  LET b == BoostIfDue(m) IN
         /\ b.cpu_score = m.cpu_score
         /\ m.current_slice_ticks[q] <= 0 =>
              b.current_slice_ticks[q] = m.current_slice_ticks[q]
<1> DEFINE b == PriorityBoost(m)
           Moved(p) == \E l \in Level \ {0} : InQueue(m, l, p)
<1>1. m \in MlfqState
  BY DEF Holds
<1>2. CASE m.global_timer >= BOOST_TICKS
  <2>1. BoostIfDue(m) = [b EXCEPT !.global_timer = 0]
    BY <1>2 DEF BoostIfDue
  <2>2. /\ b.cpu_score = m.cpu_score
        /\ b.current_slice_ticks =
             [p \in Procs |-> IF Moved(p) THEN level_slice[0]
                              ELSE m.current_slice_ticks[p]]
    BY <1>1 DEF PriorityBoost, MlfqState
  <2>3. Moved(q) => m.current_slice_ticks[q] > 0
    <3> SUFFICES ASSUME NEW l \in Level \ {0}, InQueue(m, l, q)
                 PROVE  m.current_slice_ticks[q] > 0
      OBVIOUS
    <3>1. m.current_slice_ticks[q] = level_slice[l]
      BY DEF Holds, InQueue
    <3> QED
      BY <3>1, MlfqAssumption
  <2>4. b \in MlfqState
    BY BoostHolds DEF Holds
  <2> HIDE DEF b, Moved
  <2>5. /\ BoostIfDue(m).cpu_score = b.cpu_score
        /\ BoostIfDue(m).current_slice_ticks = b.current_slice_ticks
    BY <2>1, <2>4 DEF MlfqState
  <2>6. m.current_slice_ticks[q] \in Nat
    BY <1>1 DEF MlfqState
  <2> QED
    BY <2>2, <2>3, <2>5, <2>6
<1>3. CASE ~ (m.global_timer >= BOOST_TICKS)
  BY <1>3 DEF BoostIfDue
<1> QED
  BY <1>2, <1>3

\* schedule() moves no score but the one that its enqueue updates.
LEMMA ScheduleKeepsScores ==
  ASSUME IInv, Schedule, NEW q \in Procs
  PROVE  /\ mlfq'.cpu_score = Requeued.cpu_score
         /\ Requeued.current_slice_ticks[q] <= 0 =>
              mlfq'.current_slice_ticks[q] = Requeued.current_slice_ticks[q]
<1> DEFINE m == BoostIfDue(Requeued)
<1>1. Runnable \in SUBSET Procs /\ Idle \notin Procs
  BY MlfqAssumption DEF Runnable
<1>2. Holds(m, Runnable)
  BY RequeuedHolds, BoostIfDueHolds
<1>3. /\ m.cpu_score = Requeued.cpu_score
      /\ Requeued.current_slice_ticks[q] <= 0 =>
           m.current_slice_ticks[q] = Requeued.current_slice_ticks[q]
  BY <1>1, RequeuedHolds, PickKeepsScores
<1>4. /\ current' = FirstProc(m)
      /\ mlfq' = IF current' = Idle THEN m ELSE Take(m, current')
  BY DEF Schedule, Dispatch
<1> HIDE DEF m
<1>5. CASE current' = Idle
  BY <1>3, <1>4, <1>5
<1>6. CASE current' # Idle
  <2>1. PICK l \in Level : m.queues[l] # <<>> /\ current' = m.queues[l][1]
    BY <1>1, <1>2, <1>4, <1>6, FirstProcIsFirst
  <2>2. mlfq' = Take(m, m.queues[l][1])
    BY <1>4, <1>6, <2>1
  <2>3. /\ mlfq'.cpu_score = m.cpu_score
        /\ mlfq'.current_slice_ticks = m.current_slice_ticks
    BY <1>1, <1>2, <2>1, <2>2, TakeHolds
  <2> QED
    BY <1>3, <2>3
<1> QED
  BY <1>5, <1>6

\* Every step obeys ScoreFollowsBurst.
LEMMA NextFollows ==
  ASSUME IInv, Next, NEW q \in Procs,
         10 * IO_BOUND_THRESHOLD <= 4 * SCORE_SCALE + 6
  PROVE  Follows(mlfq, mlfq', q, state[q] = "ZOMBIE")
<1>1. /\ Holds(mlfq, ReadySet)
      /\ mlfq \in MlfqState
      /\ mlfq.cpu_score[q] \in 0 .. SCORE_SCALE
      /\ mlfq.current_slice_ticks[q] \in Nat
  BY DEF IInv, Holds, Scored, MlfqState
<1>2. ASSUME NEW p \in Procs, mlfq' = Enqueue(mlfq, p)
      PROVE  Follows(mlfq, mlfq', q, state[q] = "ZOMBIE")
  BY <1>1, <1>2, EnqueueFollows DEF Follows
<1>3. ASSUME /\ mlfq'.cpu_score[q] = mlfq.cpu_score[q]
             /\ mlfq.current_slice_ticks[q] <= 0 => mlfq'.current_slice_ticks[q] <= 0
             /\ mlfq'.current_slice_ticks[q] \in Int
      PROVE  Follows(mlfq, mlfq', q, state[q] = "ZOMBIE")
  BY <1>1, <1>3, MlfqAssumption DEF Follows
<1>4. ASSUME mlfq' = mlfq PROVE Follows(mlfq, mlfq', q, state[q] = "ZOMBIE")
  BY <1>1, <1>3, <1>4
<1>5. ASSUME NEW p \in Procs, Fork(p)
      PROVE  Follows(mlfq, mlfq', q, state[q] = "ZOMBIE")
  BY <1>2, <1>5 DEF Fork
<1>6. ASSUME NEW p \in Procs, Wakeup(p)
      PROVE  Follows(mlfq, mlfq', q, state[q] = "ZOMBIE")
  BY <1>2, <1>4, <1>6 DEF Wakeup
<1>7. ASSUME NEW p \in Procs, Reap(p)
      PROVE  Follows(mlfq, mlfq', q, state[q] = "ZOMBIE")
  <2>1. /\ mlfq'.cpu_score = [mlfq.cpu_score EXCEPT ![p] = 0]
        /\ mlfq'.current_slice_ticks = [mlfq.current_slice_ticks EXCEPT ![p] = 0]
        /\ state[p] = "ZOMBIE"
    BY <1>1, <1>7 DEF Reap, AllocProc, MlfqState
  <2>2. CASE q = p
    <3>1. mlfq'.cpu_score[q] = 0 /\ mlfq'.current_slice_ticks[q] = 0
      BY <1>1, <2>1, <2>2 DEF MlfqState
    <3> QED
      BY <1>1, <2>1, <2>2, <3>1 DEF Follows
  <2>3. CASE q # p
    <3>1. /\ mlfq'.cpu_score[q] = mlfq.cpu_score[q]
          /\ mlfq'.current_slice_ticks[q] = mlfq.current_slice_ticks[q]
      BY <1>1, <2>1, <2>3 DEF MlfqState
    <3> QED
      BY <1>1, <1>3, <3>1
  <2> QED
    BY <2>2, <2>3
<1>8. CASE Sleep \/ Exit \/ Yield
  BY <1>4, <1>8 DEF Sleep, Exit, Yield
<1>9. CASE Tick
  <2>1. CASE current = Idle
    BY <1>4, <1>9, <2>1 DEF Tick
  <2>2. CASE current # Idle
    <3> DEFINE r == state[current] = "RUNNABLE"
               S == [mlfq.current_slice_ticks EXCEPT
                       ![current] = IF r /\ @ > 0 THEN @ - 1 ELSE @]
    <3>1. /\ mlfq' = ProcTick(mlfq, current, r)
          /\ current \in Procs
      BY <1>9, <2>2 DEF Tick, IInv, TypeOK, AllProcs
    <3>2. mlfq'.cpu_score = mlfq.cpu_score /\ mlfq'.current_slice_ticks = S
      BY <1>1, <3>1 DEF ProcTick, MlfqState
    <3>3. S[q] = IF q = current /\ r /\ mlfq.current_slice_ticks[q] > 0
                 THEN mlfq.current_slice_ticks[q] - 1
                 ELSE mlfq.current_slice_ticks[q]
      BY <1>1 DEF MlfqState
    <3> HIDE DEF S, r
    <3> QED
      BY <1>1, <1>3, <3>2, <3>3
  <2> QED
    BY <2>1, <2>2
<1>10. CASE Schedule
  <2>1. Follows(mlfq, Requeued, q, state[q] = "ZOMBIE")
    <3>1. CASE current # Idle /\ state[current] = "RUNNABLE"
      <4>1. Requeued = Enqueue(mlfq, current) /\ current \in Procs
        BY <3>1 DEF Requeued, IInv, TypeOK, AllProcs
      <4>2. Follows(mlfq, Enqueue(mlfq, current), q, FALSE)
        BY <1>1, <4>1, EnqueueFollows
      <4> QED
        BY <4>1, <4>2 DEF Follows
    <3>2. CASE ~ (current # Idle /\ state[current] = "RUNNABLE")
      BY <1>1, <3>2, MlfqAssumption DEF Requeued, Follows
    <3> QED
      BY <3>1, <3>2
  <2>2. /\ mlfq'.cpu_score = Requeued.cpu_score
        /\ Requeued.current_slice_ticks[q] <= 0 =>
             mlfq'.current_slice_ticks[q] = Requeued.current_slice_ticks[q]
    BY <1>10, ScheduleKeepsScores
  <2>3. Requeued.current_slice_ticks[q] \in Nat
    BY RequeuedHolds DEF Holds, MlfqState
  <2> QED
    BY <2>1, <2>2, <2>3 DEF Follows
<1> QED
  BY <1>5, <1>6, <1>7, <1>8, <1>9, <1>10 DEF Next

\* Whoever is not put into a queue keeps the record the class has of it.
Untouched(m, n, q) == /\ n.cpu_score[q] = m.cpu_score[q]
                      /\ n.mlfq_level[q] = m.mlfq_level[q]
                      /\ n.current_slice_ticks[q] = m.current_slice_ticks[q]

\* mlfq_enqueue leaves the other processes untouched.
LEMMA EnqueueUntouched ==
  ASSUME NEW m \in MlfqState, NEW p \in Procs, NEW q \in Procs, q # p
  PROVE  Untouched(m, Enqueue(m, p), q)
<1> DEFINE e == Enqueue(m, p)
<1>1. PICK l \in Level :
        /\ e.queues = [m.queues EXCEPT ![l] = Append(@, p)]
        /\ e.mlfq_level = [m.mlfq_level EXCEPT ![p] = l]
        /\ e.current_slice_ticks =
             [m.current_slice_ticks EXCEPT ![p] = level_slice[l]]
  BY EnqueueEffect
<1>2. e.cpu_score[q] = m.cpu_score[q]
  BY EnqueueEffect
<1> HIDE DEF e
<1>3. Untouched(m, e, q)
  BY <1>1, <1>2 DEF MlfqState, Untouched
<1> QED
  BY <1>3 DEF e

\* A boost moves only processes that are in queues.
LEMMA BoostUntouched ==
  ASSUME NEW m, NEW R \in SUBSET Procs, Holds(m, R), NEW q \in Procs \ R
  PROVE  Untouched(m, BoostIfDue(m), q)
<1> DEFINE b == PriorityBoost(m)
           n == [b EXCEPT !.global_timer = 0]
           Moved(p) == \E l \in Level \ {0} : InQueue(m, l, p)
<1>1. m \in MlfqState /\ ~ Moved(q)
  BY DEF Holds
<1>2. CASE m.global_timer >= BOOST_TICKS
  <2>1. /\ b.cpu_score = m.cpu_score
        /\ b.mlfq_level =
             [p \in Procs |-> IF Moved(p) THEN 0 ELSE m.mlfq_level[p]]
        /\ b.current_slice_ticks =
             [p \in Procs |-> IF Moved(p) THEN level_slice[0]
                              ELSE m.current_slice_ticks[p]]
    BY <1>1 DEF PriorityBoost, MlfqState
  <2>2. BoostIfDue(m) = n
    BY <1>2 DEF BoostIfDue
  <2>3. b \in MlfqState
    BY BoostHolds DEF Holds
  <2> HIDE DEF b, Moved
  <2>4. /\ n.cpu_score = b.cpu_score
        /\ n.mlfq_level = b.mlfq_level
        /\ n.current_slice_ticks = b.current_slice_ticks
    BY <2>3 DEF MlfqState
  <2> HIDE DEF n
  <2> QED
    BY <1>1, <2>1, <2>2, <2>4 DEF Untouched
<1>3. CASE ~ (m.global_timer >= BOOST_TICKS)
  BY <1>3 DEF BoostIfDue, Untouched
<1> QED
  BY <1>2, <1>3

\* schedule() leaves a process that is not runnable untouched.
LEMMA ScheduleUntouched ==
  ASSUME IInv, Schedule, NEW q \in Procs, state[q] # "RUNNABLE"
  PROVE  Untouched(mlfq, mlfq', q)
<1> DEFINE m == BoostIfDue(Requeued)
<1>1. Runnable \in SUBSET Procs /\ Idle \notin Procs /\ q \in Procs \ Runnable
  BY MlfqAssumption DEF Runnable
<1>2. Untouched(mlfq, Requeued, q)
  <2>1. CASE current # Idle /\ state[current] = "RUNNABLE"
    <3>1. mlfq \in MlfqState /\ current \in Procs /\ q # current
      BY <2>1 DEF IInv, TypeOK, AllProcs
    <3> QED
      BY <2>1, <3>1, EnqueueUntouched DEF Requeued
  <2>2. CASE ~ (current # Idle /\ state[current] = "RUNNABLE")
    BY <2>2 DEF Requeued, Untouched
  <2> QED
    BY <2>1, <2>2
<1>3. Holds(m, Runnable) /\ Untouched(Requeued, m, q)
  BY <1>1, RequeuedHolds, BoostIfDueHolds, BoostUntouched
<1>4. /\ current' = FirstProc(m)
      /\ mlfq' = IF current' = Idle THEN m ELSE Take(m, current')
  BY DEF Schedule, Dispatch
<1> HIDE DEF m
<1>5. Untouched(m, mlfq', q)
  <2>1. CASE current' = Idle
    BY <1>4, <2>1 DEF Untouched
  <2>2. CASE current' # Idle
    <3>1. PICK l \in Level : m.queues[l] # <<>> /\ current' = m.queues[l][1]
      BY <1>1, <1>3, <1>4, <2>2, FirstProcIsFirst
    <3>2. mlfq' = Take(m, m.queues[l][1])
      BY <1>4, <2>2, <3>1
    <3> QED
      BY <1>1, <1>3, <3>1, <3>2, TakeHolds DEF Untouched
  <2> QED
    BY <2>1, <2>2
<1> QED
  BY <1>2, <1>3, <1>5 DEF Untouched

\* No step touches a process that sleeps before and after it.
LEMMA SleeperUntouched ==
  ASSUME IInv, Next, NEW q \in Procs,
         state[q] = "SLEEPING", state'[q] = "SLEEPING"
  PROVE  Untouched(mlfq, mlfq', q)
<1>1. mlfq \in MlfqState /\ state \in [AllProcs -> States] /\ q \in AllProcs
  BY DEF IInv, TypeOK, AllProcs
<1>2. ASSUME NEW p \in Procs, p # q, mlfq' = Enqueue(mlfq, p)
      PROVE  Untouched(mlfq, mlfq', q)
  BY <1>1, <1>2, EnqueueUntouched
<1>3. ASSUME mlfq' = mlfq PROVE Untouched(mlfq, mlfq', q)
  BY <1>3 DEF Untouched
<1>4. ASSUME NEW p \in Procs, Fork(p) PROVE Untouched(mlfq, mlfq', q)
  BY <1>1, <1>2, <1>4 DEF Fork
<1>5. ASSUME NEW p \in Procs, Wakeup(p) PROVE Untouched(mlfq, mlfq', q)
  <2>1. p # q
    BY <1>1, <1>5 DEF Wakeup
  <2> QED
    BY <1>2, <1>3, <1>5, <2>1 DEF Wakeup
<1>6. ASSUME NEW p \in Procs, Reap(p) PROVE Untouched(mlfq, mlfq', q)
  <2>1. p # q /\ mlfq' = AllocProc(mlfq, p)
    BY <1>6 DEF Reap
  <2>2. /\ mlfq'.cpu_score = [mlfq.cpu_score EXCEPT ![p] = 0]
        /\ mlfq'.mlfq_level = [mlfq.mlfq_level EXCEPT ![p] = 0]
        /\ mlfq'.current_slice_ticks = [mlfq.current_slice_ticks EXCEPT ![p] = 0]
    BY <1>1, <2>1 DEF AllocProc, MlfqState
  <2> QED
    BY <1>1, <2>1, <2>2 DEF MlfqState, Untouched
<1>7. CASE Sleep \/ Exit \/ Yield
  BY <1>3, <1>7 DEF Sleep, Exit, Yield
<1>8. CASE Tick
  <2>1. CASE current = Idle
    BY <1>3, <1>8, <2>1 DEF Tick
  <2>2. CASE current # Idle
    <3> DEFINE r == state[current] = "RUNNABLE"
               S == [mlfq.current_slice_ticks EXCEPT
                       ![current] = IF r /\ @ > 0 THEN @ - 1 ELSE @]
    <3>1. mlfq' = ProcTick(mlfq, current, r) /\ current \in Procs
      BY <1>8, <2>2 DEF Tick, IInv, TypeOK, AllProcs
    <3>2. /\ mlfq'.cpu_score = mlfq.cpu_score
          /\ mlfq'.mlfq_level = mlfq.mlfq_level
          /\ mlfq'.current_slice_ticks = S
      BY <1>1, <3>1 DEF ProcTick, MlfqState
    <3>3. S[q] = mlfq.current_slice_ticks[q]
      BY <1>1 DEF MlfqState
    <3> HIDE DEF S, r
    <3> QED
      BY <3>2, <3>3 DEF Untouched
  <2> QED
    BY <2>1, <2>2
<1>9. CASE Schedule
  BY <1>9, ScheduleUntouched
<1> QED
  BY <1>4, <1>5, <1>6, <1>7, <1>8, <1>9 DEF Next

\* The score follows the behaviour of the process, for any slices, if the
\* weight of one full slice reaches the threshold: with the constants of
\* mlfq_sched.c, 10 * 300 <= 4 * 1000 + 6.
THEOREM ScoresFollowBursts ==
  ASSUME 10 * IO_BOUND_THRESHOLD <= 4 * SCORE_SCALE + 6
  PROVE  Spec => ScoreFollowsBurst
<1>1. ASSUME IInv, Next, NEW q \in Procs
      PROVE  Follows(mlfq, mlfq', q, state[q] = "ZOMBIE")
  BY <1>1, NextFollows
<1>2. ASSUME IInv, Next, NEW q \in Procs,
             state[q] = "SLEEPING", state'[q] = "SLEEPING"
      PROVE  /\ mlfq'.cpu_score[q] = mlfq.cpu_score[q]
             /\ Used(mlfq', q) = Used(mlfq, q)
  BY <1>2, SleeperUntouched DEF Untouched, Used
<1>3. IInv /\ [Next]_vars =>
        [\A p \in Procs :
           LET old == mlfq.cpu_score[p]
               new == mlfq'.cpu_score[p]
               left == mlfq.current_slice_ticks[p]
           IN  /\ left <= 0 /\ state[p] # "ZOMBIE" => new >= old
               /\ left <= 0 /\ mlfq'.current_slice_ticks[p] > 0
                    /\ mlfq.sched_count[p] > 0 => new >= IO_BOUND_THRESHOLD
               /\ Used(mlfq, p) = 0 => new <= old
               /\ state[p] = "SLEEPING" /\ state'[p] = "SLEEPING" =>
                    new = old /\ Used(mlfq', p) = Used(mlfq, p)]_mlfq
  <2> SUFFICES ASSUME IInv, [Next]_vars, mlfq' # mlfq, NEW p \in Procs
               PROVE  /\ Follows(mlfq, mlfq', p, state[p] = "ZOMBIE")
                      /\ state[p] = "SLEEPING" /\ state'[p] = "SLEEPING" =>
                           /\ mlfq'.cpu_score[p] = mlfq.cpu_score[p]
                           /\ Used(mlfq', p) = Used(mlfq, p)
    BY DEF Follows
  <2>1. Next
    BY DEF vars
  <2> QED
    BY <1>1, <1>2, <2>1
<1> QED
  BY <1>3, Invariance, PTL DEF Spec, ScoreFollowsBurst

----------------------------------------------------------------------------
(* Levels are earned.  NewAtTop is the one fact about a process that has   *)
(* never run that Holds does not say; it is invariant with IInv.           *)

NewAtTop(m) == \A p \in Procs : m.sched_count[p] = 0 => m.mlfq_level[p] = 0

\* What LevelChangesAreEarned says of one process when the class's state goes
\* from m to n; dead is whether it is a zombie.
Earned(m, n, p, dead) ==
  /\ n.mlfq_level[p] > m.mlfq_level[p] =>
       n.mlfq_level[p] = m.mlfq_level[p] + 1 /\ m.current_slice_ticks[p] <= 0
  /\ n.mlfq_level[p] < m.mlfq_level[p] =>
       \/ m.current_slice_ticks[p] > 0
       \/ m.global_timer >= BOOST_TICKS
       \/ dead

\* mlfq_enqueue writes the level of one process, as the level update says.
LEMMA EnqueueLevel ==
  ASSUME NEW m \in MlfqState, NEW p \in Procs
  PROVE  LET e == Enqueue(m, p) IN
         /\ e.sched_count = m.sched_count
         /\ e.global_timer = m.global_timer
         /\ e.mlfq_level = [m.mlfq_level EXCEPT ![p] =
                              IF m.sched_count[p] > 0 THEN NextLevel(m, p) ELSE 0]
<1> DEFINE u == IF m.sched_count[p] > 0 THEN PredictAndLevelUpdate(m, p)
                ELSE [m EXCEPT !.mlfq_level[p] = 0]
           n == IF m.sched_count[p] > 0 THEN NextLevel(m, p) ELSE 0
           l == u.mlfq_level[p]
<1>1. /\ u.sched_count = m.sched_count
      /\ u.global_timer = m.global_timer
      /\ u.mlfq_level = [m.mlfq_level EXCEPT ![p] = n]
  <2>1. CASE m.sched_count[p] > 0
    BY <2>1 DEF PredictAndLevelUpdate, MlfqState
  <2>2. CASE ~ (m.sched_count[p] > 0)
    BY <2>2 DEF MlfqState
  <2> QED
    BY <2>1, <2>2
<1>2. Enqueue(m, p) = [u EXCEPT !.current_slice_ticks[p] = level_slice[l],
                                !.queues[l] = Append(@, p),
                                !.proc_num = @ + 1]
  BY DEF Enqueue
<1>3. \E s, q, c : Enqueue(m, p) = [u EXCEPT !.current_slice_ticks = s,
                                                !.queues = q,
                                                !.proc_num = c]
  BY <1>2
<1> HIDE DEF u, n, l
<1>4. /\ Enqueue(m, p).sched_count = u.sched_count
      /\ Enqueue(m, p).global_timer = u.global_timer
      /\ Enqueue(m, p).mlfq_level = u.mlfq_level
  BY <1>3
<1> QED
  BY <1>1, <1>4 DEF n

\* mlfq_enqueue changes the level of a process as it deserves.
LEMMA EnqueueEarns ==
  ASSUME NEW m \in MlfqState, NewAtTop(m), NEW p \in Procs, NEW q \in Procs
  PROVE  NewAtTop(Enqueue(m, p)) /\ Earned(m, Enqueue(m, p), q, FALSE)
<1> DEFINE e == Enqueue(m, p)
           n == IF m.sched_count[p] > 0 THEN NextLevel(m, p) ELSE 0
<1>1. /\ e.sched_count = m.sched_count
      /\ e.mlfq_level = [m.mlfq_level EXCEPT ![p] = n]
  BY EnqueueLevel
<1>2. /\ m.mlfq_level \in [Procs -> Level]
      /\ \A x \in Procs : /\ m.sched_count[x] \in {0, 1}
                          /\ m.current_slice_ticks[x] \in Nat
                          /\ m.mlfq_level[x] \in {0, 1, 2, 3}
  BY DEF MlfqState, Level, MLFQ_LEVELS
<1> HIDE DEF e
<1>3. NewAtTop(e)
  BY <1>1, <1>2 DEF NewAtTop
<1>4. ASSUME q # p PROVE Earned(m, e, q, FALSE)
  BY <1>1, <1>2, <1>4 DEF Earned
<1>5. ASSUME q = p PROVE Earned(m, e, q, FALSE)
  <2>1. e.mlfq_level[p] = n
    BY <1>1, <1>2
  <2>2. m.current_slice_ticks[p] <= 0 => NextLevel(m, p) \in {m.mlfq_level[p], m.mlfq_level[p] + 1}
    BY DEF NextLevel
  <2>3. m.current_slice_ticks[p] > 0 => NextLevel(m, p) <= m.mlfq_level[p]
    BY <1>2 DEF NextLevel
  <2>4. m.sched_count[p] = 0 => m.mlfq_level[p] = 0
    BY DEF NewAtTop
  <2>5. NextLevel(m, p) \in Int /\ m.mlfq_level[p] \in Int /\ m.current_slice_ticks[p] \in Nat
    BY <1>2, UpdateType DEF Level
  <2>6. n \in Int
    BY <2>5
  <2>7. \/ n = NextLevel(m, p)
        \/ n = 0 /\ m.mlfq_level[p] = 0
    BY <1>2, <2>4
  <2> HIDE DEF n
  <2>8. /\ n > m.mlfq_level[p] =>
             n = m.mlfq_level[p] + 1 /\ m.current_slice_ticks[p] <= 0
        /\ n < m.mlfq_level[p] => m.current_slice_ticks[p] > 0
    BY <2>2, <2>3, <2>5, <2>6, <2>7
  <2> QED
    BY <1>5, <2>1, <2>8 DEF Earned
<1> QED
  BY <1>3, <1>4, <1>5 DEF e

\* What schedule() does after it put the current process back lowers a level
\* only by a boost, and raises none.
LEMMA PickEarns ==
  ASSUME NEW m, NEW R, Holds(m, R), NewAtTop(m), NEW q \in Procs
  PROVE  LET b == BoostIfDue(m) IN
         /\ NewAtTop(b)
         /\ b.mlfq_level[q] # m.mlfq_level[q] =>
              b.mlfq_level[q] = 0 /\ m.global_timer >= BOOST_TICKS
<1> DEFINE b == PriorityBoost(m)
           L == [p \in Procs |-> IF \E l \in Level \ {0} : InQueue(m, l, p)
                                 THEN 0 ELSE m.mlfq_level[p]]
<1>1. m \in MlfqState
  BY DEF Holds
<1>2. CASE m.global_timer >= BOOST_TICKS
  <2>1. BoostIfDue(m) = [b EXCEPT !.global_timer = 0]
    BY <1>2 DEF BoostIfDue
  <2>2. b.sched_count = m.sched_count /\ b.mlfq_level = L
    BY <1>1 DEF PriorityBoost, MlfqState
  <2>3. b \in MlfqState
    BY BoostHolds DEF Holds
  <2> HIDE DEF b
  <2>4. BoostIfDue(m).sched_count = m.sched_count /\ BoostIfDue(m).mlfq_level = L
    BY <2>1, <2>2, <2>3 DEF MlfqState
  <2>5. \A x \in Procs : L[x] \in {0, m.mlfq_level[x]}
    OBVIOUS
  <2> HIDE DEF L
  <2> QED
    BY <1>2, <2>4, <2>5 DEF NewAtTop
<1>3. CASE ~ (m.global_timer >= BOOST_TICKS)
  BY <1>3 DEF BoostIfDue
<1> QED
  BY <1>2, <1>3

\* Counting the process that is dispatched keeps NewAtTop.
LEMMA TakeKeepsNewAtTop ==
  ASSUME NEW m, NEW R \in SUBSET Procs, Holds(m, R), NewAtTop(m), NEW l \in Level,
         m.queues[l] # <<>>
  PROVE  NewAtTop(Take(m, m.queues[l][1]))
<1> DEFINE p == m.queues[l][1]
           c == [m EXCEPT !.sched_count[p] = 1]
<1>1. m \in MlfqState
  BY DEF Holds
<1>2. p \in Procs
  BY <1>1 DEF MlfqState
<1> HIDE DEF p
<1>3. /\ c.sched_count = [m.sched_count EXCEPT ![p] = 1]
      /\ c.mlfq_level = m.mlfq_level
  BY <1>1 DEF MlfqState
<1>4. /\ Take(m, p).sched_count = c.sched_count
      /\ Take(m, p).mlfq_level = c.mlfq_level
  BY DEF Take, Dequeue
<1> HIDE DEF c
<1>5. \A x \in Procs : Take(m, p).sched_count[x] = 0 => m.sched_count[x] = 0
  BY <1>1, <1>3, <1>4 DEF MlfqState
<1>6. NewAtTop(Take(m, p))
  BY <1>3, <1>4, <1>5 DEF NewAtTop
<1> QED
  BY <1>6 DEF p

\* schedule()
LEMMA ScheduleEarns ==
  ASSUME IInv, NewAtTop(mlfq), Schedule, NEW q \in Procs
  PROVE  NewAtTop(mlfq') /\ Earned(mlfq, mlfq', q, state[q] = "ZOMBIE")
<1> DEFINE m == BoostIfDue(Requeued)
<1>1. /\ mlfq \in MlfqState
      /\ Runnable \in SUBSET Procs /\ Idle \notin Procs
      /\ Holds(Requeued, Runnable) /\ Holds(m, Runnable)
  BY MlfqAssumption, RequeuedHolds, BoostIfDueHolds DEF IInv, TypeOK, Runnable
<1>2. /\ NewAtTop(Requeued)
      /\ Earned(mlfq, Requeued, q, FALSE)
      /\ Requeued.global_timer = mlfq.global_timer
  <2>1. CASE current # Idle /\ state[current] = "RUNNABLE"
    <3>1. Requeued = Enqueue(mlfq, current) /\ current \in Procs
      BY <2>1 DEF Requeued, IInv, TypeOK, AllProcs
    <3> QED
      BY <1>1, <3>1, EnqueueEarns, EnqueueLevel
  <2>2. CASE ~ (current # Idle /\ state[current] = "RUNNABLE")
    <3>1. Requeued = mlfq
      BY <2>2 DEF Requeued
    <3>2. mlfq.mlfq_level[q] \in Int
      BY <1>1 DEF MlfqState, Level
    <3> QED
      BY <3>1, <3>2 DEF Earned
  <2> QED
    BY <2>1, <2>2
<1>3. /\ NewAtTop(m)
      /\ m.mlfq_level[q] # Requeued.mlfq_level[q] =>
           m.mlfq_level[q] = 0 /\ Requeued.global_timer >= BOOST_TICKS
  BY <1>1, <1>2, PickEarns
<1>4. /\ current' = FirstProc(m)
      /\ mlfq' = IF current' = Idle THEN m ELSE Take(m, current')
  BY DEF Schedule, Dispatch
<1> HIDE DEF m
<1>5. NewAtTop(mlfq') /\ mlfq'.mlfq_level = m.mlfq_level
  <2>1. CASE current' = Idle
    BY <1>3, <1>4, <2>1
  <2>2. CASE current' # Idle
    <3>1. PICK l \in Level : m.queues[l] # <<>> /\ current' = m.queues[l][1]
      BY <1>1, <1>4, <2>2, FirstProcIsFirst
    <3>2. mlfq' = Take(m, m.queues[l][1])
      BY <1>4, <2>2, <3>1
    <3>3. mlfq'.mlfq_level = m.mlfq_level
      BY <1>1, <3>1, <3>2, TakeHolds
    <3> QED
      BY <1>1, <1>3, <3>1, <3>2, <3>3, TakeKeepsNewAtTop
  <2> QED
    BY <2>1, <2>2
<1>6. /\ mlfq.mlfq_level[q] \in {0, 1, 2, 3}
      /\ Requeued.mlfq_level[q] \in {0, 1, 2, 3}
      /\ m.mlfq_level[q] \in {0, 1, 2, 3}
  <2>1. Requeued \in MlfqState /\ m \in MlfqState
    BY <1>1 DEF Holds
  <2>2. \A x \in MlfqState : x.mlfq_level[q] \in {0, 1, 2, 3}
    BY DEF MlfqState, Level, MLFQ_LEVELS
  <2> QED
    BY <1>1, <2>1, <2>2
<1>7. CASE m.mlfq_level[q] = Requeued.mlfq_level[q]
  BY <1>2, <1>5, <1>7 DEF Earned
<1>8. CASE m.mlfq_level[q] # Requeued.mlfq_level[q]
  <2>1. mlfq'.mlfq_level[q] = 0 /\ mlfq.global_timer >= BOOST_TICKS
    BY <1>2, <1>3, <1>5, <1>8
  <2> QED
    BY <1>5, <1>6, <2>1 DEF Earned
<1> QED
  BY <1>7, <1>8

\* Every step keeps NewAtTop and obeys LevelChangesAreEarned.
LEMMA NextEarns ==
  ASSUME IInv, NewAtTop(mlfq), Next, NEW q \in Procs
  PROVE  NewAtTop(mlfq') /\ Earned(mlfq, mlfq', q, state[q] = "ZOMBIE")
<1>1. /\ mlfq \in MlfqState
      /\ \A x \in Procs : mlfq.mlfq_level[x] \in {0, 1, 2, 3}
  BY DEF IInv, TypeOK, MlfqState, Level, MLFQ_LEVELS
<1>2. ASSUME NEW p \in Procs, mlfq' = Enqueue(mlfq, p)
      PROVE  NewAtTop(mlfq') /\ Earned(mlfq, mlfq', q, state[q] = "ZOMBIE")
  BY <1>1, <1>2, EnqueueEarns DEF Earned
<1>3. ASSUME mlfq'.mlfq_level = mlfq.mlfq_level, mlfq'.sched_count = mlfq.sched_count
      PROVE  NewAtTop(mlfq') /\ Earned(mlfq, mlfq', q, state[q] = "ZOMBIE")
  BY <1>1, <1>3 DEF NewAtTop, Earned
<1>4. CASE \E p \in Procs : Fork(p) \/ Wakeup(p)
  BY <1>2, <1>3, <1>4 DEF Fork, Wakeup
<1>5. ASSUME NEW p \in Procs, Reap(p)
      PROVE  NewAtTop(mlfq') /\ Earned(mlfq, mlfq', q, state[q] = "ZOMBIE")
  <2>1. /\ mlfq'.mlfq_level = [mlfq.mlfq_level EXCEPT ![p] = 0]
        /\ mlfq'.sched_count = [mlfq.sched_count EXCEPT ![p] = 0]
        /\ state[p] = "ZOMBIE"
    BY <1>1, <1>5 DEF Reap, AllocProc, MlfqState
  <2>2. \A x \in Procs : mlfq'.mlfq_level[x] = IF x = p THEN 0 ELSE mlfq.mlfq_level[x]
    BY <1>1, <2>1 DEF MlfqState
  <2>3. \A x \in Procs : mlfq'.sched_count[x] = IF x = p THEN 0 ELSE mlfq.sched_count[x]
    BY <1>1, <2>1 DEF MlfqState
  <2>4. NewAtTop(mlfq')
    BY <2>2, <2>3 DEF NewAtTop
  <2>5. Earned(mlfq, mlfq', q, state[q] = "ZOMBIE")
    BY <1>1, <2>1, <2>2 DEF Earned
  <2> QED
    BY <2>4, <2>5
<1>6. CASE Sleep \/ Exit \/ Yield
  BY <1>3, <1>6 DEF Sleep, Exit, Yield
<1>7. CASE Tick
  <2>1. CASE current = Idle
    BY <1>3, <1>7, <2>1 DEF Tick
  <2>2. CASE current # Idle
    <3>1. mlfq' = ProcTick(mlfq, current, state[current] = "RUNNABLE")
      BY <1>7, <2>2 DEF Tick
    <3>2. mlfq'.mlfq_level = mlfq.mlfq_level /\ mlfq'.sched_count = mlfq.sched_count
      BY <1>1, <3>1 DEF ProcTick, MlfqState
    <3> QED
      BY <1>3, <3>2
  <2> QED
    BY <2>1, <2>2
<1>8. CASE Schedule
  BY <1>8, ScheduleEarns
<1> QED
  BY <1>4, <1>5, <1>6, <1>7, <1>8 DEF Next

\* A process that has never run is at the top.
LEMMA NewStartsAtTop == Init => NewAtTop(mlfq)
<1> SUFFICES ASSUME NEW init \in Procs, mlfq = Enqueue(EmptyMlfq, init)
             PROVE  NewAtTop(mlfq)
  BY DEF Init
<1>1. EmptyMlfq \in MlfqState
  <2>1. \A l \in Level : level_slice[l] \in Nat
    BY MlfqAssumption
  <2>2. 0 \in Level /\ 0 \in 0 .. BOOST_TICKS
    BY MlfqAssumption DEF Level, MLFQ_LEVELS
  <2> QED
    BY <2>1, <2>2 DEF EmptyMlfq, MlfqState
<1>2. NewAtTop(EmptyMlfq)
  BY DEF NewAtTop, EmptyMlfq
<1> QED
  BY <1>1, <1>2, EnqueueEarns

\* A level is lost one at a time and only for a slice used up, and won only
\* by giving up the CPU before, by a boost, or by being a new process.
THEOREM LevelsAreEarned == Spec => LevelChangesAreEarned
<1>1. IInv /\ NewAtTop(mlfq) /\ [Next]_vars => NewAtTop(mlfq)'
  <2>1. ASSUME IInv, NewAtTop(mlfq), Next, NEW p \in Procs PROVE NewAtTop(mlfq')
    BY <2>1, NextEarns
  <2>2. ASSUME NewAtTop(mlfq), UNCHANGED vars PROVE NewAtTop(mlfq')
    BY <2>2 DEF vars
  <2>3. ASSUME Procs = {} PROVE NewAtTop(mlfq')
    BY <2>3 DEF NewAtTop
  <2> QED
    BY <2>1, <2>2, <2>3
<1>2. ASSUME IInv, NewAtTop(mlfq), Next, NEW q \in Procs
      PROVE  Earned(mlfq, mlfq', q, state[q] = "ZOMBIE")
  BY <1>2, NextEarns
<1>3. IInv /\ NewAtTop(mlfq) /\ [Next]_vars =>
        [\A p \in Procs :
           LET old == mlfq.mlfq_level[p]
               new == mlfq'.mlfq_level[p]
               left == mlfq.current_slice_ticks[p]
           IN  /\ new > old => new = old + 1 /\ left <= 0
               /\ new < old => \/ left > 0
                               \/ mlfq.global_timer >= BOOST_TICKS
                               \/ state[p] = "ZOMBIE"]_mlfq
  BY <1>2 DEF Earned, vars
<1> QED
  BY <1>1, <1>3, NewStartsAtTop, Invariance, PTL DEF Spec, LevelChangesAreEarned

----------------------------------------------------------------------------
(* Nobody overtakes.  The order of the scan is reduced to that of the four *)
(* queues, for which SequenceFacts says what appending and taking do.      *)

Waiting(m) == Elems(Line(m))

\* What NoOvertaking says of a step from m to n.
Orderly(m, n) ==
  /\ \A p, q \in Waiting(m) \cap Waiting(n) : Precedes(m, p, q) => Precedes(n, p, q)
  /\ \A p \in Waiting(m) \cap Waiting(n), q \in Waiting(n) \ Waiting(m), l \in Level :
       InQueue(m, l, p) /\ InQueue(n, l, p) /\ InQueue(n, l, q) => Precedes(n, p, q)

\* The scan in terms of the queues: within a level by position, and the
\* higher levels first.
LEMMA LineOrder ==
  ASSUME NEW m \in MlfqState, NEW x, NEW y
  PROVE  /\ Line(m) \in Seq(Procs)
         /\ x \in Waiting(m) <=> \E l \in Level : InQueue(m, l, x)
         /\ Precedes(m, x, y) <=>
              \/ \E l \in Level : Before(m.queues[l], x, y)
              \/ \E l, k \in Level : l < k /\ InQueue(m, l, x) /\ InQueue(m, k, y)
<1> DEFINE q == m.queues
           s1 == q[0] \o q[1]
           s2 == s1 \o q[2]
           s3 == s2 \o q[3]
           In(l, z) == z \in Elems(q[l])
<1>1. Level = {0, 1, 2, 3}
  BY DEF Level, MLFQ_LEVELS
<1>2. q[0] \in Seq(Procs) /\ q[1] \in Seq(Procs) /\ q[2] \in Seq(Procs) /\ q[3] \in Seq(Procs)
  BY <1>1 DEF MlfqState
<1>3. \A l \in Level : \A z : InQueue(m, l, z) <=> In(l, z)
  BY DEF InQueue, Elems
<1>4. Line(m) = s3
  BY DEF Line
<1> HIDE DEF q, s1, s2, s3
<1>5. /\ s1 \in Seq(Procs) /\ Elems(s1) = Elems(q[0]) \cup Elems(q[1])
      /\ Before(s1, x, y) <=> \/ Before(q[0], x, y) \/ Before(q[1], x, y)
                              \/ x \in Elems(q[0]) /\ y \in Elems(q[1])
  BY <1>2, ElemsConcat, BeforeConcat DEF s1
<1>6. /\ s2 \in Seq(Procs) /\ Elems(s2) = Elems(s1) \cup Elems(q[2])
      /\ Before(s2, x, y) <=> \/ Before(s1, x, y) \/ Before(q[2], x, y)
                              \/ x \in Elems(s1) /\ y \in Elems(q[2])
  BY <1>2, <1>5, ElemsConcat, BeforeConcat DEF s2
<1>7. /\ s3 \in Seq(Procs) /\ Elems(s3) = Elems(s2) \cup Elems(q[3])
      /\ Before(s3, x, y) <=> \/ Before(s2, x, y) \/ Before(q[3], x, y)
                              \/ x \in Elems(s2) /\ y \in Elems(q[3])
  BY <1>2, <1>6, ElemsConcat, BeforeConcat DEF s3
<1>8. x \in Waiting(m) <=> \E l \in Level : In(l, x)
  BY <1>1, <1>4, <1>5, <1>6, <1>7 DEF Waiting
<1>9. Precedes(m, x, y) <=>
        \/ \E l \in Level : Before(q[l], x, y)
        \/ \E l, k \in Level : l < k /\ In(l, x) /\ In(k, y)
  <2>1. Precedes(m, x, y) <=> Before(s3, x, y)
    BY <1>4 DEF Precedes, Before
  <2>2. Before(s3, x, y) <=>
          \/ Before(q[0], x, y) \/ Before(q[1], x, y)
          \/ Before(q[2], x, y) \/ Before(q[3], x, y)
          \/ In(0, x) /\ (In(1, y) \/ In(2, y) \/ In(3, y))
          \/ In(1, x) /\ (In(2, y) \/ In(3, y))
          \/ In(2, x) /\ In(3, y)
    BY <1>5, <1>6, <1>7
  <2>3. (\E l \in Level : Before(q[l], x, y)) <=>
          \/ Before(q[0], x, y) \/ Before(q[1], x, y)
          \/ Before(q[2], x, y) \/ Before(q[3], x, y)
    BY <1>1
  <2> HIDE DEF In
  <2>4. (\E l, k \in Level : l < k /\ In(l, x) /\ In(k, y)) <=>
          \/ In(0, x) /\ (In(1, y) \/ In(2, y) \/ In(3, y))
          \/ In(1, x) /\ (In(2, y) \/ In(3, y))
          \/ In(2, x) /\ In(3, y)
    BY <1>1
  <2> QED
    BY <2>1, <2>2, <2>3, <2>4
<1> HIDE DEF In
<1> QED
  BY <1>3, <1>4, <1>7, <1>8, <1>9 DEF q

\* The processes that wait are those that Holds speaks of.
LEMMA WaitingHolds ==
  ASSUME NEW m, NEW R \in SUBSET Procs, Holds(m, R)
  PROVE  Waiting(m) = R
<1>1. m \in MlfqState /\ \A l \in Level : m.queues[l] \in Seq(Procs)
  BY DEF Holds, MlfqState
<1>2. Line(m) \in Seq(Procs)
  BY <1>1, LineOrder
<1>3. Waiting(m) \subseteq Procs
  BY <1>2, ElemsType DEF Waiting
<1>4. \A x \in Procs : x \in Waiting(m) <=> x \in R
  BY <1>1, LineOrder DEF Holds
<1> QED
  BY <1>3, <1>4

\* mlfq_enqueue keeps the order of those that wait, and the process goes
\* behind those of its level and of the levels above.
LEMMA EnqueueOrder ==
  ASSUME NEW m, NEW R \in SUBSET Procs, Holds(m, R), NEW p \in Procs \ R
  PROVE  LET e == Enqueue(m, p) IN
         /\ \A x, y \in Procs : Precedes(m, x, y) => Precedes(e, x, y)
         /\ \A x \in Procs, l, k \in Level :
              InQueue(m, l, x) /\ InQueue(e, k, p) /\ l <= k => Precedes(e, x, p)
<1> DEFINE e == Enqueue(m, p)
<1>1. m \in MlfqState /\ e \in MlfqState /\ Level \subseteq Nat
  BY EnqueueEffect DEF Holds, Level
<1>2. PICK h \in Level :
        /\ e.queues = [m.queues EXCEPT ![h] = Append(@, p)]
        /\ e.mlfq_level = [m.mlfq_level EXCEPT ![p] = h]
        /\ e.current_slice_ticks =
             [m.current_slice_ticks EXCEPT ![p] = level_slice[h]]
  BY <1>1, EnqueueEffect
<1> HIDE DEF e
<1>3. /\ \A l \in Level : m.queues[l] \in Seq(Procs)
      /\ e.queues[h] = Append(m.queues[h], p)
      /\ \A l \in Level \ {h} : e.queues[l] = m.queues[l]
  BY <1>1, <1>2 DEF MlfqState
<1>4. \A l \in Level : \A x : InQueue(m, l, x) <=> x \in Elems(m.queues[l])
  BY DEF InQueue, Elems
<1>5. \A l \in Level : \A x : InQueue(e, l, x) <=> x \in Elems(e.queues[l])
  BY DEF InQueue, Elems
<1>6. p \notin Elems(m.queues[h]) /\ Once(m.queues[h])
  BY <1>4, HoldsElems DEF Holds
<1>7. Elems(e.queues[h]) = Elems(m.queues[h]) \cup {p}
  BY <1>3, <1>6, AppendOnce
<1>8. ASSUME NEW x \in Procs, NEW y \in Procs, Precedes(m, x, y)
      PROVE  Precedes(e, x, y)
  <2>1. CASE \E l \in Level : Before(m.queues[l], x, y)
    <3>1. PICK l \in Level : Before(m.queues[l], x, y)
      BY <2>1
    <3>2. Before(e.queues[l], x, y)
      <4>1. CASE l = h
        <5>1. m.queues[h] \in Seq(Procs) /\ Before(m.queues[h], x, y)
          BY <1>3, <3>1, <4>1
        <5>2. Before(Append(m.queues[h], p), x, y)
          BY <5>1, BeforeAppend
        <5> QED
          BY <1>3, <4>1, <5>2
      <4>2. CASE l # h
        BY <1>3, <3>1, <4>2
      <4> QED
        BY <4>1, <4>2
    <3> QED
      BY <1>1, <3>2, LineOrder
  <2>2. CASE \E l, k \in Level : l < k /\ InQueue(m, l, x) /\ InQueue(m, k, y)
    <3>1. \A l \in Level : \A z : InQueue(m, l, z) => InQueue(e, l, z)
      BY <1>3, <1>4, <1>5, <1>7
    <3>2. \E l, k \in Level : l < k /\ InQueue(e, l, x) /\ InQueue(e, k, y)
      BY <2>2, <3>1
    <3> QED
      BY <1>1, <3>2, LineOrder
  <2> QED
    BY <1>1, <1>8, <2>1, <2>2, LineOrder
<1>9. ASSUME NEW x \in Procs, NEW l \in Level, NEW k \in Level,
             InQueue(m, l, x), InQueue(e, k, p), l <= k
      PROVE  Precedes(e, x, p)
  <2>1. k = h
    <3>1. \A j \in Level \ {h} : p \notin Elems(m.queues[j])
      BY <1>4 DEF Holds
    <3> QED
      BY <1>3, <1>5, <1>9, <3>1
  <2>2. CASE l = h
    <3>1. Before(e.queues[h], x, p)
      BY <1>3, <1>4, <1>9, <2>2, BeforeAppend
    <3> QED
      BY <1>1, <3>1, LineOrder
  <2>3. CASE l # h
    <3>1. l < h /\ InQueue(e, l, x)
      BY <1>1, <1>3, <1>4, <1>5, <1>9, <2>1, <2>3
    <3> QED
      BY <1>1, <1>9, <2>1, <3>1, LineOrder
  <2> QED
    BY <2>2, <2>3
<1> QED
  BY <1>8, <1>9 DEF e

\* The boost leaves the line as it is, and everybody in it at the top.
LEMMA BoostOrder ==
  ASSUME NEW m, NEW R \in SUBSET Procs, Holds(m, R)
  PROVE  LET b == BoostIfDue(m) IN
         /\ Line(b) = Line(m)
         /\ \/ b.queues = m.queues
            \/ \A l \in Level \ {0} : \A x : ~ InQueue(b, l, x)
<1>1. CASE m.global_timer >= BOOST_TICKS
  <2> DEFINE q == m.queues
             line == q[0] \o q[1] \o q[2] \o q[3]
             Q == [l \in Level |-> IF l = 0 THEN line ELSE <<>>]
             b == BoostIfDue(m)
  <2>1. b.queues = Q
    <3>1. m \in MlfqState
      BY DEF Holds
    <3>2. PriorityBoost(m).queues = Q
      BY <3>1 DEF PriorityBoost, MlfqState
    <3>3. b = [PriorityBoost(m) EXCEPT !.global_timer = 0]
      BY <1>1 DEF BoostIfDue
    <3>4. PriorityBoost(m) \in MlfqState
      BY BoostHolds DEF Holds
    <3> HIDE DEF Q, b
    <3> QED
      BY <3>2, <3>3, <3>4 DEF MlfqState
  <2>2. line \in Seq(Procs) /\ line = Line(m)
    <3>1. m \in MlfqState
      BY DEF Holds
    <3> QED
      BY <3>1, LineOrder DEF Line
  <2> HIDE DEF q, line, b
  <2>3. Q[0] = line /\ Q[1] = <<>> /\ Q[2] = <<>> /\ Q[3] = <<>>
        /\ \A l \in Level \ {0} : Q[l] = <<>>
    BY DEF Level, MLFQ_LEVELS
  <2> HIDE DEF Q
  <2>4. Line(b) = line \o <<>> \o <<>> \o <<>>
    BY <2>1, <2>3 DEF Line
  <2>5. Line(b) = Line(m)
    BY <2>2, <2>4
  <2>6. \A l \in Level \ {0} : \A x : ~ InQueue(b, l, x)
    BY <2>1, <2>3 DEF InQueue
  <2> QED
    BY <2>5, <2>6 DEF b
<1>2. CASE ~ (m.global_timer >= BOOST_TICKS)
  BY <1>2 DEF BoostIfDue
<1> QED
  BY <1>1, <1>2

\* Taking the first process of a queue keeps the order of the others.
LEMMA TakeOrder ==
  ASSUME NEW m, NEW R \in SUBSET Procs, Holds(m, R), NEW l \in Level,
         m.queues[l] # <<>>
  PROVE  LET p == m.queues[l][1]
             t == Take(m, p)
         IN  /\ \A x, y \in Procs \ {p} : Precedes(m, x, y) => Precedes(t, x, y)
             /\ \A k \in Level : \A x : InQueue(t, k, x) => InQueue(m, k, x)
<1> DEFINE p == m.queues[l][1]
           t == Take(m, p)
           c == [m EXCEPT !.sched_count[p] = 1]
<1>1. /\ m \in MlfqState
      /\ \A k \in Level : m.queues[k] \in Seq(Procs)
  BY DEF Holds, MlfqState
<1>2. /\ p = Head(m.queues[l]) /\ p \in Procs
      /\ m.mlfq_level[p] = l
      /\ \A k \in Level : p \in Elems(m.queues[k]) => k = l
  BY <1>1 DEF Holds, Elems
<1>3. t \in MlfqState
  BY TakeHolds DEF Holds
<1> HIDE DEF p
<1>4. t.queues = [m.queues EXCEPT ![l] = Tail(@)]
  <2>1. c.queues = m.queues /\ c.mlfq_level = m.mlfq_level /\ c \in MlfqState
    BY <1>1, <1>2 DEF MlfqState
  <2>2. t = Dequeue(c, p)
    BY DEF Take
  <2> HIDE DEF c
  <2>3. c.queues[c.mlfq_level[p]] # <<>> /\ c.mlfq_level[p] = l
    BY <1>2, <2>1
  <2>4. Dequeue(c, p).queues = [c.queues EXCEPT ![c.mlfq_level[p]] = Tail(@)]
    BY <1>2, <2>1, <2>3, DequeueEffect
  <2> HIDE DEF t
  <2> QED
    BY <2>1, <2>2, <2>3, <2>4
<1> HIDE DEF t
<1>5. /\ t.queues[l] = Tail(m.queues[l])
      /\ \A k \in Level \ {l} : t.queues[k] = m.queues[k]
  BY <1>1, <1>4 DEF MlfqState
<1>6. \A k \in Level : \A x : /\ InQueue(m, k, x) <=> x \in Elems(m.queues[k])
                              /\ InQueue(t, k, x) <=> x \in Elems(t.queues[k])
  BY DEF InQueue, Elems
<1>7. Elems(t.queues[l]) = Elems(m.queues[l]) \ {p}
  BY <1>1, <1>2, <1>5, HoldsElems, TailOnce
<1>8. \A k \in Level : \A x : InQueue(t, k, x) <=> InQueue(m, k, x) /\ x # p
  <2> TAKE k \in Level
  <2> TAKE x
  <2>1. CASE k = l
    BY <1>6, <1>7, <2>1
  <2>2. CASE k # l
    BY <1>2, <1>5, <1>6, <2>2
  <2> QED
    BY <2>1, <2>2
<1>9. ASSUME NEW x \in Procs \ {p}, NEW y \in Procs \ {p}, Precedes(m, x, y)
      PROVE  Precedes(t, x, y)
  <2>1. CASE \E k \in Level : Before(m.queues[k], x, y)
    <3>1. \A k \in Level : Before(m.queues[k], x, y) => Before(t.queues[k], x, y)
      BY <1>1, <1>2, <1>5, BeforeTail
    <3> QED
      BY <1>3, <2>1, <3>1, LineOrder
  <2>2. CASE \E h, k \in Level : h < k /\ InQueue(m, h, x) /\ InQueue(m, k, y)
    <3>1. \E h, k \in Level : h < k /\ InQueue(t, h, x) /\ InQueue(t, k, y)
      BY <1>8, <2>2
    <3> QED
      BY <1>3, <3>1, LineOrder
  <2> QED
    BY <1>1, <1>9, <2>1, <2>2, LineOrder
<1> QED
  BY <1>8, <1>9 DEF t, p

\* An enqueue outside of schedule(), or none.
LEMMA EnqueueOrderly ==
  ASSUME NEW m, NEW R \in SUBSET Procs, Holds(m, R), NEW p \in Procs \ R
  PROVE  Orderly(m, Enqueue(m, p))
<1> DEFINE e == Enqueue(m, p)
<1>1. Waiting(m) = R /\ Waiting(e) = R \cup {p}
  <2>1. Holds(e, R \cup {p}) /\ R \cup {p} \in SUBSET Procs
    BY EnqueueHolds
  <2> HIDE DEF e
  <2> QED
    BY <2>1, WaitingHolds
<1>2. /\ \A x, y \in Procs : Precedes(m, x, y) => Precedes(e, x, y)
      /\ \A x \in Procs, l, k \in Level :
           InQueue(m, l, x) /\ InQueue(e, k, p) /\ l <= k => Precedes(e, x, p)
  BY EnqueueOrder
<1>3. \A l \in Level : l <= l
  BY DEF Level
<1> HIDE DEF e
<1> QED
  BY <1>1, <1>2, <1>3 DEF Orderly, e

\* schedule()
LEMMA ScheduleOrderly == ASSUME IInv, Schedule PROVE Orderly(mlfq, mlfq')
<1> DEFINE e == Requeued
           b == BoostIfDue(e)
<1>1. /\ Runnable \in SUBSET Procs /\ ReadySet \in SUBSET Procs /\ Idle \notin Procs
      /\ Level \subseteq Nat /\ 0 \in Level
      /\ Holds(mlfq, ReadySet) /\ Holds(e, Runnable) /\ Holds(b, Runnable)
  BY MlfqAssumption, RequeuedHolds, BoostIfDueHolds
  DEF IInv, Runnable, ReadySet, Level, MLFQ_LEVELS
<1>2. /\ Waiting(mlfq) = ReadySet
      /\ Waiting(e) = Runnable
      /\ Waiting(b) = Runnable
  BY <1>1, WaitingHolds
<1>3. /\ \A x, y \in Procs : Precedes(mlfq, x, y) => Precedes(e, x, y)
      /\ \A q \in Runnable \ ReadySet :
           \A x \in Procs, l, k \in Level :
             InQueue(mlfq, l, x) /\ InQueue(e, k, q) /\ l <= k => Precedes(e, x, q)
  <2>1. CASE current # Idle /\ state[current] = "RUNNABLE"
    <3>1. /\ current \in Procs \ ReadySet /\ Runnable \ ReadySet = {current}
          /\ e = Enqueue(mlfq, current)
      BY <2>1 DEF Requeued, IInv, TypeOK, AllProcs, ReadySet, Runnable, Ready
    <3> QED
      BY <1>1, <3>1, EnqueueOrder
  <2>2. CASE ~ (current # Idle /\ state[current] = "RUNNABLE")
    <3>1. e = mlfq
      BY <2>2 DEF Requeued
    <3>2. Runnable \ ReadySet = {}
      BY <1>1, <2>2 DEF ReadySet, Runnable, Ready
    <3> QED
      BY <3>1, <3>2
  <2> QED
    BY <2>1, <2>2
<1>4. /\ \A x, y : Precedes(b, x, y) <=> Precedes(e, x, y)
      /\ b.queues = e.queues \/ \A l \in Level \ {0} : \A x : ~ InQueue(b, l, x)
  <2>1. /\ Line(b) = Line(e)
        /\ b.queues = e.queues \/ \A l \in Level \ {0} : \A x : ~ InQueue(b, l, x)
    BY <1>1, BoostOrder
  <2> QED
    BY <2>1 DEF Precedes
<1>5. /\ current' = FirstProc(b)
      /\ mlfq' = IF current' = Idle THEN b ELSE Take(b, current')
  BY DEF Schedule, Dispatch
<1> HIDE DEF e, b
<1>6. /\ Waiting(mlfq') = Runnable \ {current'}
      /\ \A x, y \in Procs \ {current'} : Precedes(b, x, y) => Precedes(mlfq', x, y)
      /\ \A k \in Level : \A x : InQueue(mlfq', k, x) => InQueue(b, k, x)
  <2>1. CASE current' = Idle
    <3>1. mlfq' = b
      BY <1>5, <2>1
    <3> QED
      BY <1>1, <1>2, <2>1, <3>1
  <2>2. CASE current' # Idle
    <3>1. PICK l \in Level : b.queues[l] # <<>> /\ current' = b.queues[l][1]
      BY <1>1, <1>5, <2>2, FirstProcIsFirst
    <3>2. mlfq' = Take(b, b.queues[l][1])
      BY <1>5, <2>2, <3>1
    <3>3. Holds(mlfq', Runnable \ {current'})
      BY <1>1, <3>1, <3>2, TakeHolds
    <3>4. Waiting(mlfq') = Runnable \ {current'}
      BY <1>1, <3>3, WaitingHolds
    <3>5. /\ \A x, y \in Procs \ {b.queues[l][1]} :
               Precedes(b, x, y) => Precedes(Take(b, b.queues[l][1]), x, y)
          /\ \A k \in Level : \A x :
               InQueue(Take(b, b.queues[l][1]), k, x) => InQueue(b, k, x)
      BY <1>1, <3>1, TakeOrder
    <3> QED
      BY <3>1, <3>2, <3>4, <3>5
  <2> QED
    BY <2>1, <2>2
<1>7. ASSUME NEW p \in Waiting(mlfq) \cap Waiting(mlfq'),
             NEW q \in Waiting(mlfq) \cap Waiting(mlfq'),
             Precedes(mlfq, p, q)
      PROVE  Precedes(mlfq', p, q)
  BY <1>1, <1>2, <1>3, <1>4, <1>6, <1>7
<1>8. ASSUME NEW p \in Waiting(mlfq) \cap Waiting(mlfq'),
             NEW q \in Waiting(mlfq') \ Waiting(mlfq), NEW l \in Level,
             InQueue(mlfq, l, p), InQueue(mlfq', l, p), InQueue(mlfq', l, q)
      PROVE  Precedes(mlfq', p, q)
  <2>1. p \in Procs \ {current'} /\ q \in Procs \ {current'} /\ q \in Runnable \ ReadySet
    BY <1>1, <1>2, <1>6
  <2>2. InQueue(b, l, p) /\ InQueue(b, l, q)
    BY <1>6, <1>8
  <2>3. PICK k \in Level : InQueue(e, k, q) /\ l <= k
    <3>1. CASE b.queues = e.queues
      BY <1>1, <2>2, <3>1 DEF InQueue
    <3>2. CASE \A h \in Level \ {0} : \A x : ~ InQueue(b, h, x)
      <4>1. l = 0
        BY <2>2, <3>2
      <4>2. PICK k \in Level : InQueue(e, k, q)
        BY <1>1, <2>1 DEF Holds
      <4> QED
        BY <1>1, <4>1, <4>2
    <3> QED
      BY <1>4, <3>1, <3>2
  <2>4. Precedes(e, p, q)
    BY <1>3, <1>8, <2>1, <2>3
  <2> QED
    BY <1>4, <1>6, <2>1, <2>4
<1> QED
  BY <1>7, <1>8 DEF Orderly

\* Every step is orderly.
LEMMA NextOrderly == ASSUME IInv, Next PROVE Orderly(mlfq, mlfq')
<1>1. Holds(mlfq, ReadySet) /\ ReadySet \in SUBSET Procs
  BY DEF IInv, ReadySet
<1>2. ASSUME mlfq'.queues = mlfq.queues PROVE Orderly(mlfq, mlfq')
  <2>1. Line(mlfq') = Line(mlfq)
    BY <1>2 DEF Line
  <2>2. Waiting(mlfq') = Waiting(mlfq)
        /\ \A x, y : Precedes(mlfq', x, y) <=> Precedes(mlfq, x, y)
    BY <2>1 DEF Waiting, Precedes
  <2> QED
    BY <2>2 DEF Orderly
<1>3. ASSUME NEW p \in Procs, Fork(p) \/ Wakeup(p) PROVE Orderly(mlfq, mlfq')
  <2>1. p \notin ReadySet
    BY <1>3 DEF Fork, Wakeup, ReadySet, Ready
  <2>2. mlfq' = Enqueue(mlfq, p) \/ mlfq' = mlfq
    BY <1>3 DEF Fork, Wakeup
  <2> QED
    BY <1>1, <1>2, <2>1, <2>2, EnqueueOrderly
<1>4. ASSUME NEW p \in Procs, Reap(p) PROVE Orderly(mlfq, mlfq')
  <2>1. mlfq'.queues = mlfq.queues
    BY <1>4 DEF Reap, AllocProc, IInv, TypeOK, MlfqState
  <2> QED
    BY <1>2, <2>1
<1>5. CASE Sleep \/ Exit \/ Yield
  BY <1>2, <1>5 DEF Sleep, Exit, Yield
<1>6. CASE Tick
  <2>1. mlfq'.queues = mlfq.queues
    <3>1. CASE current = Idle
      BY <1>6, <3>1 DEF Tick
    <3>2. CASE current # Idle
      <4>1. mlfq' = ProcTick(mlfq, current, state[current] = "RUNNABLE")
        BY <1>6, <3>2 DEF Tick
      <4> QED
        BY <4>1 DEF ProcTick, IInv, TypeOK, MlfqState
    <3> QED
      BY <3>1, <3>2
  <2> QED
    BY <1>2, <2>1
<1>7. CASE Schedule
  BY <1>7, ScheduleOrderly
<1> QED
  BY <1>3, <1>4, <1>5, <1>6, <1>7 DEF Next

\* While two processes wait, the one behind never gets ahead of the other,
\* not even when a boost merges the levels; a process that arrives at a level
\* goes behind those that wait there.
THEOREM NobodyOvertakes == Spec => NoOvertaking
<1>1. ASSUME IInv, Next PROVE Orderly(mlfq, mlfq')
  BY <1>1, NextOrderly
<1>2. \A m : Waiting(m) = {Line(m)[i] : i \in 1 .. Len(Line(m))}
  BY DEF Waiting, Elems
<1>3. IInv /\ [Next]_vars =>
        [LET waiting(m) == {Line(m)[i] : i \in 1 .. Len(Line(m))}
             stayed == waiting(mlfq) \cap waiting(mlfq')
             newcomers == waiting(mlfq') \ waiting(mlfq)
         IN  /\ \A p, q \in stayed : Precedes(mlfq, p, q) => Precedes(mlfq', p, q)
             /\ \A p \in stayed, q \in newcomers, l \in Level :
                  InQueue(mlfq, l, p) /\ InQueue(mlfq', l, p) /\ InQueue(mlfq', l, q)
                  => Precedes(mlfq', p, q)]_(mlfq.queues)
  BY <1>1, <1>2 DEF Orderly, vars
<1> QED
  BY <1>3, Invariance, PTL DEF Spec, NoOvertaking
=============================================================================
