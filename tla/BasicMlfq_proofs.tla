-------------------------- MODULE BasicMlfq_proofs --------------------------
(***************************************************************************)
(* Proofs about BasicMlfq, for any number of processes, any slices and any *)
(* boost period.                                                           *)
(*                                                                         *)
(* Argument: Holds(qs, fs, R), "the queues qs hold the processes of R,     *)
(* each once and in the queue of its level", is kept by enqueueing,        *)
(* boosting and taking the first process of a queue (lemmas ...Holds).     *)
(* The inductive invariant is Holds with R the processes that are ready;   *)
(* schedule() passes through two intermediate states of the class.         *)
(***************************************************************************)
EXTENDS BasicMlfq, SequenceFacts, TLAPS

Ready(p) == state[p] = "RUNNABLE" /\ p # current
ReadySet == {p \in Procs : Ready(p)}
Runnable == {p \in Procs : state[p] = "RUNNABLE"}

\* A queue holds those of its level, once each; they have the whole slice of
\* the level; a process that has not run yet is at the top.
Holds(qs, fs, R) ==
  /\ qs \in [Level -> Seq(Procs)]
  /\ fs \in [Procs -> MlfqFields]
  /\ \A l \in Level : Once(qs[l]) /\ Elems(qs[l]) = {p \in R : fs[p].level = l}
  /\ \A p \in R : fs[p].ticks = level_slice[fs[p].level]
  /\ \A p \in Procs : ~ fs[p].counted => fs[p].level = 0

CurrentIsRunnable ==
  /\ state[Idle] = "RUNNABLE"
  /\ leaving => current \in Procs
  /\ ~ leaving => state[current] = "RUNNABLE"

IInv == /\ TypeOK
        /\ Holds(queues, procs, ReadySet)
        /\ CurrentIsRunnable

----------------------------------------------------------------------------
(* The operators of the class.                                             *)

LEMMA Levels == Level = {0, 1, 2, 3}
BY DEF Level, MLFQ_LEVELS

\* basic_mlfq_enqueue: the fields it gives to a process.
LEMMA EnqueuedFields ==
  ASSUME NEW f \in MlfqFields
  PROVE  /\ Enqueued(f) \in MlfqFields
         /\ Enqueued(f).level \in Level
         /\ Enqueued(f).ticks = level_slice[Enqueued(f).level]
         /\ Enqueued(f).counted = f.counted
         /\ ~ f.counted => Enqueued(f).level = 0
<1> DEFINE l == IF f.counted THEN NextLevel(f) ELSE 0
<1>1. l \in Level
  <2>1. f.level \in {0, 1, 2, 3}
    BY Levels DEF MlfqFields
  <2>2. NextLevel(f) \in {0, 1, 2, 3}
    BY <2>1 DEF NextLevel, MLFQ_LEVELS
  <2> QED
    BY <2>2, Levels
<1>2. Enqueued(f) = [f EXCEPT !.level = l, !.ticks = level_slice[l]]
  BY DEF Enqueued
<1>3. ~ f.counted => l = 0
  OBVIOUS
<1> HIDE DEF l
<1>4. level_slice[l] \in Nat
  BY <1>1, BasicAssumption
<1>5. Enqueued(f) = [level |-> l, ticks |-> level_slice[l], counted |-> f.counted]
  BY <1>2 DEF MlfqFields
<1> QED
  BY <1>1, <1>3, <1>4, <1>5 DEF MlfqFields

\* Enqueueing a process that is in no queue adds it to the queued ones.
LEMMA EnqueueHolds ==
  ASSUME NEW R \in SUBSET Procs, NEW p \in Procs \ R,
         NEW qs, NEW fs, Holds(qs, fs, R)
  PROVE  Holds(Push(qs, Enqueued(fs[p]).level, p),
               [fs EXCEPT ![p] = Enqueued(@)], R \cup {p})
<1> DEFINE f == Enqueued(fs[p])
           q2 == Push(qs, f.level, p)
           f2 == [fs EXCEPT ![p] = Enqueued(@)]
<1>1. /\ f \in MlfqFields
      /\ f.level \in Level
      /\ f.ticks = level_slice[f.level]
      /\ ~ f.counted => f.level = 0
  BY EnqueuedFields DEF Holds
<1>2. /\ f2 \in [Procs -> MlfqFields]
      /\ f2[p] = f
      /\ \A x \in Procs \ {p} : f2[x] = fs[x]
  BY <1>1 DEF Holds
<1>3. /\ q2[f.level] = Append(qs[f.level], p)
      /\ \A k \in Level \ {f.level} : q2[k] = qs[k]
  BY <1>1 DEF Holds, Push
<1>4. /\ Append(qs[f.level], p) \in Seq(Procs)
      /\ Once(Append(qs[f.level], p))
      /\ Elems(Append(qs[f.level], p)) = Elems(qs[f.level]) \cup {p}
  <2>1. qs[f.level] \in Seq(Procs) /\ Once(qs[f.level]) /\ p \notin Elems(qs[f.level])
    BY <1>1 DEF Holds
  <2> QED
    BY <2>1, AppendOnce
<1>5. q2 \in [Level -> Seq(Procs)]
  BY <1>1, <1>4 DEF Holds, Push
<1> HIDE DEF f, q2, f2
<1>6. ASSUME NEW l \in Level
      PROVE  Once(q2[l]) /\ Elems(q2[l]) = {x \in R \cup {p} : f2[x].level = l}
  <2>1. Once(qs[l]) /\ Elems(qs[l]) = {x \in R : fs[x].level = l}
    BY DEF Holds
  <2>2. {x \in R : f2[x].level = l} = Elems(qs[l])
    BY <1>2, <2>1
  <2>3. CASE l = f.level
    BY <1>2, <1>3, <1>4, <2>2, <2>3
  <2>4. CASE l # f.level
    BY <1>2, <1>3, <2>1, <2>2, <2>4
  <2> QED
    BY <2>3, <2>4
<1>7. \A x \in R \cup {p} : f2[x].ticks = level_slice[f2[x].level]
  BY <1>1, <1>2 DEF Holds
<1>8. \A x \in Procs : ~ f2[x].counted => f2[x].level = 0
  BY <1>1, <1>2 DEF Holds
<1>9. Holds(q2, f2, R \cup {p})
  BY <1>2, <1>5, <1>6, <1>7, <1>8 DEF Holds
<1> QED
  BY <1>9 DEF q2, f2, f

\* A tick or a new alloc_proc changes a process that is in no queue.
LEMMA FieldsHold ==
  ASSUME NEW R \in SUBSET Procs, NEW p \in Procs \ R,
         NEW qs, NEW fs, Holds(qs, fs, R),
         NEW f \in MlfqFields, ~ f.counted => f.level = 0
  PROVE  Holds(qs, [fs EXCEPT ![p] = f], R)
<1> DEFINE f2 == [fs EXCEPT ![p] = f]
<1>1. /\ f2 \in [Procs -> MlfqFields]
      /\ f2[p] = f
      /\ \A x \in Procs \ {p} : f2[x] = fs[x]
  BY DEF Holds
<1> HIDE DEF f2
<1>2. \A l \in Level : {x \in R : f2[x].level = l} = {x \in R : fs[x].level = l}
  BY <1>1
<1>3. \A x \in R : f2[x].ticks = level_slice[f2[x].level]
  BY <1>1 DEF Holds
<1>4. \A x \in Procs : ~ f2[x].counted => f2[x].level = 0
  BY <1>1 DEF Holds
<1>5. Holds(qs, f2, R)
  BY <1>1, <1>2, <1>3, <1>4 DEF Holds
<1> QED
  BY <1>5 DEF f2

\* priority_boost neither loses nor duplicates a process, and leaves each with
\* the level and the slice of the top queue.
LEMMA BoostHolds ==
  ASSUME NEW R \in SUBSET Procs, NEW qs, NEW fs, Holds(qs, fs, R)
  PROVE  Holds(BoostedQueues(qs), BoostedFields(qs, fs), R)
<1> DEFINE s1 == qs[0] \o qs[1]
           s2 == s1 \o qs[2]
           s3 == s2 \o qs[3]
           E(l) == {x \in R : fs[x].level = l}
           q2 == BoostedQueues(qs)
           f2 == BoostedFields(qs, fs)
           top(x) == [fs[x] EXCEPT !.level = 0, !.ticks = level_slice[0]]
<1>1. \A l \in {0, 1, 2, 3} :
        qs[l] \in Seq(Procs) /\ Once(qs[l]) /\ Elems(qs[l]) = E(l)
  BY Levels DEF Holds
<1>2. \A x \in R : fs[x].level \in {0, 1, 2, 3}
  BY Levels DEF Holds, MlfqFields
<1>3. s3 \in Seq(Procs) /\ Once(s3) /\ Elems(s3) = R
  <2> HIDE DEF s1, s2, s3
  <2>0. \A l, k \in {0, 1, 2, 3} : l # k => Elems(qs[l]) \cap Elems(qs[k]) = {}
    BY <1>1
  <2>1. s1 \in Seq(Procs) /\ Once(s1) /\ Elems(s1) = Elems(qs[0]) \cup Elems(qs[1])
    BY <1>1, <2>0, ConcatOnce DEF s1
  <2>2. Elems(s1) \cap Elems(qs[2]) = {}
    BY <2>0, <2>1
  <2>3. s2 \in Seq(Procs) /\ Once(s2) /\ Elems(s2) = Elems(s1) \cup Elems(qs[2])
    BY <1>1, <2>1, <2>2, ConcatOnce DEF s2
  <2>4. Elems(s2) \cap Elems(qs[3]) = {}
    BY <2>0, <2>1, <2>3
  <2>5. s3 \in Seq(Procs) /\ Once(s3) /\ Elems(s3) = Elems(s2) \cup Elems(qs[3])
    BY <1>1, <2>3, <2>4, ConcatOnce DEF s3
  <2>6. E(0) \cup E(1) \cup E(2) \cup E(3) = R
    BY <1>2
  <2> QED
    BY <1>1, <2>1, <2>3, <2>5, <2>6
<1>4. q2[0] = s3 /\ \A l \in Level \ {0} : q2[l] = <<>>
  BY Levels DEF BoostedQueues
<1>5. q2 \in [Level -> Seq(Procs)]
  BY <1>3 DEF BoostedQueues
<1>6. \A x \in Procs : (\E l \in Level \ {0} : InQueue(qs, l, x))
                         <=> x \in R /\ fs[x].level # 0
  <2>1. \A x \in Procs, l \in Level : InQueue(qs, l, x) <=> x \in Elems(qs[l])
    BY DEF InQueue, Elems
  <2>2. \A x \in Procs, l \in Level : InQueue(qs, l, x) <=> x \in E(l)
    BY <1>1, <2>1, Levels
  <2> QED
    BY <1>2, <2>2, Levels
<1>7. \A x \in Procs : f2[x] = IF x \in R /\ fs[x].level # 0 THEN top(x) ELSE fs[x]
  BY <1>6 DEF BoostedFields
<1>8. \A x \in Procs :
        /\ top(x) \in MlfqFields
        /\ top(x).level = 0
        /\ top(x).ticks = level_slice[0]
        /\ top(x).counted = fs[x].counted
  <2>1. level_slice[0] \in Nat /\ 0 \in Level
    BY Levels, BasicAssumption
  <2> QED
    BY <2>1 DEF Holds, MlfqFields
<1>9. f2 \in [Procs -> MlfqFields]
  <2>1. f2 = [x \in Procs |-> f2[x]]
    BY DEF BoostedFields
  <2>2. \A x \in Procs : f2[x] \in MlfqFields
    BY <1>7, <1>8 DEF Holds
  <2> HIDE DEF f2
  <2> QED
    BY <2>1, <2>2
<1> HIDE DEF s3, E, q2, f2, top
<1>10. \A x \in R : f2[x].level = 0 /\ f2[x].ticks = level_slice[0]
  <2> TAKE x \in R
  <2>1. x \in Procs /\ fs[x].ticks = level_slice[fs[x].level]
    BY DEF Holds
  <2>2. CASE fs[x].level = 0
    BY <1>7, <2>1, <2>2
  <2>3. CASE fs[x].level # 0
    BY <1>7, <1>8, <2>1, <2>3
  <2> QED
    BY <2>2, <2>3
<1>11. \A l \in Level : Once(q2[l]) /\ Elems(q2[l]) = {x \in R : f2[x].level = l}
  BY <1>3, <1>4, <1>10, EmptyOnce
<1>12. \A x \in Procs : ~ f2[x].counted => f2[x].level = 0
  BY <1>7, <1>8 DEF Holds
<1>13. Holds(q2, f2, R)
  BY <1>5, <1>9, <1>10, <1>11, <1>12 DEF Holds
<1> QED
  BY <1>13 DEF q2, f2

\* The scan of basic_mlfq_pick_next finds the highest level that has a
\* process, if one has.
LEMMA HighestLevel ==
  ASSUME NEW qs, FullLevels(qs) # {}
  PROVE  LET l == CHOOSE l \in FullLevels(qs) : \A k \in FullLevels(qs) : l <= k
         IN  l \in Level /\ qs[l] # <<>>
<1>1. FullLevels(qs) \in SUBSET Nat
  BY DEF FullLevels, Level
<1>2. \E l \in FullLevels(qs) : \A k \in FullLevels(qs) : l <= k
  BY <1>1, LeastOf
<1> QED
  BY <1>2 DEF FullLevels

\* Dispatch empties nothing but the place it takes the process from.
LEMMA DispatchHolds ==
  ASSUME NEW R \in SUBSET Procs, NEW qs, NEW fs, Holds(qs, fs, R), Dispatch(qs, fs)
  PROVE  \/ R = {} /\ current' = Idle /\ Holds(queues', procs', {})
         \/ current' \in R /\ Holds(queues', procs', R \ {current'})
<1>1. CASE FullLevels(qs) = {}
  <2>1. \A l \in Level : Elems(qs[l]) = {}
    BY <1>1, EmptyOnce DEF FullLevels
  <2>2. R = {}
    BY <2>1 DEF Holds, MlfqFields
  <2> QED
    BY <1>1, <2>2 DEF Dispatch
<1>2. CASE FullLevels(qs) # {}
  <2> DEFINE l == CHOOSE l \in FullLevels(qs) : \A k \in FullLevels(qs) : l <= k
             p == qs[l][1]
  <2>1. l \in Level /\ qs[l] # <<>>
    BY <1>2, HighestLevel
  <2>2. /\ current' = p
        /\ queues' = [qs EXCEPT ![l] = Tail(@)]
        /\ procs' = [fs EXCEPT ![p].counted = TRUE]
    BY <1>2 DEF Dispatch
  <2> HIDE DEF l
  <2>3. qs[l] \in Seq(Procs) /\ Once(qs[l]) /\ Elems(qs[l]) = {x \in R : fs[x].level = l}
    BY <2>1 DEF Holds
  <2>4. /\ p \in Elems(qs[l])
        /\ Tail(qs[l]) \in Seq(Procs)
        /\ Once(Tail(qs[l]))
        /\ Elems(Tail(qs[l])) = Elems(qs[l]) \ {p}
    <3>1. p = Head(qs[l])
      BY <2>1, <2>3
    <3> QED
      BY <2>1, <2>3, <3>1, TailOnce
  <2>5. p \in R /\ p \in Procs /\ fs[p].level = l
    BY <2>3, <2>4
  <2>6. /\ queues' \in [Level -> Seq(Procs)]
        /\ queues'[l] = Tail(qs[l])
        /\ \A k \in Level \ {l} : queues'[k] = qs[k]
    BY <2>1, <2>2, <2>4 DEF Holds
  <2> HIDE DEF p
  <2>7. /\ procs' \in [Procs -> MlfqFields]
        /\ \A x \in Procs : /\ procs'[x].level = fs[x].level
                            /\ procs'[x].ticks = fs[x].ticks
                            /\ x # p => procs'[x] = fs[x]
        /\ procs'[p].counted
    BY <2>2, <2>5 DEF Holds, MlfqFields
  <2>8. \A k \in Level :
          Once(queues'[k])
            /\ Elems(queues'[k]) = {x \in R \ {p} : procs'[x].level = k}
    <3> TAKE k \in Level
    <3>1. Once(qs[k]) /\ Elems(qs[k]) = {x \in R : fs[x].level = k}
      BY DEF Holds
    <3>2. CASE k = l
      BY <2>3, <2>4, <2>6, <2>7, <3>2
    <3>3. CASE k # l
      BY <2>5, <2>6, <2>7, <3>1, <3>3
    <3> QED
      BY <3>2, <3>3
  <2>9. \A x \in R \ {p} : procs'[x].ticks = level_slice[procs'[x].level]
    BY <2>7 DEF Holds
  <2>10. \A x \in Procs : ~ procs'[x].counted => procs'[x].level = 0
    BY <2>7 DEF Holds
  <2>11. Holds(queues', procs', R \ {p})
    BY <2>6, <2>7, <2>8, <2>9, <2>10 DEF Holds
  <2> QED
    BY <2>2, <2>5, <2>11 DEF p
<1> QED
  BY <1>1, <1>2

\* The ready processes after a change of one process's state.
LEMMA ReadyAfter ==
  ASSUME TypeOK, NEW p \in Procs, NEW s \in States,
         state' = [state EXCEPT ![p] = s], current' = current
  PROVE  ReadySet' = IF s = "RUNNABLE" /\ p # current THEN ReadySet \cup {p}
                     ELSE ReadySet \ {p}
<1>1. \A q \in Procs : state'[q] = IF q = p THEN s ELSE state[q]
  BY DEF TypeOK, AllProcs
<1> QED
  BY <1>1 DEF ReadySet, Ready

----------------------------------------------------------------------------
(* The invariant, one action at a time.                                    *)

LEMMA InitInv == Init => IInv
<1> SUFFICES ASSUME Init PROVE IInv
  OBVIOUS
<1> DEFINE noQueues == [l \in Level |-> <<>>]
           allNew == [p \in Procs |-> New]
<1>1. PICK init \in Procs :
        /\ state = [p \in AllProcs |->
                      IF p \in {Idle, init} THEN "RUNNABLE" ELSE "UNINIT"]
        /\ current = Idle
        /\ leaving = FALSE
        /\ need_resched = [p \in AllProcs |-> p = Idle]
        /\ queues = Push(noQueues, 0, init)
        /\ global_timer = 0
        /\ procs = [p \in Procs |-> IF p = init THEN Enqueued(New) ELSE New]
  BY DEF Init
<1>2. Idle \notin Procs /\ 0 \in Level
  BY BasicAssumption, Levels
<1>3. New \in MlfqFields /\ New.level = 0 /\ ~ New.counted
  BY <1>2 DEF New, MlfqFields
<1>4. Holds(noQueues, allNew, {})
  <2>1. \A l \in Level : noQueues[l] = <<>>
    OBVIOUS
  <2>2. noQueues \in [Level -> Seq(Procs)]
    OBVIOUS
  <2>3. allNew \in [Procs -> MlfqFields] /\ \A p \in Procs : allNew[p] = New
    BY <1>3
  <2> HIDE DEF noQueues, allNew
  <2> QED
    BY <1>3, <2>1, <2>2, <2>3, EmptyOnce DEF Holds
<1>5. /\ queues = Push(noQueues, Enqueued(allNew[init]).level, init)
      /\ procs = [allNew EXCEPT ![init] = Enqueued(@)]
  <2>1. Enqueued(New).level = 0
    BY <1>3, EnqueuedFields
  <2> QED
    BY <1>1, <2>1
<1> HIDE DEF noQueues, allNew
<1>6. Holds(queues, procs, {} \cup {init})
  BY <1>1, <1>4, <1>5, EnqueueHolds
<1>7. ReadySet = {} \cup {init}
  BY <1>1, <1>2 DEF ReadySet, Ready, AllProcs
<1>8. TypeOK
  <2>1. global_timer \in 0 .. BOOST_TICKS
    BY <1>1, BasicAssumption
  <2>2. /\ state \in [AllProcs -> States]
        /\ current \in AllProcs
        /\ leaving \in BOOLEAN
        /\ need_resched \in [AllProcs -> BOOLEAN]
    BY <1>1 DEF AllProcs, States
  <2> QED
    BY <1>6, <2>1, <2>2 DEF TypeOK, Holds
<1>9. CurrentIsRunnable
  BY <1>1, <1>2 DEF CurrentIsRunnable, AllProcs
<1> QED
  BY <1>6, <1>7, <1>8, <1>9 DEF IInv

\* do_fork
LEMMA ForkInv == ASSUME IInv, NEW p \in Procs, Fork(p) PROVE IInv'
<1>1. /\ state' = [state EXCEPT ![p] = "RUNNABLE"]
      /\ state[p] = "UNINIT"
      /\ queues' = Push(queues, Enqueued(procs[p]).level, p)
      /\ procs' = [procs EXCEPT ![p] = Enqueued(@)]
      /\ UNCHANGED <<current, leaving, need_resched, global_timer>>
      /\ current \in Procs /\ ~ leaving
  BY DEF Fork, Enqueue, Running
<1>2. p # current /\ p \notin ReadySet /\ ReadySet \in SUBSET Procs
  BY <1>1 DEF IInv, CurrentIsRunnable, ReadySet, Ready
<1>3. ReadySet' = ReadySet \cup {p}
  BY <1>1, <1>2, ReadyAfter DEF IInv, States
<1>4. Holds(queues', procs', ReadySet')
  BY <1>1, <1>2, <1>3, EnqueueHolds DEF IInv
<1>5. TypeOK'
  BY <1>1, <1>4 DEF IInv, TypeOK, Holds, AllProcs, States
<1>6. CurrentIsRunnable'
  BY <1>1, <1>2, BasicAssumption DEF IInv, TypeOK, CurrentIsRunnable, AllProcs
<1> QED
  BY <1>4, <1>5, <1>6 DEF IInv

\* wakeup_proc
LEMMA WakeupInv == ASSUME IInv, NEW p \in Procs, Wakeup(p) PROVE IInv'
<1>1. /\ state' = [state EXCEPT ![p] = "RUNNABLE"]
      /\ state[p] = "SLEEPING"
      /\ UNCHANGED <<current, leaving, need_resched, global_timer>>
  BY DEF Wakeup
<1>2. /\ p # current => /\ queues' = Push(queues, Enqueued(procs[p]).level, p)
                        /\ procs' = [procs EXCEPT ![p] = Enqueued(@)]
      /\ p = current => queues' = queues /\ procs' = procs
  BY DEF Wakeup, Enqueue
<1>3. p \notin ReadySet /\ ReadySet \in SUBSET Procs
  BY <1>1 DEF ReadySet, Ready
<1>4. Holds(queues', procs', ReadySet')
  <2>1. CASE p # current
    <3>1. ReadySet' = ReadySet \cup {p}
      BY <1>1, <2>1, ReadyAfter DEF IInv, States
    <3> QED
      BY <1>2, <1>3, <2>1, <3>1, EnqueueHolds DEF IInv
  <2>2. CASE p = current
    <3>1. ReadySet' = ReadySet \ {p}
      BY <1>1, <2>2, ReadyAfter DEF IInv, States
    <3> QED
      BY <1>2, <1>3, <2>2, <3>1 DEF IInv
  <2> QED
    BY <2>1, <2>2
<1>5. TypeOK'
  BY <1>1, <1>4 DEF IInv, TypeOK, Holds, AllProcs, States
<1>6. CurrentIsRunnable'
  BY <1>1, BasicAssumption DEF IInv, TypeOK, CurrentIsRunnable, AllProcs
<1> QED
  BY <1>4, <1>5, <1>6 DEF IInv

\* do_wait frees a zombie.
LEMMA ReapInv == ASSUME IInv, NEW p \in Procs, Reap(p) PROVE IInv'
<1>1. /\ state' = [state EXCEPT ![p] = "UNINIT"]
      /\ state[p] = "ZOMBIE"
      /\ procs' = [procs EXCEPT ![p] = New]
      /\ UNCHANGED <<current, leaving, need_resched, queues, global_timer>>
      /\ current \in Procs /\ ~ leaving
  BY DEF Reap, Running
<1>2. p # current /\ p \notin ReadySet /\ ReadySet \in SUBSET Procs
  BY <1>1 DEF IInv, CurrentIsRunnable, ReadySet, Ready
<1>3. ReadySet' = ReadySet
  <2>1. ReadySet' = ReadySet \ {p}
    BY <1>1, ReadyAfter DEF IInv, States
  <2> QED
    BY <1>2, <2>1
<1>4. Holds(queues', procs', ReadySet')
  <2>1. New \in MlfqFields /\ (~ New.counted => New.level = 0)
    BY Levels DEF New, MlfqFields
  <2> QED
    BY <1>1, <1>2, <1>3, <2>1, FieldsHold DEF IInv
<1>5. TypeOK'
  BY <1>1, <1>4 DEF IInv, TypeOK, Holds, AllProcs, States
<1>6. CurrentIsRunnable'
  BY <1>1, <1>2, BasicAssumption DEF IInv, TypeOK, CurrentIsRunnable, AllProcs
<1> QED
  BY <1>4, <1>5, <1>6 DEF IInv

\* do_wait and do_exit, up to their call of schedule()
LEMMA LeaveInv ==
  ASSUME IInv, Running, NEW s \in {"SLEEPING", "ZOMBIE"},
         state' = [state EXCEPT ![current] = s], leaving' = TRUE,
         UNCHANGED <<current, need_resched, queues, global_timer, procs>>
  PROVE  IInv'
<1>1. current \in Procs /\ current \notin ReadySet
  BY DEF Running, ReadySet, Ready
<1>2. ReadySet' = ReadySet
  <2>1. ReadySet' = ReadySet \ {current}
    BY <1>1, ReadyAfter DEF IInv, States
  <2> QED
    BY <1>1, <2>1
<1>3. Holds(queues', procs', ReadySet')
  BY <1>2 DEF IInv
<1>4. TypeOK'
  BY <1>1 DEF IInv, TypeOK, AllProcs, States
<1>5. CurrentIsRunnable'
  BY <1>1, BasicAssumption DEF IInv, TypeOK, CurrentIsRunnable, AllProcs
<1> QED
  BY <1>3, <1>4, <1>5 DEF IInv

\* do_yield
LEMMA YieldInv == ASSUME IInv, Yield PROVE IInv'
<1>1. /\ need_resched' = [need_resched EXCEPT ![current] = TRUE]
      /\ UNCHANGED <<state, current, leaving, queues, global_timer, procs>>
  BY DEF Yield
<1>2. ReadySet' = ReadySet
  BY <1>1 DEF ReadySet, Ready
<1> QED
  BY <1>1, <1>2 DEF IInv, TypeOK, CurrentIsRunnable

\* run_timer_list: what it does to the class.
LEMMA TickEffect ==
  ASSUME IInv, Tick
  PROVE  \/ procs' = procs /\ global_timer' = global_timer
         \/ /\ current \in Procs \ ReadySet
            /\ global_timer' \in 0 .. BOOST_TICKS
            /\ \E n \in Nat : procs' = [procs EXCEPT ![current].ticks = n]
<1>1. CASE current = Idle
  BY <1>1 DEF Tick
<1>2. CASE current # Idle
  <2>1. current \in Procs \ ReadySet
    BY <1>2 DEF IInv, TypeOK, AllProcs, ReadySet, Ready
  <2> DEFINE t == procs[current].ticks
             n == IF state[current] = "RUNNABLE" /\ t > 0 THEN t - 1 ELSE t
  <2>2. t \in Nat
    BY <2>1 DEF IInv, TypeOK, MlfqFields
  <2>3. n \in Nat
    BY <2>2
  <2>4. procs' = [procs EXCEPT ![current].ticks = n]
    BY <1>2, <2>1 DEF Tick, ProcTick, IInv, TypeOK
  <2>5. global_timer' \in 0 .. BOOST_TICKS
    BY <1>2, BasicAssumption DEF Tick, ProcTick, Saturated, IInv, TypeOK
  <2> HIDE DEF n
  <2> QED
    BY <2>1, <2>3, <2>4, <2>5
<1> QED
  BY <1>1, <1>2

\* run_timer_list
LEMMA TickInv == ASSUME IInv, Tick PROVE IInv'
<1>1. UNCHANGED <<state, current, leaving, queues>> /\ ReadySet' = ReadySet
  BY DEF Tick, ReadySet, Ready
<1>2. need_resched' \in [AllProcs -> BOOLEAN]
  BY DEF Tick, ProcTick, IInv, TypeOK
<1>3. Holds(queues', procs', ReadySet') /\ global_timer' \in 0 .. BOOST_TICKS
  <2>1. CASE procs' = procs /\ global_timer' = global_timer
    BY <1>1, <2>1 DEF IInv, TypeOK
  <2>2. ASSUME current \in Procs \ ReadySet,
               global_timer' \in 0 .. BOOST_TICKS,
               NEW n \in Nat, procs' = [procs EXCEPT ![current].ticks = n]
        PROVE  Holds(queues', procs', ReadySet') /\ global_timer' \in 0 .. BOOST_TICKS
    <3> DEFINE f == [procs[current] EXCEPT !.ticks = n]
    <3>1. procs' = [procs EXCEPT ![current] = f]
      BY <2>2
    <3>2. f \in MlfqFields /\ (~ f.counted => f.level = 0)
      BY <2>2 DEF IInv, TypeOK, Holds, MlfqFields
    <3>3. ReadySet \in SUBSET Procs
      BY DEF ReadySet
    <3> HIDE DEF f
    <3>4. Holds(queues, [procs EXCEPT ![current] = f], ReadySet)
      BY <2>2, <3>2, <3>3, FieldsHold DEF IInv
    <3> QED
      BY <1>1, <2>2, <3>1, <3>4
  <2> QED
    BY <2>1, <2>2, TickEffect
<1>4. TypeOK' /\ CurrentIsRunnable'
  BY <1>1, <1>2, <1>3 DEF IInv, TypeOK, Holds, CurrentIsRunnable
<1> QED
  BY <1>3, <1>4 DEF IInv

\* After schedule() put the current process back, the queues hold all that
\* are runnable.
LEMMA RequeuedHolds ==
  ASSUME IInv PROVE Holds(RequeuedQueues, RequeuedFields, Runnable)
<1>1. CASE GoesOn
  <2>1. current \in Procs /\ current \notin ReadySet /\ ReadySet \in SUBSET Procs
    BY <1>1 DEF GoesOn, IInv, TypeOK, AllProcs, ReadySet, Ready
  <2>2. Runnable = ReadySet \cup {current}
    BY <1>1, <2>1 DEF GoesOn, Runnable, ReadySet, Ready
  <2> QED
    BY <1>1, <2>1, <2>2, EnqueueHolds DEF IInv, RequeuedQueues, RequeuedFields
<1>2. CASE ~ GoesOn
  <2>1. Runnable = ReadySet
    BY <1>2, BasicAssumption DEF GoesOn, Runnable, ReadySet, Ready
  <2> QED
    BY <1>2, <2>1 DEF IInv, RequeuedQueues, RequeuedFields
<1> QED
  BY <1>1, <1>2

\* What schedule() does, in terms of the class when the queues are scanned.
LEMMA ScheduleEffect ==
  ASSUME IInv, Schedule
  PROVE  \/ Runnable = {} /\ current' = Idle /\ Holds(queues', procs', {})
         \/ current' \in Runnable /\ Holds(queues', procs', Runnable \ {current'})
<1>1. Holds(RequeuedQueues, RequeuedFields, Runnable) /\ Runnable \in SUBSET Procs
  BY RequeuedHolds DEF Runnable
<1>2. CASE BoostDue
  <2> DEFINE qs == BoostedQueues(RequeuedQueues)
             fs == BoostedFields(RequeuedQueues, RequeuedFields)
  <2>1. Holds(qs, fs, Runnable)
    BY <1>1, BoostHolds
  <2>2. Dispatch(qs, fs)
    BY <1>2 DEF Schedule
  <2> HIDE DEF qs, fs
  <2> QED
    BY <1>1, <2>1, <2>2, DispatchHolds
<1>3. CASE ~ BoostDue
  <2>1. Dispatch(RequeuedQueues, RequeuedFields)
    BY <1>3 DEF Schedule
  <2> QED
    BY <1>1, <2>1, DispatchHolds
<1> QED
  BY <1>2, <1>3

\* schedule()
LEMMA ScheduleInv == ASSUME IInv, Schedule PROVE IInv'
<1>1. /\ leaving' = FALSE
      /\ need_resched' = [need_resched EXCEPT ![current] = FALSE]
      /\ state' = state
      /\ global_timer' \in {0, global_timer}
  BY DEF Schedule
<1>2. /\ current' \in AllProcs
      /\ state[current'] = "RUNNABLE"
      /\ Holds(queues', procs', ReadySet')
  <2>1. ReadySet' = Runnable \ {current'}
    BY <1>1 DEF ReadySet, Ready, Runnable
  <2>2. CASE Runnable = {} /\ current' = Idle /\ Holds(queues', procs', {})
    BY <2>1, <2>2, BasicAssumption DEF AllProcs, IInv, CurrentIsRunnable
  <2>3. CASE current' \in Runnable /\ Holds(queues', procs', Runnable \ {current'})
    BY <2>1, <2>3 DEF AllProcs, Runnable
  <2> QED
    BY <2>2, <2>3, ScheduleEffect
<1>3. TypeOK'
  <2>1. global_timer' \in 0 .. BOOST_TICKS
    BY <1>1, BasicAssumption DEF IInv, TypeOK
  <2>2. need_resched' \in [AllProcs -> BOOLEAN]
    BY <1>1 DEF IInv, TypeOK
  <2>3. state' \in [AllProcs -> States] /\ leaving' \in BOOLEAN
    BY <1>1 DEF IInv, TypeOK
  <2> QED
    BY <1>2, <2>1, <2>2, <2>3 DEF TypeOK, Holds
<1>4. CurrentIsRunnable'
  BY <1>1, <1>2 DEF IInv, CurrentIsRunnable
<1> QED
  BY <1>2, <1>3, <1>4 DEF IInv

\* Every step preserves the invariant.
LEMMA NextInv == IInv /\ [Next]_vars => IInv'
<1> SUFFICES ASSUME IInv, [Next]_vars PROVE IInv'
  OBVIOUS
<1>1. ASSUME NEW p \in Procs, Fork(p) PROVE IInv'
  BY <1>1, ForkInv
<1>2. ASSUME NEW p \in Procs, Wakeup(p) PROVE IInv'
  BY <1>2, WakeupInv
<1>3. ASSUME NEW p \in Procs, Reap(p) PROVE IInv'
  BY <1>3, ReapInv
<1>4. CASE Sleep
  BY <1>4, LeaveInv DEF Sleep
<1>5. CASE Exit
  BY <1>5, LeaveInv DEF Exit
<1>6. CASE Yield
  BY <1>6, YieldInv
<1>7. CASE Tick
  BY <1>7, TickInv
<1>8. CASE Schedule
  BY <1>8, ScheduleInv
<1>9. CASE UNCHANGED vars
  BY <1>9 DEF vars, IInv, TypeOK, ReadySet, Ready, CurrentIsRunnable
<1> QED
  BY <1>1, <1>2, <1>3, <1>4, <1>5, <1>6, <1>7, <1>8, <1>9 DEF Next

\* The class and the process states stay in order, in every behaviour of
\* sched.c with basic_mlfq_sched_class.
THEOREM Invariance == Spec => []IInv
<1>1. Init => IInv
  BY InitInv
<1>2. IInv /\ [Next]_vars => IInv'
  BY NextInv
<1> QED
  BY <1>1, <1>2, PTL DEF Spec

----------------------------------------------------------------------------
(* The properties of BasicMlfq.                                            *)

\* The queues hold exactly the processes that wait for the CPU, once each, at
\* their level and with its slice.
THEOREM QueuesAlwaysAgree == Spec => []QueuesAgree
<1>1. ASSUME IInv, NEW l \in Level
      PROVE  /\ \A p \in Procs : InQueue(queues, l, p) <=> p \in Elems(queues[l])
             /\ Once(queues[l])
             /\ Elems(queues[l]) = {p \in ReadySet : procs[p].level = l}
             /\ \A i \in 1 .. Len(queues[l]) : queues[l][i] \in Elems(queues[l])
  BY <1>1 DEF IInv, Holds, InQueue, Elems
<1>2. IInv => QueuedIffReady
  <2> SUFFICES ASSUME IInv, NEW p \in Procs PROVE Queued(p) <=> Ready(p)
    BY DEF QueuedIffReady, Ready
  <2>1. procs[p].level \in Level
    BY DEF IInv, TypeOK, MlfqFields
  <2> QED
    BY <1>1, <2>1 DEF Queued, ReadySet
<1>3. IInv => QueuedOnce
  <2> SUFFICES ASSUME IInv, NEW l \in Level, NEW k \in Level,
                      NEW i \in 1 .. Len(queues[l]), NEW j \in 1 .. Len(queues[k]),
                      queues[l][i] = queues[k][j]
               PROVE  l = k /\ i = j
    BY DEF QueuedOnce
  <2>1. l = k
    <3>1. queues[l][i] \in Elems(queues[l]) /\ queues[k][j] \in Elems(queues[k])
      BY <1>1
    <3>2. procs[queues[l][i]].level = l /\ procs[queues[k][j]].level = k
      <4>1. Elems(queues[l]) = {p \in ReadySet : procs[p].level = l}
        BY <1>1
      <4>2. Elems(queues[k]) = {p \in ReadySet : procs[p].level = k}
        BY <1>1
      <4> QED
        BY <3>1, <4>1, <4>2
    <3> QED
      BY <3>2
  <2>2. Once(queues[l])
    BY <1>1
  <2> QED
    BY <2>1, <2>2 DEF Once
<1>4. IInv => QueuedAtItsLevel
  <2> SUFFICES ASSUME IInv, NEW l \in Level, NEW i \in 1 .. Len(queues[l])
               PROVE  /\ procs[queues[l][i]].level = l
                      /\ procs[queues[l][i]].ticks = level_slice[l]
    BY DEF QueuedAtItsLevel
  <2> QED
    BY <1>1 DEF IInv, Holds
<1>5. IInv => QueuesAgree
  BY <1>2, <1>3, <1>4 DEF IInv, QueuesAgree
<1> QED
  BY <1>5, Invariance, PTL

\* The scheduler with this class implements SchedCore: it hands the CPU to a
\* runnable process whenever there is one, and to idleproc only otherwise.
THEOREM Refinement == Spec => ImplementsCore
<1>1. Init => Core!Init
  BY DEF Init, Core!Init, AllProcs, Core!AllProcs
<1>2. IInv /\ [Next]_vars => [Core!Next]_(Core!vars)
  <2> SUFFICES ASSUME IInv, [Next]_vars
               PROVE  Core!Next \/ UNCHANGED <<state, current>>
    BY DEF Core!vars
  <2>1. Running => Core!Running
    BY DEF IInv, CurrentIsRunnable, Running, Core!Running
  <2>2. ASSUME NEW p \in Procs, Fork(p) PROVE Core!Fork(p)
    BY <2>1, <2>2 DEF Fork, Core!Fork, Core!SetState
  <2>3. ASSUME NEW p \in Procs, Wakeup(p) PROVE Core!Wakeup(p)
    BY <2>3 DEF Wakeup, Core!Wakeup, Core!SetState
  <2>4. ASSUME NEW p \in Procs, Reap(p) PROVE Core!Reap(p)
    BY <2>1, <2>4 DEF Reap, Core!Reap, Core!SetState
  <2>5. CASE Sleep
    BY <2>1, <2>5 DEF Sleep, Core!Next, Core!Sleep, Core!SetState
  <2>6. CASE Exit
    BY <2>1, <2>6 DEF Exit, Core!Next, Core!Exit, Core!SetState
  <2>7. CASE Yield \/ Tick \/ UNCHANGED vars
    BY <2>7 DEF Yield, Tick, vars
  <2>8. CASE Schedule
    <3>1. state' = state
      BY <2>8 DEF Schedule
    <3>2. \/ Runnable = {} /\ current' = Idle
          \/ current' \in Runnable
      BY <2>8, ScheduleEffect
    <3> QED
      BY <3>1, <3>2 DEF Core!Next, Core!Schedule, Runnable
  <2> QED
    BY <2>2, <2>3, <2>4, <2>5, <2>6, <2>7, <2>8 DEF Next, Core!Next
<1> QED
  BY <1>1, <1>2, Invariance, PTL DEF Spec, ImplementsCore, Core!Spec

----------------------------------------------------------------------------
(* Levels are earned.                                                      *)

\* What LevelChangesAreEarned says of one process whose fields go from f to
\* g; pardoned is whether a boost is due or the process is freed.
Earned(f, g, pardoned) ==
  /\ g.level > f.level => g.level = f.level + 1 /\ f.ticks <= 0
  /\ g.level < f.level => g.level = 0 /\ (f.ticks > 0 \/ pardoned)

\* basic_mlfq_enqueue changes the level of a process as it deserves.
LEMMA EnqueueEarns ==
  ASSUME NEW f \in MlfqFields, ~ f.counted => f.level = 0
  PROVE  Earned(f, Enqueued(f), FALSE)
<1>1. f.level \in {0, 1, 2, 3} /\ f.ticks \in Nat
  BY Levels DEF MlfqFields
<1>2. Enqueued(f).level = IF f.counted THEN NextLevel(f) ELSE 0
  BY DEF Enqueued, MlfqFields
<1>3. CASE f.ticks <= 0
  <2>1. NextLevel(f) \in {f.level, f.level + 1}
    BY <1>3 DEF NextLevel
  <2> QED
    BY <1>1, <1>2, <1>3, <2>1 DEF Earned
<1>4. CASE f.ticks > 0
  <2>1. NextLevel(f) = 0
    BY <1>1, <1>4 DEF NextLevel
  <2> QED
    BY <1>1, <1>2, <1>4, <2>1 DEF Earned
<1>5. f.ticks <= 0 \/ f.ticks > 0
  BY <1>1
<1> QED
  BY <1>3, <1>4, <1>5, Zenon

\* schedule(): the process that leaves the CPU is enqueued, a boost that is
\* due lifts to the top, and dispatching keeps the level.
LEMMA ScheduleEarns ==
  ASSUME IInv, Schedule, NEW p \in Procs
  PROVE  Earned(procs[p], procs'[p], BoostDue)
<1>1. /\ \A x \in Procs : procs[x] \in MlfqFields
      /\ ~ procs[p].counted => procs[p].level = 0
      /\ Runnable \in SUBSET Procs
  BY DEF IInv, TypeOK, Holds, Runnable
<1>2. Holds(RequeuedQueues, RequeuedFields, Runnable)
  BY RequeuedHolds
<1>3. RequeuedFields[p] \in MlfqFields /\ Earned(procs[p], RequeuedFields[p], FALSE)
  <2>1. RequeuedFields[p] \in {procs[p], Enqueued(procs[p])}
    BY DEF RequeuedFields, GoesOn, IInv, TypeOK
  <2>2. Earned(procs[p], procs[p], FALSE)
    BY <1>1, Levels DEF Earned, MlfqFields
  <2> QED
    BY <1>1, <1>2, <2>1, <2>2, EnqueueEarns DEF Holds
<1>4. ASSUME NEW qs, NEW fs, Holds(qs, fs, Runnable), Dispatch(qs, fs)
      PROVE  procs'[p].level = fs[p].level
  <2>1. \/ procs' = fs
        \/ \E x : procs' = [fs EXCEPT ![x].counted = TRUE]
    BY <1>4 DEF Dispatch
  <2>2. fs \in [Procs -> MlfqFields]
    BY <1>4 DEF Holds
  <2> QED
    BY <2>1, <2>2 DEF MlfqFields
<1>5. CASE BoostDue
  <2> DEFINE qs == BoostedQueues(RequeuedQueues)
             fs == BoostedFields(RequeuedQueues, RequeuedFields)
  <2>1. Holds(qs, fs, Runnable)
    BY <1>1, <1>2, BoostHolds
  <2>2. Dispatch(qs, fs)
    BY <1>5 DEF Schedule
  <2>3. fs[p].level \in {0, RequeuedFields[p].level}
    BY <1>3 DEF BoostedFields, MlfqFields
  <2>4. procs'[p].level \in {0, RequeuedFields[p].level}
    <3> HIDE DEF qs, fs
    <3> QED
      BY <1>4, <2>1, <2>2, <2>3
  <2>5. procs[p].level \in {0, 1, 2, 3} /\ RequeuedFields[p].level \in {0, 1, 2, 3}
    BY <1>1, <1>3, Levels DEF MlfqFields
  <2> QED
    BY <1>3, <1>5, <2>4, <2>5 DEF Earned
<1>6. CASE ~ BoostDue
  <2>1. Dispatch(RequeuedQueues, RequeuedFields)
    BY <1>6 DEF Schedule
  <2>2. procs'[p].level = RequeuedFields[p].level
    BY <1>2, <1>4, <2>1
  <2> QED
    BY <1>3, <2>2 DEF Earned
<1> QED
  BY <1>5, <1>6

\* Every step obeys LevelChangesAreEarned.
LEMMA NextEarns ==
  ASSUME IInv, Next, NEW p \in Procs
  PROVE  Earned(procs[p], procs'[p], BoostDue \/ state[p] = "ZOMBIE")
<1>1. /\ procs \in [Procs -> MlfqFields]
      /\ procs[p].level \in {0, 1, 2, 3}
      /\ ~ procs[p].counted => procs[p].level = 0
  BY Levels DEF IInv, TypeOK, Holds, MlfqFields
<1>2. ASSUME procs'[p].level = procs[p].level
      PROVE  Earned(procs[p], procs'[p], BoostDue \/ state[p] = "ZOMBIE")
  BY <1>1, <1>2 DEF Earned
<1>3. ASSUME NEW x \in Procs, procs' = [procs EXCEPT ![x] = Enqueued(@)]
      PROVE  Earned(procs[p], procs'[p], BoostDue \/ state[p] = "ZOMBIE")
  <2>1. CASE x = p
    <3>1. procs'[p] = Enqueued(procs[p]) /\ procs[p] \in MlfqFields
      BY <1>1, <1>3, <2>1
    <3> QED
      BY <1>1, <3>1, EnqueueEarns DEF Earned
  <2>2. CASE x # p
    BY <1>1, <1>2, <1>3, <2>2
  <2> QED
    BY <2>1, <2>2
<1>4. CASE \E x \in Procs : Fork(x) \/ Wakeup(x)
  BY <1>2, <1>3, <1>4 DEF Fork, Wakeup, Enqueue
<1>5. ASSUME NEW x \in Procs, Reap(x)
      PROVE  Earned(procs[p], procs'[p], BoostDue \/ state[p] = "ZOMBIE")
  <2>1. procs' = [procs EXCEPT ![x] = New] /\ state[x] = "ZOMBIE"
    BY <1>5 DEF Reap
  <2>2. CASE x = p
    <3>1. procs'[p] = New /\ New.level = 0
      BY <1>1, <2>1, <2>2 DEF New
    <3> QED
      BY <1>1, <2>1, <2>2, <3>1 DEF Earned
  <2>3. CASE x # p
    BY <1>1, <1>2, <2>1, <2>3
  <2> QED
    BY <2>2, <2>3
<1>6. CASE Sleep \/ Exit \/ Yield
  BY <1>2, <1>6 DEF Sleep, Exit, Yield
<1>7. CASE Tick
  <2>1. procs'[p].level = procs[p].level
    <3>1. CASE procs' = procs
      BY <3>1
    <3>2. CASE \E n \in Nat : procs' = [procs EXCEPT ![current].ticks = n]
      BY <1>1, <3>2 DEF MlfqFields
    <3> QED
      BY <1>7, <3>1, <3>2, TickEffect
  <2> QED
    BY <1>2, <2>1
<1>8. CASE Schedule
  BY <1>8, ScheduleEarns DEF Earned
<1> QED
  BY <1>4, <1>5, <1>6, <1>7, <1>8 DEF Next

\* A level is lost one at a time and for a slice used up; the top is reached
\* by giving the CPU up, by a boost or by a new process.
THEOREM LevelsAreEarned == Spec => LevelChangesAreEarned
<1>1. ASSUME IInv, Next, NEW p \in Procs
      PROVE  Earned(procs[p], procs'[p], BoostDue \/ state[p] = "ZOMBIE")
  BY <1>1, NextEarns
<1>2. IInv /\ [Next]_vars =>
        [\A p \in Procs :
           LET old == procs[p].level
               new == procs'[p].level
           IN  /\ new > old => new = old + 1 /\ procs[p].ticks <= 0
               /\ new < old => /\ new = 0
                               /\ procs[p].ticks > 0 \/ BoostDue
                                  \/ state[p] = "ZOMBIE"]_procs
  BY <1>1 DEF Earned, vars
<1> QED
  BY <1>2, Invariance, PTL DEF Spec, LevelChangesAreEarned
=============================================================================
