----------------------------- MODULE ThreadPoolProofs -----------------------------
(***************************************************************************)
(* Theorems about ThreadPool, for every value of its constants.            *)
(***************************************************************************)
EXTENDS ThreadPool, FiniteSetTheorems, SequenceTheorems, TLAPS

Among(s) == {s[i] : i \in 1..Len(s)}

-------------------------------------------------------------------------------
(* The inductive invariant.                                                   *)

\* The queue is what is left of what was accepted, and nothing is accepted twice.
OrderInv ==
    /\ accepted = started \o tasks
    /\ \A i, j \in 1..Len(accepted) : accepted[i] = accepted[j] => i = j

\* Running workers have tasks of their own, which have started and not finished.
HeldInv ==
    /\ \A w \in In("running") : task[w] \in Among(started) \ finished
    /\ \A v, w \in In("running") : task[v] = task[w] => v = w

\* What has started is finished or held.
DoneInv ==
    /\ finished \subseteq Among(started)
    /\ \A t \in Among(started) : t \in finished \/ \E w \in In("running") : task[w] = t

CountInv ==
    /\ IsFiniteSet(finished)
    /\ Len(started) = Cardinality(finished) + Cardinality(In("running"))

\* Who has returned was told to stop and found nothing to do.
StopInv ==
    /\ stop <=> pool # "alive"
    /\ In("returned") # {} => stop /\ tasks = <<>>
    /\ pool = "joined" => In("returned") = Worker

NotifyInv == IsFiniteSet(notifying) /\ notifying \subseteq Among(accepted)

PoolInv ==
    /\ TypeOK
    /\ OrderInv
    /\ HeldInv
    /\ DoneInv
    /\ CountInv
    /\ StopInv
    /\ NotifyInv
    /\ NoLostWakeup

-------------------------------------------------------------------------------
(* Sequences, and workers by their state.                                     *)

\* What a sequence gains when an element is appended.
LEMMA AppendFacts ==
    ASSUME NEW S, NEW s \in Seq(S), NEW x \in S
    PROVE  /\ Append(s, x) \in Seq(S)
           /\ Len(s) \in Nat /\ Len(Append(s, x)) = Len(s) + 1
           /\ \A i \in 1..Len(s) : Append(s, x)[i] = s[i]
           /\ Append(s, x)[Len(s) + 1] = x
           /\ Among(Append(s, x)) = Among(s) \cup {x}
<1>1. /\ Append(s, x) \in Seq(S)
      /\ Len(s) \in Nat /\ Len(Append(s, x)) = Len(s) + 1
      /\ \A i \in 1..Len(s) : Append(s, x)[i] = s[i]
      /\ Append(s, x)[Len(s) + 1] = x
  BY AppendProperties, LenProperties
<1>2. Among(Append(s, x)) \subseteq Among(s) \cup {x}
  <2>1. ASSUME NEW i \in 1..(Len(s) + 1)
        PROVE  Append(s, x)[i] \in Among(s) \cup {x}
    <3>1. CASE i \in 1..Len(s)
      BY <1>1, <3>1 DEF Among
    <3>2. CASE i = Len(s) + 1
      BY <1>1, <3>2
    <3>3. QED
      BY <1>1, <3>1, <3>2
  <2>2. QED
    BY <1>1, <2>1 DEF Among
<1>3. Among(s) \cup {x} \subseteq Among(Append(s, x))
  <2>1. \A i \in 1..Len(s) : s[i] = Append(s, x)[i] /\ i \in 1..Len(Append(s, x))
    BY <1>1
  <2>2. x = Append(s, x)[Len(s) + 1] /\ Len(s) + 1 \in 1..Len(Append(s, x))
    BY <1>1
  <2>3. QED
    BY <2>1, <2>2 DEF Among
<1>4. QED
  BY <1>1, <1>2, <1>3

\* There are finitely many workers in any state.
LEMMA FewWorkers ==
    \A s : /\ In(s) \subseteq Worker /\ IsFiniteSet(In(s))
           /\ Cardinality(In(s)) \in Nat
           /\ Cardinality(In(s)) = 0 <=> In(s) = {}
<1>1. IsFiniteSet(Worker)
  BY PoolAssumption
<1>2. \A s : In(s) \in SUBSET Worker
  BY DEF In
<1>3. \A s : IsFiniteSet(In(s))
  BY <1>1, <1>2, FS_Subset
<1>4. QED
  BY <1>2, <1>3, FS_CardinalityType, FS_EmptySet

\* Worker w goes from one state to another.
Moves(w, r, s) ==
    /\ state \in [Worker -> {"ready", "waiting", "running", "returned"}]
    /\ state[w] = r
    /\ r # s
    /\ state' = [state EXCEPT ![w] = s]

LEMMA MoveFacts ==
    ASSUME NEW w \in Worker, NEW r, NEW s, Moves(w, r, s)
    PROVE  /\ In(r)' = In(r) \ {w} /\ In(s)' = In(s) \cup {w}
           /\ w \in In(r) /\ w \notin In(s)
           /\ \A q : q # r /\ q # s => In(q)' = In(q)
           /\ Cardinality(In(r)') = Cardinality(In(r)) - 1
           /\ Cardinality(In(s)') = Cardinality(In(s)) + 1
<1>1. /\ In(r)' = In(r) \ {w} /\ In(s)' = In(s) \cup {w}
      /\ w \in In(r) /\ w \notin In(s)
  BY DEF In, Moves
<1>2. \A q : q # r /\ q # s => In(q)' = In(q)
  BY DEF In, Moves
<1>3. IsFiniteSet(In(r)) /\ IsFiniteSet(In(s))
  BY FewWorkers
<1>4. Cardinality(In(r) \ {w}) = Cardinality(In(r)) - 1
  BY <1>1, <1>3, FS_RemoveElement
<1>5. Cardinality(In(s) \cup {w}) = Cardinality(In(s)) + 1
  BY <1>1, <1>3, FS_AddElement
<1>6. QED
  BY <1>1, <1>2, <1>4, <1>5

\* A sequence is its head and its tail.
LEMMA HeadAndTail ==
    ASSUME NEW S, NEW s \in Seq(S), s # <<>>
    PROVE  /\ Head(s) \in S /\ Tail(s) \in Seq(S)
           /\ Head(s) = s[1] /\ Len(s) \in Nat \ {0} /\ Len(Tail(s)) = Len(s) - 1
           /\ s = <<Head(s)>> \o Tail(s)
<1>1. Len(s) \in Nat \ {0}
  BY EmptySeq
<1>2. 1 \in 1..Len(s) /\ Len(s) \in 1..Len(s)
  BY <1>1
<1>3. SubSeq(s, 1, Len(s)) = s /\ Tail(s) = SubSeq(s, 1 + 1, Len(s))
  BY SubSeqFull, TailIsSubSeq
<1>4. SubSeq(s, 1, Len(s)) = <<s[1]>> \o SubSeq(s, 1 + 1, Len(s))
  BY <1>1, <1>2, SubSeqRecursiveFirst
<1>5. Head(s) = s[1]
  OBVIOUS
<1>6. QED
  BY <1>1, <1>3, <1>4, <1>5, HeadTailProperties

\* The head of the second of two sequences may as well end the first.
LEMMA HeadMoves ==
    ASSUME NEW S, NEW s \in Seq(S), NEW t \in Seq(S), t # <<>>
    PROVE  Append(s, Head(t)) \o Tail(t) = s \o t
<1>1. /\ Head(t) \in S /\ Tail(t) \in Seq(S)
      /\ t = <<Head(t)>> \o Tail(t)
  BY HeadAndTail
<1>2. <<Head(t)>> \in Seq(S)
  BY <1>1
<1>3. Append(s, Head(t)) = s \o <<Head(t)>>
  BY <1>1, AppendIsConcat
<1>4. (s \o <<Head(t)>>) \o Tail(t) = s \o (<<Head(t)>> \o Tail(t))
  BY <1>1, <1>2, ConcatAssociative
<1>5. QED
  BY <1>1, <1>3, <1>4

\* Appending to the second of two sequences appends to both.
LEMMA AppendMoves ==
    ASSUME NEW S, NEW s \in Seq(S), NEW t \in Seq(S), NEW x \in S
    PROVE  s \o Append(t, x) = Append(s \o t, x)
<1>1. <<x>> \in Seq(S) /\ s \o t \in Seq(S)
  BY ConcatProperties
<1>2. Append(t, x) = t \o <<x>> /\ Append(s \o t, x) = (s \o t) \o <<x>>
  BY <1>1, AppendIsConcat
<1>3. (s \o t) \o <<x>> = s \o (t \o <<x>>)
  BY <1>1, ConcatAssociative
<1>4. QED
  BY <1>2, <1>3

\* A part of the invariant whose variables stay as they are stays true.
LEMMA Untouched ==
    ASSUME PoolInv
    PROVE  /\ UNCHANGED <<tasks, accepted, started>> => OrderInv'
           /\ UNCHANGED <<task, started, finished>> /\ In("running")' = In("running")
                => HeldInv' /\ DoneInv' /\ CountInv'
           /\ UNCHANGED <<tasks, stop, pool>> /\ In("returned")' = In("returned")
                => StopInv'
           /\ UNCHANGED <<notifying, accepted>> => NotifyInv'
<1>1. UNCHANGED <<tasks, accepted, started>> => OrderInv'
  BY DEF PoolInv, OrderInv
<1>2. UNCHANGED <<task, started, finished>> /\ In("running")' = In("running")
        => HeldInv' /\ DoneInv' /\ CountInv'
  BY DEF PoolInv, HeldInv, DoneInv, CountInv, Among
<1>3. UNCHANGED <<tasks, stop, pool>> /\ In("returned")' = In("returned") => StopInv'
  BY DEF PoolInv, StopInv
<1>4. UNCHANGED <<notifying, accepted>> => NotifyInv'
  BY DEF PoolInv, NotifyInv, Among
<1>5. QED
  BY <1>1, <1>2, <1>3, <1>4

\* The numbers NoLostWakeup compares.
LEMMA Counts ==
    ASSUME PoolInv
    PROVE  /\ Len(tasks) \in Nat
           /\ Cardinality(notifying) \in Nat
           /\ Cardinality(In("ready")) \in Nat
BY LenProperties, FS_CardinalityType, FewWorkers DEF PoolInv, TypeOK, NotifyInv

-------------------------------------------------------------------------------
(* One lemma for each action.                                                 *)

LEMMA EnqueueStep ==
    ASSUME PoolInv, NEW t \in Task, Enqueue(t)
    PROVE  PoolInv'
<1> USE DEF workerVars
<1>1. TypeOK
  BY DEF PoolInv
<1>2. /\ tasks' = Append(tasks, t) /\ accepted' = Append(accepted, t)
      /\ notifying' = notifying \cup {t} /\ ~stop /\ t \notin Among(accepted)
      /\ UNCHANGED <<stop, state, task, started, finished, pool, rejected>>
  BY DEF Enqueue, Called, Among
<1>3. /\ Among(accepted') = Among(accepted) \cup {t}
      /\ Len(accepted) \in Nat /\ Len(accepted') = Len(accepted) + 1
      /\ \A i \in 1..Len(accepted) : accepted'[i] = accepted[i]
      /\ accepted'[Len(accepted) + 1] = t
      /\ tasks' \in Seq(Task) /\ accepted' \in Seq(Task)
      /\ Len(tasks) \in Nat /\ Len(tasks') = Len(tasks) + 1
  BY <1>1, <1>2, AppendFacts DEF TypeOK
<1>4. \A s : In(s)' = In(s)
  BY <1>2 DEF In
<1>5. TypeOK'
  BY <1>1, <1>2, <1>3 DEF TypeOK
<1>6. OrderInv'
  <2>1. started \in Seq(Task) /\ tasks \in Seq(Task) /\ accepted = started \o tasks
    BY <1>1 DEF TypeOK, PoolInv, OrderInv
  <2>2. accepted' = started' \o tasks'
    <3>1. started \o Append(tasks, t) = Append(started \o tasks, t)
      BY <2>1, AppendMoves
    <3>2. QED
      BY <1>2, <2>1, <3>1, Zenon
  <2>3. ASSUME NEW i \in 1..Len(accepted'), NEW j \in 1..Len(accepted'),
               accepted'[i] = accepted'[j]
        PROVE  i = j
    <3>1. \A k \in 1..Len(accepted) : accepted[k] # t
      BY <1>2 DEF Among
    <3>2. CASE i \in 1..Len(accepted) /\ j \in 1..Len(accepted)
      BY <1>3, <2>3, <3>2 DEF PoolInv, OrderInv
    <3>3. CASE i = Len(accepted) + 1 \/ j = Len(accepted) + 1
      BY <1>3, <2>3, <3>1, <3>3
    <3>4. QED
      BY <1>3, <3>2, <3>3
  <2>4. QED
    BY <2>2, <2>3 DEF OrderInv
<1>7. HeldInv' /\ DoneInv' /\ CountInv'
  BY <1>2, <1>4, Untouched
<1>8. StopInv'
  BY <1>2, <1>4 DEF PoolInv, StopInv
<1>9. /\ NotifyInv'
      /\ Cardinality(notifying') = Cardinality(notifying) + 1
  BY <1>2, <1>3, FS_AddElement DEF PoolInv, NotifyInv
<1>10. NoLostWakeup'
  BY <1>3, <1>4, <1>9, Counts DEF PoolInv, NoLostWakeup
<1>11. QED
  BY <1>5, <1>6, <1>7, <1>8, <1>9, <1>10 DEF PoolInv

LEMMA EnqueueThrowsStep ==
    ASSUME PoolInv, NEW t \in Task, EnqueueThrows(t)
    PROVE  PoolInv'
<1>1. /\ rejected' = rejected \cup {t}
      /\ UNCHANGED <<tasks, stop, state, task, started, finished, notifying, pool, accepted>>
  BY DEF EnqueueThrows, workerVars
<1>2. \A s : In(s)' = In(s)
  BY <1>1 DEF In
<1>3. TypeOK'
  BY <1>1 DEF PoolInv, TypeOK
<1>4. NoLostWakeup'
  BY <1>1, <1>2 DEF PoolInv, NoLostWakeup
<1>5. QED
  BY <1>1, <1>2, <1>3, <1>4, Untouched DEF PoolInv

LEMMA NotifyOneStep ==
    ASSUME PoolInv, NEW t \in Task, NotifyOne(t)
    PROVE  PoolInv'
<1>1. /\ t \in notifying /\ notifying' = notifying \ {t}
      /\ UNCHANGED <<tasks, stop, task, started, finished, pool, accepted, rejected>>
  BY DEF NotifyOne
<1>2. TypeOK
  BY DEF PoolInv
<1>3. /\ NotifyInv'
      /\ Cardinality(notifying') = Cardinality(notifying) - 1
  BY <1>1, FS_RemoveElement DEF PoolInv, NotifyInv, Among
<1>4. CASE In("waiting") = {}
  <2>1. state' = state
    BY <1>4 DEF NotifyOne
  <2>2. \A s : In(s)' = In(s)
    BY <2>1 DEF In
  <2>3. TypeOK'
    BY <1>1, <1>2, <2>1 DEF TypeOK
  <2>4. NoLostWakeup'
    BY <1>4, <2>2 DEF NoLostWakeup
  <2>5. QED
    BY <1>1, <1>3, <2>2, <2>3, <2>4, Untouched DEF PoolInv
<1>5. CASE In("waiting") # {}
  <2>1. PICK w \in In("waiting") : state' = [state EXCEPT ![w] = "ready"]
    BY <1>5 DEF NotifyOne
  <2>2. w \in Worker /\ state[w] = "waiting"
    BY DEF In
  <2>3. /\ In("running")' = In("running") /\ In("returned")' = In("returned")
        /\ Cardinality(In("ready")') = Cardinality(In("ready")) + 1
    <3>1. Moves(w, "waiting", "ready")
      BY <1>2, <2>1, <2>2 DEF TypeOK, Moves
    <3>2. QED
      BY <2>2, <3>1, MoveFacts
  <2>4. TypeOK'
    BY <1>1, <1>2, <2>1, <2>2 DEF TypeOK
  <2>5. NoLostWakeup'
    BY <1>1, <1>3, <1>5, <2>3, Counts DEF PoolInv, NoLostWakeup
  <2>6. QED
    BY <1>1, <1>3, <2>3, <2>4, <2>5, Untouched DEF PoolInv
<1>6. QED
  BY <1>4, <1>5

\* What a worker takes is new to all of them.
LEMMA NextIsNew ==
    ASSUME PoolInv, tasks # <<>>
    PROVE  /\ Len(started) \in Nat /\ Len(started) < Len(accepted)
           /\ accepted[Len(started) + 1] = Head(tasks)
           /\ Head(tasks) \notin Among(started)
<1>1. started \in Seq(Task) /\ tasks \in Seq(Task) /\ accepted = started \o tasks
  BY DEF PoolInv, TypeOK, OrderInv
<1>2. Len(started) \in Nat /\ Len(tasks) \in Nat \ {0} /\ Head(tasks) = tasks[1]
  BY <1>1, LenProperties, HeadAndTail
<1>3. /\ Len(accepted) = Len(started) + Len(tasks)
      /\ \A i \in 1..(Len(started) + Len(tasks)) :
            accepted[i] = IF i <= Len(started) THEN started[i] ELSE tasks[i - Len(started)]
  BY <1>1, ConcatProperties
<1>4. accepted[Len(started) + 1] = Head(tasks)
  BY <1>2, <1>3
<1>5. ASSUME NEW i \in 1..Len(started)
      PROVE  started[i] # Head(tasks)
  <2>1. /\ i \in 1..Len(accepted) /\ Len(started) + 1 \in 1..Len(accepted)
        /\ i # Len(started) + 1 /\ accepted[i] = started[i]
    BY <1>2, <1>3
  <2>2. QED
    BY <1>4, <2>1 DEF PoolInv, OrderInv
<1>6. QED
  BY <1>2, <1>3, <1>4, <1>5 DEF Among

LEMMA TakeTaskStep ==
    ASSUME PoolInv, NEW w \in Worker, TakeTask(w)
    PROVE  PoolInv'
<1> DEFINE first == Head(tasks)
<1>1. /\ state[w] = "ready" /\ tasks # <<>>
      /\ state' = [state EXCEPT ![w] = "running"]
      /\ task' = [task EXCEPT ![w] = first]
      /\ started' = Append(started, first) /\ tasks' = Tail(tasks)
      /\ UNCHANGED <<stop, finished, notifying, pool, accepted, rejected>>
  BY DEF TakeTask
<1>2. TypeOK
  BY DEF PoolInv
<1>3. /\ In("running")' = In("running") \cup {w} /\ w \notin In("running")
      /\ In("returned")' = In("returned") /\ In("waiting")' = In("waiting")
      /\ Cardinality(In("ready")') = Cardinality(In("ready")) - 1
      /\ Cardinality(In("running")') = Cardinality(In("running")) + 1
  <2>1. Moves(w, "ready", "running")
    BY <1>1, <1>2 DEF TypeOK, Moves
  <2>2. QED
    BY <2>1, MoveFacts
<1>4. /\ first \in Task /\ tasks' \in Seq(Task)
      /\ Len(tasks) \in Nat \ {0} /\ Len(tasks') = Len(tasks) - 1
  BY <1>1, <1>2, HeadAndTail DEF TypeOK
<1>5. /\ started' \in Seq(Task) /\ Len(started) \in Nat /\ Len(started') = Len(started) + 1
      /\ Among(started') = Among(started) \cup {first}
  BY <1>1, <1>2, <1>4, AppendFacts DEF TypeOK
<1>6. /\ first \notin Among(started)
      /\ \A v \in In("running") : task[v] \in Among(started) \ finished
      /\ finished \subseteq Among(started)
  BY <1>1, NextIsNew DEF PoolInv, HeldInv, DoneInv
<1>7. task'[w] = first /\ \A v \in In("running") : task'[v] = task[v]
  BY <1>1, <1>2, <1>3 DEF TypeOK, In
<1> HIDE DEF first
<1>8. TypeOK'
  BY <1>1, <1>2, <1>4, <1>5 DEF TypeOK
<1>9. OrderInv'
  <2>1. started \in Seq(Task) /\ tasks \in Seq(Task) /\ accepted = started \o tasks
    BY <1>2 DEF TypeOK, PoolInv, OrderInv
  <2>2. Append(started, Head(tasks)) \o Tail(tasks) = started \o tasks
    BY <1>1, <2>1, HeadMoves
  <2>3. accepted' = started' \o tasks'
    BY <1>1, <2>1, <2>2, Zenon DEF first
  <2>4. QED
    BY <1>1, <2>3 DEF PoolInv, OrderInv
<1>10. HeldInv'
  BY <1>1, <1>3, <1>5, <1>6, <1>7 DEF PoolInv, HeldInv
<1>11. DoneInv'
  BY <1>1, <1>3, <1>5, <1>7 DEF PoolInv, DoneInv
<1>12. CountInv'
  BY <1>1, <1>3, <1>5, FewWorkers, FS_CardinalityType DEF PoolInv, CountInv
<1>13. StopInv' /\ NotifyInv'
  BY <1>1, <1>3 DEF PoolInv, StopInv, NotifyInv, Among
<1>14. NoLostWakeup'
  BY <1>1, <1>3, <1>4, Counts DEF PoolInv, NoLostWakeup
<1>15. QED
  BY <1>8, <1>9, <1>10, <1>11, <1>12, <1>13, <1>14 DEF PoolInv

LEMMA SleepStep ==
    ASSUME PoolInv, NEW w \in Worker, Sleep(w)
    PROVE  PoolInv'
<1>1. /\ state[w] = "ready" /\ tasks = <<>>
      /\ state' = [state EXCEPT ![w] = "waiting"]
      /\ UNCHANGED <<tasks, stop, task, started, finished, notifying, pool, accepted,
                     rejected>>
  BY DEF Sleep
<1>2. state \in [Worker -> {"ready", "waiting", "running", "returned"}]
  BY DEF PoolInv, TypeOK
<1>3. /\ In("running")' = In("running") /\ In("returned")' = In("returned")
      /\ In("ready")' = In("ready") \ {w}
  <2>1. Moves(w, "ready", "waiting")
    BY <1>1, <1>2 DEF Moves
  <2>2. QED
    BY <2>1, MoveFacts
<1>4. TypeOK'
  BY <1>1, <1>2 DEF PoolInv, TypeOK
<1>5. NoLostWakeup'
  <2>1. Len(tasks') = 0
    BY <1>1
  <2>2. Cardinality(notifying') \in Nat /\ Cardinality(In("ready")') \in Nat
    BY <1>1, <1>3, Counts, FewWorkers, FS_RemoveElement, FS_CardinalityType
  <2>3. QED
    BY <2>1, <2>2 DEF NoLostWakeup
<1>6. QED
  BY <1>1, <1>3, <1>4, <1>5, Untouched DEF PoolInv

LEMMA WakeUpStep ==
    ASSUME PoolInv, NEW w \in Worker, WakeUp(w)
    PROVE  PoolInv'
<1>1. /\ state[w] = "waiting"
      /\ state' = [state EXCEPT ![w] = "ready"]
      /\ UNCHANGED <<tasks, stop, task, started, finished, notifying, pool, accepted,
                     rejected>>
  BY DEF WakeUp
<1>2. state \in [Worker -> {"ready", "waiting", "running", "returned"}]
  BY DEF PoolInv, TypeOK
<1>3. /\ In("running")' = In("running") /\ In("returned")' = In("returned")
      /\ w \in In("waiting")
      /\ Cardinality(In("ready")') = Cardinality(In("ready")) + 1
  <2>1. Moves(w, "waiting", "ready")
    BY <1>1, <1>2 DEF Moves
  <2>2. QED
    BY <2>1, MoveFacts
<1>4. TypeOK'
  BY <1>1, <1>2 DEF PoolInv, TypeOK
<1>5. NoLostWakeup'
  BY <1>1, <1>3, Counts DEF PoolInv, NoLostWakeup
<1>6. QED
  BY <1>1, <1>3, <1>4, <1>5, Untouched DEF PoolInv

LEMMA ReturnStep ==
    ASSUME PoolInv, NEW w \in Worker, Return(w)
    PROVE  PoolInv'
<1>1. /\ state[w] = "ready" /\ stop /\ tasks = <<>>
      /\ state' = [state EXCEPT ![w] = "returned"]
      /\ UNCHANGED <<tasks, stop, task, started, finished, notifying, pool, accepted,
                     rejected>>
  BY DEF Return
<1>2. state \in [Worker -> {"ready", "waiting", "running", "returned"}]
  BY DEF PoolInv, TypeOK
<1>3. /\ In("running")' = In("running")
      /\ In("returned")' = In("returned") \cup {w}
      /\ In("ready")' = In("ready") \ {w}
  <2>1. Moves(w, "ready", "returned")
    BY <1>1, <1>2 DEF Moves
  <2>2. QED
    BY <2>1, MoveFacts
<1>4. TypeOK'
  BY <1>1, <1>2 DEF PoolInv, TypeOK
<1>5. StopInv'
  BY <1>1, <1>3 DEF PoolInv, StopInv, In
<1>6. NoLostWakeup'
  <2>1. Len(tasks') = 0
    BY <1>1
  <2>2. Cardinality(notifying') \in Nat /\ Cardinality(In("ready")') \in Nat
    BY <1>1, <1>3, Counts, FewWorkers, FS_RemoveElement, FS_CardinalityType
  <2>3. QED
    BY <2>1, <2>2 DEF NoLostWakeup
<1>7. QED
  BY <1>1, <1>3, <1>4, <1>5, <1>6, Untouched DEF PoolInv

LEMMA FinishStep ==
    ASSUME PoolInv, NEW w \in Worker, Finish(w)
    PROVE  PoolInv'
<1>1. /\ state[w] = "running"
      /\ state' = [state EXCEPT ![w] = "ready"]
      /\ task' = [task EXCEPT ![w] = None]
      /\ finished' = finished \cup {task[w]}
      /\ UNCHANGED <<tasks, stop, started, notifying, pool, accepted, rejected>>
  BY DEF Finish
<1>2. /\ state \in [Worker -> {"ready", "waiting", "running", "returned"}]
      /\ task \in [Worker -> Task \cup {None}]
  BY DEF PoolInv, TypeOK
<1>3. /\ In("running")' = In("running") \ {w} /\ w \in In("running")
      /\ In("returned")' = In("returned") /\ In("waiting")' = In("waiting")
      /\ Cardinality(In("running")') = Cardinality(In("running")) - 1
      /\ Cardinality(In("ready")') = Cardinality(In("ready")) + 1
  <2>1. Moves(w, "running", "ready")
    BY <1>1, <1>2 DEF Moves
  <2>2. QED
    BY <2>1, MoveFacts
<1>4. /\ task[w] \in Among(started) \ finished
      /\ \A v \in In("running")' : task'[v] = task[v] /\ task[v] # task[w]
  BY <1>1, <1>2, <1>3 DEF PoolInv, HeldInv, In
<1>5. Among(started) \subseteq Task
  BY ElementOfSeq DEF PoolInv, TypeOK, Among
<1>6. TypeOK'
  BY <1>1, <1>2, <1>4, <1>5 DEF PoolInv, TypeOK
<1>7. HeldInv'
  BY <1>1, <1>3, <1>4 DEF PoolInv, HeldInv, Among
<1>8. DoneInv'
  BY <1>1, <1>3, <1>4 DEF PoolInv, DoneInv, Among
<1>9. CountInv'
  <2>1. IsFiniteSet(finished') /\ Cardinality(finished') = Cardinality(finished) + 1
    BY <1>1, <1>4, FS_AddElement DEF PoolInv, CountInv
  <2>2. Cardinality(finished) \in Nat /\ Cardinality(In("running")) \in Nat
    BY FewWorkers, FS_CardinalityType DEF PoolInv, CountInv
  <2>3. QED
    BY <1>1, <1>3, <2>1, <2>2 DEF PoolInv, CountInv
<1>10. NoLostWakeup'
  BY <1>1, <1>3, Counts DEF PoolInv, NoLostWakeup
<1>11. QED
  BY <1>1, <1>3, <1>6, <1>7, <1>8, <1>9, <1>10, Untouched DEF PoolInv

LEMMA StopStep ==
    ASSUME PoolInv, Stop
    PROVE  PoolInv'
<1>1. /\ pool = "alive" /\ stop' = TRUE /\ pool' = "stopping"
      /\ UNCHANGED <<tasks, state, task, started, finished, notifying, accepted, rejected>>
  BY DEF Stop, workerVars
<1>2. \A s : In(s)' = In(s)
  BY <1>1 DEF In
<1>3. TypeOK'
  BY <1>1 DEF PoolInv, TypeOK
<1>4. StopInv'
  BY <1>1, <1>2 DEF PoolInv, StopInv
<1>5. NoLostWakeup'
  BY <1>1, <1>2 DEF PoolInv, NoLostWakeup
<1>6. QED
  BY <1>1, <1>2, <1>3, <1>4, <1>5, Untouched DEF PoolInv

LEMMA NotifyAllStep ==
    ASSUME PoolInv, NotifyAll
    PROVE  PoolInv'
<1>1. /\ pool = "stopping" /\ pool' = "joining"
      /\ state' = [w \in Worker |-> IF state[w] = "waiting" THEN "ready" ELSE state[w]]
      /\ UNCHANGED <<tasks, stop, task, started, finished, notifying, accepted, rejected>>
  BY DEF NotifyAll
<1>2. state \in [Worker -> {"ready", "waiting", "running", "returned"}]
  BY DEF PoolInv, TypeOK
<1>3. /\ In("running")' = In("running") /\ In("returned")' = In("returned")
      /\ In("waiting")' = {}
  BY <1>1, <1>2 DEF In
<1>4. TypeOK'
  BY <1>1, <1>2 DEF PoolInv, TypeOK
<1>5. StopInv'
  BY <1>1, <1>3 DEF PoolInv, StopInv
<1>6. NoLostWakeup'
  BY <1>3 DEF NoLostWakeup
<1>7. QED
  BY <1>1, <1>3, <1>4, <1>5, <1>6, Untouched DEF PoolInv

LEMMA JoinStep ==
    ASSUME PoolInv, Join
    PROVE  PoolInv'
<1>1. /\ pool = "joining" /\ In("returned") = Worker /\ pool' = "joined"
      /\ UNCHANGED <<tasks, stop, state, task, started, finished, notifying, accepted, rejected>>
  BY DEF Join, workerVars
<1>2. \A s : In(s)' = In(s)
  BY <1>1 DEF In
<1>3. TypeOK'
  BY <1>1 DEF PoolInv, TypeOK
<1>4. StopInv'
  BY <1>1, <1>2 DEF PoolInv, StopInv
<1>5. NoLostWakeup'
  BY <1>1, <1>2 DEF PoolInv, NoLostWakeup
<1>6. QED
  BY <1>1, <1>2, <1>3, <1>4, <1>5, Untouched DEF PoolInv

-------------------------------------------------------------------------------
(* The invariant holds, and what follows from it.                             *)

LEMMA InitPool == Init => PoolInv
<1> SUFFICES ASSUME Init PROVE PoolInv
  OBVIOUS
<1>1. /\ tasks = <<>> /\ accepted = <<>> /\ started = <<>> /\ Len(<<>>) = 0
      /\ \A s : s # "ready" => In(s) = {}
      /\ Among(<<>>) = {}
  BY DEF Init, In, Among
<1>2. TypeOK
  BY EmptySeq DEF Init, TypeOK
<1>3. OrderInv /\ HeldInv /\ DoneInv
  BY <1>1 DEF Init, OrderInv, HeldInv, DoneInv
<1>4. CountInv /\ NotifyInv
  BY <1>1, FS_EmptySet DEF Init, CountInv, NotifyInv
<1>5. StopInv /\ NoLostWakeup
  BY <1>1 DEF Init, StopInv, NoLostWakeup
<1>6. QED
  BY <1>2, <1>3, <1>4, <1>5 DEF PoolInv

LEMMA StutterPool == PoolInv /\ UNCHANGED vars => PoolInv'
<1> SUFFICES ASSUME PoolInv, UNCHANGED vars PROVE PoolInv'
  OBVIOUS
<1>1. UNCHANGED <<tasks, stop, state, task, started, finished, notifying, pool, accepted,
                  rejected>>
  BY DEF vars, workerVars
<1>2. \A s : In(s)' = In(s)
  BY <1>1 DEF In
<1>3. TypeOK' /\ NoLostWakeup'
  BY <1>1, <1>2 DEF PoolInv, TypeOK, NoLostWakeup
<1>4. QED
  BY <1>1, <1>2, <1>3, Untouched DEF PoolInv

LEMMA NextPool == PoolInv /\ [Next]_vars => PoolInv'
<1> SUFFICES ASSUME PoolInv, Next PROVE PoolInv'
  BY StutterPool
<1>1. ASSUME NEW t \in Task, Enqueue(t) \/ EnqueueThrows(t) \/ NotifyOne(t)
      PROVE  PoolInv'
  BY <1>1, EnqueueStep, EnqueueThrowsStep, NotifyOneStep
<1>2. ASSUME NEW w \in Worker, WorkerStep(w) \/ WakeUp(w)
      PROVE  PoolInv'
  BY <1>2, TakeTaskStep, SleepStep, ReturnStep, FinishStep, WakeUpStep DEF WorkerStep
<1>3. QED
  BY <1>1, <1>2, StopStep, NotifyAllStep, JoinStep DEF Next

LEMMA PoolInvariant == Spec => []PoolInv
BY InitPool, NextPool, PTL DEF Spec

\* When the destructor returns, nothing is queued and nobody runs a task.
LEMMA JoinedFacts ==
    ASSUME PoolInv, In("returned") = Worker
    PROVE  /\ accepted = started
           /\ finished = Among(accepted)
<1>1. PICK w \in Worker : w \in In("returned")
  BY PoolAssumption
<1>2. tasks = <<>>
  BY <1>1 DEF PoolInv, StopInv
<1>3. In("running") = {}
  BY DEF In
<1>4. accepted = started
  BY <1>2, ConcatEmptySeq DEF PoolInv, OrderInv, TypeOK
<1>5. QED
  BY <1>3, <1>4 DEF PoolInv, DoneInv

\* Every variable of the pool keeps its type.
THEOREM PoolTypes == Spec => []TypeOK
BY PoolInvariant, PTL DEF PoolInv

\* enqueue() puts a task at the end, a worker takes the first: they start in the
\* order they were accepted, and each has one worker until it is finished.
THEOREM TasksStartInTurn == Spec => []EachTaskOnce
<1>1. PoolInv => EachTaskOnce
  <2> SUFFICES ASSUME PoolInv PROVE EachTaskOnce
    OBVIOUS
  <2>1. ASSUME NEW i \in 1..Len(started)
        PROVE  Cardinality({w \in Worker : state[w] = "running" /\ task[w] = started[i]})
                 = IF started[i] \in finished THEN 0 ELSE 1
    <3> DEFINE holders == {w \in Worker : state[w] = "running" /\ task[w] = started[i]}
    <3>1. holders = {w \in In("running") : task[w] = started[i]}
      BY DEF In
    <3>2. started[i] \in Among(started)
      BY DEF Among
    <3> HIDE DEF holders
    <3>3. CASE started[i] \in finished
      <4>1. holders = {}
        BY <3>1, <3>3 DEF PoolInv, HeldInv
      <4>2. QED
        BY <3>3, <4>1, FS_EmptySet DEF holders
    <3>4. CASE started[i] \notin finished
      <4>1. PICK w \in In("running") : task[w] = started[i]
        BY <3>2, <3>4 DEF PoolInv, DoneInv
      <4>2. holders = {w}
        BY <3>1, <4>1 DEF PoolInv, HeldInv
      <4>3. QED
        BY <3>4, <4>2, FS_Singleton DEF holders
    <3>5. QED
      BY <3>3, <3>4
  <2>2. QED
    BY <2>1 DEF EachTaskOnce, PoolInv, OrderInv
<1>2. QED
  BY <1>1, PoolInvariant, PTL

\* enqueue() notifies after it has let go of the mutex, a worker asks for a task
\* before it waits: no queued task is left to sleepers that nobody will wake.
THEOREM PoolNoLostWakeup == Spec => []NoLostWakeup
BY PoolInvariant, PTL DEF PoolInv

\* The destructor returns only when every task enqueue() accepted has been run.
THEOREM DestructorDrains == Spec => []JoinedIsDrained
<1>1. PoolInv => JoinedIsDrained
  BY JoinedFacts DEF PoolInv, StopInv, JoinedIsDrained, Among
<1>2. QED
  BY <1>1, PoolInvariant, PTL

-------------------------------------------------------------------------------
(* The pool implements the abstract executor.                                 *)

LEMMA SameElements == \A s : Abstract!Elements(s) = Among(s)
BY DEF Abstract!Elements, Among

LEMMA SameCardinality == \A s : Abstract!Cardinality(s) = Cardinality(s)
BY DEF Abstract!Cardinality, Cardinality

\* A worker that takes a task starts the next one, in a place that is free.
LEMMA TakeTaskStarts ==
    ASSUME PoolInv, NEW w \in Worker, TakeTask(w)
    PROVE  Abstract!Start
<1>1. /\ state[w] = "ready" /\ tasks # <<>>
      /\ started' = Append(started, Head(tasks))
      /\ UNCHANGED <<finished, pool, accepted>>
  BY DEF TakeTask
<1>2. /\ Len(started) < Len(accepted)
      /\ started' = Append(started, accepted[Len(started) + 1])
  BY <1>1, NextIsNew
<1>3. Cardinality(In("running")) < Cardinality(Worker)
  <2>1. In("running") # Worker /\ In("running") \in SUBSET Worker
    BY <1>1 DEF In
  <2>2. /\ Cardinality(In("running")) <= Cardinality(Worker)
        /\ Cardinality(In("running")) # Cardinality(Worker)
    BY <2>1, PoolAssumption, FS_Subset
  <2>3. QED
    BY <2>2, PoolAssumption, FewWorkers, FS_CardinalityType
<1>4. Len(started) - Cardinality(finished) < Cardinality(Worker)
  BY <1>3, FewWorkers, FS_CardinalityType DEF PoolInv, CountInv
<1>5. QED
  BY <1>1, <1>2, <1>4, SameCardinality DEF Abstract!Start

\* Every step of the pool is a step of the executor or none that it knows of.
LEMMA NextExecutor ==
    ASSUME PoolInv, [Next]_vars
    PROVE  [Abstract!Next]_(Abstract!execVars)
<1>1. ASSUME NEW t \in Task, Enqueue(t)
      PROVE  Abstract!Accept(t)
  BY <1>1, SameElements DEF Enqueue, Called, Among, workerVars, Abstract!Accept
<1>2. ASSUME NEW t \in Task, EnqueueThrows(t) \/ NotifyOne(t)
      PROVE  UNCHANGED Abstract!execVars
  BY <1>2 DEF EnqueueThrows, NotifyOne, workerVars, Abstract!execVars
<1>3. ASSUME NEW w \in Worker, Sleep(w) \/ Return(w) \/ WakeUp(w)
      PROVE  UNCHANGED Abstract!execVars
  BY <1>3 DEF Sleep, Return, WakeUp, Abstract!execVars
<1>4. ASSUME NEW w \in Worker, Finish(w)
      PROVE  task[w] \in Task /\ Abstract!Finish(task[w])
  <2>1. w \in In("running") /\ task[w] \in Among(started) \ finished
    BY <1>4 DEF Finish, In, PoolInv, HeldInv
  <2>2. task[w] \in Task
    BY <2>1, ElementOfSeq DEF PoolInv, TypeOK, Among
  <2>3. QED
    BY <1>4, <2>1, <2>2, SameElements DEF Finish, Abstract!Finish
<1>5. ASSUME Stop \/ NotifyAll
      PROVE  UNCHANGED Abstract!execVars
  BY <1>5 DEF Stop, NotifyAll, workerVars, Abstract!execVars
<1>6. ASSUME Join
      PROVE  Abstract!Destroy
  BY <1>6, JoinedFacts, SameElements DEF Join, workerVars, Abstract!Destroy
<1>7. ASSUME UNCHANGED vars
      PROVE  UNCHANGED Abstract!execVars
  BY <1>7 DEF vars, workerVars, Abstract!execVars
<1>8. QED
  BY <1>1, <1>2, <1>3, <1>4, <1>5, <1>6, <1>7, TakeTaskStarts
     DEF Next, WorkerStep, Abstract!Next

\* To its callers the pool is an executor: its lock, its sleepers and their
\* notifications show only as tasks that start in turn.
THEOREM PoolIsExecutor == Spec => Abstract!Spec
<1>1. Init => Abstract!Init
  BY DEF Init, Abstract!Init
<1>2. QED
  BY <1>1, PoolInvariant, NextExecutor, PTL DEF Spec, Abstract!Spec
===============================================================================
