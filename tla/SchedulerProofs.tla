--------------------------- MODULE SchedulerProofs ---------------------------
(***************************************************************************)
(* Proofs about the scheduler: its types, that its own assertions on the   *)
(* calling side never fail, that timers and entries agree, that it         *)
(* implements DelayedCalls, and that the full command queue is final.      *)
(***************************************************************************)
EXTENDS Scheduler, SequenceTheorems, FiniteSetTheorems, TLAPS

-----------------------------------------------------------------------------
(* What one command, and what the commands of one call, do to a timer      *)

\* The timers armed once command c is processed without expiring.
ApplyTo(A, c) == IF c.op = "stop" THEN A \ {c.slot} ELSE A \cup {c.slot}

\* Sending moves the first command of todo to the end of the queue, which
\* leaves the order of the unprocessed ones alone.
LEMMA SendKeepsOrder ==
  ASSUME NEW S, NEW a \in Seq(S), NEW b \in Seq(S), b # <<>>
  PROVE  /\ Append(a, Head(b)) \in Seq(S)
         /\ Tail(b) \in Seq(S)
         /\ Append(a, Head(b)) \o Tail(b) = a \o b
<1>1. Head(b) \in S /\ Tail(b) \in Seq(S) /\ Len(b) \in Nat \ {0}
  BY HeadTailProperties, EmptySeq
<1>2. Append(a, Head(b)) \in Seq(S)
  BY <1>1, AppendProperties
<1>3. Append(a, Head(b)) \o Tail(b) = (a \o <<Head(b)>>) \o Tail(b)
  BY <1>1, AppendIsConcat
<1>4. (a \o <<Head(b)>>) \o Tail(b) = a \o (<<Head(b)>> \o Tail(b))
  BY <1>1, ConcatAssociative
<1>5. <<Head(b)>> \o Tail(b) = b
  <2>1. <<Head(b)>> \o Tail(b) \in Seq(S)
    BY <1>1, ConcatProperties
  <2>2. Len(<<Head(b)>> \o Tail(b)) = Len(b)
    BY <1>1, ConcatProperties, HeadTailProperties
  <2>3. \A i \in 1..Len(b) : (<<Head(b)>> \o Tail(b))[i] = b[i]
    BY <1>1, HeadTailProperties
  <2> QED
    BY <2>1, <2>2, <2>3, SeqEqual
<1> QED
  BY <1>1, <1>2, <1>3, <1>4, <1>5

LEMMA TailOfConcat ==
  ASSUME NEW S, NEW a \in Seq(S), a # <<>>, NEW b \in Seq(S)
  PROVE  /\ a \o b \in Seq(S) /\ a \o b # <<>>
         /\ Head(a \o b) = Head(a) /\ Tail(a \o b) = Tail(a) \o b
<1>1. /\ Head(a) \in S /\ Tail(a) \in Seq(S) /\ Len(a) \in Nat \ {0} /\ Len(b) \in Nat
      /\ Len(Tail(a)) = Len(a) - 1
      /\ \A i \in 1..(Len(a) - 1) : Tail(a)[i] = a[i + 1]
  BY HeadTailProperties, EmptySeq, LenProperties
<1>2. /\ a \o b \in Seq(S) /\ Len(a \o b) = Len(a) + Len(b)
      /\ \A i \in 1..(Len(a) + Len(b)) :
            (a \o b)[i] = IF i <= Len(a) THEN a[i] ELSE b[i - Len(a)]
  BY ConcatProperties
<1>3. a \o b # <<>>
  BY <1>1, <1>2, EmptySeq
<1>4. Head(a \o b) = Head(a)
  BY <1>1, <1>2, <1>3
<1>5. /\ Tail(a \o b) \in Seq(S) /\ Len(Tail(a \o b)) = Len(a) + Len(b) - 1
      /\ \A i \in 1..(Len(a) + Len(b) - 1) : Tail(a \o b)[i] = (a \o b)[i + 1]
  BY <1>1, <1>2, <1>3, HeadTailProperties
<1>6. /\ Tail(a) \o b \in Seq(S) /\ Len(Tail(a) \o b) = Len(a) + Len(b) - 1
      /\ \A i \in 1..(Len(a) + Len(b) - 1) :
            (Tail(a) \o b)[i] = IF i <= Len(a) - 1 THEN Tail(a)[i] ELSE b[i - (Len(a) - 1)]
  BY <1>1, ConcatProperties
<1>7. ASSUME NEW i \in 1..(Len(a) + Len(b) - 1)
      PROVE  Tail(a \o b)[i] = (Tail(a) \o b)[i]
  <2>1. i + 1 \in 1..(Len(a) + Len(b)) /\ (i + 1) - Len(a) = i - (Len(a) - 1)
    BY <1>1
  <2>2. CASE i <= Len(a) - 1
    BY <1>1, <1>2, <1>5, <1>6, <2>1, <2>2
  <2>3. CASE ~(i <= Len(a) - 1)
    BY <1>1, <1>2, <1>5, <1>6, <2>1, <2>3
  <2> QED BY <2>2, <2>3
<1>8. Tail(a \o b) = Tail(a) \o b
  BY <1>5, <1>6, <1>7, SeqEqual
<1> QED BY <1>2, <1>3, <1>4, <1>8

\* Processing the first command leaves the outcome of all of them alone.
LEMMA ProcessKeepsOutcome ==
  ASSUME NEW A \in SUBSET Slots, NEW q \in Seq(Command), q # <<>>, NEW i \in Slots
  PROVE  ArmedAfter(ApplyTo(A, Head(q)), Tail(q), i) <=> ArmedAfter(A, q, i)
<1> DEFINE n == Len(q)  h == Head(q)  r == Tail(q)
<1>1. /\ n \in Nat \ {0} /\ DOMAIN q = 1..n /\ h \in Command /\ h = q[1]
      /\ r \in Seq(Command) /\ Len(r) = n - 1 /\ DOMAIN r = 1..(n - 1)
      /\ \A k \in 1..(n - 1) : r[k] = q[k + 1]
  BY HeadTailProperties, EmptySeq, LenProperties
<1> HIDE DEF n, h, r
<1>2. ASSUME ArmedAfter(ApplyTo(A, h), r, i) PROVE ArmedAfter(A, q, i)
  <2>1. ASSUME NEW k \in 1..(n - 1), r[k].slot = i, r[k].op # "stop",
               \A j \in 1..(n - 1) : j > k => r[j].slot # i
        PROVE  ArmedAfter(A, q, i)
    <3>1. k + 1 \in 1..n /\ q[k + 1].slot = i /\ q[k + 1].op # "stop"
      BY <1>1, <2>1
    <3>2. ASSUME NEW j \in 1..n, j > k + 1 PROVE q[j].slot # i
      <4>1. j - 1 \in 1..(n - 1) /\ j - 1 > k /\ q[j] = r[j - 1]
        BY <1>1, <3>2
      <4> QED BY <2>1, <4>1
    <3> QED BY <1>1, <3>1, <3>2 DEF ArmedAfter
  <2>2. ASSUME i \in ApplyTo(A, h), \A k \in 1..(n - 1) : r[k].slot # i
        PROVE  ArmedAfter(A, q, i)
    <3>1. \A k \in 1..n : k > 1 => q[k].slot # i
      <4>1. ASSUME NEW k \in 1..n, k > 1 PROVE q[k].slot # i
        <5>1. k - 1 \in 1..(n - 1) /\ q[k] = r[k - 1]
          BY <1>1, <4>1
        <5> QED BY <2>2, <5>1
      <4> QED BY <4>1
    <3>2. CASE h.slot = i
      BY <1>1, <2>2, <3>1, <3>2 DEF ArmedAfter, ApplyTo
    <3>3. CASE h.slot # i
      BY <1>1, <2>2, <3>1, <3>3 DEF ArmedAfter, ApplyTo
    <3> QED BY <3>2, <3>3
  <2> QED BY <1>1, <1>2, <2>1, <2>2 DEF ArmedAfter
<1>3. ASSUME ArmedAfter(A, q, i) PROVE ArmedAfter(ApplyTo(A, h), r, i)
  <2>1. ASSUME NEW k \in 1..n, q[k].slot = i, q[k].op # "stop",
               \A j \in 1..n : j > k => q[j].slot # i
        PROVE  ArmedAfter(ApplyTo(A, h), r, i)
    <3>1. ASSUME NEW j \in 1..(n - 1), j > k - 1 PROVE r[j].slot # i
      <4>1. j + 1 \in 1..n /\ j + 1 > k /\ r[j] = q[j + 1]
        BY <1>1, <3>1
      <4> QED BY <2>1, <4>1
    <3>2. CASE k = 1
      <4>1. i \in ApplyTo(A, h)
        BY <1>1, <2>1, <3>2 DEF ApplyTo
      <4> QED BY <1>1, <3>1, <3>2, <4>1 DEF ArmedAfter
    <3>3. CASE k > 1
      <4>1. k - 1 \in 1..(n - 1) /\ r[k - 1] = q[k]
        BY <1>1, <3>3
      <4> QED BY <1>1, <2>1, <3>1, <4>1 DEF ArmedAfter
    <3> QED BY <3>2, <3>3
  <2>2. ASSUME i \in A, \A k \in 1..n : q[k].slot # i
        PROVE  ArmedAfter(ApplyTo(A, h), r, i)
    <3>1. \A k \in 1..(n - 1) : r[k].slot # i
      BY <1>1, <2>2
    <3>2. i \in ApplyTo(A, h)
      BY <1>1, <2>2 DEF ApplyTo
    <3> QED BY <1>1, <3>1, <3>2 DEF ArmedAfter
  <2> QED BY <1>1, <1>3, <2>1, <2>2 DEF ArmedAfter
<1> QED
  BY <1>2, <1>3 DEF h, r

\* The commands of a call decide about its own slot: stopped after a lone stop,
\* armed after any sequence that ends with a start; other slots are untouched.
LEMMA CallDecides ==
  ASSUME NEW A \in SUBSET Slots, NEW q \in Seq(Command), NEW i \in Slots,
         NEW s \in Seq(Command), s # <<>>,
         \A k \in 1..Len(s) : s[k].slot = i
  PROVE  /\ ArmedAfter(A, q \o s, i) <=> s[Len(s)].op # "stop"
         /\ \A j \in Slots \ {i} : ArmedAfter(A, q \o s, j) <=> ArmedAfter(A, q, j)
<1> DEFINE n == Len(q)  m == Len(s)  u == q \o s
<1>1. /\ n \in Nat /\ m \in Nat \ {0} /\ DOMAIN q = 1..n
      /\ u \in Seq(Command) /\ DOMAIN u = 1..(n + m)
      /\ \A k \in 1..n : u[k] = q[k]
      /\ \A k \in 1..(n + m) : k > n => u[k] = s[k - n] /\ u[k].slot = i
  <2>1. n \in Nat /\ m \in Nat \ {0} /\ DOMAIN q = 1..n
    BY EmptySeq, LenProperties
  <2>2. u \in Seq(Command) /\ Len(u) = n + m
    BY ConcatProperties
  <2>3. \A k \in 1..(n + m) : u[k] = IF k <= n THEN q[k] ELSE s[k - n]
    BY ConcatProperties
  <2>4. DOMAIN u = 1..(n + m)
    BY <2>2, LenProperties
  <2> HIDE DEF n, m, u
  <2>5. ASSUME NEW k \in 1..(n + m), k > n PROVE u[k] = s[k - n] /\ u[k].slot = i
    <3>1. k - n \in 1..m /\ u[k] = s[k - n]
      BY <2>1, <2>3, <2>5
    <3> QED BY <3>1 DEF m
  <2> QED BY <2>1, <2>2, <2>3, <2>4, <2>5
<1>2. u[n + m] = s[m] /\ n + m \in 1..(n + m) /\ n + m > n
  <2> HIDE DEF n, m, u
  <2>1. n + m \in 1..(n + m) /\ n + m > n /\ (n + m) - n = m
    BY <1>1
  <2> QED BY <1>1, <2>1
<1> HIDE DEF n, m, u
<1>3. ArmedAfter(A, u, i) <=> s[m].op # "stop"
  <2>1. u[n + m].slot = i /\ \A k \in 1..(n + m) : ~(k > n + m)
    BY <1>1, <1>2
  <2>2. ASSUME s[m].op # "stop" PROVE ArmedAfter(A, u, i)
    BY <1>1, <1>2, <2>1, <2>2 DEF ArmedAfter
  <2>3. ASSUME s[m].op = "stop" PROVE ~ArmedAfter(A, u, i)
    <3>1. ~\A k \in 1..(n + m) : u[k].slot # i
      BY <1>2, <2>1
    <3>2. ASSUME NEW k \in 1..(n + m), u[k].op # "stop",
                 \A j \in 1..(n + m) : j > k => u[j].slot # i
          PROVE  FALSE
      <4>1. k # n + m
        BY <1>2, <2>3, <3>2
      <4>2. n + m > k
        BY <1>1, <4>1
      <4> QED BY <1>2, <2>1, <3>2, <4>2
    <3> QED BY <1>1, <3>1, <3>2 DEF ArmedAfter
  <2> QED BY <2>2, <2>3
<1>4. ASSUME NEW j \in Slots \ {i}
      PROVE  ArmedAfter(A, u, j) <=> ArmedAfter(A, q, j)
  <2>1. \A k \in 1..(n + m) : u[k].slot = j => k \in 1..n
    BY <1>1
  <2>2. \A k \in 1..n : k \in 1..(n + m) /\ u[k] = q[k]
    BY <1>1
  <2>3. (\A k \in 1..(n + m) : u[k].slot # j) <=> (\A k \in 1..n : q[k].slot # j)
    BY <2>1, <2>2
  <2>4. ASSUME NEW k \in 1..n
        PROVE  (\A l \in 1..(n + m) : l > k => u[l].slot # j)
                 <=> (\A l \in 1..n : l > k => q[l].slot # j)
    BY <2>1, <2>2
  <2> DEFINE Arms(k) == u[k].slot = j /\ u[k].op # "stop"
                          /\ \A l \in 1..(n + m) : l > k => u[l].slot # j
             ArmsQ(k) == q[k].slot = j /\ q[k].op # "stop"
                          /\ \A l \in 1..n : l > k => q[l].slot # j
  <2>5. \A k \in 1..n : Arms(k) <=> ArmsQ(k)
    BY <2>2, <2>4
  <2>6. \A k \in 1..(n + m) : Arms(k) => k \in 1..n
    BY <2>1
  <2>7. (\E k \in 1..(n + m) : Arms(k)) <=> (\E k \in 1..n : ArmsQ(k))
    <3> HIDE DEF Arms, ArmsQ
    <3> QED BY <2>2, <2>5, <2>6
  <2> QED BY <1>1, <2>3, <2>7 DEF ArmedAfter
<1> QED BY <1>3, <1>4 DEF u, m

-----------------------------------------------------------------------------
(* The inductive invariant                                                 *)

\* No callback is in two slots.
OneEntryPerCallback ==
  \A i, j \in Slots :
    entry[i] # None /\ entry[j] # None /\ entry[i].cb = entry[j].cb => i = j

\* Who holds the mutex, who sends, and where the daemon is.
Control ==
  /\ dpc \in {"wrapper", "clearing", "callback"} => dslot \in Slots
  /\ dpc = "clearing" => owner = Daemon /\ call[Daemon] = None
  /\ call[Daemon] # None => dpc = "callback"
  /\ \A t \in Threads : Running /\ owner = t => call[t] # None \/ dpc = "clearing"
  /\ owner = None => todo = <<>>
  /\ cb_data # None => dpc \in {"clearing", "callback"}

IndInv ==
  TypeOK /\ Control /\ OneEntryPerCallback /\ TimersFollowEntries /\ CallersNeverAbort

LEMMA NoneIsFresh ==
  /\ None \notin Threads /\ None \notin Msg /\ None \notin Calls /\ None \notin Params
  /\ None \notin Tasks /\ None # Daemon
BY SchedulerAssumption DEF Threads

LEMMA InitIndInv == Init => IndInv
<1> SUFFICES ASSUME Init PROVE IndInv
  OBVIOUS
<1>1. TypeOK
  BY SchedulerAssumption, EmptySeq DEF Init, TypeOK, Threads
<1>2. Control /\ OneEntryPerCallback /\ CallersNeverAbort
  BY NoneIsFresh
  DEF Init, Control, OneEntryPerCallback, CallersNeverAbort, Running, Threads
<1>3. TimersFollowEntries
  <2>1. Unprocessed = <<>>
    BY EmptySeq, ConcatEmptySeq DEF Init, Unprocessed
  <2>2. DOMAIN Unprocessed = {}
    BY <2>1
  <2> QED BY <2>2 DEF Init, TimersFollowEntries, WillBeArmed, ArmedAfter
<1> QED BY <1>1, <1>2, <1>3 DEF IndInv

LEMMA CmdType == \A i \in Slots, op \in {"stop", "period", "start"} : Cmd(op, i) \in Command
BY DEF Cmd, Command

LEMMA TypeStep ==
  ASSUME TypeOK, Control, [Next]_vars PROVE TypeOK'
<1>1. CASE UNCHANGED vars
  BY <1>1 DEF TypeOK, vars
<1>2. ASSUME NEW t \in Threads, NEW c \in Calls, Call(t, c) PROVE TypeOK'
  BY <1>2 DEF TypeOK, Call, timers
<1>3. ASSUME NEW t \in Threads, Cancel(t) PROVE TypeOK'
  <2>1. \A i \in Slots : <<Cmd("stop", i)>> \in Seq(Command)
    BY CmdType
  <2> QED BY <1>3, <2>1 DEF TypeOK, Cancel, TakeMutex, timers
<1>4. ASSUME NEW t \in Threads, Reschedule(t) PROVE TypeOK'
  <2>1. \A i \in Slots :
          <<Cmd("stop", i), Cmd("period", i), Cmd("start", i)>> \in Seq(Command)
    BY CmdType
  <2>2. PICK i \in Slots :
          /\ entry[i] \in Msg
          /\ entry' = [entry EXCEPT ![i].param = call[t].param]
          /\ todo' = <<Cmd("stop", i), Cmd("period", i), Cmd("start", i)>>
    BY <1>4 DEF Reschedule, IsFirst, Entries, TypeOK
  <2>3. call[t].param \in Params
    BY <1>4, NoneIsFresh DEF Reschedule, TakeMutex, TypeOK, Calls, SetCall, CancelCall
  <2>4. entry' \in [Slots -> Msg \cup {None}]
    BY <2>2, <2>3 DEF TypeOK, Msg
  <2> QED BY <1>4, <2>1, <2>2, <2>4 DEF TypeOK, Reschedule, TakeMutex, timers
<1>5. ASSUME NEW t \in Threads, Schedule(t) PROVE TypeOK'
  <2>1. \A i \in Slots : <<Cmd("period", i), Cmd("start", i)>> \in Seq(Command)
    BY CmdType
  <2>2. [cb |-> call[t].cb, param |-> call[t].param] \in Msg
    BY <1>5, NoneIsFresh
    DEF Schedule, TakeMutex, TypeOK, Calls, SetCall, CancelCall, Msg
  <2> QED BY <1>5, <2>1, <2>2 DEF TypeOK, Schedule, TakeMutex, timers
<1>6. CASE SendCommand
  <2>1. cmdq' \in Seq(Command) /\ todo' \in Seq(Command)
    BY <1>6, SendKeepsOrder DEF TypeOK, SendCommand
  <2>2. Len(cmdq') <= QueueLength
    <3>1. Head(todo) \in Command
      BY <1>6, HeadTailProperties DEF TypeOK, SendCommand
    <3>2. Len(cmdq') = Len(cmdq) + 1 /\ Len(cmdq) \in Nat
      BY <1>6, <3>1, AppendProperties, LenProperties DEF TypeOK, SendCommand
    <3> QED BY <1>6, <3>2, SchedulerAssumption DEF SendCommand
  <2> QED BY <1>6, <2>1, <2>2 DEF TypeOK, SendCommand
<1>7. ASSUME NEW t \in Threads, EndCall(t) PROVE TypeOK'
  BY <1>7 DEF TypeOK, EndCall, timers
<1>8. ASSUME NEW i \in Slots, Expire(i) PROVE TypeOK'
  BY <1>8 DEF TypeOK, Expire
<1>9. CASE ProcessCommand
  <2>1. /\ Head(cmdq) \in Command /\ Tail(cmdq) \in Seq(Command)
        /\ Len(Tail(cmdq)) <= QueueLength
    BY <1>9, HeadTailProperties, LenProperties, SchedulerAssumption
    DEF TypeOK, ProcessCommand
  <2> QED BY <1>9, <2>1 DEF TypeOK, ProcessCommand, Command
<1>10. CASE QueueEmpty
  BY <1>10 DEF TypeOK, QueueEmpty
<1>11. CASE StaleExpiry
  BY <1>11 DEF TypeOK, StaleExpiry, timers, Threads
<1>12. CASE PickMessage
  <2>1. dslot \in Slots /\ <<Cmd("stop", dslot)>> \in Seq(Command)
    BY <1>12, CmdType DEF PickMessage, Control
  <2> QED BY <1>12, <2>1 DEF TypeOK, PickMessage, Threads
<1>13. CASE CallUser
  BY <1>13 DEF TypeOK, CallUser
<1>14. CASE UserReturns
  BY <1>14 DEF TypeOK, UserReturns
<1> QED
  BY <1>1, <1>2, <1>3, <1>4, <1>5, <1>6, <1>7, <1>8, <1>9, <1>10, <1>11, <1>12,
     <1>13, <1>14 DEF Next, Enter, Serve

LEMMA ControlStep ==
  ASSUME TypeOK, Control, [Next]_vars PROVE Control'
<1>1. CASE UNCHANGED vars
  BY <1>1 DEF Control, vars, Running
<1>2. ASSUME NEW t \in Threads, NEW c \in Calls, Call(t, c) PROVE Control'
  BY <1>2, NoneIsFresh DEF Control, TypeOK, Call, timers, Running
<1>3. ASSUME NEW t \in Threads, Enter(t) PROVE Control'
  <2>1. /\ owner = None /\ call[t] # None /\ owner' = t
        /\ UNCHANGED <<call, timers>>
    BY <1>3 DEF Enter, Cancel, Reschedule, Schedule, TakeMutex
  <2> QED BY <2>1, NoneIsFresh DEF Control, timers, Running
<1>4. CASE SendCommand
  BY <1>4, EmptySeq DEF Control, TypeOK, SendCommand, Running
<1>5. ASSUME NEW t \in Threads, EndCall(t) PROVE Control'
  <2>1. dpc # "clearing"
    BY <1>5, NoneIsFresh, SchedulerAssumption DEF EndCall, Control, Threads
  <2> QED BY <1>5, <2>1, NoneIsFresh DEF Control, TypeOK, EndCall, timers, Running
<1>6. ASSUME NEW i \in Slots, Expire(i) PROVE Control'
  BY <1>6 DEF Control, Expire, Running
<1>7. CASE ProcessCommand
  <2>1. Head(cmdq) \in Command
    BY <1>7, HeadTailProperties DEF TypeOK, ProcessCommand
  <2>2. Head(cmdq).slot \in Slots
    BY <2>1 DEF Command
  <2> QED BY <1>7, <2>2 DEF Control, ProcessCommand, Running
<1>8. CASE QueueEmpty
  BY <1>8 DEF Control, QueueEmpty, Running
<1>9. CASE StaleExpiry
  BY <1>9, NoneIsFresh DEF Control, StaleExpiry, timers, Running
<1>10. CASE PickMessage
  BY <1>10, NoneIsFresh DEF Control, PickMessage, Running
<1>11. CASE CallUser
  BY <1>11, NoneIsFresh DEF Control, CallUser, Running
<1>12. CASE UserReturns
  BY <1>12, NoneIsFresh DEF Control, UserReturns, Running
<1> QED
  BY <1>1, <1>2, <1>3, <1>4, <1>5, <1>6, <1>7, <1>8, <1>9, <1>10, <1>11, <1>12
  DEF Next, Serve

\* While every slot is taken and no callback has two, every callback has one.
LEMMA NoFreeSlotNoNewCallback ==
  ASSUME TypeOK, OneEntryPerCallback, FreeSlots = {},
         NEW cb \in Callbacks
  PROVE  Entries(cb) # {}
<1> SUFFICES ASSUME Entries(cb) = {} PROVE FALSE
  OBVIOUS
<1> DEFINE f == [i \in Slots |-> entry[i].cb]
<1>1. \A i \in Slots : entry[i] \in Msg /\ entry[i] # None /\ entry[i].cb \in Callbacks \ {cb}
  BY NoneIsFresh DEF TypeOK, FreeSlots, Entries, Msg
<1>2. f \in [Slots -> Callbacks \ {cb}]
  BY <1>1
<1>3. IsFiniteSet(Slots) /\ Cardinality(Slots) = MaxEntries
  BY SchedulerAssumption, FS_Interval DEF Slots
<1>4. /\ IsFiniteSet(Callbacks \ {cb})
      /\ Cardinality(Callbacks \ {cb}) = Cardinality(Callbacks) - 1
      /\ Cardinality(Callbacks) \in Nat
  BY SchedulerAssumption, FS_RemoveElement, FS_CardinalityType
<1>5. Cardinality(Callbacks \ {cb}) < Cardinality(Slots)
  BY <1>3, <1>4, SchedulerAssumption
<1>6. PICK i, j \in Slots : i # j /\ f[i] = f[j]
  <2> HIDE DEF f
  <2> QED BY <1>2, <1>3, <1>4, <1>5, FS_PigeonHole
<1> QED BY <1>1, <1>6 DEF OneEntryPerCallback

LEMMA CallsFields ==
  ASSUME NEW c \in Calls
  PROVE  /\ c.op \in {"set", "cancel"} /\ c.cb \in Callbacks
         /\ c.op = "set" => c.param \in Params
BY DEF Calls, SetCall, CancelCall

LEMMA EntriesStep ==
  ASSUME TypeOK, Control, OneEntryPerCallback, CallersNeverAbort, [Next]_vars
  PROVE  OneEntryPerCallback' /\ CallersNeverAbort'
<1> USE DEF OneEntryPerCallback, CallersNeverAbort
<1>1. CASE UNCHANGED <<entry, aborted>>
  BY <1>1
<1>2. ASSUME NEW t \in Threads, Cancel(t) PROVE OneEntryPerCallback' /\ CallersNeverAbort'
  BY <1>2 DEF Cancel, TypeOK
<1>3. ASSUME NEW t \in Threads, Reschedule(t)
      PROVE  OneEntryPerCallback' /\ CallersNeverAbort'
  <2>1. PICK i \in Slots :
          /\ entry[i] \in Msg
          /\ entry' = [entry EXCEPT ![i].param = call[t].param]
    BY <1>3 DEF Reschedule, IsFirst, Entries, TypeOK
  <2>2. \A j \in Slots : /\ entry'[j] # None => entry[j] # None
                         /\ entry'[j] # None => entry'[j].cb = entry[j].cb
    BY <2>1, NoneIsFresh DEF TypeOK, Msg
  <2> QED BY <1>3, <2>2 DEF Reschedule
<1>4. ASSUME NEW t \in Threads, Schedule(t)
      PROVE  OneEntryPerCallback' /\ CallersNeverAbort'
  <2>1. call[t] \in Calls /\ call[t].cb \in Callbacks /\ Entries(call[t].cb) = {}
    BY <1>4, CallsFields DEF Schedule, TakeMutex, TypeOK
  <2>2. FreeSlots # {}
    BY <2>1, NoFreeSlotNoNewCallback
  <2>3. \A i \in Slots : IsFirst(i, FreeSlots) =>
          \A j \in 1..(i - 1) : j \in Slots /\ entry[j] # None /\ entry[j].cb # call[t].cb
    BY <2>1, SchedulerAssumption DEF IsFirst, FreeSlots, Entries, Slots
  <2>4. PICK i \in Slots :
          /\ entry' = [entry EXCEPT ![i] = [cb |-> call[t].cb, param |-> call[t].param]]
          /\ UNCHANGED aborted
    BY <1>4, <2>2, <2>3 DEF Schedule
  <2>5. \A j \in Slots : entry[j] # None => entry[j].cb # call[t].cb
    BY <2>1 DEF Entries
  <2>6. \A j \in Slots \ {i} : entry'[j] = entry[j]
    BY <2>4 DEF TypeOK
  <2>7. entry'[i].cb = call[t].cb
    BY <2>4 DEF TypeOK
  <2> QED BY <2>4, <2>5, <2>6, <2>7
<1>5. CASE PickMessage
  BY <1>5 DEF PickMessage, TypeOK
<1>6. CASE StaleExpiry
  BY <1>6 DEF StaleExpiry
<1> QED
  BY <1>1, <1>2, <1>3, <1>4, <1>5, <1>6
  DEF Next, Enter, Serve, Call, EndCall, SendCommand, Expire, ProcessCommand, QueueEmpty,
      CallUser, UserReturns, vars, timers

\* A call that writes slot i alone and sends commands s about it, the last of
\* which arms the timer just when it leaves the slot scheduled, keeps timers and
\* entries in step.
LEMMA EditSlot ==
  ASSUME TypeOK, TimersFollowEntries, todo = <<>>,
         NEW i \in Slots, NEW s \in Seq(Command), s # <<>>,
         \A k \in 1..Len(s) : s[k].slot = i,
         todo' = s, UNCHANGED <<armed, cmdq>>,
         \A j \in Slots \ {i} : entry'[j] = entry[j],
         entry'[i] = None <=> s[Len(s)].op = "stop",
         UNCHANGED <<dpc, dslot>> \/ (dpc = "wrapper" => dslot = i)
  PROVE  TimersFollowEntries'
<1>1. Unprocessed = cmdq /\ Unprocessed' = cmdq \o s
  BY ConcatEmptySeq DEF Unprocessed, TypeOK
<1>2. WillBeArmed(i)' <=> entry'[i] # None
  BY <1>1, CallDecides DEF WillBeArmed, TypeOK
<1>3. \A j \in Slots \ {i} : WillBeArmed(j)' <=> WillBeArmed(j)
  BY <1>1, CallDecides DEF WillBeArmed, TypeOK
<1> QED BY <1>2, <1>3 DEF TimersFollowEntries

\* A step that leaves the entries alone and the outcome of the unprocessed
\* commands for every scheduled or free slot.
LEMMA SameOutcome ==
  ASSUME TimersFollowEntries, UNCHANGED <<entry, armed>>, Unprocessed' = Unprocessed,
         dpc = "wrapper" => UNCHANGED <<dpc, dslot>>
  PROVE  TimersFollowEntries'
BY DEF TimersFollowEntries, WillBeArmed

LEMMA TimersStep ==
  ASSUME TypeOK, Control, TimersFollowEntries, [Next]_vars PROVE TimersFollowEntries'
<1>1. ASSUME UNCHANGED <<entry, todo, armed, cmdq>>, dpc = "wrapper" => UNCHANGED <<dpc, dslot>>
      PROVE  TimersFollowEntries'
  BY <1>1, SameOutcome DEF Unprocessed
<1>2. ASSUME NEW t \in Threads, Cancel(t) PROVE TimersFollowEntries'
  <2>1. CASE UNCHANGED <<entry, todo>>
    BY <1>1, <1>2, <2>1 DEF Cancel, timers
  <2>2. ASSUME NEW i \in Slots, entry' = [entry EXCEPT ![i] = None],
               todo' = <<Cmd("stop", i)>>
        PROVE  TimersFollowEntries'
    <3> DEFINE s == <<Cmd("stop", i)>>
    <3>0. Cmd("stop", i) \in Command /\ Cmd("stop", i).slot = i /\ Cmd("stop", i).op = "stop"
      BY CmdType DEF Cmd
    <3>1. s \in Seq(Command) /\ Len(s) = 1 /\ s # <<>> /\ s[1].slot = i /\ s[1].op = "stop"
      BY <3>0
    <3>2. \A k \in 1..Len(s) : s[k].slot = i
      BY <3>1
    <3>3. todo = <<>> /\ UNCHANGED <<armed, cmdq, dpc, dslot>>
      BY <1>2 DEF Cancel, TakeMutex, Control, timers
    <3>4. entry'[i] = None /\ \A j \in Slots \ {i} : entry'[j] = entry[j]
      BY <2>2 DEF TypeOK
    <3> HIDE DEF s
    <3> QED BY <2>2, <3>1, <3>2, <3>3, <3>4, EditSlot DEF s
  <2> QED BY <1>2, <2>1, <2>2 DEF Cancel
<1>3. ASSUME NEW t \in Threads, Reschedule(t) PROVE TimersFollowEntries'
  <2>1. PICK i \in Slots :
          /\ entry[i] \in Msg
          /\ entry' = [entry EXCEPT ![i].param = call[t].param]
          /\ todo' = <<Cmd("stop", i), Cmd("period", i), Cmd("start", i)>>
    BY <1>3 DEF Reschedule, IsFirst, Entries, TypeOK
  <2> DEFINE s == <<Cmd("stop", i), Cmd("period", i), Cmd("start", i)>>
  <2>2. /\ s \in Seq(Command) /\ Len(s) = 3 /\ s # <<>>
        /\ \A k \in 1..3 : s[k].slot = i
        /\ s[3].op = "start"
    BY CmdType DEF Cmd
  <2>3. todo = <<>> /\ UNCHANGED <<armed, cmdq, dpc, dslot>>
    BY <1>3 DEF Reschedule, TakeMutex, Control, timers
  <2>4. call[t].param \in Params
    BY <1>3, CallsFields DEF Reschedule, TakeMutex, TypeOK
  <2>5. entry'[i] # None /\ \A j \in Slots \ {i} : entry'[j] = entry[j]
    <3>1. entry'[i] \in Msg
      BY <2>1, <2>4 DEF TypeOK, Msg
    <3> QED BY <2>1, <3>1, NoneIsFresh DEF TypeOK
  <2> HIDE DEF s
  <2> QED BY <2>1, <2>2, <2>3, <2>5, EditSlot DEF s
<1>4. ASSUME NEW t \in Threads, Schedule(t) PROVE TimersFollowEntries'
  <2>1. CASE UNCHANGED <<entry, todo>>
    BY <1>1, <1>4, <2>1 DEF Schedule, timers
  <2>2. ASSUME NEW i \in Slots,
               entry' = [entry EXCEPT ![i] = [cb |-> call[t].cb, param |-> call[t].param]],
               todo' = <<Cmd("period", i), Cmd("start", i)>>
        PROVE  TimersFollowEntries'
    <3> DEFINE s == <<Cmd("period", i), Cmd("start", i)>>
    <3>1. /\ s \in Seq(Command) /\ Len(s) = 2 /\ s # <<>>
          /\ \A k \in 1..2 : s[k].slot = i
          /\ s[2].op = "start"
      <4>1. /\ Cmd("period", i) \in Command /\ Cmd("start", i) \in Command
            /\ Cmd("period", i).slot = i /\ Cmd("start", i).slot = i
            /\ Cmd("start", i).op = "start"
        BY CmdType DEF Cmd
      <4> QED BY <4>1
    <3>2. todo = <<>> /\ UNCHANGED <<armed, cmdq, dpc, dslot>>
      BY <1>4 DEF Schedule, TakeMutex, Control, timers
    <3>3. [cb |-> call[t].cb, param |-> call[t].param] \in Msg
      BY <1>4, CallsFields DEF Schedule, TakeMutex, TypeOK, Msg
    <3>4. entry'[i] # None /\ \A j \in Slots \ {i} : entry'[j] = entry[j]
      BY <2>2, <3>3, NoneIsFresh DEF TypeOK
    <3> HIDE DEF s
    <3> QED BY <2>2, <3>1, <3>2, <3>4, EditSlot DEF s
  <2> QED BY <1>4, <2>1, <2>2 DEF Schedule
<1>5. CASE SendCommand
  <2>1. Unprocessed' = Unprocessed
    BY <1>5, SendKeepsOrder DEF SendCommand, Unprocessed, TypeOK
  <2> QED BY <1>5, <2>1, SameOutcome DEF SendCommand
<1>6. ASSUME NEW i \in Slots, Expire(i) PROVE TimersFollowEntries'
  <2>1. \A j \in Slots \ {i} : WillBeArmed(j)' <=> WillBeArmed(j)
    BY <1>6 DEF Expire, WillBeArmed, ArmedAfter, Unprocessed
  <2>2. WillBeArmed(i)' => WillBeArmed(i)
    BY <1>6 DEF Expire, WillBeArmed, ArmedAfter, Unprocessed
  <2> QED BY <1>6, <2>1, <2>2 DEF Expire, TimersFollowEntries
<1>7. CASE ProcessCommand
  <2> DEFINE c == Head(cmdq)
  <2>1. /\ c \in Command /\ Unprocessed \in Seq(Command) /\ Unprocessed # <<>>
        /\ Head(Unprocessed) = c /\ Tail(Unprocessed) = Tail(cmdq) \o todo
    <3>1. cmdq \in Seq(Command) /\ cmdq # <<>> /\ todo \in Seq(Command)
      BY <1>7 DEF ProcessCommand, TypeOK
    <3> QED BY <3>1, TailOfConcat, HeadTailProperties, ConcatProperties DEF Unprocessed
  <2>2. Unprocessed' = Tail(Unprocessed)
    BY <1>7, <2>1 DEF ProcessCommand, Unprocessed
  <2>3. \A j \in Slots : ArmedAfter(ApplyTo(armed, c), Unprocessed', j) <=> WillBeArmed(j)
    BY <2>1, <2>2, ProcessKeepsOutcome DEF WillBeArmed, TypeOK
  <2>4. CASE armed' = ApplyTo(armed, c)
    BY <1>7, <2>3, <2>4 DEF ProcessCommand, WillBeArmed, TimersFollowEntries
  <2>5. CASE c.op = "start" /\ armed' = armed \ {c.slot} /\ dpc' = "wrapper" /\ dslot' = c.slot
    <3>1. ApplyTo(armed, c) = armed \cup {c.slot}
      BY <2>5 DEF ApplyTo
    <3>2. \A j \in Slots : WillBeArmed(j)' => WillBeArmed(j)
      BY <2>3, <2>5, <3>1 DEF WillBeArmed, ArmedAfter
    <3>3. \A j \in Slots : j # c.slot => (WillBeArmed(j)' <=> WillBeArmed(j))
      BY <2>3, <2>5, <3>1 DEF WillBeArmed, ArmedAfter
    <3> QED BY <1>7, <2>5, <3>2, <3>3 DEF ProcessCommand, TimersFollowEntries
  <2> QED BY <1>7, <2>1, <2>4, <2>5 DEF ProcessCommand, ApplyTo
<1>8. CASE PickMessage
  <2> DEFINE i == dslot  s == <<Cmd("stop", dslot)>>
  <2>1. i \in Slots
    BY <1>8 DEF PickMessage, Control
  <2>2. s \in Seq(Command) /\ Len(s) = 1 /\ s # <<>> /\ s[1].slot = i /\ s[1].op = "stop"
    <3>1. Cmd("stop", i) \in Command /\ Cmd("stop", i).slot = i /\ Cmd("stop", i).op = "stop"
      BY <2>1, CmdType DEF Cmd
    <3> QED BY <3>1
  <2>3. \A k \in 1..Len(s) : s[k].slot = i
    BY <2>2
  <2>4. todo = <<>> /\ UNCHANGED <<armed, cmdq>> /\ todo' = s
    BY <1>8 DEF PickMessage, Control
  <2>5. entry'[i] = None /\ \A j \in Slots \ {i} : entry'[j] = entry[j]
    BY <1>8, <2>1 DEF PickMessage, TypeOK
  <2>6. dpc = "wrapper" => dslot = i
    OBVIOUS
  <2> HIDE DEF s, i
  <2> QED BY <2>1, <2>2, <2>3, <2>4, <2>5, <2>6, EditSlot
<1> QED
  BY <1>1, <1>2, <1>3, <1>4, <1>5, <1>6, <1>7, <1>8
  DEF Next, Enter, Serve, Call, EndCall, QueueEmpty, StaleExpiry, CallUser, UserReturns,
      vars, timers

THEOREM Invariance == Spec => []IndInv
<1>1. ASSUME IndInv, [Next]_vars PROVE IndInv'
  BY <1>1, TypeStep, ControlStep, EntriesStep, TimersStep DEF IndInv
<1> QED BY InitIndInv, <1>1, PTL DEF Spec

-----------------------------------------------------------------------------
(* The theorems                                                            *)

(* Every variable of the scheduler keeps its type. *)
THEOREM TypeCorrect == Spec => []TypeOK
BY Invariance, PTL DEF IndInv

(* The callers' assertions, scheduler.c:96 and :120, never fail. *)
THEOREM CallersSafe == Spec => []CallersNeverAbort
BY Invariance, PTL DEF IndInv

(* No request is lost and no timer runs for a free slot, for any number of  *)
(* tasks, callbacks, slots and queue places.                                *)
THEOREM TimersCorrect == Spec => []TimersFollowEntries
BY Invariance, PTL DEF IndInv

(* A wedged scheduler has no step that frees it. *)
LEMMA WedgedStep ==
  ASSUME TypeOK, Control, [Next]_vars, Wedged PROVE Wedged'
<1>1. CASE UNCHANGED vars
  BY <1>1 DEF Wedged, vars
<1>2. ASSUME Running, ~UNCHANGED vars PROVE Wedged'
  <2>1. owner # None /\ todo # <<>> /\ Len(cmdq) = QueueLength
    BY DEF Wedged, Control
  <2>2. dpc \in {"wrapper", "clearing", "callback"}
    BY <1>2, SchedulerAssumption DEF Wedged, Control, Threads
  <2>3. dpc = "callback" => call[Daemon] # None
    BY <1>2, SchedulerAssumption DEF Wedged, Control, Threads
  <2>4. ~(Len(cmdq) < QueueLength)
    BY <2>1, SchedulerAssumption
  <2>5. PICK t \in Threads, c \in Calls : Call(t, c)
    BY <1>2, <2>1, <2>2, <2>3, <2>4
    DEF Next, Enter, Serve, Cancel, Reschedule, Schedule, TakeMutex, EndCall, SendCommand,
        Expire, ProcessCommand, QueueEmpty, StaleExpiry, PickMessage, CallUser, UserReturns
  <2>6. UNCHANGED <<cmdq, todo, dpc, owner>>
    BY <2>5 DEF Call, timers
  <2>7. call[Daemon] # None => call'[Daemon] # None
    BY <2>5, NoneIsFresh DEF Call, TypeOK
  <2> QED BY <2>6, <2>7 DEF Wedged
<1>3. CASE ~Running
  BY <1>1, <1>3
  DEF Next, Enter, Serve, Call, Cancel, Reschedule, Schedule, TakeMutex, EndCall,
      SendCommand, Expire, ProcessCommand, QueueEmpty, StaleExpiry, PickMessage, CallUser,
      UserReturns
<1> QED BY <1>1, <1>2, <1>3

(* A full command queue that nobody can read is final (scheduler.c:37,     *)
(* 74-80 and 109-112 wait without a timeout).                              *)
THEOREM WedgedIsFinal == Spec => WedgedForever
<1>1. ASSUME IndInv, [Next]_vars PROVE [Wedged => Wedged']_vars
  BY <1>1, WedgedStep DEF IndInv
<1> QED BY Invariance, <1>1, PTL DEF Spec, WedgedForever

-----------------------------------------------------------------------------
(* The scheduler implements DelayedCalls                                   *)

\* With one entry per callback, the parameters it is requested with are those
\* of the entry.
LEMMA RequestedIs ==
  ASSUME TypeOK, OneEntryPerCallback, NEW cb \in Callbacks
  PROVE  /\ \A i \in Slots : entry[i] # None /\ entry[i].cb = cb => Requested(cb) = entry[i].param
         /\ (\A i \in Slots : entry[i] = None \/ entry[i].cb # cb) => Requested(cb) = None
<1>1. ASSUME NEW i \in Slots, entry[i] # None, entry[i].cb = cb
      PROVE  Requested(cb) = entry[i].param
  <2>1. i \in Entries(cb) /\ \A j \in Slots : j \in Entries(cb) => j = i
    BY <1>1 DEF Entries, OneEntryPerCallback
  <2>2. (CHOOSE j \in Slots : j \in Entries(cb)) = i
    BY <2>1
  <2> QED BY <2>1, <2>2 DEF Requested
<1>2. ASSUME \A i \in Slots : entry[i] = None \/ entry[i].cb # cb
      PROVE  Requested(cb) = None
  BY <1>2 DEF Requested, Entries
<1> QED BY <1>1, <1>2

\* A step that changes slot i only changes what the callbacks that were or are
\* in it are requested with.
LEMMA RequestedElsewhere ==
  ASSUME TypeOK, OneEntryPerCallback, TypeOK', OneEntryPerCallback',
         NEW i \in Slots, \A j \in Slots \ {i} : entry'[j] = entry[j],
         NEW cb \in Callbacks,
         entry[i] = None \/ entry[i].cb # cb,
         entry'[i] = None \/ entry'[i].cb # cb
  PROVE  Requested(cb)' = Requested(cb)
<1>1. CASE \E j \in Slots : entry[j] # None /\ entry[j].cb = cb
  <2>1. PICK j \in Slots : entry[j] # None /\ entry[j].cb = cb
    BY <1>1
  <2>2. entry'[j] = entry[j]
    BY <2>1
  <2>3. Requested(cb) = entry[j].param
    BY <2>1, RequestedIs
  <2>4. Requested(cb)' = entry'[j].param
    BY <2>1, <2>2 DEF Requested, Entries, OneEntryPerCallback
  <2> QED BY <2>2, <2>3, <2>4
<1>2. CASE ~\E j \in Slots : entry[j] # None /\ entry[j].cb = cb
  BY <1>2 DEF Requested, Entries
<1> QED BY <1>1, <1>2

LEMMA RefinementStep ==
  ASSUME IndInv, IndInv', [Next]_vars PROVE [Promise!Next]_(Promise!vars)
<1> DEFINE req == [cb \in Callbacks |-> Requested(cb)]
<1> USE DEF IndInv
<1>1. ASSUME UNCHANGED <<entry, cb_data>> PROVE UNCHANGED Promise!vars
  <2>1. \A cb \in Callbacks : Requested(cb)' = Requested(cb)
    BY <1>1 DEF Requested, Entries
  <2> QED BY <1>1, <2>1 DEF Promise!vars
<1>2. ASSUME NEW i \in Slots, NEW cb \in Callbacks, NEW v,
             \A j \in Slots \ {i} : entry'[j] = entry[j],
             entry[i] = None \/ entry[i].cb = cb,
             entry'[i] = None \/ entry'[i].cb = cb,
             Requested(cb)' = v
      PROVE  req' = [req EXCEPT ![cb] = v]
  <2>1. \A d \in Callbacks \ {cb} : Requested(d)' = Requested(d)
    BY <1>2, RequestedElsewhere
  <2> QED BY <1>2, <2>1
<1>3. ASSUME NEW t \in Threads, Cancel(t) PROVE [Promise!Next]_(Promise!vars)
  <2>1. PICK cb \in Callbacks : cb = call[t].cb
    BY <1>3, CallsFields DEF Cancel, TakeMutex, TypeOK
  <2>2. CASE UNCHANGED entry
    BY <1>1, <1>3, <2>2 DEF Cancel, timers
  <2>3. ASSUME NEW i \in Slots, i \in Entries(cb), entry' = [entry EXCEPT ![i] = None]
        PROVE  Promise!Cancel(cb)
    <3>1. entry[i].cb = cb /\ entry'[i] = None /\ \A j \in Slots \ {i} : entry'[j] = entry[j]
      BY <2>3 DEF Entries, TypeOK
    <3>2. \A j \in Slots : entry'[j] = None \/ entry'[j].cb # cb
      BY <2>3, <3>1 DEF Entries, OneEntryPerCallback
    <3>3. Requested(cb)' = None
      BY <3>2 DEF Requested, Entries
    <3>4. req' = [req EXCEPT ![cb] = None]
      BY <1>2, <2>1, <3>1, <3>3
    <3> QED BY <1>3, <3>4 DEF Promise!Cancel, Cancel, timers
  <2> QED BY <1>3, <2>1, <2>2, <2>3 DEF Cancel, IsFirst, Promise!Next
<1>4. ASSUME NEW t \in Threads, NEW i \in Slots,
             call[t].cb \in Callbacks, call[t].param \in Params,
             entry[i] = None \/ entry[i].cb = call[t].cb,
             entry'[i] = [cb |-> call[t].cb, param |-> call[t].param],
             \A j \in Slots \ {i} : entry'[j] = entry[j],
             UNCHANGED cb_data
      PROVE  Promise!Next
  <2> PICK cb \in Callbacks, p \in Params : cb = call[t].cb /\ p = call[t].param
    BY <1>4
  <2>1. entry'[i] # None /\ entry'[i].cb = cb /\ entry'[i].param = p
    <3>1. entry'[i] \in Msg
      BY <1>4 DEF Msg
    <3> QED BY <1>4, <3>1, NoneIsFresh
  <2>2. Requested(cb)' = p
    <3>1. i \in Entries(cb)' /\ \A j \in Slots : j \in Entries(cb)' => j = i
      BY <2>1 DEF Entries, OneEntryPerCallback
    <3>2. (CHOOSE j \in Slots : j \in Entries(cb)') = i
      BY <3>1
    <3> QED BY <2>1, <3>1, <3>2 DEF Requested
  <2>3. req' = [req EXCEPT ![cb] = p]
    BY <1>2, <1>4, <2>1, <2>2
  <2>4. Promise!Set(cb, p)
    BY <1>4, <2>3 DEF Promise!Set
  <2> QED BY <1>4, <2>4 DEF Promise!Next
<1>5. ASSUME NEW t \in Threads, Reschedule(t) PROVE Promise!Next
  <2>1. call[t].cb \in Callbacks /\ call[t].param \in Params /\ UNCHANGED cb_data
    BY <1>5, CallsFields DEF Reschedule, TakeMutex, TypeOK, timers
  <2>2. PICK i \in Slots :
          /\ entry[i] \in Msg /\ entry[i].cb = call[t].cb
          /\ entry' = [entry EXCEPT ![i].param = call[t].param]
    BY <1>5 DEF Reschedule, IsFirst, Entries, TypeOK
  <2>3. /\ entry'[i] = [entry[i] EXCEPT !.param = call[t].param]
        /\ \A j \in Slots \ {i} : entry'[j] = entry[j]
    BY <2>2 DEF TypeOK
  <2>4. entry'[i] = [cb |-> call[t].cb, param |-> call[t].param]
    BY <2>1, <2>2, <2>3 DEF Msg
  <2> QED BY <1>4, <2>1, <2>2, <2>3, <2>4
<1>6. ASSUME NEW t \in Threads, Schedule(t) PROVE [Promise!Next]_(Promise!vars)
  <2>1. call[t].cb \in Callbacks /\ call[t].param \in Params /\ UNCHANGED cb_data
    BY <1>6, CallsFields DEF Schedule, TakeMutex, TypeOK, timers
  <2>2. CASE UNCHANGED entry
    BY <1>1, <2>1, <2>2
  <2>3. ASSUME NEW i \in Slots, i \in FreeSlots,
               entry' = [entry EXCEPT ![i] = [cb |-> call[t].cb, param |-> call[t].param]]
        PROVE  Promise!Next
    <3>1. /\ entry[i] = None
          /\ entry'[i] = [cb |-> call[t].cb, param |-> call[t].param]
          /\ \A j \in Slots \ {i} : entry'[j] = entry[j]
      BY <2>3 DEF FreeSlots, TypeOK
    <3> QED BY <1>4, <2>1, <3>1
  <2> QED BY <1>6, <2>2, <2>3 DEF Schedule, IsFirst
<1>7. CASE PickMessage
  <2>0. dslot \in Slots /\ entry[dslot] \in Msg /\ entry[dslot] # None
    BY <1>7 DEF PickMessage, Control, TypeOK
  <2>1. PICK i \in Slots, cb \in Callbacks :
          /\ i = dslot /\ cb = entry[i].cb
          /\ entry[i] \in Msg /\ entry[i] # None
    BY <2>0 DEF Msg
  <2>2. cb_data = None /\ cb_data' = [cb |-> cb, param |-> entry[i].param]
    BY <1>7, <2>1 DEF PickMessage, Control, Msg
  <2>3. Requested(cb) = entry[i].param /\ entry[i].param \in Params
    BY <2>1, RequestedIs DEF Msg
  <2>4. entry'[i] = None /\ \A j \in Slots \ {i} : entry'[j] = entry[j]
    BY <1>7, <2>1 DEF PickMessage, TypeOK
  <2>5. \A j \in Slots : entry'[j] = None \/ entry'[j].cb # cb
    BY <2>1, <2>4 DEF OneEntryPerCallback
  <2>6. Requested(cb)' = None
    BY <2>5 DEF Requested, Entries
  <2>7. req' = [req EXCEPT ![cb] = None]
    BY <1>2, <2>1, <2>4, <2>6
  <2>8. Promise!Fire(cb)
    BY <2>1, <2>2, <2>3, <2>7, NoneIsFresh DEF Promise!Fire
  <2> QED BY <2>1, <2>8 DEF Promise!Next
<1>8. CASE UserReturns
  <2>1. \A cb \in Callbacks : Requested(cb)' = Requested(cb)
    BY <1>8 DEF UserReturns, Requested, Entries
  <2>2. Promise!Return
    BY <1>8, <2>1 DEF UserReturns, Promise!Return
  <2> QED BY <2>2 DEF Promise!Next
<1> QED
  BY <1>1, <1>3, <1>5, <1>6, <1>7, <1>8
  DEF Next, Enter, Serve, Call, EndCall, SendCommand, Expire, ProcessCommand, QueueEmpty,
      StaleExpiry, CallUser, vars, timers

(* The scheduler keeps what em/scheduler.h promises, apart from the delays: *)
(* only requested callbacks are called, once per request and one at a time, *)
(* with the parameters of the last request, and none that was cancelled     *)
(* before its message was picked.                                           *)
THEOREM ImplementsDelayedCalls == Spec => KeepsPromise
<1>1. Init => Promise!Init
  BY DEF Init, Promise!Init, Requested, Entries
<1> QED
  BY <1>1, Invariance, RefinementStep, PTL DEF Spec, KeepsPromise, Promise!Spec
=============================================================================
