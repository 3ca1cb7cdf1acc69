------------------------ MODULE RemoteChangesProofs ------------------------
(***************************************************************************)
(* Theorems about RemoteChanges, for any instances, threads, changes,      *)
(* failures and sizes of the two queues: what an announcement is on its    *)
(* way from the writer to the subscribers of an instance, that it is in    *)
(* one place at a time (HeardOnce), and that the announcement of the last  *)
(* change is never overtaken unnoticed (Converged).                        *)
(***************************************************************************)
EXTENDS RemoteChanges, SequenceTheorems, TLAPS

Idle == [read |-> 0, flush |-> <<>>]

Elems(s) == {s[k] : k \in 1..Len(s)}

\* `n` is an element of `s`, and it is one only once.
Has(s, n)  == \E k \in 1..Len(s) : s[k] = n
Once(s, n) == \A k, l \in 1..Len(s) : s[k] = n /\ s[l] = n => k = l

\* The message at `k` tells instance `i` of change `n`; some message does; only
\* one does; one behind position `k` does.
News(m, i, n) == m.change = n /\ Tells(m, i)
HasNews(s, i, n)  == \E k \in 1..Len(s) : News(s[k], i, n)
OnceNews(s, i, n) == \A k, l \in 1..Len(s) : News(s[k], i, n) /\ News(s[l], i, n) => k = l
NewsBehind(s, i, n, k) == \E l \in 1..Len(s) : k < l /\ News(s[l], i, n)

\* Change `n` is still in the hands of the instance that made it.
Working == {"publish", "notify", "enqueue"}
InThread(n) == \E t \in Threads : thread[t].pc \in Working /\ thread[t].change = n
InQueue(n)  == \E j \in Instances : Has(retry[j], n) \/ Has(loop[j].flush, n)

AtSource(n) == InThread(n) \/ InQueue(n)
Unpublished(n) == \E t \in Threads : thread[t].pc = "publish" /\ thread[t].change = n

\* Instance `i` is still to be told of change `n` by its writer.
ToTell(i, n) == IF by[n] = i THEN Unpublished(n) ELSE AtSource(n)
----------------------------------------------------------------------------
(* The inductive invariant.                                                *)

\* A change has one thread, and then one place in the queue of its instance.
SourceInv ==
    /\ \A t \in Threads : thread[t].pc # "new" =>
         /\ thread[t].at \in Instances /\ thread[t].change \in 1..row
         /\ by[thread[t].change] = thread[t].at
    /\ \A t, u \in Threads :
         thread[t].pc # "new" /\ thread[u].pc # "new" /\ thread[t].change = thread[u].change => t = u
    /\ \A j \in Instances : \A n \in Changes :
         /\ Has(retry[j], n) \/ Has(loop[j].flush, n) => n <= row /\ by[n] = j /\ ~InThread(n)
         /\ Once(retry[j], n) /\ Once(loop[j].flush, n)
         /\ ~(Has(retry[j], n) /\ Has(loop[j].flush, n))

\* What is on its way names a change and who made it.
MessageInv ==
    \A i \in Instances :
        /\ \A m \in Elems(wire[i]) \cup Elems(chan[i]) : m.change <= row /\ m.from = by[m.change]
        /\ \A m \in Elems(chan[i]) : Tells(m, i)
        /\ \A n \in Elems(heard[i]) : n <= row
        /\ loop[i].read <= row
        /\ loop[i].read # 0 => loop[i].read \in again[i]

\* Unless an instance may be told twice, a change is in one place on its way to it.
OncePlace(i, n) ==
    /\ OnceNews(wire[i], i, n) /\ OnceNews(chan[i], i, n) /\ Once(heard[i], n)
    /\ ~(ToTell(i, n) /\ (HasNews(wire[i], i, n) \/ HasNews(chan[i], i, n) \/ Has(heard[i], n)))
    /\ ~(HasNews(wire[i], i, n) /\ (HasNews(chan[i], i, n) \/ Has(heard[i], n)))
    /\ ~(HasNews(chan[i], i, n) /\ Has(heard[i], n))

OnceInv == \A i \in Instances : \A n \in 1..row : n \in again[i] \/ OncePlace(i, n)

\* A message without its row is no news, and one of the last change that will be
\* read again finds the row.
Cargo(m, i) ==
    /\ Tells(m, i) /\ m.op = "bare" => m.change \in lost[i]
    /\ Tells(m, i) /\ m.op = "write" /\ m.via = "trigger" /\ m.change = row => alive

CargoInv ==
    \A i \in Instances : \A m \in Elems(wire[i]) \cup Elems(chan[i]) : Cargo(m, i)

\* The last change is given up, still with its writer, or was this instance's own
\* and is delivered: whatever older one comes now is known to be late.
Safe(i) ==
    row \in lost[i] \/ ToTell(i, row) \/ (by[row] = i /\ Has(heard[i], row))

\* An older change that is not known to be late has the last one behind it.
WireOrder(i) ==
    \A k \in 1..Len(wire[i]) :
        Tells(wire[i][k], i) /\ wire[i][k].change \notin {row} \cup late[i] =>
            Safe(i) \/ NewsBehind(wire[i], i, row, k)
ChanOrder(i) ==
    \A k \in 1..Len(chan[i]) :
        chan[i][k].change \notin {row} \cup late[i] =>
            Safe(i) \/ HasNews(wire[i], i, row) \/ NewsBehind(chan[i], i, row, k)
ReadOrder(i) ==
    loop[i].read \notin {0, row} \cup late[i] =>
        Safe(i) \/ HasNews(wire[i], i, row) \/ HasNews(chan[i], i, row)

OrderInv == \A i \in Instances : WireOrder(i) /\ ChanOrder(i) /\ ReadOrder(i)

\* The last change is on its way, given up, or what was heard last.
LastHeard(i) == heard[i] # <<>> /\ heard[i][Len(heard[i])] \in {row} \cup late[i]
Arrival(i) ==
    \/ row \in {0} \cup lost[i]
    \/ ToTell(i, row) \/ HasNews(wire[i], i, row) \/ HasNews(chan[i], i, row)
    \/ loop[i].read = row
    \/ LastHeard(i)

ArrivalInv == \A i \in Instances : Arrival(i)

IInv == TypeOK /\ SourceInv /\ MessageInv /\ OnceInv /\ CargoInv /\ OrderInv /\ ArrivalInv
----------------------------------------------------------------------------
(* Sequences.                                                              *)

\* The elements of Append(s, x) and of Tail(s).
LEMMA AppendElements ==
    ASSUME NEW S, NEW s \in Seq(S), NEW x \in S
    PROVE  /\ Append(s, x) \in Seq(S) /\ Append(s, x) # <<>>
           /\ Len(Append(s, x)) = Len(s) + 1 /\ Len(s) \in Nat
           /\ \A k \in 1..Len(s) : Append(s, x)[k] = s[k]
           /\ Append(s, x)[Len(s) + 1] = x
  BY AppendProperties, LenProperties

LEMMA TailElements ==
    ASSUME NEW S, NEW s \in Seq(S), s # <<>>
    PROVE  /\ Tail(s) \in Seq(S) /\ Len(s) \in Nat \ {0}
           /\ Len(Tail(s)) = Len(s) - 1
           /\ \A k \in 1..Len(s) - 1 : Tail(s)[k] = s[k + 1]
           /\ Head(s) = s[1] /\ Head(s) \in S
  BY HeadTailProperties, LenProperties, EmptySeq

\* The elements as a set.
LEMMA ElemsAppend ==
    ASSUME NEW S, NEW s \in Seq(S), NEW x \in S
    PROVE  Elems(Append(s, x)) = Elems(s) \cup {x}
<1>1. /\ Len(Append(s, x)) = Len(s) + 1 /\ Len(s) \in Nat
      /\ \A k \in 1..Len(s) : Append(s, x)[k] = s[k]
      /\ Append(s, x)[Len(s) + 1] = x
  BY AppendElements
<1>2. 1..Len(s) + 1 = 1..Len(s) \cup {Len(s) + 1}  BY <1>1
<1>. QED  BY <1>1, <1>2 DEF Elems

LEMMA ElemsTail ==
    ASSUME NEW S, NEW s \in Seq(S), s # <<>>
    PROVE  Elems(s) = Elems(Tail(s)) \cup {Head(s)}
<1>1. /\ Len(s) \in Nat \ {0} /\ Len(Tail(s)) = Len(s) - 1
      /\ \A k \in 1..Len(s) - 1 : Tail(s)[k] = s[k + 1]
      /\ Head(s) = s[1]
  BY TailElements
<1>2. ASSUME NEW k \in 1..Len(s) PROVE s[k] \in Elems(Tail(s)) \cup {Head(s)}
  <2>1. CASE k = 1  BY <2>1, <1>1
  <2>2. CASE k # 1
    <3>1. k - 1 \in 1..Len(Tail(s)) /\ Tail(s)[k - 1] = s[k]  BY <2>2, <1>1
    <3>. QED  BY <3>1 DEF Elems
  <2>. QED  BY <2>1, <2>2
<1>3. ASSUME NEW k \in 1..Len(Tail(s)) PROVE Tail(s)[k] \in Elems(s)
  <2>1. k + 1 \in 1..Len(s) /\ Tail(s)[k] = s[k + 1]  BY <1>1
  <2>. QED  BY <2>1 DEF Elems
<1>4. Head(s) \in Elems(s)
  <2>1. 1 \in 1..Len(s)  BY <1>1
  <2>. QED  BY <2>1, <1>1 DEF Elems
<1>. QED  BY <1>2, <1>3, <1>4 DEF Elems

LEMMA ElemsEmpty == Elems(<<>>) = {}
  BY DEF Elems

LEMMA ElemsTyped == ASSUME NEW S, NEW s \in Seq(S) PROVE Elems(s) \subseteq S
  BY ElementOfSeq DEF Elems

\* What is in a queue after an element joins it, and after one leaves it.
LEMMA HasAppend ==
    ASSUME NEW S, NEW s \in Seq(S), NEW x \in S, NEW n
    PROVE  /\ Has(Append(s, x), n) <=> Has(s, n) \/ x = n
           /\ Once(s, n) /\ ~(Has(s, n) /\ x = n) => Once(Append(s, x), n)
<1>. DEFINE a == Append(s, x)
<1>1. /\ Len(a) = Len(s) + 1 /\ Len(s) \in Nat
      /\ \A k \in 1..Len(s) : a[k] = s[k]
      /\ a[Len(s) + 1] = x
  BY AppendElements
<1>2. \A k \in 1..Len(a) : k \in 1..Len(s) \/ k = Len(s) + 1  BY <1>1
<1>3. Len(s) + 1 \in 1..Len(a) /\ 1..Len(s) \subseteq 1..Len(a)  BY <1>1
<1>. HIDE DEF a
<1>4. Has(a, n) <=> Has(s, n) \/ x = n  BY <1>1, <1>2, <1>3 DEF Has
<1>5. ASSUME Once(s, n), ~(Has(s, n) /\ x = n) PROVE Once(a, n)
  <2>. SUFFICES ASSUME NEW k \in 1..Len(a), NEW l \in 1..Len(a), a[k] = n, a[l] = n PROVE k = l
    BY DEF Once
  <2>1. CASE k \in 1..Len(s) /\ l \in 1..Len(s)  BY <2>1, <1>1, <1>5 DEF Once
  <2>2. CASE k = Len(s) + 1 /\ l \in 1..Len(s)  BY <2>2, <1>1, <1>5 DEF Has
  <2>3. CASE l = Len(s) + 1 /\ k \in 1..Len(s)  BY <2>3, <1>1, <1>5 DEF Has
  <2>. QED  BY <2>1, <2>2, <2>3, <1>2
<1>. QED  BY <1>4, <1>5 DEF a

LEMMA HasTail ==
    ASSUME NEW S, NEW s \in Seq(S), s # <<>>, NEW n
    PROVE  /\ Has(s, n) <=> Has(Tail(s), n) \/ Head(s) = n
           /\ Once(s, n) => Once(Tail(s), n) /\ ~(Has(Tail(s), n) /\ Head(s) = n)
<1>. DEFINE a == Tail(s)
<1>1. /\ Len(s) \in Nat \ {0} /\ Len(a) = Len(s) - 1
      /\ \A k \in 1..Len(s) - 1 : a[k] = s[k + 1]
      /\ Head(s) = s[1]
  BY TailElements
<1>2. \A k \in 1..Len(s) : k = 1 \/ (k - 1 \in 1..Len(a) /\ a[k - 1] = s[k])  BY <1>1
<1>3. \A k \in 1..Len(a) : k + 1 \in 1..Len(s) /\ a[k] = s[k + 1] /\ k + 1 # 1  BY <1>1
<1>4. 1 \in 1..Len(s)  BY <1>1
<1>. HIDE DEF a
<1>5. Has(s, n) <=> Has(a, n) \/ Head(s) = n  BY <1>1, <1>2, <1>3, <1>4 DEF Has
<1>6. ASSUME Once(s, n) PROVE Once(a, n) /\ ~(Has(a, n) /\ Head(s) = n)
  <2>1. ASSUME NEW k \in 1..Len(a), NEW l \in 1..Len(a), a[k] = n, a[l] = n PROVE k = l
    <3>1. k + 1 = l + 1  BY <2>1, <1>3, <1>6 DEF Once
    <3>. QED  BY <3>1, <1>1
  <2>2. ASSUME NEW k \in 1..Len(a), a[k] = n, Head(s) = n PROVE FALSE
    BY <2>2, <1>1, <1>3, <1>4, <1>6 DEF Once
  <2>. QED  BY <2>1, <2>2 DEF Once, Has
<1>. QED  BY <1>5, <1>6 DEF a

\* The same for what the messages of a channel tell.
LEMMA NewsAppend ==
    ASSUME NEW S, NEW s \in Seq(S), NEW x \in S, NEW i, NEW n
    PROVE  /\ HasNews(Append(s, x), i, n) <=> HasNews(s, i, n) \/ News(x, i, n)
           /\ OnceNews(s, i, n) /\ ~(HasNews(s, i, n) /\ News(x, i, n)) => OnceNews(Append(s, x), i, n)
<1>. DEFINE a == Append(s, x)
<1>1. /\ Len(a) = Len(s) + 1 /\ Len(s) \in Nat
      /\ \A k \in 1..Len(s) : a[k] = s[k]
      /\ a[Len(s) + 1] = x
  BY AppendElements
<1>2. \A k \in 1..Len(a) : k \in 1..Len(s) \/ k = Len(s) + 1  BY <1>1
<1>3. Len(s) + 1 \in 1..Len(a) /\ 1..Len(s) \subseteq 1..Len(a)  BY <1>1
<1>. HIDE DEF a
<1>4. HasNews(a, i, n) <=> HasNews(s, i, n) \/ News(x, i, n)  BY <1>1, <1>2, <1>3 DEF HasNews
<1>5. ASSUME OnceNews(s, i, n), ~(HasNews(s, i, n) /\ News(x, i, n)) PROVE OnceNews(a, i, n)
  <2>. SUFFICES ASSUME NEW k \in 1..Len(a), NEW l \in 1..Len(a), News(a[k], i, n), News(a[l], i, n)
                PROVE  k = l
    BY DEF OnceNews
  <2>1. CASE k \in 1..Len(s) /\ l \in 1..Len(s)  BY <2>1, <1>1, <1>5 DEF OnceNews
  <2>2. CASE k = Len(s) + 1 /\ l \in 1..Len(s)  BY <2>2, <1>1, <1>5 DEF HasNews
  <2>3. CASE l = Len(s) + 1 /\ k \in 1..Len(s)  BY <2>3, <1>1, <1>5 DEF HasNews
  <2>. QED  BY <2>1, <2>2, <2>3, <1>2
<1>. QED  BY <1>4, <1>5 DEF a

LEMMA NewsTail ==
    ASSUME NEW S, NEW s \in Seq(S), s # <<>>, NEW i, NEW n
    PROVE  /\ HasNews(s, i, n) <=> HasNews(Tail(s), i, n) \/ News(Head(s), i, n)
           /\ OnceNews(s, i, n) => /\ OnceNews(Tail(s), i, n)
                                   /\ ~(HasNews(Tail(s), i, n) /\ News(Head(s), i, n))
<1>. DEFINE a == Tail(s)
<1>1. /\ Len(s) \in Nat \ {0} /\ Len(a) = Len(s) - 1
      /\ \A k \in 1..Len(s) - 1 : a[k] = s[k + 1]
      /\ Head(s) = s[1]
  BY TailElements
<1>2. \A k \in 1..Len(s) : k = 1 \/ (k - 1 \in 1..Len(a) /\ a[k - 1] = s[k])  BY <1>1
<1>3. \A k \in 1..Len(a) : k + 1 \in 1..Len(s) /\ a[k] = s[k + 1] /\ k + 1 # 1  BY <1>1
<1>4. 1 \in 1..Len(s)  BY <1>1
<1>. HIDE DEF a
<1>5. HasNews(s, i, n) <=> HasNews(a, i, n) \/ News(Head(s), i, n)
  BY <1>1, <1>2, <1>3, <1>4 DEF HasNews
<1>6. ASSUME OnceNews(s, i, n) PROVE OnceNews(a, i, n) /\ ~(HasNews(a, i, n) /\ News(Head(s), i, n))
  <2>1. ASSUME NEW k \in 1..Len(a), NEW l \in 1..Len(a), News(a[k], i, n), News(a[l], i, n) PROVE k = l
    <3>1. k + 1 = l + 1  BY <2>1, <1>3, <1>6 DEF OnceNews
    <3>. QED  BY <3>1, <1>1
  <2>2. ASSUME NEW k \in 1..Len(a), News(a[k], i, n), News(Head(s), i, n) PROVE FALSE
    BY <2>2, <1>1, <1>3, <1>4, <1>6 DEF OnceNews
  <2>. QED  BY <2>1, <2>2 DEF OnceNews, HasNews
<1>. QED  BY <1>5, <1>6 DEF a
----------------------------------------------------------------------------
(* Types.                                                                  *)

\* Every field the steps set keeps its type.
LEMMA ThreadFields ==
    ASSUME NEW r \in ThreadRec, NEW p \in {"publish", "notify", "enqueue", "done"}
    PROVE  [r EXCEPT !.pc = p] \in ThreadRec
  BY DEF ThreadRec

LEMMA LoopFields ==
    ASSUME NEW r \in LoopRec, NEW n \in 0..MaxChanges, NEW s \in Seq(Changes)
    PROVE  [r EXCEPT !.read = n] \in LoopRec /\ [r EXCEPT !.flush = s] \in LoopRec
  BY DEF LoopRec

LEMMA NotificationFields ==
    ASSUME NEW i \in Instances, NEW n \in Changes
    PROVE  /\ Notification(i, n) \in Messages
           /\ Notification(i, n).change = n /\ Notification(i, n).from = i
           /\ Notification(i, n).via = "notify" /\ Notification(i, n).op = "write"
  BY DEF Notification, Messages, Writers

\* What a NOTIFY does to the channels and to what is known of it.
LEMMA BroadcastTypes ==
    ASSUME TypeOK, NEW m \in Messages, Broadcast(m)
    PROVE  /\ wire' \in [Instances -> Seq(Messages)]
           /\ lost' \in [Instances -> SUBSET Changes] /\ late' \in [Instances -> SUBSET Changes]
<1>1. m.change \in Changes  BY DEF Messages
<1>2. \A i \in Instances : Append(wire[i], m) \in Seq(Messages)
  BY AppendElements DEF TypeOK
<1>3. wire' \in [Instances -> Seq(Messages)]  BY <1>2 DEF TypeOK, Broadcast
<1>4. lost' \in [Instances -> SUBSET Changes] /\ late' \in [Instances -> SUBSET Changes]
  BY <1>1 DEF TypeOK, Broadcast
<1>. QED  BY <1>3, <1>4

\* The same of a trigger.
LEMMA TriggerTypes ==
    ASSUME TypeOK, row < MaxChanges, NEW who \in Writers, NEW op \in {"write", "delete", "bare"},
           Trigger(who, op)
    PROVE  wire' \in [Instances -> Seq(Messages)] /\ lost' \in [Instances -> SUBSET Changes]
<1>. DEFINE m == [via |-> "trigger", from |-> who, change |-> row + 1, op |-> op]
<1>1. row + 1 \in Changes  BY BoundsAssumption DEF TypeOK, Changes
<1>2. m \in Messages  BY <1>1 DEF Messages
<1>3. \A i \in Instances : Append(wire[i], m) \in Seq(Messages)
  BY <1>2, AppendElements DEF TypeOK
<1>4. wire' \in [Instances -> Seq(Messages)]  BY <1>3 DEF TypeOK, Trigger
<1>5. lost' \in [Instances -> SUBSET Changes]  BY <1>1 DEF TypeOK, Trigger
<1>. QED  BY <1>4, <1>5

LEMMA ChangeTypes ==
    ASSUME TypeOK, NEW who \in Writers, NEW dead \in BOOLEAN, Change(who, dead)
    PROVE  row' \in 0..MaxChanges /\ row' = row + 1 /\ row' \in Changes /\ alive' \in BOOLEAN
           /\ by' \in [Changes -> Writers]
<1>1. row + 1 \in Changes  BY BoundsAssumption DEF TypeOK, Changes, Change
<1>. QED  BY <1>1, BoundsAssumption DEF TypeOK, Changes, Change

\* The thread and the loop that act keep their types, and name a change.
LEMMA ThreadTyped ==
    ASSUME TypeOK, NEW t \in Threads
    PROVE  thread[t] \in ThreadRec /\ thread[t].at \in Writers /\ thread[t].change \in 0..MaxChanges
  BY DEF TypeOK, ThreadRec

LEMMA LoopTyped ==
    ASSUME TypeOK, NEW i \in Instances
    PROVE  loop[i] \in LoopRec /\ loop[i].read \in 0..MaxChanges /\ loop[i].flush \in Seq(Changes)
  BY DEF TypeOK, LoopRec

\* A thread at work is in an instance and has a change.
LEMMA WorkerTyped ==
    ASSUME TypeOK, SourceInv, NEW t \in Threads, thread[t].pc # "new"
    PROVE  thread[t].at \in Instances /\ thread[t].change \in Changes /\ thread[t].change \in 1..row
  BY ThreadTyped DEF TypeOK, SourceInv, Changes

\* A step keeps the types.
LEMMA TypeKept == ASSUME TypeOK, SourceInv, MessageInv, [Next]_vars PROVE TypeOK'
<1>. USE BoundsAssumption DEF Fail
<1>1. ASSUME NEW t \in Threads, NEW i \in Instances, NEW dead \in BOOLEAN, Write(t, i, dead) PROVE TypeOK'
  <2>1. i \in Writers /\ (IF dead THEN "delete" ELSE "write") \in {"write", "delete", "bare"}
    BY DEF Writers
  <2>2. /\ Change(i, dead) /\ row < MaxChanges
        /\ Trigger(i, IF dead THEN "delete" ELSE "write")
    BY <1>1 DEF Write, Change
  <2>3. wire' \in [Instances -> Seq(Messages)] /\ lost' \in [Instances -> SUBSET Changes]
    BY <2>1, <2>2, TriggerTypes
  <2>4. /\ row' \in 0..MaxChanges /\ row' = row + 1 /\ alive' \in BOOLEAN
        /\ by' \in [Changes -> Writers]
    BY <2>1, <2>2, ChangeTypes
  <2>5. thread' \in [Threads -> ThreadRec]
    <3>1. [pc |-> "publish", at |-> i, change |-> row + 1] \in ThreadRec  BY <2>1, <2>4 DEF ThreadRec
    <3>. QED  BY <3>1, <1>1 DEF Write, TypeOK
  <2>. QED  BY <2>3, <2>4, <2>5, <1>1 DEF TypeOK, Write
<1>2. ASSUME NEW dead \in BOOLEAN, NEW large \in BOOLEAN, ExternalWrite(dead, large) PROVE TypeOK'
  <2>. DEFINE op == IF large THEN "bare" ELSE IF dead THEN "delete" ELSE "write"
  <2>1. None \in Writers /\ op \in {"write", "delete", "bare"}  BY DEF Writers
  <2>2. Change(None, dead) /\ row < MaxChanges /\ Trigger(None, op)  BY <1>2 DEF ExternalWrite, Change
  <2>3. wire' \in [Instances -> Seq(Messages)] /\ lost' \in [Instances -> SUBSET Changes]
    BY <2>1, <2>2, TriggerTypes
  <2>4. row' \in 0..MaxChanges /\ alive' \in BOOLEAN /\ by' \in [Changes -> Writers]
    BY <2>1, <2>2, ChangeTypes
  <2>. QED  BY <2>3, <2>4, <1>2 DEF TypeOK, ExternalWrite
<1>3. ASSUME NEW t \in Threads, Request(t) PROVE TypeOK'
  <2>. DEFINE i == thread[t].at
              n == thread[t].change
  <2>1. i \in Instances /\ n \in Changes  BY <1>3, WorkerTyped DEF Request, PublishLocal, Notify, NotifyFails, Enqueue
  <2>2. Notification(i, n) \in Messages  BY <2>1, NotificationFields
  <2>3. \A p \in {"notify", "enqueue", "done"} : [thread EXCEPT ![t].pc = p] \in [Threads -> ThreadRec]
    <3>1. \A p \in {"notify", "enqueue", "done"} : [thread[t] EXCEPT !.pc = p] \in ThreadRec
      BY ThreadTyped, ThreadFields
    <3>. QED  BY <3>1 DEF TypeOK
  <2>4. CASE PublishLocal(t)
    <3>1. Append(heard[i], n) \in Seq(Changes)  BY <2>1, AppendElements DEF TypeOK
    <3>2. heard' \in [Instances -> Seq(Changes)]  BY <3>1, <2>4 DEF PublishLocal, Deliver, TypeOK
    <3>3. late' \in [Instances -> SUBSET Changes]  BY <2>1, <2>4 DEF PublishLocal, TypeOK
    <3>4. thread' \in [Threads -> ThreadRec]  BY <2>3, <2>4 DEF PublishLocal
    <3>. QED  BY <3>2, <3>3, <3>4, <2>4 DEF TypeOK, PublishLocal
  <2>5. CASE Notify(t)
    <3>1. /\ wire' \in [Instances -> Seq(Messages)]
          /\ lost' \in [Instances -> SUBSET Changes] /\ late' \in [Instances -> SUBSET Changes]
      <4>1. CASE Broadcast(Notification(i, n))  BY <4>1, <2>2, BroadcastTypes
      <4>2. CASE /\ lost' = [j \in Instances |-> IF j = i THEN lost[j] ELSE lost[j] \cup {n}]
                 /\ UNCHANGED <<wire, late>>
        BY <4>2, <2>1 DEF TypeOK
      <4>. QED  BY <2>5, <4>1, <4>2 DEF Notify
    <3>2. thread' \in [Threads -> ThreadRec]  BY <2>3, <2>5 DEF Notify
    <3>. QED  BY <3>1, <3>2, <2>5 DEF TypeOK, Notify
  <2>6. CASE NotifyFails(t)
    <3>1. /\ wire' \in [Instances -> Seq(Messages)] /\ again' \in [Instances -> SUBSET Changes]
          /\ lost' \in [Instances -> SUBSET Changes] /\ late' \in [Instances -> SUBSET Changes]
      <4>1. CASE UNCHANGED <<wire, lost, late, again>>  BY <4>1 DEF TypeOK
      <4>2. CASE /\ Broadcast(Notification(i, n))
                 /\ again' = [j \in Instances |-> again[j] \cup {n}]
        <5>1. again' \in [Instances -> SUBSET Changes]  BY <4>2, <2>1 DEF TypeOK
        <5>. QED  BY <4>2, <5>1, <2>2, BroadcastTypes
      <4>. QED  BY <2>6, <4>1, <4>2 DEF NotifyFails
    <3>2. thread' \in [Threads -> ThreadRec]  BY <2>3, <2>6 DEF NotifyFails
    <3>3. failures' \in 0..MaxFailures  BY <2>6 DEF NotifyFails, TypeOK
    <3>. QED  BY <3>1, <3>2, <3>3, <2>6 DEF TypeOK, NotifyFails
  <2>7. CASE Enqueue(t)
    <3>. DEFINE full == Len(retry[i]) >= MaxRetries
    <3>1. retry[i] \in Seq(Changes) /\ Len(retry[i]) \in Nat  BY <2>1, LenProperties DEF TypeOK
    <3>2. full => retry[i] # <<>>  BY <3>1, EmptySeq
    <3>3. full => Tail(retry[i]) \in Seq(Changes) /\ Head(retry[i]) \in Changes  BY <3>1, <3>2, TailElements
    <3>4. (IF full THEN Tail(retry[i]) ELSE retry[i]) \in Seq(Changes)  BY <3>1, <3>3
    <3>5. Append(IF full THEN Tail(retry[i]) ELSE retry[i], n) \in Seq(Changes)  BY <2>1, <3>4, AppendElements
    <3>6. retry' \in [Instances -> Seq(Changes)]  BY <3>5, <2>7 DEF Enqueue, TypeOK
    <3>7. lost' \in [Instances -> SUBSET Changes]  BY <3>3, <2>1, <2>7 DEF Enqueue, TypeOK
    <3>8. thread' \in [Threads -> ThreadRec]  BY <2>3, <2>7 DEF Enqueue
    <3>. QED  BY <3>6, <3>7, <3>8, <2>7 DEF TypeOK, Enqueue
  <2>. QED  BY <1>3, <2>4, <2>5, <2>6, <2>7 DEF Request
<1>4. ASSUME NEW i \in Instances, ListenerFails(i) PROVE TypeOK'
  <2>1. <<>> \in Seq(Messages)  OBVIOUS
  <2>2. wire' \in [Instances -> Seq(Messages)] /\ lost' \in [Instances -> SUBSET Changes]
    BY <1>4, <2>1 DEF ListenerFails, TypeOK
  <2>. QED  BY <1>4, <2>2 DEF ListenerFails, TypeOK
<1>5. ASSUME NEW i \in Instances, ListenerReturns(i) PROVE TypeOK'
  BY <1>5 DEF ListenerReturns, TypeOK, history
<1>6. ASSUME NEW i \in Instances, Receive(i) PROVE TypeOK'
  <2>1. wire[i] \in Seq(Messages) /\ wire[i] # <<>>  BY <1>6 DEF Receive, TypeOK
  <2>2. Tail(wire[i]) \in Seq(Messages) /\ Head(wire[i]) \in Messages  BY <2>1, TailElements
  <2>3. /\ Append(chan[i], Head(wire[i])) \in Seq(Messages)
        /\ Len(Append(chan[i], Head(wire[i]))) = Len(chan[i]) + 1 /\ Len(chan[i]) \in Nat
    BY <2>2, AppendElements DEF TypeOK
  <2>4. wire' \in [Instances -> Seq(Messages)]  BY <1>6, <2>2 DEF Receive, TypeOK
  <2>5. chan' \in [Instances -> Seq(Messages)] /\ \A j \in Instances : Len(chan'[j]) <= Buffer
    <3>1. CASE Parses(Head(wire[i]), i)
      <4>1. chan' = [chan EXCEPT ![i] = Append(chan[i], Head(wire[i]))] /\ Len(chan[i]) < Buffer
        BY <1>6, <3>1 DEF Receive
      <4>. QED  BY <2>3, <4>1 DEF TypeOK
    <3>2. CASE ~Parses(Head(wire[i]), i)  BY <1>6, <3>2 DEF Receive, TypeOK
    <3>. QED  BY <3>1, <3>2
  <2>. QED  BY <1>6, <2>4, <2>5 DEF Receive, TypeOK, history
<1>7. ASSUME NEW i \in Instances, MainLoop(i) PROVE TypeOK'
  <2>1. chan[i] # <<>> => /\ Head(chan[i]) \in Messages /\ Tail(chan[i]) \in Seq(Messages)
                          /\ Len(Tail(chan[i])) <= Buffer /\ Head(chan[i]).change \in Changes
    <3>. HAVE chan[i] # <<>>
    <3>1. chan[i] \in Seq(Messages) /\ Len(chan[i]) <= Buffer  BY DEF TypeOK
    <3>2. /\ Head(chan[i]) \in Messages /\ Tail(chan[i]) \in Seq(Messages)
          /\ Len(Tail(chan[i])) = Len(chan[i]) - 1 /\ Len(chan[i]) \in Nat
      BY <3>1, TailElements
    <3>. QED  BY <3>1, <3>2 DEF Messages
  <2>2. chan' = [chan EXCEPT ![i] = Tail(@)] /\ chan[i] # <<>> =>
            chan' \in [Instances -> Seq(Messages)] /\ \A j \in Instances : Len(chan'[j]) <= Buffer
    BY <2>1 DEF TypeOK
  <2>3. \A n \in Changes : [heard EXCEPT ![i] = Append(@, n)] \in [Instances -> Seq(Changes)]
    <3>1. \A n \in Changes : Append(heard[i], n) \in Seq(Changes)  BY AppendElements DEF TypeOK
    <3>. QED  BY <3>1 DEF TypeOK
  <2>4. /\ \A n \in 0..MaxChanges : [loop EXCEPT ![i].read = n] \in [Instances -> LoopRec]
        /\ \A s \in Seq(Changes) : [loop EXCEPT ![i].flush = s] \in [Instances -> LoopRec]
    <3>1. /\ \A n \in 0..MaxChanges : [loop[i] EXCEPT !.read = n] \in LoopRec
          /\ \A s \in Seq(Changes) : [loop[i] EXCEPT !.flush = s] \in LoopRec
      BY LoopFields, LoopTyped, EmptySeq
    <3>. QED  BY <3>1 DEF TypeOK
  <2>5. CASE ConsumeEvent(i)
    <3>1. heard' \in [Instances -> Seq(Changes)] /\ late' \in [Instances -> SUBSET Changes]
      <4>1. CASE UNCHANGED <<heard, late>>  BY <4>1 DEF TypeOK
      <4>2. CASE /\ Deliver(i, Head(chan[i]).change)
                 /\ late' = IF Overtaken(i, Head(chan[i]).change)
                            THEN [late EXCEPT ![i] = @ \cup {Head(chan[i]).change}] ELSE late
        <5>1. Head(chan[i]).change \in Changes  BY <2>1, <2>5 DEF ConsumeEvent
        <5>2. late' \in [Instances -> SUBSET Changes]  BY <4>2, <5>1 DEF TypeOK
        <5>. QED  BY <4>2, <5>1, <5>2, <2>3 DEF Deliver
      <4>. QED  BY <2>5, <4>1, <4>2 DEF ConsumeEvent
    <3>. QED  BY <3>1, <2>2, <2>5 DEF ConsumeEvent, TypeOK
  <2>6. CASE Reread(i)
    <3>1. loop' \in [Instances -> LoopRec]  BY <2>4, <2>6 DEF Reread, TypeOK
    <3>2. again' \in [Instances -> SUBSET Changes]
      <4>1. row \in Changes
        <5>1. chan[i] # <<>> /\ chan[i] \in Seq(Messages)  BY <2>6 DEF Reread, TypeOK
        <5>2. 1 \in 1..Len(chan[i]) /\ Head(chan[i]) = chan[i][1]  BY <5>1, TailElements
        <5>3. Head(chan[i]).change <= row  BY <5>2 DEF MessageInv, Elems
        <5>. QED  BY <5>1, <5>3, <2>1 DEF TypeOK, Changes
      <4>. QED  BY <4>1, <2>6 DEF Reread, TypeOK
    <3>. QED  BY <3>1, <3>2, <2>2, <2>6 DEF Reread, TypeOK
  <2>7. CASE RereadFails(i)
    <3>1. lost' \in [Instances -> SUBSET Changes]  BY <2>1, <2>7 DEF RereadFails, TypeOK
    <3>. QED  BY <3>1, <2>2, <2>7 DEF RereadFails, TypeOK
  <2>8. CASE DeliverReread(i)
    <3>1. loop[i].read \in Changes  BY <2>8, LoopTyped DEF DeliverReread, Changes
    <3>2. heard' \in [Instances -> Seq(Changes)] /\ late' \in [Instances -> SUBSET Changes]
      BY <3>1, <2>3, <2>8 DEF DeliverReread, Deliver, TypeOK
    <3>3. loop' \in [Instances -> LoopRec]  BY <2>4, <2>8 DEF DeliverReread
    <3>. QED  BY <3>2, <3>3, <2>8 DEF DeliverReread, TypeOK
  <2>9. CASE FlushTake(i)
    <3>1. retry[i] \in Seq(Changes) /\ <<>> \in Seq(Changes)  BY DEF TypeOK
    <3>2. loop' \in [Instances -> LoopRec] /\ retry' \in [Instances -> Seq(Changes)]
      BY <3>1, <2>4, <2>9 DEF FlushTake, TypeOK
    <3>. QED  BY <3>2, <2>9 DEF FlushTake, TypeOK, history
  <2>10. loop[i].flush # <<>> =>
             /\ Head(loop[i].flush) \in Changes /\ Tail(loop[i].flush) \in Seq(Changes)
             /\ [loop EXCEPT ![i].flush = Tail(@)] \in [Instances -> LoopRec]
    <3>. HAVE loop[i].flush # <<>>
    <3>1. Head(loop[i].flush) \in Changes /\ Tail(loop[i].flush) \in Seq(Changes)  BY LoopTyped, TailElements
    <3>2. [loop EXCEPT ![i].flush = Tail(@)] = [loop EXCEPT ![i].flush = Tail(loop[i].flush)]  BY DEF TypeOK
    <3>. QED  BY <3>1, <3>2, <2>4
  <2>11. CASE FlushSend(i)
    <3>1. Notification(i, Head(loop[i].flush)) \in Messages
      BY <2>10, <2>11, NotificationFields DEF FlushSend
    <3>2. /\ wire' \in [Instances -> Seq(Messages)]
          /\ lost' \in [Instances -> SUBSET Changes] /\ late' \in [Instances -> SUBSET Changes]
      BY <3>1, <2>11, BroadcastTypes DEF FlushSend
    <3>. QED  BY <3>2, <2>10, <2>11 DEF FlushSend, TypeOK
  <2>12. CASE FlushFails(i)
    <3>1. Append(retry[i], Head(loop[i].flush)) \in Seq(Changes)
      BY <2>10, <2>12, AppendElements DEF FlushFails, TypeOK
    <3>2. retry' \in [Instances -> Seq(Changes)]  BY <3>1, <2>12 DEF FlushFails, TypeOK
    <3>3. failures' \in 0..MaxFailures  BY <2>12 DEF FlushFails, TypeOK
    <3>. QED  BY <3>2, <3>3, <2>10, <2>12 DEF FlushFails, TypeOK, history
  <2>. QED  BY <1>7, <2>5, <2>6, <2>7, <2>8, <2>9, <2>11, <2>12 DEF MainLoop
<1>8. CASE UNCHANGED vars  BY <1>8 DEF vars, TypeOK
<1>. QED  BY <1>1, <1>2, <1>3, <1>4, <1>5, <1>6, <1>7, <1>8 DEF Next, Listener
----------------------------------------------------------------------------
(* A change and its writer.                                                *)

\* A write takes a number nobody has, and leaves the makers of the others.
LEMMA ChangeIsNew ==
    ASSUME TypeOK, NEW who, NEW dead, Change(who, dead)
    PROVE  row' = row + 1 /\ row + 1 \in Changes /\ by'[row + 1] = who
           /\ \A n \in Changes : n <= row => by'[n] = by[n]
<1>1. row + 1 \in Changes  BY BoundsAssumption DEF TypeOK, Changes, Change
<1>. QED  BY <1>1, BoundsAssumption DEF TypeOK, Changes, Change

\* Whatever leaves the queues of the writers alone.
LEMMA SourceFrame ==
    ASSUME TypeOK, SourceInv, UNCHANGED <<row, by, thread, retry>>,
           \A j \in Instances : loop'[j].flush = loop[j].flush
    PROVE  SourceInv' /\ \A n : InThread(n)' <=> InThread(n)
<1>1. \A n : InThread(n)' <=> InThread(n)  BY DEF InThread
<1>. QED  BY <1>1 DEF SourceInv

\* A thread at work that goes to its next step keeps its change.
LEMMA ThreadMoves ==
    ASSUME TypeOK, SourceInv, NEW t \in Threads, thread[t].pc \in Working, NEW p \in Working \cup {"done"},
           thread' = [thread EXCEPT ![t].pc = p]
    PROVE  /\ thread'[t].pc = p
           /\ \A u \in Threads : /\ thread'[u].at = thread[u].at /\ thread'[u].change = thread[u].change
                                 /\ u # t => thread'[u] = thread[u]
           /\ \A n : InThread(n)' <=> InThread(n) /\ (n = thread[t].change => p # "done")
<1>1. thread'[t].pc = p
  BY ThreadTyped DEF TypeOK, ThreadRec
<1>2. \A u \in Threads : /\ thread'[u].at = thread[u].at /\ thread'[u].change = thread[u].change
                         /\ u # t => thread'[u] = thread[u]
  BY DEF TypeOK, ThreadRec
<1>3. ASSUME NEW n PROVE InThread(n)' <=> InThread(n) /\ (n = thread[t].change => p # "done")
  <2>1. \A u \in Threads : u # t /\ thread[u].pc \in Working => thread[u].change # thread[t].change
    BY DEF SourceInv, Working
  <2>. QED  BY <1>1, <1>2, <2>1 DEF InThread, Working
<1>. QED  BY <1>1, <1>2, <1>3

\* A step keeps one thread, and then one place in a queue, for each change.
LEMMA SourceKept == ASSUME TypeOK, SourceInv, [Next]_vars PROVE SourceInv'
<1>1. ASSUME NEW t \in Threads, NEW i \in Instances, NEW dead \in BOOLEAN, Write(t, i, dead) PROVE SourceInv'
  <2>1. /\ row' = row + 1 /\ row + 1 \in Changes /\ by'[row + 1] = i /\ row \in Nat
        /\ \A n \in Changes : n <= row => by'[n] = by[n]
    BY <1>1, ChangeIsNew DEF Write, TypeOK
  <2>2. /\ thread'[t] = [pc |-> "publish", at |-> i, change |-> row + 1] /\ thread[t].pc = "new"
        /\ \A u \in Threads : u # t => thread'[u] = thread[u]
        /\ UNCHANGED <<retry, loop>>
    BY <1>1 DEF Write, TypeOK
  <2>3. \A n \in Changes : n <= row => (InThread(n)' <=> InThread(n))
    BY <2>1, <2>2 DEF InThread, Working, Changes
  <2>4. \A u \in Threads : thread[u].pc # "new" => thread[u].change \in Changes /\ thread[u].change <= row
    BY WorkerTyped
  <2>5. \A u \in Threads : thread'[u].pc # "new" =>
            /\ thread'[u].at \in Instances /\ thread'[u].change \in 1..row'
            /\ by'[thread'[u].change] = thread'[u].at
    BY <2>1, <2>2, <2>4 DEF SourceInv, Changes
  <2>6. \A u, v \in Threads :
            thread'[u].pc # "new" /\ thread'[v].pc # "new" /\ thread'[u].change = thread'[v].change => u = v
    BY <2>1, <2>2, <2>4 DEF SourceInv, Changes
  <2>7. \A j \in Instances : \A n \in Changes :
         /\ Has(retry'[j], n) \/ Has(loop'[j].flush, n) => n <= row' /\ by'[n] = j /\ ~InThread(n)'
         /\ Once(retry'[j], n) /\ Once(loop'[j].flush, n)
         /\ ~(Has(retry'[j], n) /\ Has(loop'[j].flush, n))
    BY <2>1, <2>2, <2>3 DEF SourceInv, Changes
  <2>. QED  BY <2>5, <2>6, <2>7 DEF SourceInv
<1>2. ASSUME NEW dead \in BOOLEAN, NEW large \in BOOLEAN, ExternalWrite(dead, large) PROVE SourceInv'
  <2>1. /\ row' = row + 1 /\ row \in Nat /\ UNCHANGED <<thread, retry, loop>>
        /\ \A n \in Changes : n <= row => by'[n] = by[n]
    BY <1>2, ChangeIsNew DEF ExternalWrite, TypeOK
  <2>2. \A n : InThread(n)' <=> InThread(n)  BY <2>1 DEF InThread
  <2>3. \A u \in Threads : thread[u].pc # "new" => thread[u].change \in Changes /\ thread[u].change <= row
    BY WorkerTyped
  <2>4. \A u \in Threads : thread'[u].pc # "new" =>
            /\ thread'[u].at \in Instances /\ thread'[u].change \in 1..row'
            /\ by'[thread'[u].change] = thread'[u].at
    BY <2>1, <2>3 DEF SourceInv, Changes
  <2>5. \A j \in Instances : \A n \in Changes :
         /\ Has(retry'[j], n) \/ Has(loop'[j].flush, n) => n <= row' /\ by'[n] = j /\ ~InThread(n)'
         /\ Once(retry'[j], n) /\ Once(loop'[j].flush, n)
         /\ ~(Has(retry'[j], n) /\ Has(loop'[j].flush, n))
    BY <2>1, <2>2 DEF SourceInv, Changes
  <2>. QED  BY <2>1, <2>4, <2>5 DEF SourceInv
<1>3. ASSUME NEW t \in Threads, NEW p \in {"notify", "enqueue", "done"}, thread[t].pc \in Working,
             thread' = [thread EXCEPT ![t].pc = p], UNCHANGED <<row, by, retry, loop>>
      PROVE  SourceInv'
  <2>1. /\ thread'[t].pc = p
        /\ \A u \in Threads : /\ thread'[u].at = thread[u].at /\ thread'[u].change = thread[u].change
                              /\ u # t => thread'[u] = thread[u]
        /\ \A n : InThread(n)' => InThread(n)
    BY <1>3, ThreadMoves DEF Working
  <2>2. \A u \in Threads : thread'[u].pc # "new" => thread[u].pc # "new"  BY <1>3, <2>1 DEF Working
  <2>. QED  BY <1>3, <2>1, <2>2 DEF SourceInv
<1>4. ASSUME NEW t \in Threads, Enqueue(t) PROVE SourceInv'
  <2>. DEFINE i == thread[t].at
              n == thread[t].change
              full == Len(retry[i]) >= MaxRetries
              rest == IF full THEN Tail(retry[i]) ELSE retry[i]
  <2>1. /\ thread[t].pc = "enqueue" /\ thread' = [thread EXCEPT ![t].pc = "done"]
        /\ retry' = [retry EXCEPT ![i] = Append(rest, n)]
        /\ UNCHANGED <<row, by, loop>>
    BY <1>4 DEF Enqueue
  <2>2. i \in Instances /\ n \in Changes /\ n \in 1..row /\ by[n] = i  BY <2>1, WorkerTyped DEF SourceInv
  <2>3. /\ thread'[t].pc = "done"
        /\ \A u \in Threads : /\ thread'[u].at = thread[u].at /\ thread'[u].change = thread[u].change
                              /\ u # t => thread'[u] = thread[u]
        /\ \A m : InThread(m)' <=> InThread(m) /\ m # n
    BY <2>1, ThreadMoves DEF Working
  <2>4. InThread(n)  BY <2>1 DEF InThread, Working
  <2>5. rest \in Seq(Changes) /\ \A m \in Changes : (Has(rest, m) => Has(retry[i], m)) /\ Once(rest, m)
    <3>1. retry[i] \in Seq(Changes) /\ Len(retry[i]) \in Nat  BY <2>2, LenProperties DEF TypeOK
    <3>2. \A m \in Changes : Once(retry[i], m)  BY <2>2 DEF SourceInv
    <3>3. CASE full
      <4>1. retry[i] # <<>>  BY <3>1, <3>3, EmptySeq, BoundsAssumption
      <4>. QED  BY <3>1, <3>2, <3>3, <4>1, HasTail, TailElements
    <3>. QED  BY <3>1, <3>2, <3>3
  <2>6. \A m \in Changes : /\ Has(retry'[i], m) <=> Has(rest, m) \/ m = n
                           /\ Once(retry'[i], m)
    <3>1. retry'[i] = Append(rest, n)  BY <2>1, <2>2 DEF TypeOK
    <3>2. ~Has(retry[i], n)  BY <2>2, <2>4 DEF SourceInv
    <3>. HIDE DEF rest, n
    <3>. QED  BY <3>1, <3>2, <2>2, <2>5, HasAppend
  <2>7. \A j \in Instances : j # i => retry'[j] = retry[j]  BY <2>1, <2>2 DEF TypeOK
  <2>8. \A j \in Instances : \A m \in Changes :
         /\ Has(retry'[j], m) \/ Has(loop'[j].flush, m) => m <= row' /\ by'[m] = j /\ ~InThread(m)'
         /\ Once(retry'[j], m) /\ Once(loop'[j].flush, m)
         /\ ~(Has(retry'[j], m) /\ Has(loop'[j].flush, m))
    <3>. HIDE DEF rest, n, i
    <3>. QED  BY <2>1, <2>2, <2>3, <2>4, <2>5, <2>6, <2>7 DEF SourceInv, Changes
  <2>9. \A u \in Threads : thread'[u].pc # "new" => thread[u].pc # "new"  BY <2>1, <2>3
  <2>. QED  BY <2>1, <2>3, <2>8, <2>9 DEF SourceInv
<1>5. ASSUME NEW i \in Instances, FlushTake(i) PROVE SourceInv'
  <2>1. /\ loop[i].flush = <<>> /\ loop'[i].flush = retry[i] /\ retry'[i] = <<>>
        /\ \A j \in Instances : j # i => loop'[j] = loop[j] /\ retry'[j] = retry[j]
        /\ UNCHANGED <<row, by, thread>>
    BY <1>5, LoopTyped DEF FlushTake, TypeOK, LoopRec
  <2>2. \A m : InThread(m)' <=> InThread(m)  BY <2>1 DEF InThread
  <2>3. \A m : ~Has(<<>>, m) /\ Once(<<>>, m)  BY DEF Has, Once
  <2>. QED  BY <2>1, <2>2, <2>3 DEF SourceInv
<1>6. ASSUME NEW i \in Instances, FlushSend(i) PROVE SourceInv'
  <2>1. /\ loop[i].flush # <<>> /\ loop'[i].flush = Tail(loop[i].flush)
        /\ \A j \in Instances : j # i => loop'[j] = loop[j]
        /\ UNCHANGED <<row, by, thread, retry>>
    BY <1>6, LoopTyped DEF FlushSend, TypeOK, LoopRec
  <2>2. \A m : InThread(m)' <=> InThread(m)  BY <2>1 DEF InThread
  <2>3. \A m : /\ Has(loop'[i].flush, m) => Has(loop[i].flush, m)
               /\ Once(loop[i].flush, m) => Once(loop'[i].flush, m)
    BY <2>1, LoopTyped, HasTail
  <2>. QED  BY <2>1, <2>2, <2>3 DEF SourceInv
<1>7. ASSUME NEW i \in Instances, FlushFails(i) PROVE SourceInv'
  <2>. DEFINE n == Head(loop[i].flush)
  <2>1. /\ loop[i].flush # <<>> /\ loop'[i].flush = Tail(loop[i].flush) /\ retry'[i] = Append(retry[i], n)
        /\ \A j \in Instances : j # i => loop'[j] = loop[j] /\ retry'[j] = retry[j]
        /\ UNCHANGED <<row, by, thread>>
    BY <1>7, LoopTyped DEF FlushFails, TypeOK, LoopRec
  <2>2. \A m : InThread(m)' <=> InThread(m)  BY <2>1 DEF InThread
  <2>3. /\ n \in Changes /\ Has(loop[i].flush, n)
        /\ \A m : /\ Has(loop'[i].flush, m) => Has(loop[i].flush, m)
                  /\ Once(loop[i].flush, m) => Once(loop'[i].flush, m) /\ ~(Has(loop'[i].flush, m) /\ n = m)
    BY <2>1, LoopTyped, HasTail, TailElements
  <2>4. \A m : /\ Has(retry'[i], m) <=> Has(retry[i], m) \/ n = m
               /\ Once(retry[i], m) /\ ~(Has(retry[i], m) /\ n = m) => Once(retry'[i], m)
    <3>1. retry[i] \in Seq(Changes)  BY DEF TypeOK
    <3>. QED  BY <2>1, <2>3, <3>1, HasAppend
  <2>. HIDE DEF n
  <2>5. ASSUME NEW j \in Instances, NEW m \in Changes
        PROVE  /\ Has(retry'[j], m) \/ Has(loop'[j].flush, m) => m <= row' /\ by'[m] = j /\ ~InThread(m)'
               /\ Once(retry'[j], m) /\ Once(loop'[j].flush, m)
               /\ ~(Has(retry'[j], m) /\ Has(loop'[j].flush, m))
    <3>1. CASE j = i  BY <3>1, <2>1, <2>2, <2>3, <2>4 DEF SourceInv
    <3>2. CASE j # i  BY <3>2, <2>1, <2>2 DEF SourceInv
    <3>. QED  BY <3>1, <3>2
  <2>. QED  BY <2>1, <2>5 DEF SourceInv
<1>8. ASSUME NEW i \in Instances,
             ListenerFails(i) \/ Listener(i) \/ ConsumeEvent(i) \/ Reread(i) \/ RereadFails(i) \/ DeliverReread(i)
      PROVE  SourceInv'
  <2>1. UNCHANGED <<row, by, thread, retry>>
    BY <1>8 DEF ListenerFails, Listener, ListenerReturns, Receive, ConsumeEvent, Reread, RereadFails, DeliverReread,
               history
  <2>2. \A j \in Instances : loop'[j].flush = loop[j].flush
    <3>1. CASE Reread(i)  BY <3>1 DEF Reread, TypeOK, LoopRec
    <3>2. CASE DeliverReread(i)  BY <3>2 DEF DeliverReread, TypeOK, LoopRec
    <3>3. CASE ListenerFails(i) \/ Listener(i) \/ ConsumeEvent(i) \/ RereadFails(i)
      BY <3>3 DEF ListenerFails, Listener, ListenerReturns, Receive, ConsumeEvent, RereadFails
    <3>. QED  BY <1>8, <3>1, <3>2, <3>3
  <2>. QED  BY <2>1, <2>2, SourceFrame
<1>9. ASSUME UNCHANGED vars PROVE SourceInv'
  BY <1>9, SourceFrame DEF vars
<1>10. ASSUME NEW t \in Threads, Request(t) PROVE SourceInv'
  <2>1. CASE PublishLocal(t)  BY <2>1, <1>3 DEF PublishLocal, Working
  <2>2. CASE Notify(t)  BY <2>2, <1>3 DEF Notify, Working
  <2>3. CASE NotifyFails(t)  BY <2>3, <1>3 DEF NotifyFails, Working
  <2>. QED  BY <1>4, <1>10, <2>1, <2>2, <2>3 DEF Request
<1>. QED  BY <1>1, <1>2, <1>5, <1>6, <1>7, <1>8, <1>9, <1>10 DEF Next, MainLoop
----------------------------------------------------------------------------
(* What is on its way.                                                     *)

\* What no step undoes: the row only moves on, and what is lost stays lost.
LEMMA History ==
    ASSUME TypeOK, SourceInv, [Next]_vars
    PROVE  /\ row' \in {row, row + 1} /\ (row' = row => alive' = alive /\ by' = by)
           /\ \A n \in Changes : n <= row => by'[n] = by[n]
           /\ \A i \in Instances : /\ lost[i] \subseteq lost'[i] /\ late[i] \subseteq late'[i]
                                   /\ again[i] \subseteq again'[i]
<1>1. ASSUME NEW t \in Threads, NEW i \in Instances, NEW dead \in BOOLEAN, Write(t, i, dead)
      PROVE  /\ row' = row + 1 /\ \A n \in Changes : n <= row => by'[n] = by[n]
             /\ \A j \in Instances : lost[j] \subseteq lost'[j]
             /\ UNCHANGED <<late, again>>
  <2>1. row' = row + 1 /\ \A n \in Changes : n <= row => by'[n] = by[n]
    BY <1>1, ChangeIsNew DEF Write
  <2>. QED  BY <1>1, <2>1 DEF Write, Trigger
<1>2. ASSUME NEW dead \in BOOLEAN, NEW large \in BOOLEAN, ExternalWrite(dead, large)
      PROVE  /\ row' = row + 1 /\ \A n \in Changes : n <= row => by'[n] = by[n]
             /\ \A j \in Instances : lost[j] \subseteq lost'[j]
             /\ UNCHANGED <<late, again>>
  <2>1. row' = row + 1 /\ \A n \in Changes : n <= row => by'[n] = by[n]
    BY <1>2, ChangeIsNew DEF ExternalWrite
  <2>. QED  BY <1>2, <2>1 DEF ExternalWrite, Trigger
<1>3. ASSUME NEW t \in Threads, Request(t)
      PROVE  UNCHANGED <<row, alive, by>> /\ \A j \in Instances :
                /\ lost[j] \subseteq lost'[j] /\ late[j] \subseteq late'[j] /\ again[j] \subseteq again'[j]
  <2>1. CASE PublishLocal(t)  BY <2>1 DEF PublishLocal, TypeOK
  <2>2. CASE Notify(t)  BY <2>2 DEF Notify, Broadcast
  <2>3. CASE NotifyFails(t)  BY <2>3 DEF NotifyFails, Broadcast
  <2>4. CASE Enqueue(t)  BY <2>4 DEF Enqueue
  <2>. QED  BY <1>3, <2>1, <2>2, <2>3, <2>4 DEF Request
<1>4. ASSUME NEW i \in Instances, ListenerFails(i) \/ Listener(i) \/ MainLoop(i)
      PROVE  UNCHANGED <<row, alive, by>> /\ \A j \in Instances :
                /\ lost[j] \subseteq lost'[j] /\ late[j] \subseteq late'[j] /\ again[j] \subseteq again'[j]
  <2>. USE DEF history
  <2>1. CASE ListenerFails(i)  BY <2>1 DEF ListenerFails, TypeOK
  <2>2. CASE Listener(i)  BY <2>2 DEF Listener, ListenerReturns, Receive
  <2>3. CASE ConsumeEvent(i)  BY <2>3 DEF ConsumeEvent, TypeOK
  <2>4. CASE Reread(i)  BY <2>4 DEF Reread, TypeOK
  <2>5. CASE RereadFails(i)  BY <2>5 DEF RereadFails, TypeOK
  <2>6. CASE DeliverReread(i)  BY <2>6 DEF DeliverReread, TypeOK
  <2>7. CASE FlushTake(i) \/ FlushFails(i)  BY <2>7 DEF FlushTake, FlushFails
  <2>8. CASE FlushSend(i)  BY <2>8 DEF FlushSend, Broadcast
  <2>. QED  BY <1>4, <2>1, <2>2, <2>3, <2>4, <2>5, <2>6, <2>7, <2>8 DEF MainLoop
<1>5. row \in Nat  BY DEF TypeOK
<1>6. CASE UNCHANGED vars  BY <1>6 DEF vars
<1>. QED  BY <1>1, <1>2, <1>3, <1>4, <1>5, <1>6 DEF Next

\* A message that a step sends names its change, carries what it should, and is
\* known to be late when there is a newer change.
Sent(m, i) ==
    /\ m \in Messages /\ m.change <= row /\ m.from = by[m.change] /\ Cargo(m, i)
    /\ Tells(m, i) => m.change \in {row} \cup late[i]

\* A channel from PostgreSQL grows at one end, shrinks at the other, or breaks.
LEMMA WireSteps ==
    ASSUME TypeOK, SourceInv, [Next]_vars, NEW i \in Instances
    PROVE  \/ wire'[i] = wire[i]
           \/ ListenerFails(i) /\ wire'[i] = <<>>
           \/ Receive(i) /\ wire[i] # <<>> /\ wire'[i] = Tail(wire[i])
           \/ \E m \in Messages : Sent(m, i)' /\ wire'[i] = Append(wire[i], m)
<1>. DEFINE Goal == \/ wire'[i] = wire[i]
                    \/ ListenerFails(i) /\ wire'[i] = <<>>
                    \/ Receive(i) /\ wire[i] # <<>> /\ wire'[i] = Tail(wire[i])
                    \/ \E m \in Messages : Sent(m, i)' /\ wire'[i] = Append(wire[i], m)
<1>1. ASSUME NEW t \in Threads, NEW j \in Instances, NEW dead \in BOOLEAN, Write(t, j, dead) PROVE Goal
  <2>1. row' = row + 1 /\ row + 1 \in Changes /\ by'[row + 1] = j
    BY <1>1, ChangeIsNew DEF Write
  <2>2. PICK m \in Messages : m = [via |-> "trigger", from |-> j, change |-> row + 1,
                                  op |-> IF dead THEN "delete" ELSE "write"]
    BY <2>1 DEF Messages, Writers
  <2>3. Sent(m, i)'
    <3>1. m.change = row' /\ m.from = by'[row'] /\ m.op # "bare"  BY <2>1, <2>2
    <3>2. m.op = "write" => alive'  BY <1>1, <2>2 DEF Write, Change
    <3>3. row' \in Nat  BY <2>1 DEF Changes
    <3>. QED  BY <2>2, <3>1, <3>2, <3>3 DEF Sent, Cargo
  <2>4. wire'[i] \in {wire[i], Append(wire[i], m)}  BY <1>1, <2>2 DEF Write, Trigger
  <2>. QED  BY <2>2, <2>3, <2>4
<1>2. ASSUME NEW dead \in BOOLEAN, NEW large \in BOOLEAN, ExternalWrite(dead, large) PROVE Goal
  <2>1. row' = row + 1 /\ row + 1 \in Changes /\ by'[row + 1] = None
    BY <1>2, ChangeIsNew DEF ExternalWrite
  <2>2. PICK m \in Messages : m = [via |-> "trigger", from |-> None, change |-> row + 1,
                                  op |-> IF large THEN "bare" ELSE IF dead THEN "delete" ELSE "write"]
    BY <2>1 DEF Messages, Writers
  <2>3. Sent(m, i)'
    <3>1. m.change = row' /\ m.from = by'[row']  BY <2>1, <2>2
    <3>2. m.op = "write" => alive'  BY <1>2, <2>2 DEF ExternalWrite, Change
    <3>3. m.op = "bare" /\ Tells(m, i) => row' \in lost'[i]  BY <2>1, <2>2, <1>2 DEF ExternalWrite, Trigger
    <3>4. row' \in Nat  BY <2>1 DEF Changes
    <3>. QED  BY <2>2, <3>1, <3>2, <3>3, <3>4 DEF Sent, Cargo, Tells
  <2>4. wire'[i] \in {wire[i], Append(wire[i], m)}  BY <1>2, <2>2 DEF ExternalWrite, Trigger
  <2>. QED  BY <2>2, <2>3, <2>4
<1>3. ASSUME NEW j \in Instances, NEW n \in 1..row, by[n] = j, UNCHANGED <<row, by>>,
             Broadcast(Notification(j, n))
      PROVE  Goal
  <2>1. n \in Changes /\ n <= row  BY BoundsAssumption DEF TypeOK, Changes
  <2>2. Sent(Notification(j, n), i)'
    <3>1. Notification(j, n) \in Messages /\ Notification(j, n).change = n /\ Notification(j, n).from = j
          /\ Notification(j, n).via = "notify" /\ Notification(j, n).op = "write"
      BY <2>1, NotificationFields
    <3>2. row \in Nat /\ n \in Nat  BY DEF TypeOK
    <3>3. Tells(Notification(j, n), i) => n \in {row'} \cup late'[i]
      BY <1>3, <2>1, <3>1, <3>2 DEF Broadcast, TypeOK
    <3>4. /\ Notification(j, n) \in Messages /\ n <= row' /\ Notification(j, n).from = by'[n]
          /\ Notification(j, n).op # "bare" /\ Notification(j, n).via # "trigger"
      BY <1>3, <2>1, <3>1
    <3>. QED  BY <3>1, <3>3, <3>4 DEF Sent, Cargo, Tells
  <2>3. wire'[i] \in {wire[i], Append(wire[i], Notification(j, n))}  BY <1>3 DEF Broadcast
  <2>4. Notification(j, n) \in Messages  BY <2>1, NotificationFields
  <2>. QED  BY <2>2, <2>3, <2>4
<1>4. ASSUME NEW t \in Threads, Request(t) PROVE Goal
  <2>1. CASE PublishLocal(t) \/ Enqueue(t)  BY <2>1 DEF PublishLocal, Enqueue
  <2>2. CASE Notify(t)
    <3>1. thread[t].at \in Instances /\ thread[t].change \in 1..row /\ by[thread[t].change] = thread[t].at
      BY <2>2, WorkerTyped DEF Notify, SourceInv
    <3>2. UNCHANGED <<row, by>>  BY <2>2 DEF Notify
    <3>3. Broadcast(Notification(thread[t].at, thread[t].change)) \/ wire' = wire  BY <2>2 DEF Notify
    <3>. QED  BY <3>1, <3>2, <3>3, <1>3
  <2>3. CASE NotifyFails(t)
    <3>1. thread[t].at \in Instances /\ thread[t].change \in 1..row /\ by[thread[t].change] = thread[t].at
      BY <2>3, WorkerTyped DEF NotifyFails, SourceInv
    <3>2. UNCHANGED <<row, by>>  BY <2>3 DEF NotifyFails
    <3>3. Broadcast(Notification(thread[t].at, thread[t].change)) \/ wire' = wire  BY <2>3 DEF NotifyFails
    <3>. QED  BY <3>1, <3>2, <3>3, <1>3
  <2>. QED  BY <1>4, <2>1, <2>2, <2>3 DEF Request
<1>5. ASSUME NEW j \in Instances, ListenerFails(j) \/ Listener(j) PROVE Goal
  <2>1. CASE j = i  BY <1>5, <2>1 DEF ListenerFails, Listener, ListenerReturns, Receive, TypeOK
  <2>2. CASE j # i  BY <1>5, <2>2 DEF ListenerFails, Listener, ListenerReturns, Receive, TypeOK
  <2>. QED  BY <2>1, <2>2
<1>6. ASSUME NEW j \in Instances, FlushSend(j) PROVE Goal
  <2>1. /\ loop[j].flush # <<>> /\ UNCHANGED <<row, by>>
        /\ Broadcast(Notification(j, Head(loop[j].flush)))
    BY <1>6 DEF FlushSend
  <2>2. Head(loop[j].flush) \in Changes /\ Has(loop[j].flush, Head(loop[j].flush))
    BY <2>1, LoopTyped, HasTail, TailElements
  <2>3. Head(loop[j].flush) \in 1..row /\ by[Head(loop[j].flush)] = j
    BY <2>2 DEF SourceInv, TypeOK, Changes
  <2>. QED  BY <2>1, <2>3, <1>3
<1>7. ASSUME NEW j \in Instances,
             ConsumeEvent(j) \/ Reread(j) \/ RereadFails(j) \/ DeliverReread(j) \/ FlushTake(j) \/ FlushFails(j)
      PROVE  Goal
  BY <1>7 DEF ConsumeEvent, Reread, RereadFails, DeliverReread, FlushTake, FlushFails
<1>8. CASE UNCHANGED vars  BY <1>8 DEF vars
<1>. QED  BY <1>1, <1>2, <1>4, <1>5, <1>6, <1>7, <1>8 DEF Next, MainLoop

\* The channel to the main loop takes what the listener does not skip.
LEMMA ChanSteps ==
    ASSUME TypeOK, [Next]_vars, NEW i \in Instances
    PROVE  \/ chan'[i] = chan[i]
           \/ /\ ConsumeEvent(i) \/ Reread(i) \/ RereadFails(i)
              /\ chan[i] # <<>> /\ chan'[i] = Tail(chan[i]) /\ wire' = wire
           \/ /\ wire[i] # <<>> /\ Tells(Head(wire[i]), i)
              /\ wire'[i] = Tail(wire[i]) /\ chan'[i] = Append(chan[i], Head(wire[i]))
<1>1. ASSUME NEW t \in Threads,
             Request(t) \/ \E j \in Instances, dead \in BOOLEAN : Write(t, j, dead)
      PROVE  chan' = chan
  BY <1>1 DEF Request, PublishLocal, Notify, NotifyFails, Enqueue, Write
<1>2. ASSUME NEW dead \in BOOLEAN, NEW large \in BOOLEAN, ExternalWrite(dead, large) PROVE chan' = chan
  BY <1>2 DEF ExternalWrite
<1>3. ASSUME NEW j \in Instances, ListenerFails(j) \/ ListenerReturns(j) PROVE chan' = chan
  BY <1>3 DEF ListenerFails, ListenerReturns
<1>4. ASSUME NEW j \in Instances, Receive(j)
      PROVE  \/ chan'[i] = chan[i]
             \/ /\ wire[i] # <<>> /\ Tells(Head(wire[i]), i)
                /\ wire'[i] = Tail(wire[i]) /\ chan'[i] = Append(chan[i], Head(wire[i]))
  BY <1>4 DEF Receive, Parses, Tells, TypeOK
<1>5. ASSUME NEW j \in Instances, ConsumeEvent(j) \/ Reread(j) \/ RereadFails(j)
      PROVE  \/ chan'[i] = chan[i]
             \/ j = i /\ chan[i] # <<>> /\ chan'[i] = Tail(chan[i]) /\ wire' = wire
  BY <1>5 DEF ConsumeEvent, Reread, RereadFails, TypeOK
<1>6. ASSUME NEW j \in Instances, DeliverReread(j) \/ FlushTake(j) \/ FlushSend(j) \/ FlushFails(j)
      PROVE  chan' = chan
  BY <1>6 DEF DeliverReread, FlushTake, FlushSend, FlushFails
<1>7. CASE UNCHANGED vars  BY <1>7 DEF vars
<1>. QED  BY <1>1, <1>2, <1>3, <1>4, <1>5, <1>6, <1>7 DEF Next, Listener, MainLoop

\* The row a main loop has read again is one its subscribers may hear of twice.
LEMMA ReadSteps ==
    ASSUME TypeOK, [Next]_vars, NEW i \in Instances
    PROVE  \/ loop'[i].read = loop[i].read
           \/ DeliverReread(i) /\ loop'[i].read = 0
           \/ /\ Reread(i) /\ row' = row /\ loop[i].read = 0
              /\ loop'[i].read = IF alive THEN row ELSE 0
              /\ alive => row \in again'[i]
<1>1. ASSUME NEW j \in Instances, Reread(j)
      PROVE  \/ loop'[i].read = loop[i].read
             \/ /\ Reread(i) /\ row' = row /\ loop[i].read = 0
                /\ loop'[i].read = IF alive THEN row ELSE 0
                /\ alive => row \in again'[i]
  <2>1. CASE j = i
    <3>1. loop'[i].read = (IF alive THEN row ELSE 0) /\ row' = row /\ loop[i].read = 0
      BY <1>1, <2>1 DEF Reread, TypeOK, LoopRec
    <3>2. alive => row \in again'[i]  BY <1>1, <2>1 DEF Reread, TypeOK
    <3>. QED  BY <1>1, <2>1, <3>1, <3>2
  <2>2. CASE j # i  BY <1>1, <2>2 DEF Reread, TypeOK
  <2>. QED  BY <2>1, <2>2
<1>2. ASSUME NEW j \in Instances, DeliverReread(j)
      PROVE  loop'[i].read = loop[i].read \/ (DeliverReread(i) /\ loop'[i].read = 0)
  BY <1>2 DEF DeliverReread, TypeOK, LoopRec
<1>3. ASSUME NEW j \in Instances, FlushTake(j) \/ FlushSend(j) \/ FlushFails(j) PROVE loop'[i].read = loop[i].read
  <2>1. \E s : loop' = [loop EXCEPT ![j].flush = s]
    <3>1. CASE FlushTake(j)  BY <3>1 DEF FlushTake
    <3>2. CASE FlushSend(j)  BY <3>2 DEF FlushSend
    <3>3. CASE FlushFails(j)  BY <3>3 DEF FlushFails
    <3>. QED  BY <1>3, <3>1, <3>2, <3>3
  <2>. QED  BY <2>1 DEF TypeOK, LoopRec
<1>4. ASSUME NEW j \in Instances, ListenerFails(j) \/ Listener(j) \/ ConsumeEvent(j) \/ RereadFails(j)
      PROVE  loop' = loop
  BY <1>4 DEF ListenerFails, Listener, ListenerReturns, Receive, ConsumeEvent, RereadFails
<1>5. ASSUME NEW t \in Threads, Request(t) \/ \E j \in Instances, dead \in BOOLEAN : Write(t, j, dead)
      PROVE  loop' = loop
  BY <1>5 DEF Request, PublishLocal, Notify, NotifyFails, Enqueue, Write
<1>6. ASSUME NEW dead \in BOOLEAN, NEW large \in BOOLEAN, ExternalWrite(dead, large) PROVE loop' = loop
  BY <1>6 DEF ExternalWrite
<1>7. CASE UNCHANGED vars  BY <1>7 DEF vars
<1>. QED  BY <1>1, <1>2, <1>3, <1>4, <1>5, <1>6, <1>7 DEF Next, MainLoop

\* Whatever is delivered to the subscribers of an instance, with what follows
\* from where it came from.
Heard(i, n) ==
    \/ \E t \in Threads : PublishLocal(t) /\ thread[t].at = i /\ thread[t].change = n
    \/ ConsumeEvent(i) /\ Head(chan[i]).change = n /\ Head(chan[i]).op # "bare"
    \/ DeliverReread(i) /\ loop[i].read = n

LEMMA HeardSteps ==
    ASSUME TypeOK, SourceInv, MessageInv, [Next]_vars, NEW i \in Instances
    PROVE  \/ heard'[i] = heard[i]
           \/ \E n \in Changes : /\ Heard(i, n) /\ heard'[i] = Append(heard[i], n)
                                 /\ n <= row /\ UNCHANGED <<row, by, alive, wire>>
<1>. DEFINE Goal == \/ heard'[i] = heard[i]
                    \/ \E n \in Changes : /\ Heard(i, n) /\ heard'[i] = Append(heard[i], n)
                                          /\ n <= row /\ UNCHANGED <<row, by, alive, wire>>
<1>1. ASSUME NEW t \in Threads, PublishLocal(t) PROVE Goal
  <2>1. thread[t].change \in Changes /\ thread[t].change <= row
    BY <1>1, WorkerTyped DEF PublishLocal
  <2>2. thread[t].at = i => heard'[i] = Append(heard[i], thread[t].change)
    BY <1>1 DEF PublishLocal, Deliver, TypeOK
  <2>3. thread[t].at # i => heard'[i] = heard[i]  BY <1>1 DEF PublishLocal, Deliver, TypeOK
  <2>4. UNCHANGED <<row, by, alive, wire>>  BY <1>1 DEF PublishLocal
  <2>. QED  BY <1>1, <2>1, <2>2, <2>3, <2>4 DEF Heard
<1>2. ASSUME NEW j \in Instances, ConsumeEvent(j) PROVE Goal
  <2>1. chan[j] # <<>> /\ chan[j] \in Seq(Messages)  BY <1>2 DEF ConsumeEvent, TypeOK
  <2>2. Head(chan[j]) \in Messages /\ Head(chan[j]) \in Elems(chan[j])  BY <2>1, TailElements, ElemsTail
  <2>3. Head(chan[j]).change \in Changes /\ Head(chan[j]).change <= row  BY <2>2 DEF MessageInv, Messages
  <2>4. j = i /\ Head(chan[j]).op # "bare" => heard'[i] = Append(heard[i], Head(chan[j]).change)
    BY <1>2 DEF ConsumeEvent, Deliver, TypeOK
  <2>5. ~(j = i /\ Head(chan[j]).op # "bare") => heard'[i] = heard[i]
    BY <1>2 DEF ConsumeEvent, Deliver, TypeOK
  <2>6. UNCHANGED <<row, by, alive, wire>>  BY <1>2 DEF ConsumeEvent
  <2>. QED  BY <1>2, <2>3, <2>4, <2>5, <2>6 DEF Heard
<1>3. ASSUME NEW j \in Instances, DeliverReread(j) PROVE Goal
  <2>1. loop[j].read \in Changes /\ loop[j].read <= row
    BY <1>3, LoopTyped DEF DeliverReread, MessageInv, Changes
  <2>2. j = i => heard'[i] = Append(heard[i], loop[j].read)
    BY <1>3 DEF DeliverReread, Deliver, TypeOK
  <2>3. j # i => heard'[i] = heard[i]  BY <1>3 DEF DeliverReread, Deliver, TypeOK
  <2>4. UNCHANGED <<row, by, alive, wire>>  BY <1>3 DEF DeliverReread
  <2>. QED  BY <1>3, <2>1, <2>2, <2>3, <2>4 DEF Heard
<1>4. ASSUME NEW t \in Threads,
             \/ Notify(t) \/ NotifyFails(t) \/ Enqueue(t)
             \/ \E j \in Instances, dead \in BOOLEAN : Write(t, j, dead)
      PROVE  Goal
  BY <1>4 DEF Notify, NotifyFails, Enqueue, Write
<1>5. ASSUME NEW j \in Instances,
             \/ ListenerFails(j) \/ Listener(j) \/ Reread(j) \/ RereadFails(j)
             \/ FlushTake(j) \/ FlushSend(j) \/ FlushFails(j)
      PROVE  Goal
  BY <1>5 DEF ListenerFails, Listener, ListenerReturns, Receive, Reread, RereadFails, FlushTake, FlushSend,
              FlushFails
<1>6. ASSUME NEW dead \in BOOLEAN, NEW large \in BOOLEAN, ExternalWrite(dead, large) PROVE Goal
  BY <1>6 DEF ExternalWrite
<1>7. CASE UNCHANGED vars  BY <1>7 DEF vars
<1>. QED  BY <1>1, <1>2, <1>3, <1>4, <1>5, <1>6, <1>7 DEF Next, Request, MainLoop

\* What a step leaves in the channels was there, or was just sent.
LEMMA Arrivals ==
    ASSUME TypeOK, SourceInv, [Next]_vars, NEW i \in Instances
    PROVE  /\ \A m \in Elems(wire'[i]) : m \in Elems(wire[i]) \/ Sent(m, i)'
           /\ \A m \in Elems(chan'[i]) : m \in Elems(chan[i]) \/ (m \in Elems(wire[i]) /\ Tells(m, i))
<1>. wire[i] \in Seq(Messages) /\ chan[i] \in Seq(Messages)  BY DEF TypeOK
<1>1. ASSUME NEW m \in Elems(wire'[i]) PROVE m \in Elems(wire[i]) \/ Sent(m, i)'
  <2>1. CASE wire'[i] \in {wire[i], <<>>}  BY <2>1, <1>1, ElemsEmpty
  <2>2. CASE wire[i] # <<>> /\ wire'[i] = Tail(wire[i])  BY <2>2, <1>1, ElemsTail
  <2>3. ASSUME NEW x \in Messages, Sent(x, i)', wire'[i] = Append(wire[i], x)
        PROVE  m \in Elems(wire[i]) \/ Sent(m, i)'
    <3>1. m \in Elems(wire[i]) \/ m = x  BY <2>3, <1>1, ElemsAppend
    <3>. QED  BY <3>1, <2>3
  <2>. QED  BY <2>1, <2>2, <2>3, WireSteps
<1>2. ASSUME NEW m \in Elems(chan'[i])
      PROVE  m \in Elems(chan[i]) \/ (m \in Elems(wire[i]) /\ Tells(m, i))
  <2>1. CASE chan'[i] = chan[i]  BY <2>1, <1>2
  <2>2. CASE chan[i] # <<>> /\ chan'[i] = Tail(chan[i])  BY <2>2, <1>2, ElemsTail
  <2>3. CASE /\ wire[i] # <<>> /\ Tells(Head(wire[i]), i)
             /\ wire'[i] = Tail(wire[i]) /\ chan'[i] = Append(chan[i], Head(wire[i]))
    <3>1. Head(wire[i]) \in Messages /\ Head(wire[i]) \in Elems(wire[i])  BY <2>3, TailElements, ElemsTail
    <3>. QED  BY <2>3, <3>1, <1>2, ElemsAppend
  <2>. QED  BY <2>1, <2>2, <2>3, ChanSteps
<1>. QED  BY <1>1, <1>2

\* What is on its way goes on naming its change and its maker.
LEMMA MessageKept == ASSUME TypeOK, SourceInv, MessageInv, [Next]_vars PROVE MessageInv'
<1>. SUFFICES ASSUME NEW i \in Instances
              PROVE  /\ \A m \in Elems(wire'[i]) \cup Elems(chan'[i]) :
                          m.change <= row' /\ m.from = by'[m.change]
                     /\ \A m \in Elems(chan'[i]) : Tells(m, i)
                     /\ \A n \in Elems(heard'[i]) : n <= row'
                     /\ loop'[i].read <= row'
                     /\ loop'[i].read # 0 => loop'[i].read \in again'[i]
  BY DEF MessageInv, Tells
<1>. wire[i] \in Seq(Messages) /\ chan[i] \in Seq(Messages) /\ heard[i] \in Seq(Changes)  BY DEF TypeOK
<1>1. /\ row' \in {row, row + 1} /\ row \in Nat /\ again[i] \subseteq again'[i]
      /\ \A n \in Changes : n <= row => by'[n] = by[n]
  BY History DEF TypeOK
<1>2. \A m \in Elems(wire[i]) \cup Elems(chan[i]) : m.change <= row' /\ m.from = by'[m.change]
  <2>. TAKE m \in Elems(wire[i]) \cup Elems(chan[i])
  <2>1. m \in Messages  BY ElemsTyped
  <2>2. m.change \in Changes /\ m.change <= row /\ m.from = by[m.change]  BY <2>1 DEF MessageInv, Messages
  <2>. QED  BY <2>2, <1>1 DEF Changes
<1>3. \A m \in Elems(wire'[i]) \cup Elems(chan'[i]) : m.change <= row' /\ m.from = by'[m.change]
  BY <1>2, Arrivals DEF Sent
<1>4. \A m \in Elems(chan'[i]) : Tells(m, i)  BY Arrivals DEF MessageInv
<1>5. \A n \in Elems(heard'[i]) : n <= row'
  <2>1. \A n \in Elems(heard[i]) : n <= row'
    <3>1. \A n \in Elems(heard[i]) : n \in Changes /\ n <= row  BY ElemsTyped DEF MessageInv
    <3>. QED  BY <3>1, <1>1 DEF Changes
  <2>2. ASSUME NEW n \in Changes, n <= row, row' = row, heard'[i] = Append(heard[i], n)
        PROVE  \A x \in Elems(heard'[i]) : x <= row'
    BY <2>1, <2>2, ElemsAppend
  <2>. QED  BY <2>1, <2>2, HeardSteps
<1>6. loop'[i].read <= row' /\ (loop'[i].read # 0 => loop'[i].read \in again'[i])
  <2>1. loop[i].read \in Nat /\ loop[i].read <= row /\ (loop[i].read # 0 => loop[i].read \in again[i])
    BY LoopTyped DEF MessageInv
  <2>. QED  BY <2>1, <1>1, ReadSteps
<1>. QED  BY <1>3, <1>4, <1>5, <1>6

\* What messages carry stays true: the row is only gone once it changed again.
LEMMA CargoKept == ASSUME TypeOK, SourceInv, MessageInv, CargoInv, [Next]_vars PROVE CargoInv'
<1>. SUFFICES ASSUME NEW i \in Instances, NEW m \in Elems(wire'[i]) \cup Elems(chan'[i])
              PROVE  Cargo(m, i)'
  BY DEF CargoInv, Cargo, Tells
<1>1. m \in Elems(wire[i]) \cup Elems(chan[i]) \/ Sent(m, i)'  BY Arrivals
<1>2. CASE Sent(m, i)'  BY <1>2 DEF Sent
<1>3. CASE m \in Elems(wire[i]) \cup Elems(chan[i])
  <2>1. Cargo(m, i) /\ m.change <= row  BY <1>3 DEF CargoInv, MessageInv
  <2>2. wire[i] \in Seq(Messages) /\ chan[i] \in Seq(Messages)  BY DEF TypeOK
  <2>3. m.change \in Changes  BY <1>3, <2>2, ElemsTyped DEF Messages
  <2>4. lost[i] \subseteq lost'[i] /\ row' \in {row, row + 1} /\ (row' = row => alive' = alive) /\ row \in Nat
    BY History DEF TypeOK
  <2>. QED  BY <2>1, <2>3, <2>4 DEF Cargo, Changes, Tells
<1>. QED  BY <1>1, <1>2, <1>3
----------------------------------------------------------------------------
(* How a change leaves its writer.                                         *)

LEMMA PublishMoves ==
    ASSUME TypeOK, SourceInv, NEW t \in Threads, thread[t].pc \in Working,
           NEW p \in {"notify", "enqueue", "done"}, thread' = [thread EXCEPT ![t].pc = p]
    PROVE  \A n : Unpublished(n)' <=> Unpublished(n) /\ n # thread[t].change
<1>1. /\ thread'[t].pc = p
      /\ \A u \in Threads : /\ thread'[u].at = thread[u].at /\ thread'[u].change = thread[u].change
                            /\ u # t => thread'[u] = thread[u]
  BY ThreadMoves DEF Working
<1>2. \A u \in Threads : u # t /\ thread[u].pc = "publish" => thread[u].change # thread[t].change
  BY DEF SourceInv, Working
<1>. QED  BY <1>1, <1>2 DEF Unpublished, Working

\* A change of a thread at work is not in a queue yet.
LEMMA NotQueued ==
    ASSUME TypeOK, SourceInv, NEW t \in Threads, thread[t].pc \in Working
    PROVE  InThread(thread[t].change) /\ ~InQueue(thread[t].change)
<1>1. InThread(thread[t].change)  BY DEF InThread
<1>2. thread[t].change \in Changes  BY WorkerTyped DEF Working
<1>. QED  BY <1>1, <1>2 DEF SourceInv, InQueue

\* A change leaves its writer by being told to the subscribers there, by being
\* sent to the others, or by being given up.
SourceStep(n) ==
    /\ AtSource(n)' => AtSource(n)
    /\ Unpublished(n)' => Unpublished(n)
    /\ Unpublished(n) => Unpublished(n)' \/ \E t \in Threads : PublishLocal(t) /\ thread[t].change = n
    /\ AtSource(n) => \/ AtSource(n)'
                      \/ \A i \in Instances : i # by[n] => n \in lost'[i]
                      \/ Broadcast(Notification(by[n], n))

\* Told, or sent, it is no longer to be.
LEMMA PublishEnds ==
    ASSUME TypeOK, SourceInv, NEW t \in Threads, PublishLocal(t), NEW x, x = thread[t].change
    PROVE  /\ Unpublished(x) /\ ~Unpublished(x)'
           /\ \A n : AtSource(n)' <=> AtSource(n)
<1>1. thread[t].pc = "publish" /\ thread' = [thread EXCEPT ![t].pc = "notify"] /\ UNCHANGED <<retry, loop>>
  BY DEF PublishLocal
<1>2. \A n : InQueue(n)' <=> InQueue(n)  BY <1>1 DEF InQueue
<1>3. "notify" \in Working \cup {"done"} /\ "notify" # "done" /\ thread[t].pc \in Working  BY <1>1 DEF Working
<1>4. \A n : InThread(n)' <=> InThread(n)  BY <1>1, <1>3, ThreadMoves
<1>5. Unpublished(x) /\ ~Unpublished(x)'
  <2>1. \A n : Unpublished(n)' <=> Unpublished(n) /\ n # thread[t].change  BY <1>1, <1>3, PublishMoves
  <2>. QED  BY <1>1, <2>1 DEF Unpublished
<1>. QED  BY <1>2, <1>4, <1>5 DEF AtSource

LEMMA NotifyEnds ==
    ASSUME TypeOK, SourceInv, NEW t \in Threads, Notify(t), NEW x, x = thread[t].change
    PROVE  /\ AtSource(x) /\ ~AtSource(x)'
           /\ \A n : n # x => (AtSource(n)' <=> AtSource(n))
           /\ \A n : Unpublished(n)' <=> Unpublished(n)
<1>1. thread[t].pc = "notify" /\ thread' = [thread EXCEPT ![t].pc = "done"] /\ UNCHANGED <<retry, loop>>
  BY DEF Notify
<1>2. \A n : InQueue(n)' <=> InQueue(n)  BY <1>1 DEF InQueue
<1>3. \A n : InThread(n)' <=> InThread(n) /\ n # thread[t].change  BY <1>1, ThreadMoves DEF Working
<1>4. InThread(thread[t].change) /\ ~InQueue(thread[t].change)  BY <1>1, NotQueued DEF Working
<1>5. ~Unpublished(thread[t].change)
  BY <1>1 DEF Unpublished, SourceInv
<1>6. \A n : Unpublished(n)' <=> Unpublished(n)  BY <1>1, <1>5, PublishMoves DEF Working
<1>. QED  BY <1>2, <1>3, <1>4, <1>6 DEF AtSource

LEMMA FlushSendEnds ==
    ASSUME TypeOK, SourceInv, NEW i \in Instances, FlushSend(i), NEW x, x = Head(loop[i].flush)
    PROVE  /\ x \in Changes /\ by[x] = i /\ x <= row
           /\ AtSource(x) /\ ~AtSource(x)' /\ Broadcast(Notification(i, x))
           /\ \A n \in Changes : n # x => (AtSource(n)' <=> AtSource(n))
           /\ \A n : Unpublished(n)' <=> Unpublished(n)
<1>1. /\ loop[i].flush # <<>> /\ loop'[i].flush = Tail(loop[i].flush)
      /\ \A j \in Instances : j # i => loop'[j] = loop[j]
      /\ UNCHANGED <<thread, retry>> /\ Broadcast(Notification(i, x))
  BY LoopTyped DEF FlushSend, TypeOK, LoopRec
<1>2. /\ x \in Changes
      /\ \A n : Has(loop[i].flush, n) <=> Has(loop'[i].flush, n) \/ x = n
      /\ Once(loop[i].flush, x) => ~Has(loop'[i].flush, x)
  BY <1>1, LoopTyped, HasTail, TailElements
<1>3. /\ Has(loop[i].flush, x) /\ ~Has(loop'[i].flush, x) /\ x <= row /\ by[x] = i /\ ~InThread(x)
      /\ \A j \in Instances : ~Has(retry[j], x) /\ (j # i => ~Has(loop[j].flush, x))
  BY <1>2 DEF SourceInv
<1>4. /\ \A n : InThread(n)' <=> InThread(n)
      /\ \A n : Unpublished(n)' <=> Unpublished(n)
  BY <1>1 DEF InThread, Unpublished
<1>5. InQueue(x) /\ ~InQueue(x)'  BY <1>1, <1>2, <1>3 DEF InQueue
<1>6. \A n \in Changes : n # x => (InQueue(n)' <=> InQueue(n))
  <2>. SUFFICES ASSUME NEW n \in Changes, n # x PROVE InQueue(n)' <=> InQueue(n)  OBVIOUS
  <2>1. \A j \in Instances : Has(loop'[j].flush, n) <=> Has(loop[j].flush, n)  BY <1>1, <1>2
  <2>. QED  BY <1>1, <2>1 DEF InQueue
<1>. QED  BY <1>1, <1>2, <1>3, <1>4, <1>5, <1>6 DEF AtSource

LEMMA SourceSteps ==
    ASSUME TypeOK, SourceInv, [Next]_vars, NEW n \in Changes, n <= row PROVE SourceStep(n)
<1>1. ASSUME UNCHANGED <<thread, retry>>, \A j \in Instances : loop'[j].flush = loop[j].flush
      PROVE  SourceStep(n)
  <2>1. /\ InThread(n)' <=> InThread(n)
        /\ Unpublished(n)' <=> Unpublished(n)
        /\ InQueue(n)' <=> InQueue(n)
    BY <1>1 DEF InThread, Unpublished, InQueue
  <2>. QED  BY <2>1 DEF SourceStep, AtSource
<1>2. ASSUME NEW t \in Threads, NEW i \in Instances, NEW dead \in BOOLEAN, Write(t, i, dead) PROVE SourceStep(n)
  <2>1. /\ thread'[t] = [pc |-> "publish", at |-> i, change |-> row + 1] /\ thread[t].pc = "new"
        /\ \A u \in Threads : u # t => thread'[u] = thread[u]
        /\ UNCHANGED <<retry, loop>>
    BY <1>2 DEF Write, TypeOK
  <2>2. n # row + 1  BY DEF Changes, TypeOK
  <2>3. /\ InThread(n)' <=> InThread(n)
        /\ Unpublished(n)' <=> Unpublished(n)
        /\ InQueue(n)' <=> InQueue(n)
    BY <2>1, <2>2 DEF InThread, Unpublished, InQueue, Working
  <2>. QED  BY <2>3 DEF SourceStep, AtSource
<1>3. ASSUME NEW t \in Threads, PublishLocal(t) PROVE SourceStep(n)
  <2>1. thread[t].pc = "publish" /\ thread' = [thread EXCEPT ![t].pc = "notify"]
    BY <1>3 DEF PublishLocal
  <2>2. Unpublished(n)' <=> Unpublished(n) /\ n # thread[t].change  BY <2>1, PublishMoves DEF Working
  <2>. QED  BY <1>3, <2>2, PublishEnds DEF SourceStep
<1>4. ASSUME NEW t \in Threads, Notify(t) PROVE SourceStep(n)
  <2>1. thread[t].at = by[thread[t].change]
    BY <1>4 DEF Notify, SourceInv
  <2>2. \/ Broadcast(Notification(thread[t].at, thread[t].change))
        \/ \A j \in Instances : j # thread[t].at => thread[t].change \in lost'[j]
    BY <1>4 DEF Notify
  <2>. QED  BY <1>4, <2>1, <2>2, NotifyEnds DEF SourceStep
<1>5. ASSUME NEW t \in Threads, NotifyFails(t) PROVE SourceStep(n)
  <2>1. thread[t].pc = "notify" /\ thread' = [thread EXCEPT ![t].pc = "enqueue"] /\ UNCHANGED <<retry, loop>>
    BY <1>5 DEF NotifyFails
  <2>2. InThread(n)' <=> InThread(n)
    <3>1. "enqueue" \in Working \cup {"done"} /\ "enqueue" # "done" /\ thread[t].pc \in Working  BY <2>1 DEF Working
    <3>. QED  BY <2>1, <3>1, ThreadMoves
  <2>3. ~Unpublished(thread[t].change)  BY <2>1 DEF Unpublished, SourceInv
  <2>4. Unpublished(n)' <=> Unpublished(n)  BY <2>1, <2>3, PublishMoves DEF Working
  <2>5. InQueue(n)' <=> InQueue(n)  BY <2>1 DEF InQueue
  <2>. QED  BY <2>2, <2>4, <2>5 DEF SourceStep, AtSource
<1>6. ASSUME NEW t \in Threads, Enqueue(t) PROVE SourceStep(n)
  <2>. DEFINE i == thread[t].at
              x == thread[t].change
              full == Len(retry[i]) >= MaxRetries
              rest == IF full THEN Tail(retry[i]) ELSE retry[i]
  <2>1. /\ thread[t].pc = "enqueue" /\ thread' = [thread EXCEPT ![t].pc = "done"]
        /\ retry' = [retry EXCEPT ![i] = Append(rest, x)] /\ UNCHANGED loop
        /\ full => \A j \in Instances : j # i => Head(retry[i]) \in lost'[j]
    BY <1>6 DEF Enqueue
  <2>2. i \in Instances /\ x \in Changes  BY <2>1, WorkerTyped
  <2>3. InThread(n)' <=> InThread(n) /\ n # x  BY <2>1, ThreadMoves DEF Working
  <2>4. InThread(x)  BY <2>1, NotQueued DEF Working
  <2>5. ~Unpublished(x)  BY <2>1 DEF Unpublished, SourceInv
  <2>6. Unpublished(n)' <=> Unpublished(n)  BY <2>1, <2>5, PublishMoves DEF Working
  <2>7. /\ rest \in Seq(Changes)
        /\ Has(retry[i], n) <=> Has(rest, n) \/ (full /\ Head(retry[i]) = n)
    <3>1. retry[i] \in Seq(Changes) /\ Len(retry[i]) \in Nat  BY <2>2, LenProperties DEF TypeOK
    <3>2. CASE full
      <4>1. retry[i] # <<>>  BY <3>1, <3>2, EmptySeq, BoundsAssumption
      <4>. QED  BY <3>1, <3>2, <4>1, HasTail, TailElements
    <3>. QED  BY <3>1, <3>2
  <2>8. Has(retry'[i], n) <=> Has(rest, n) \/ x = n
    <3>1. retry'[i] = Append(rest, x)  BY <2>1, <2>2 DEF TypeOK
    <3>. HIDE DEF rest, x
    <3>. QED  BY <3>1, <2>2, <2>7, HasAppend
  <2>9. \A j \in Instances : j # i => retry'[j] = retry[j]  BY <2>1, <2>2 DEF TypeOK
  <2>10. Has(retry[i], n) => by[n] = i  BY <2>2 DEF SourceInv
  <2>. HIDE DEF rest, full, i, x
  <2>11. AtSource(n)' => AtSource(n)
    BY <2>1, <2>2, <2>3, <2>4, <2>7, <2>8, <2>9 DEF AtSource, InQueue
  <2>12. AtSource(n) => AtSource(n)' \/ \A j \in Instances : j # by[n] => n \in lost'[j]
    BY <2>1, <2>2, <2>3, <2>7, <2>8, <2>9, <2>10 DEF AtSource, InQueue
  <2>. QED  BY <2>6, <2>11, <2>12 DEF SourceStep
<1>7. ASSUME NEW i \in Instances, FlushTake(i) PROVE SourceStep(n)
  <2>1. /\ loop[i].flush = <<>> /\ loop'[i].flush = retry[i] /\ retry'[i] = <<>>
        /\ \A j \in Instances : j # i => loop'[j] = loop[j] /\ retry'[j] = retry[j]
        /\ UNCHANGED thread
    BY <1>7, LoopTyped DEF FlushTake, TypeOK, LoopRec
  <2>2. ~Has(<<>>, n)  BY DEF Has
  <2>3. InQueue(n)' <=> InQueue(n)
    <3>1. \A j \in Instances : Has(retry'[j], n) \/ Has(loop'[j].flush, n)
                                 <=> Has(retry[j], n) \/ Has(loop[j].flush, n)
      BY <2>1, <2>2
    <3>. QED  BY <3>1 DEF InQueue
  <2>4. (InThread(n)' <=> InThread(n)) /\ (Unpublished(n)' <=> Unpublished(n))
    BY <2>1 DEF InThread, Unpublished
  <2>. QED  BY <2>3, <2>4 DEF SourceStep, AtSource
<1>8. ASSUME NEW i \in Instances, FlushSend(i) PROVE SourceStep(n)
  BY <1>8, FlushSendEnds DEF SourceStep
<1>9. ASSUME NEW i \in Instances, FlushFails(i) PROVE SourceStep(n)
  <2>. DEFINE x == Head(loop[i].flush)
  <2>1. /\ loop[i].flush # <<>> /\ loop'[i].flush = Tail(loop[i].flush) /\ retry'[i] = Append(retry[i], x)
        /\ \A j \in Instances : j # i => loop'[j] = loop[j] /\ retry'[j] = retry[j]
        /\ UNCHANGED thread
    BY <1>9, LoopTyped DEF FlushFails, TypeOK, LoopRec
  <2>2. x \in Changes /\ (Has(loop[i].flush, n) <=> Has(loop'[i].flush, n) \/ x = n)
    BY <2>1, LoopTyped, HasTail, TailElements
  <2>3. Has(retry'[i], n) <=> Has(retry[i], n) \/ x = n
    <3>1. retry[i] \in Seq(Changes)  BY DEF TypeOK
    <3>. QED  BY <2>1, <2>2, <3>1, HasAppend
  <2>. HIDE DEF x
  <2>4. InQueue(n)' <=> InQueue(n)
    <3>1. \A j \in Instances : Has(retry'[j], n) \/ Has(loop'[j].flush, n)
                                 <=> Has(retry[j], n) \/ Has(loop[j].flush, n)
      BY <2>1, <2>2, <2>3
    <3>. QED  BY <3>1 DEF InQueue
  <2>5. (InThread(n)' <=> InThread(n)) /\ (Unpublished(n)' <=> Unpublished(n))
    BY <2>1 DEF InThread, Unpublished
  <2>. QED  BY <2>4, <2>5 DEF SourceStep, AtSource
<1>10. ASSUME NEW i \in Instances, Reread(i) \/ DeliverReread(i) PROVE SourceStep(n)
  <2>1. \A j \in Instances : loop'[j].flush = loop[j].flush
    <3>1. CASE Reread(i)  BY <3>1 DEF Reread, TypeOK, LoopRec
    <3>2. CASE DeliverReread(i)  BY <3>2 DEF DeliverReread, TypeOK, LoopRec
    <3>. QED  BY <1>10, <3>1, <3>2
  <2>. QED  BY <1>1, <1>10, <2>1 DEF Reread, DeliverReread
<1>11. ASSUME NEW i \in Instances, ListenerFails(i) \/ Listener(i) \/ ConsumeEvent(i) \/ RereadFails(i)
       PROVE  SourceStep(n)
  BY <1>1, <1>11 DEF ListenerFails, Listener, ListenerReturns, Receive, ConsumeEvent, RereadFails
<1>12. ASSUME NEW dead \in BOOLEAN, NEW large \in BOOLEAN, ExternalWrite(dead, large) PROVE SourceStep(n)
  BY <1>1, <1>12 DEF ExternalWrite
<1>13. CASE UNCHANGED vars  BY <1>1, <1>13 DEF vars
<1>. QED  BY <1>2, <1>3, <1>4, <1>5, <1>6, <1>7, <1>8, <1>9, <1>10, <1>11, <1>12, <1>13
          DEF Next, Request, MainLoop
----------------------------------------------------------------------------
(* A change is in one place on its way to an instance.                     *)

LEMMA ToTellShrinks ==
    ASSUME TypeOK, SourceInv, [Next]_vars, NEW i \in Instances, NEW n \in Changes, n <= row
    PROVE  ToTell(i, n)' => ToTell(i, n)
<1>1. by'[n] = by[n] /\ SourceStep(n)  BY History, SourceSteps
<1>. QED  BY <1>1 DEF ToTell, SourceStep

\* Steps that add nothing to what is on its way.
LEMMA OnceFrame ==
    ASSUME TypeOK, NEW i \in Instances, NEW n, OncePlace(i, n), ToTell(i, n)' => ToTell(i, n),
           heard'[i] = heard[i], wire'[i] \in {wire[i], <<>>},
           chan'[i] = chan[i] \/ (chan[i] # <<>> /\ chan'[i] = Tail(chan[i]))
    PROVE  OncePlace(i, n)'
<1>1. /\ HasNews(wire'[i], i, n) => HasNews(wire[i], i, n)
      /\ OnceNews(wire'[i], i, n)
  <2>1. ~HasNews(<<>>, i, n) /\ OnceNews(<<>>, i, n)  BY DEF HasNews, OnceNews
  <2>. QED  BY <2>1 DEF OncePlace
<1>2. /\ HasNews(chan'[i], i, n) => HasNews(chan[i], i, n)
      /\ OnceNews(chan'[i], i, n)
  <2>1. chan[i] \in Seq(Messages)  BY DEF TypeOK
  <2>. QED  BY <2>1, NewsTail DEF OncePlace
<1>3. Has(heard'[i], n) <=> Has(heard[i], n)  OBVIOUS
<1>. QED  BY <1>1, <1>2, <1>3 DEF OncePlace, HasNews, OnceNews, News, Tells

\* A change that is sent leaves its writer for the others.
LEMMA OnceSent ==
    ASSUME TypeOK, SourceInv, [Next]_vars, NEW i \in Instances, NEW n \in Changes, n <= row, OncePlace(i, n),
           NEW j \in Instances, NEW x \in Changes, by[x] = j, Broadcast(Notification(j, x)),
           AtSource(x), ~AtSource(x)', UNCHANGED <<chan, heard>>
    PROVE  OncePlace(i, n)'
<1>1. by'[n] = by[n] /\ (ToTell(i, n)' => ToTell(i, n))  BY History, ToTellShrinks
<1>2. PICK m \in Messages : /\ m = Notification(j, x)
                            /\ m.change = x /\ m.from = j /\ m.via = "notify"
  BY NotificationFields
<1>3. wire'[i] = wire[i] \/ wire'[i] = Append(wire[i], m)  BY <1>2 DEF Broadcast
<1>4. News(m, i, n) <=> n = x /\ i # j  BY <1>2 DEF News, Tells
<1>5. CASE wire'[i] = wire[i]  BY <1>1, <1>5, OnceFrame
<1>6. CASE wire'[i] = Append(wire[i], m)
  <2>1. wire[i] \in Seq(Messages)  BY DEF TypeOK
  <2>2. /\ HasNews(wire'[i], i, n) <=> HasNews(wire[i], i, n) \/ News(m, i, n)
        /\ ~(HasNews(wire[i], i, n) /\ News(m, i, n)) => OnceNews(wire'[i], i, n)
    BY <1>6, <2>1, NewsAppend DEF OncePlace
  <2>3. News(m, i, n) => ToTell(i, n) /\ ~ToTell(i, n)'
    BY <1>1, <1>4 DEF ToTell
  <2>4. OnceNews(wire'[i], i, n)  BY <2>2, <2>3 DEF OncePlace
  <2>. QED  BY <1>1, <2>2, <2>3, <2>4 DEF OncePlace, HasNews, OnceNews, News, Tells
<1>. QED  BY <1>3, <1>5, <1>6

\* A change that is delivered leaves its writer, the channel, or a row read again.
LEMMA OnceDelivered ==
    ASSUME TypeOK, SourceInv, MessageInv, [Next]_vars, NEW i \in Instances,
           NEW n \in Changes, n <= row, OncePlace(i, n), n \notin again[i],
           NEW x \in Changes, Heard(i, x), heard'[i] = Append(heard[i], x), wire' = wire
    PROVE  OncePlace(i, n)'
<1>. heard[i] \in Seq(Changes) /\ chan[i] \in Seq(Messages)  BY DEF TypeOK
<1>1. by'[n] = by[n] /\ (ToTell(i, n)' => ToTell(i, n))  BY History, ToTellShrinks
<1>2. /\ Has(heard'[i], n) <=> Has(heard[i], n) \/ x = n
      /\ Once(heard[i], n) /\ ~(Has(heard[i], n) /\ x = n) => Once(heard'[i], n)
  BY HasAppend
<1>3. ASSUME NEW t \in Threads, PublishLocal(t), thread[t].at = i, thread[t].change = x
      PROVE  OncePlace(i, n)'
  <2>1. chan' = chan /\ by[x] = i  BY <1>3 DEF PublishLocal, SourceInv
  <2>2. x = n => ToTell(i, n) /\ ~ToTell(i, n)'  BY <1>1, <1>3, <2>1, PublishEnds DEF ToTell
  <2>. QED  BY <1>1, <1>2, <2>1, <2>2 DEF OncePlace, HasNews, OnceNews, News, Tells
<1>4. ASSUME ConsumeEvent(i), Head(chan[i]).change = x PROVE OncePlace(i, n)'
  <2>1. chan[i] # <<>> /\ chan'[i] = Tail(chan[i])  BY <1>4 DEF ConsumeEvent, TypeOK
  <2>2. Tells(Head(chan[i]), i)
    BY <2>1, ElemsTail DEF MessageInv
  <2>3. News(Head(chan[i]), i, n) <=> x = n  BY <1>4, <2>2 DEF News
  <2>4. /\ HasNews(chan[i], i, n) <=> HasNews(chan'[i], i, n) \/ x = n
        /\ OnceNews(chan'[i], i, n) /\ ~(HasNews(chan'[i], i, n) /\ x = n)
    BY <2>1, <2>3, NewsTail DEF OncePlace
  <2>. QED  BY <1>1, <1>2, <2>4 DEF OncePlace, HasNews, OnceNews, News, Tells
<1>5. ASSUME DeliverReread(i), loop[i].read = x PROVE OncePlace(i, n)'
  <2>1. chan' = chan  BY <1>5 DEF DeliverReread
  <2>2. x # n  BY <1>5 DEF DeliverReread, MessageInv
  <2>. QED  BY <1>1, <1>2, <2>1, <2>2 DEF OncePlace, HasNews, OnceNews, News, Tells
<1>. QED  BY <1>3, <1>4, <1>5 DEF Heard

\* A change moves from one channel to the next.
LEMMA OnceReceived ==
    ASSUME TypeOK, NEW i \in Instances, NEW n \in Changes, OncePlace(i, n), ToTell(i, n)' => ToTell(i, n),
           Receive(i)
    PROVE  OncePlace(i, n)'
<1>. wire[i] \in Seq(Messages) /\ chan[i] \in Seq(Messages)  BY DEF TypeOK
<1>. DEFINE h == Head(wire[i])
<1>1. /\ wire[i] # <<>> /\ wire'[i] = Tail(wire[i]) /\ heard' = heard
      /\ (Tells(h, i) /\ chan'[i] = Append(chan[i], h)) \/ (~Tells(h, i) /\ chan'[i] = chan[i])
  BY DEF Receive, Parses, Tells, TypeOK
<1>2. /\ HasNews(wire[i], i, n) <=> HasNews(wire'[i], i, n) \/ News(h, i, n)
      /\ OnceNews(wire'[i], i, n) /\ ~(HasNews(wire'[i], i, n) /\ News(h, i, n))
  BY <1>1, NewsTail DEF OncePlace
<1>3. /\ HasNews(chan'[i], i, n) => HasNews(chan[i], i, n) \/ News(h, i, n)
      /\ OnceNews(chan'[i], i, n)
  <2>1. h \in Messages  BY <1>1, TailElements
  <2>2. News(h, i, n) => ~HasNews(chan[i], i, n)  BY <1>2 DEF OncePlace
  <2>. HIDE DEF h
  <2>. QED  BY <1>1, <2>1, <2>2, NewsAppend DEF OncePlace
<1>. HIDE DEF h
<1>. QED  BY <1>1, <1>2, <1>3 DEF OncePlace, HasNews, OnceNews, News, Tells, Has, Once

\* A change just made is with its writer, or in the trigger's message.
LEMMA OnceNew ==
    ASSUME TypeOK, SourceInv, MessageInv, [Next]_vars, row' = row + 1, NEW i \in Instances
    PROVE  \A n : n = row + 1 => OncePlace(i, n)'
<1>. wire[i] \in Seq(Messages) /\ chan[i] \in Seq(Messages) /\ row \in Nat  BY DEF TypeOK
<1>. SUFFICES ASSUME NEW n, n = row + 1 PROVE OncePlace(i, n)'  OBVIOUS
<1>1. /\ ~HasNews(wire[i], i, n) /\ ~HasNews(chan[i], i, n) /\ ~Has(heard[i], n)
  <2>1. \A m \in Elems(wire[i]) \cup Elems(chan[i]) : m.change # n
    <3>. TAKE m \in Elems(wire[i]) \cup Elems(chan[i])
    <3>1. m \in Messages  BY ElemsTyped
    <3>2. m.change \in Nat /\ m.change <= row  BY <3>1 DEF MessageInv, Messages, Changes
    <3>. QED  BY <3>2
  <2>2. \A x \in Elems(heard[i]) : x # n
    <3>. TAKE x \in Elems(heard[i])
    <3>1. heard[i] \in Seq(Changes)  BY DEF TypeOK
    <3>2. x \in Changes  BY <3>1, ElemsTyped
    <3>3. x <= row  BY DEF MessageInv
    <3>. QED  BY <3>2, <3>3 DEF Changes
  <2>. QED  BY <2>1, <2>2 DEF HasNews, News, Has, Elems
<1>2. UNCHANGED <<chan, heard>>
      /\ \/ \E t \in Threads, j \in Instances, dead \in BOOLEAN : Write(t, j, dead)
         \/ \E dead, large \in BOOLEAN : ExternalWrite(dead, large)
  <2>1. \A t \in Threads : Request(t) => row' = row  BY DEF Request, PublishLocal, Notify, NotifyFails, Enqueue
  <2>2. \A j \in Instances : ListenerFails(j) \/ Listener(j) \/ MainLoop(j) => row' = row
    BY DEF ListenerFails, Listener, ListenerReturns, Receive, MainLoop, ConsumeEvent, Reread, RereadFails,
           DeliverReread, FlushTake, FlushSend, FlushFails
  <2>3. UNCHANGED vars => row' = row  BY DEF vars
  <2>. QED  BY <2>1, <2>2, <2>3 DEF Next, Write, ExternalWrite
<1>3. ASSUME NEW m \in Messages, wire'[i] \in {wire[i], Append(wire[i], m)}
      PROVE  OnceNews(wire'[i], i, n) /\ (HasNews(wire'[i], i, n) => News(m, i, n))
  <2>1. OnceNews(wire[i], i, n)  BY <1>1 DEF HasNews, OnceNews
  <2>2. /\ HasNews(Append(wire[i], m), i, n) <=> HasNews(wire[i], i, n) \/ News(m, i, n)
        /\ OnceNews(wire[i], i, n) /\ ~(HasNews(wire[i], i, n) /\ News(m, i, n)) =>
              OnceNews(Append(wire[i], m), i, n)
    BY NewsAppend
  <2>. QED  BY <1>1, <1>3, <2>1, <2>2
<1>4. ASSUME NEW t \in Threads, NEW j \in Instances, NEW dead \in BOOLEAN, Write(t, j, dead)
      PROVE  OnceNews(wire'[i], i, n) /\ ~HasNews(wire'[i], i, n)
  <2>1. row + 1 \in Changes  BY <1>4, ChangeIsNew DEF Write
  <2>2. PICK m \in Messages : m = [via |-> "trigger", from |-> j, change |-> row + 1,
                                  op |-> IF dead THEN "delete" ELSE "write"]
    BY <2>1 DEF Messages, Writers
  <2>3. wire'[i] \in {wire[i], Append(wire[i], m)}  BY <1>4, <2>2 DEF Write, Trigger
  <2>4. ~News(m, i, n)  BY <2>2, NoneAssumption DEF News, Tells
  <2>. QED  BY <1>3, <2>3, <2>4
<1>5. ASSUME NEW dead \in BOOLEAN, NEW large \in BOOLEAN, ExternalWrite(dead, large)
      PROVE  OnceNews(wire'[i], i, n) /\ ~ToTell(i, n)'
  <2>1. row + 1 \in Changes /\ by'[row + 1] = None  BY <1>5, ChangeIsNew DEF ExternalWrite
  <2>2. PICK m \in Messages : m = [via |-> "trigger", from |-> None, change |-> row + 1,
                                  op |-> IF large THEN "bare" ELSE IF dead THEN "delete" ELSE "write"]
    BY <2>1 DEF Messages, Writers
  <2>3. wire'[i] \in {wire[i], Append(wire[i], m)}  BY <1>5, <2>2 DEF ExternalWrite, Trigger
  <2>4. SourceInv'  BY SourceKept
  <2>5. ~InThread(n)' /\ ~Unpublished(n)'
    BY <2>1, <2>4, NoneAssumption DEF SourceInv, InThread, Unpublished, Working
  <2>6. ~InQueue(n)'  BY <2>1, <2>4, NoneAssumption DEF SourceInv, InQueue
  <2>. QED  BY <1>3, <2>3, <2>5, <2>6 DEF ToTell, AtSource
<1>6. OnceNews(wire'[i], i, n) /\ ~(ToTell(i, n)' /\ HasNews(wire'[i], i, n))
  BY <1>2, <1>4, <1>5
<1>. QED  BY <1>1, <1>2, <1>6 DEF OncePlace, HasNews, OnceNews, News, Tells, Has, Once

\* A message about something else.
LEMMA OtherNews ==
    ASSUME NEW s \in Seq(Messages), NEW m \in Messages, NEW i, NEW n, ~News(m, i, n), OnceNews(s, i, n)
    PROVE  /\ HasNews(Append(s, m), i, n) <=> HasNews(s, i, n)
           /\ OnceNews(Append(s, m), i, n)
  BY NewsAppend

\* No step puts a change into a second place on its way to an instance.
LEMMA OnceKept == ASSUME TypeOK, SourceInv, MessageInv, OnceInv, [Next]_vars PROVE OnceInv'
<1>. SUFFICES ASSUME NEW i \in Instances, NEW n \in 1..row', n \notin again'[i] PROVE OncePlace(i, n)'
  BY DEF OnceInv
<1>1. row \in Nat /\ row' \in {row, row + 1} /\ again[i] \subseteq again'[i] /\ TypeOK'
  BY History, TypeKept DEF TypeOK
<1>2. CASE row' = row + 1 /\ n = row + 1  BY <1>2, OnceNew
<1>3. CASE n <= row
  <2>1. n \in Changes /\ OncePlace(i, n) /\ n \notin again[i]
    BY <1>1, <1>3, BoundsAssumption DEF OnceInv, TypeOK, Changes
  <2>2. ToTell(i, n)' => ToTell(i, n)  BY <2>1, <1>3, ToTellShrinks
  <2>3. CASE heard'[i] # heard[i]
    <3>1. PICK x \in Changes : Heard(i, x) /\ heard'[i] = Append(heard[i], x) /\ wire' = wire
      BY <2>3, HeardSteps
    <3>. QED  BY <2>1, <1>3, <3>1, OnceDelivered
  <2>4. ASSUME heard'[i] = heard[i], wire'[i] \in {wire[i], <<>>},
               chan'[i] = chan[i] \/ (chan[i] # <<>> /\ chan'[i] = Tail(chan[i]))
        PROVE  OncePlace(i, n)'
    BY <2>1, <2>2, <2>4, OnceFrame
  <2>5. ASSUME NEW t \in Threads, Request(t), heard'[i] = heard[i] PROVE OncePlace(i, n)'
    <3>1. CASE PublishLocal(t) \/ Enqueue(t)
      BY <2>4, <2>5, <3>1 DEF PublishLocal, Enqueue
    <3>2. CASE Notify(t)
      <4>1. CASE UNCHANGED wire  BY <2>4, <2>5, <3>2, <4>1 DEF Notify
      <4>2. CASE Broadcast(Notification(thread[t].at, thread[t].change))
        <5>1. /\ thread[t].at \in Instances /\ thread[t].change \in Changes
              /\ by[thread[t].change] = thread[t].at /\ UNCHANGED <<chan, heard>>
          BY <3>2, WorkerTyped DEF Notify, SourceInv
        <5>2. PICK x \in Changes : x = thread[t].change  BY <5>1
        <5>3. AtSource(x) /\ ~AtSource(x)'  BY <3>2, <5>2, NotifyEnds
        <5>. QED  BY <2>1, <1>3, <4>2, <5>1, <5>2, <5>3, OnceSent
      <4>. QED  BY <3>2, <4>1, <4>2 DEF Notify
    <3>3. CASE NotifyFails(t)
      <4>1. CASE UNCHANGED wire  BY <2>4, <2>5, <3>3, <4>1 DEF NotifyFails
      <4>2. CASE /\ Broadcast(Notification(thread[t].at, thread[t].change))
                 /\ again' = [j \in Instances |-> again[j] \cup {thread[t].change}]
        <5>1. thread[t].at \in Instances /\ thread[t].change \in Changes /\ thread[t].change # n
          BY <3>3, <4>2, WorkerTyped DEF NotifyFails
        <5>2. PICK m \in Messages : m = Notification(thread[t].at, thread[t].change) /\ m.change # n
          BY <5>1, NotificationFields
        <5>3. wire'[i] = wire[i] \/ wire'[i] = Append(wire[i], m)  BY <4>2, <5>2 DEF Broadcast
        <5>4. wire[i] \in Seq(Messages) /\ ~News(m, i, n)  BY <5>2 DEF TypeOK, News
        <5>5. /\ HasNews(wire'[i], i, n) <=> HasNews(wire[i], i, n)
              /\ OnceNews(wire'[i], i, n)
          <6>1. OnceNews(wire[i], i, n)  BY <2>1 DEF OncePlace
          <6>2. /\ HasNews(Append(wire[i], m), i, n) <=> HasNews(wire[i], i, n)
                /\ OnceNews(Append(wire[i], m), i, n)
            BY <5>4, <6>1, OtherNews
          <6>. QED  BY <5>3, <6>1, <6>2
        <5>6. UNCHANGED <<chan, heard>>  BY <3>3 DEF NotifyFails
        <5>. QED  BY <2>1, <2>2, <5>5, <5>6 DEF OncePlace, HasNews, OnceNews, News, Tells
      <4>. QED  BY <3>3, <4>1, <4>2 DEF NotifyFails
    <3>. QED  BY <2>5, <3>1, <3>2, <3>3 DEF Request
  <2>6. ASSUME NEW t \in Threads, NEW j \in Instances, NEW dead \in BOOLEAN, Write(t, j, dead)
        PROVE  OncePlace(i, n)'
    <3>1. row + 1 \in Changes  BY <2>6, ChangeIsNew DEF Write
    <3>2. PICK m \in Messages : m = [via |-> "trigger", from |-> j, change |-> row + 1,
                                    op |-> IF dead THEN "delete" ELSE "write"]
      BY <3>1 DEF Messages, Writers
    <3>3. wire'[i] \in {wire[i], Append(wire[i], m)} /\ UNCHANGED <<chan, heard>>
      BY <2>6, <3>2 DEF Write, Trigger
    <3>4. wire[i] \in Seq(Messages) /\ ~News(m, i, n)  BY <3>2, <1>1, <1>3 DEF TypeOK, News
    <3>5. (HasNews(wire'[i], i, n) <=> HasNews(wire[i], i, n)) /\ OnceNews(wire'[i], i, n)
      <4>1. OnceNews(wire[i], i, n)  BY <2>1 DEF OncePlace
      <4>2. /\ HasNews(Append(wire[i], m), i, n) <=> HasNews(wire[i], i, n)
            /\ OnceNews(Append(wire[i], m), i, n)
        BY <3>4, <4>1, OtherNews
      <4>. QED  BY <3>3, <4>1, <4>2
    <3>. QED  BY <2>1, <2>2, <3>3, <3>5 DEF OncePlace, HasNews, OnceNews, News, Tells
  <2>7. ASSUME NEW dead \in BOOLEAN, NEW large \in BOOLEAN, ExternalWrite(dead, large) PROVE OncePlace(i, n)'
    <3>1. row + 1 \in Changes  BY <2>7, ChangeIsNew DEF ExternalWrite
    <3>2. PICK m \in Messages : m = [via |-> "trigger", from |-> None, change |-> row + 1,
                                    op |-> IF large THEN "bare" ELSE IF dead THEN "delete" ELSE "write"]
      BY <3>1 DEF Messages, Writers
    <3>3. wire'[i] \in {wire[i], Append(wire[i], m)} /\ UNCHANGED <<chan, heard>>
      BY <2>7, <3>2 DEF ExternalWrite, Trigger
    <3>4. wire[i] \in Seq(Messages) /\ ~News(m, i, n)  BY <3>2, <1>1, <1>3 DEF TypeOK, News
    <3>5. (HasNews(wire'[i], i, n) <=> HasNews(wire[i], i, n)) /\ OnceNews(wire'[i], i, n)
      <4>1. OnceNews(wire[i], i, n)  BY <2>1 DEF OncePlace
      <4>2. /\ HasNews(Append(wire[i], m), i, n) <=> HasNews(wire[i], i, n)
            /\ OnceNews(Append(wire[i], m), i, n)
        BY <3>4, <4>1, OtherNews
      <4>. QED  BY <3>3, <4>1, <4>2
    <3>. QED  BY <2>1, <2>2, <3>3, <3>5 DEF OncePlace, HasNews, OnceNews, News, Tells
  <2>8. ASSUME NEW j \in Instances, Receive(j), heard'[i] = heard[i] PROVE OncePlace(i, n)'
    <3>1. CASE j = i  BY <2>1, <2>2, <2>8, <3>1, OnceReceived
    <3>2. CASE j # i  BY <2>4, <2>8, <3>2 DEF Receive, TypeOK
    <3>. QED  BY <3>1, <3>2
  <2>9. ASSUME NEW j \in Instances, FlushSend(j) PROVE OncePlace(i, n)'
    <3>1. PICK x : x = Head(loop[j].flush)  OBVIOUS
    <3>2. /\ x \in Changes /\ by[x] = j /\ AtSource(x) /\ ~AtSource(x)' /\ Broadcast(Notification(j, x))
          /\ UNCHANGED <<chan, heard>>
      BY <2>9, <3>1, FlushSendEnds DEF FlushSend
    <3>. QED  BY <2>1, <1>3, <3>2, OnceSent
  <2>10. ASSUME NEW j \in Instances, heard'[i] = heard[i],
                \/ ListenerFails(j) \/ ListenerReturns(j) \/ DeliverReread(j) \/ FlushTake(j) \/ FlushFails(j)
         PROVE  OncePlace(i, n)'
    BY <2>4, <2>10 DEF ListenerFails, ListenerReturns, DeliverReread, FlushTake, FlushFails, TypeOK
  <2>11. ASSUME NEW j \in Instances, heard'[i] = heard[i], ConsumeEvent(j) \/ Reread(j) \/ RereadFails(j)
         PROVE  OncePlace(i, n)'
    BY <2>4, <2>11 DEF ConsumeEvent, Reread, RereadFails, TypeOK
  <2>12. CASE UNCHANGED vars  BY <2>4, <2>12 DEF vars
  <2>. QED  BY <2>3, <2>5, <2>6, <2>7, <2>8, <2>9, <2>10, <2>11, <2>12 DEF Next, Listener, MainLoop
<1>. QED  BY <1>1, <1>2, <1>3
----------------------------------------------------------------------------
(* The last change is never overtaken unnoticed.                           *)

\* Positions behind another one.
LEMMA BehindAppend ==
    ASSUME NEW S, NEW s \in Seq(S), NEW x \in S, NEW i, NEW n, NEW k \in 1..Len(s),
           NewsBehind(s, i, n, k) \/ News(x, i, n)
    PROVE  NewsBehind(Append(s, x), i, n, k)
<1>. DEFINE a == Append(s, x)
<1>1. /\ Len(a) = Len(s) + 1 /\ Len(s) \in Nat
      /\ \A l \in 1..Len(s) : a[l] = s[l]
      /\ a[Len(s) + 1] = x
  BY AppendElements
<1>. HIDE DEF a
<1>2. ASSUME News(x, i, n) PROVE NewsBehind(a, i, n, k)
  <2>1. Len(s) + 1 \in 1..Len(a) /\ k < Len(s) + 1  BY <1>1
  <2>. QED  BY <2>1, <1>1, <1>2 DEF NewsBehind
<1>3. ASSUME NewsBehind(s, i, n, k) PROVE NewsBehind(a, i, n, k)
  <2>1. 1..Len(s) \subseteq 1..Len(a)  BY <1>1
  <2>. QED  BY <2>1, <1>1, <1>3 DEF NewsBehind
<1>. QED  BY <1>2, <1>3 DEF a

LEMMA BehindTail ==
    ASSUME NEW S, NEW s \in Seq(S), s # <<>>, NEW i, NEW n
    PROVE  /\ NewsBehind(s, i, n, 1) => HasNews(Tail(s), i, n)
           /\ \A k \in 1..Len(Tail(s)) :
                /\ k + 1 \in 1..Len(s) /\ Tail(s)[k] = s[k + 1]
                /\ NewsBehind(s, i, n, k + 1) => NewsBehind(Tail(s), i, n, k)
<1>. DEFINE a == Tail(s)
<1>1. /\ Len(s) \in Nat \ {0} /\ Len(a) = Len(s) - 1
      /\ \A l \in 1..Len(s) - 1 : a[l] = s[l + 1]
  BY TailElements
<1>2. \A l \in 1..Len(s) : l > 1 => l - 1 \in 1..Len(a) /\ a[l - 1] = s[l]  BY <1>1
<1>. HIDE DEF a
<1>3. ASSUME NewsBehind(s, i, n, 1) PROVE HasNews(a, i, n)
  <2>1. PICK l \in 1..Len(s) : 1 < l /\ News(s[l], i, n)  BY <1>3 DEF NewsBehind
  <2>2. l - 1 \in 1..Len(a) /\ a[l - 1] = s[l]  BY <1>2, <2>1
  <2>. QED  BY <2>1, <2>2 DEF HasNews
<1>4. ASSUME NEW k \in 1..Len(a)
      PROVE  /\ k + 1 \in 1..Len(s) /\ a[k] = s[k + 1]
             /\ NewsBehind(s, i, n, k + 1) => NewsBehind(a, i, n, k)
  <2>1. k + 1 \in 1..Len(s) /\ a[k] = s[k + 1]  BY <1>1
  <2>2. ASSUME NewsBehind(s, i, n, k + 1) PROVE NewsBehind(a, i, n, k)
    <3>1. PICK l \in 1..Len(s) : k + 1 < l /\ News(s[l], i, n)  BY <2>2 DEF NewsBehind
    <3>2. l - 1 \in 1..Len(a) /\ a[l - 1] = s[l] /\ k < l - 1  BY <1>2, <3>1
    <3>. QED  BY <3>1, <3>2 DEF NewsBehind
  <2>. QED  BY <2>1, <2>2
<1>. QED  BY <1>3, <1>4 DEF a

\* A change just made is given up, with its writer, or at the end of the channel.
LEMMA NewRow ==
    ASSUME TypeOK, SourceInv, [Next]_vars, row' = row + 1, NEW i \in Instances
    PROVE  \/ row' \in lost'[i] \/ ToTell(i, row)'
           \/ \E m \in Messages : News(m, i, row') /\ wire'[i] = Append(wire[i], m)
<1>1. \/ \E t \in Threads, j \in Instances, dead \in BOOLEAN : Write(t, j, dead)
      \/ \E dead, large \in BOOLEAN : ExternalWrite(dead, large)
  <2>1. \A t \in Threads : Request(t) => row' = row  BY DEF Request, PublishLocal, Notify, NotifyFails, Enqueue
  <2>2. \A j \in Instances : ListenerFails(j) \/ Listener(j) \/ MainLoop(j) => row' = row
    BY DEF ListenerFails, Listener, ListenerReturns, Receive, MainLoop, ConsumeEvent, Reread, RereadFails,
           DeliverReread, FlushTake, FlushSend, FlushFails
  <2>3. UNCHANGED vars => row' = row  BY DEF vars
  <2>4. row' # row  BY DEF TypeOK
  <2>. QED  BY <2>1, <2>2, <2>3, <2>4 DEF Next
<1>2. ASSUME NEW t \in Threads, NEW j \in Instances, NEW dead \in BOOLEAN, Write(t, j, dead)
      PROVE  ToTell(i, row)'
  <2>1. by'[row'] = j  BY <1>2, ChangeIsNew DEF Write
  <2>2. thread'[t] = [pc |-> "publish", at |-> j, change |-> row']  BY <1>2 DEF Write, TypeOK
  <2>3. Unpublished(row)' /\ InThread(row)'  BY <2>2 DEF Unpublished, InThread, Working
  <2>. QED  BY <2>3 DEF ToTell, AtSource
<1>3. ASSUME NEW dead \in BOOLEAN, NEW large \in BOOLEAN, ExternalWrite(dead, large)
      PROVE  row' \in lost'[i] \/ \E m \in Messages : News(m, i, row') /\ wire'[i] = Append(wire[i], m)
  <2>1. row + 1 \in Changes  BY <1>3, ChangeIsNew DEF ExternalWrite
  <2>2. PICK m \in Messages : m = [via |-> "trigger", from |-> None, change |-> row + 1,
                                  op |-> IF large THEN "bare" ELSE IF dead THEN "delete" ELSE "write"]
    BY <2>1 DEF Messages, Writers
  <2>3. Tells(m, i) /\ News(m, i, row')  BY <2>2, NoneAssumption DEF Tells, News
  <2>4. Trigger(None, m.op)  BY <1>3, <2>2 DEF ExternalWrite
  <2>5. m = [via |-> "trigger", from |-> None, change |-> row + 1, op |-> m.op]  BY <2>2
  <2>6. CASE listening[i]
    <3>1. wire'[i] = Append(wire[i], m)  BY <2>4, <2>5, <2>6 DEF Trigger
    <3>. QED  BY <2>3, <3>1
  <2>7. CASE ~listening[i]
    <3>1. row + 1 \in lost'[i]  BY <2>3, <2>4, <2>5, <2>7 DEF Trigger
    <3>. QED  BY <3>1
  <2>. QED  BY <2>6, <2>7
<1>. QED  BY <1>1, <1>2, <1>3

\* A change leaves its writer for an instance to its subscribers, to its channel,
\* or for good.
LEMMA ToTellEnds ==
    ASSUME TypeOK, SourceInv, [Next]_vars, NEW i \in Instances, NEW n \in Changes, n <= row,
           ToTell(i, n), ~ToTell(i, n)'
    PROVE  \/ n \in lost'[i]
           \/ by[n] = i /\ heard'[i] = Append(heard[i], n)
           \/ \E m \in Messages : News(m, i, n) /\ wire'[i] = Append(wire[i], m)
<1>1. SourceStep(n) /\ by'[n] = by[n]  BY SourceSteps, History
<1>2. CASE by[n] = i
  <2>1. PICK t \in Threads : PublishLocal(t) /\ thread[t].change = n
    BY <1>1, <1>2 DEF ToTell, SourceStep
  <2>2. thread[t].at = i  BY <1>2, <2>1 DEF PublishLocal, SourceInv
  <2>3. heard'[i] = Append(heard[i], n)  BY <2>1, <2>2 DEF PublishLocal, Deliver, TypeOK
  <2>. QED  BY <1>2, <2>3
<1>3. CASE by[n] # i
  <2>1. AtSource(n) /\ (n \in lost'[i] \/ Broadcast(Notification(by[n], n)))
    BY <1>1, <1>3 DEF ToTell, SourceStep
  <2>2. by[n] \in Instances  BY <2>1 DEF AtSource, InThread, InQueue, SourceInv, Working
  <2>3. PICK m \in Messages : /\ m = Notification(by[n], n)
                              /\ m.change = n /\ m.from = by[n] /\ m.via = "notify"
    BY <2>2, NotificationFields
  <2>4. Tells(m, i) /\ News(m, i, n)  BY <1>3, <2>3 DEF Tells, News
  <2>5. CASE Broadcast(m)
    <3>1. CASE listening[i]  BY <2>4, <2>5, <3>1 DEF Broadcast
    <3>2. CASE ~listening[i]  BY <2>3, <2>4, <2>5, <3>2 DEF Broadcast
    <3>. QED  BY <3>1, <3>2
  <2>. QED  BY <2>1, <2>3, <2>5
<1>. QED  BY <1>2, <1>3

\* The last change stays given up, with its writer or delivered, or joins the channel.
LEMMA SafeKept ==
    ASSUME TypeOK, SourceInv, MessageInv, [Next]_vars, row' = row, row \in Changes, NEW i \in Instances, Safe(i)
    PROVE  Safe(i)' \/ \E m \in Messages : News(m, i, row') /\ wire'[i] = Append(wire[i], m)
<1>1. lost[i] \subseteq lost'[i] /\ by' = by /\ row <= row  BY History DEF TypeOK
<1>2. CASE row \in lost[i]  BY <1>1, <1>2 DEF Safe
<1>3. Has(heard[i], row) => Has(heard'[i], row)
  <2>1. heard[i] \in Seq(Changes)  BY DEF TypeOK
  <2>2. ASSUME NEW x \in Changes, heard'[i] = Append(heard[i], x), Has(heard[i], row)
        PROVE  Has(heard'[i], row)
    BY <2>1, <2>2, HasAppend
  <2>. QED  BY <2>2, HeardSteps
<1>4. CASE by[row] = i /\ Has(heard[i], row)  BY <1>1, <1>3, <1>4 DEF Safe
<1>5. CASE ToTell(i, row)
  <2>1. CASE ToTell(i, row)'  BY <2>1 DEF Safe
  <2>2. CASE ~ToTell(i, row)'
    <3>1. PICK n \in Changes : n = row  OBVIOUS
    <3>2. ToTell(i, n) /\ ~ToTell(i, n)' /\ n <= row
      BY <1>1, <1>5, <2>2, <3>1 DEF ToTell, AtSource, InThread, InQueue, Unpublished
    <3>3. \/ n \in lost'[i]
          \/ by[n] = i /\ heard'[i] = Append(heard[i], n)
          \/ \E m \in Messages : News(m, i, n) /\ wire'[i] = Append(wire[i], m)
      BY <3>2, ToTellEnds
    <3>4. heard'[i] = Append(heard[i], n) => Has(heard'[i], n)
      <4>1. heard[i] \in Seq(Changes)  BY DEF TypeOK
      <4>. QED  BY <4>1, HasAppend
    <3>. QED  BY <1>1, <3>1, <3>3, <3>4 DEF Safe
  <2>. QED  BY <2>1, <2>2
<1>. QED  BY <1>2, <1>4, <1>5 DEF Safe

\* News leaves the channel from PostgreSQL for the main loop, or for good.
LEMMA NewsSteps ==
    ASSUME TypeOK, SourceInv, [Next]_vars, NEW i \in Instances, NEW n \in Changes, HasNews(wire[i], i, n)
    PROVE  \/ n \in lost'[i] \/ HasNews(wire'[i], i, n)
           \/ \E m \in Messages : News(m, i, n) /\ chan'[i] = Append(chan[i], m)
<1>. wire[i] \in Seq(Messages)  BY DEF TypeOK
<1>1. CASE wire'[i] = wire[i]  BY <1>1
<1>2. ASSUME NEW m \in Messages, wire'[i] = Append(wire[i], m) PROVE HasNews(wire'[i], i, n)
  BY <1>2, NewsAppend
<1>3. CASE ListenerFails(i)
  <2>1. PICK k \in 1..Len(wire[i]) : wire[i][k].change = n /\ Tells(wire[i][k], i)  BY DEF HasNews, News
  <2>. QED  BY <1>3, <2>1 DEF ListenerFails, TypeOK
<1>4. CASE Receive(i) /\ wire[i] # <<>> /\ wire'[i] = Tail(wire[i])
  <2>1. PICK m \in Messages : m = Head(wire[i])  BY <1>4, TailElements
  <2>2. HasNews(wire'[i], i, n) \/ News(m, i, n)  BY <1>4, <2>1, NewsTail
  <2>3. News(m, i, n) => chan'[i] = Append(chan[i], m)
    BY <1>4, <2>1 DEF Receive, Parses, News, Tells, TypeOK
  <2>. QED  BY <2>2, <2>3
<1>. QED  BY <1>1, <1>2, <1>3, <1>4, WireSteps

\* News of the last change that joins the channel is behind all others.
LEMMA OrderJoined ==
    ASSUME TypeOK, NEW i \in Instances, NEW m \in Messages, News(m, i, row'), wire'[i] = Append(wire[i], m)
    PROVE  WireOrder(i)' /\ ChanOrder(i)' /\ ReadOrder(i)'
<1>. wire[i] \in Seq(Messages)  BY DEF TypeOK
<1>1. HasNews(wire'[i], i, row')  BY NewsAppend
<1>2. ASSUME NEW k \in 1..Len(wire'[i]), wire'[i][k].change # row'
      PROVE  NewsBehind(wire'[i], i, row', k)
  <2>1. Len(wire'[i]) = Len(wire[i]) + 1 /\ Len(wire[i]) \in Nat /\ wire'[i][Len(wire[i]) + 1] = m
    BY AppendElements
  <2>2. k \in 1..Len(wire[i])  BY <1>2, <2>1 DEF News
  <2>. QED  BY <2>2, BehindAppend
<1>3. (wire[i])' = wire'[i]  OBVIOUS
<1>4. WireOrder(i)'  BY <1>2 DEF WireOrder, NewsBehind, News, Tells
<1>5. ChanOrder(i)' /\ ReadOrder(i)'  BY <1>1 DEF ChanOrder, ReadOrder, HasNews, News, Tells
<1>. QED  BY <1>4, <1>5

\* No step lets an older change overtake the last one unnoticed.
LEMMA OrderKept ==
    ASSUME TypeOK, SourceInv, MessageInv, OrderInv, [Next]_vars
    PROVE  OrderInv'
<1>. SUFFICES ASSUME NEW i \in Instances PROVE WireOrder(i)' /\ ChanOrder(i)' /\ ReadOrder(i)'
  BY DEF OrderInv
<1>. wire[i] \in Seq(Messages) /\ chan[i] \in Seq(Messages)  BY DEF TypeOK
<1>1. /\ row \in Nat /\ row' \in {row, row + 1} /\ TypeOK' /\ MessageInv'
      /\ late[i] \subseteq late'[i] /\ WireOrder(i) /\ ChanOrder(i) /\ ReadOrder(i)
  <2>1. TypeOK' /\ MessageInv'  BY TypeKept, MessageKept
  <2>2. row \in Nat  BY DEF TypeOK
  <2>. QED  BY <2>1, <2>2, History DEF OrderInv
<1>2. CASE Safe(i)'  BY <1>2 DEF WireOrder, ChanOrder, ReadOrder
<1>3. ASSUME NEW m \in Messages, News(m, i, row'), wire'[i] = Append(wire[i], m)
      PROVE  WireOrder(i)' /\ ChanOrder(i)' /\ ReadOrder(i)'
  BY <1>3, OrderJoined
<1>4. CASE row' = row + 1
  BY <1>2, <1>3, <1>4, NewRow DEF Safe
<1>5. CASE row' = row /\ row \notin Changes
  <2>1. row' = 0  BY <1>5, BoundsAssumption DEF TypeOK, Changes
  <2>2. wire'[i] \in Seq(Messages) /\ chan'[i] \in Seq(Messages)  BY <1>1 DEF TypeOK
  <2>3. \A m \in Messages : m.change \in Nat \ {0}  BY DEF Messages, Changes
  <2>4. \A m \in Elems(wire'[i]) \cup Elems(chan'[i]) : m.change <= 0
    BY <1>1, <2>1 DEF MessageInv
  <2>5. Len(wire'[i]) = 0 /\ Len(chan'[i]) = 0
    <3>1. ASSUME NEW s \in Seq(Messages), \A m \in Elems(s) : m.change <= 0 PROVE Len(s) = 0
      <4>1. Len(s) \in Nat  BY LenProperties
      <4>2. ASSUME Len(s) # 0 PROVE FALSE
        <5>1. 1 \in 1..Len(s)  BY <4>1, <4>2
        <5>2. s[1] \in Messages  BY <5>1, ElementOfSeq
        <5>3. s[1] \in Elems(s)  BY <5>1 DEF Elems
        <5>. QED  BY <2>3, <3>1, <5>2, <5>3
      <4>. QED  BY <4>2
    <3>. QED  BY <2>2, <2>4, <3>1
  <2>6. loop'[i].read \in Nat /\ loop'[i].read <= 0
    <3>1. loop'[i] \in LoopRec  BY <1>1 DEF TypeOK
    <3>. QED  BY <1>1, <2>1, <3>1 DEF MessageInv, LoopRec
  <2>. QED  BY <2>5, <2>6 DEF WireOrder, ChanOrder, ReadOrder
<1>6. ASSUME row' = row, row \in Changes, ~Safe(i)',
             \A m \in Messages : ~(News(m, i, row') /\ wire'[i] = Append(wire[i], m))
      PROVE  WireOrder(i)' /\ ChanOrder(i)' /\ ReadOrder(i)'
  <2>1. ~Safe(i)  BY <1>6, SafeKept
  <2>2. HasNews(wire[i], i, row) =>
            \/ HasNews(wire'[i], i, row)
            \/ \E m \in Messages : News(m, i, row) /\ chan'[i] = Append(chan[i], m)
    <3>1. PICK n \in Changes : n = row  BY <1>6
    <3>2. n \notin lost'[i]  BY <1>6, <3>1 DEF Safe
    <3>. QED  BY <3>1, <3>2, NewsSteps
  <2>3. ASSUME NEW k \in 1..Len(wire'[i]), Tells(wire'[i][k], i), wire'[i][k].change \notin {row} \cup late'[i]
        PROVE  NewsBehind(wire'[i], i, row, k)
    <3>1. CASE wire'[i] = wire[i]  BY <1>1, <2>1, <2>3, <3>1 DEF WireOrder
    <3>2. CASE wire'[i] = <<>>  BY <2>3, <3>2
    <3>3. CASE wire[i] # <<>> /\ wire'[i] = Tail(wire[i])
      <4>1. /\ k + 1 \in 1..Len(wire[i]) /\ wire'[i][k] = wire[i][k + 1]
            /\ NewsBehind(wire[i], i, row, k + 1) => NewsBehind(wire'[i], i, row, k)
        <5>1. k \in 1..Len(Tail(wire[i]))  BY <2>3, <3>3
        <5>2. /\ k + 1 \in 1..Len(wire[i]) /\ Tail(wire[i])[k] = wire[i][k + 1]
              /\ NewsBehind(wire[i], i, row, k + 1) => NewsBehind(Tail(wire[i]), i, row, k)
          BY <3>3, <5>1, BehindTail
        <5>. QED  BY <3>3, <5>2
      <4>. QED  BY <1>1, <2>1, <2>3, <4>1 DEF WireOrder
    <3>4. ASSUME NEW m \in Messages, Sent(m, i)', wire'[i] = Append(wire[i], m)
          PROVE  NewsBehind(wire'[i], i, row, k)
      <4>1. /\ Len(wire'[i]) = Len(wire[i]) + 1 /\ Len(wire[i]) \in Nat
            /\ wire'[i][Len(wire[i]) + 1] = m
            /\ \A l \in 1..Len(wire[i]) : wire'[i][l] = wire[i][l]
        BY <3>4, AppendElements
      <4>2. k # Len(wire[i]) + 1  BY <1>6, <2>3, <3>4, <4>1 DEF Sent, Tells
      <4>3. k \in 1..Len(wire[i])  BY <4>1, <4>2
      <4>4. NewsBehind(wire[i], i, row, k)  BY <1>1, <2>1, <2>3, <4>1, <4>3 DEF WireOrder
      <4>. QED  BY <3>4, <4>3, <4>4, BehindAppend
    <3>. QED  BY <3>1, <3>2, <3>3, <3>4, WireSteps
  <2>4. ASSUME NEW k \in 1..Len(chan'[i]), chan'[i][k].change \notin {row} \cup late'[i]
        PROVE  HasNews(wire'[i], i, row) \/ NewsBehind(chan'[i], i, row, k)
    <3>1. ASSUME k \in 1..Len(chan[i]), chan[i][k] = chan'[i][k],
                 NewsBehind(chan[i], i, row, k) => NewsBehind(chan'[i], i, row, k)
          PROVE  HasNews(wire'[i], i, row) \/ NewsBehind(chan'[i], i, row, k)
      <4>1. HasNews(wire[i], i, row) \/ NewsBehind(chan[i], i, row, k)
        BY <1>1, <2>1, <2>4, <3>1 DEF ChanOrder
      <4>2. ASSUME NEW m \in Messages, News(m, i, row), chan'[i] = Append(chan[i], m)
            PROVE  NewsBehind(chan'[i], i, row, k)
        BY <3>1, <4>2, BehindAppend
      <4>. QED  BY <2>2, <3>1, <4>1, <4>2
    <3>2. CASE chan'[i] = chan[i]  BY <2>4, <3>1, <3>2
    <3>3. CASE chan[i] # <<>> /\ chan'[i] = Tail(chan[i]) /\ wire' = wire
      <4>1. /\ k + 1 \in 1..Len(chan[i]) /\ chan'[i][k] = chan[i][k + 1]
            /\ NewsBehind(chan[i], i, row, k + 1) => NewsBehind(chan'[i], i, row, k)
        <5>1. k \in 1..Len(Tail(chan[i]))  BY <2>4, <3>3
        <5>2. /\ k + 1 \in 1..Len(chan[i]) /\ Tail(chan[i])[k] = chan[i][k + 1]
              /\ NewsBehind(chan[i], i, row, k + 1) => NewsBehind(Tail(chan[i]), i, row, k)
          BY <3>3, <5>1, BehindTail
        <5>. QED  BY <3>3, <5>2
      <4>2. HasNews(wire[i], i, row) \/ NewsBehind(chan[i], i, row, k + 1)
        BY <1>1, <2>1, <2>4, <4>1 DEF ChanOrder
      <4>. QED  BY <3>3, <4>1, <4>2
    <3>4. ASSUME wire[i] # <<>>, Tells(Head(wire[i]), i), wire'[i] = Tail(wire[i]),
                 chan'[i] = Append(chan[i], Head(wire[i]))
          PROVE  HasNews(wire'[i], i, row) \/ NewsBehind(chan'[i], i, row, k)
      <4>1. PICK m \in Messages : m = Head(wire[i]) /\ m = wire[i][1]  BY <3>4, TailElements
      <4>2. /\ Len(chan'[i]) = Len(chan[i]) + 1 /\ Len(chan[i]) \in Nat
            /\ chan'[i][Len(chan[i]) + 1] = m
            /\ \A l \in 1..Len(chan[i]) : chan'[i][l] = chan[i][l]
        BY <3>4, <4>1, AppendElements
      <4>3. CASE k = Len(chan[i]) + 1
        <5>1. Tells(m, i) /\ m.change \notin {row} \cup late'[i]  BY <2>4, <3>4, <4>1, <4>2, <4>3
        <5>2. 1 \in 1..Len(wire[i])
          <6>1. Len(wire[i]) \in Nat \ {0}  BY <3>4, TailElements
          <6>. QED  BY <6>1
        <5>3. NewsBehind(wire[i], i, row, 1)
          BY <1>1, <2>1, <4>1, <5>1, <5>2 DEF WireOrder
        <5>. QED  BY <3>4, <5>3, BehindTail
      <4>4. CASE k \in 1..Len(chan[i])
        <5>1. NewsBehind(chan[i], i, row, k) => NewsBehind(chan'[i], i, row, k)
          BY <3>4, <4>1, <4>4, BehindAppend
        <5>. QED  BY <3>1, <4>2, <4>4, <5>1
      <4>5. k \in 1..Len(chan[i]) \/ k = Len(chan[i]) + 1  BY <4>2
      <4>. QED  BY <4>3, <4>4, <4>5
    <3>. QED  BY <3>2, <3>3, <3>4, ChanSteps
  <2>5. ASSUME loop'[i].read \notin {0, row} \cup late'[i]
        PROVE  HasNews(wire'[i], i, row) \/ HasNews(chan'[i], i, row)
    <3>1. loop'[i].read = loop[i].read  BY <2>5, ReadSteps
    <3>2. HasNews(wire[i], i, row) \/ HasNews(chan[i], i, row)
      BY <1>1, <2>1, <2>5, <3>1 DEF ReadOrder
    <3>3. ASSUME NEW m \in Messages, chan'[i] = Append(chan[i], m)
          PROVE  HasNews(chan'[i], i, row) <=> HasNews(chan[i], i, row) \/ News(m, i, row)
      BY <3>3, NewsAppend
    <3>4. HasNews(chan[i], i, row) => HasNews(chan'[i], i, row)
      <4>1. ~(ConsumeEvent(i) \/ Reread(i) \/ RereadFails(i))
        BY <2>5, <3>1 DEF ConsumeEvent, Reread, RereadFails
      <4>2. \/ chan'[i] = chan[i]
            \/ wire[i] # <<>> /\ chan'[i] = Append(chan[i], Head(wire[i]))
        BY <4>1, ChanSteps
      <4>3. wire[i] # <<>> => Head(wire[i]) \in Messages  BY TailElements
      <4>. QED  BY <3>3, <4>2, <4>3
    <3>. QED  BY <2>2, <3>2, <3>3, <3>4
  <2>6. WireOrder(i)'  BY <1>6, <2>3 DEF WireOrder, NewsBehind, News, Tells
  <2>7. ChanOrder(i)'  BY <1>6, <2>4 DEF ChanOrder, HasNews, NewsBehind, News, Tells
  <2>8. ReadOrder(i)'  BY <1>6, <2>5 DEF ReadOrder, HasNews, News, Tells
  <2>. QED  BY <2>6, <2>7, <2>8
<1>. QED  BY <1>1, <1>2, <1>3, <1>4, <1>5, <1>6

\* What is delivered last is the last change, or known to be late.
LEMMA LastDelivered ==
    ASSUME TypeOK, NEW i \in Instances, NEW x \in Changes, heard'[i] = Append(heard[i], x),
           x \in {row'} \cup late'[i]
    PROVE  LastHeard(i)'
<1>1. heard[i] \in Seq(Changes)  BY DEF TypeOK
<1>2. heard'[i] # <<>> /\ Len(heard'[i]) = Len(heard[i]) + 1 /\ heard'[i][Len(heard[i]) + 1] = x
  BY <1>1, AppendElements
<1>. QED  BY <1>2 DEF LastHeard

\* News of the last change that the main loop takes is delivered, read again, or lost.
LEMMA NewsTaken ==
    ASSUME TypeOK, SourceInv, MessageInv, CargoInv, [Next]_vars, row' = row, row \in Changes,
           NEW i \in Instances, News(Head(chan[i]), i, row), chan[i] # <<>>,
           ConsumeEvent(i) \/ Reread(i) \/ RereadFails(i)
    PROVE  Arrival(i)'
<1>. chan[i] \in Seq(Messages)  BY DEF TypeOK
<1>1. PICK m \in Messages : m = Head(chan[i]) /\ m \in Elems(chan[i])  BY TailElements, ElemsTail
<1>2. m.change = row /\ Tells(m, i) /\ Cargo(m, i)  BY <1>1 DEF News, CargoInv
<1>3. CASE ConsumeEvent(i)
  <2>1. CASE m.op = "bare"
    <3>1. row \in lost'[i]  BY <1>2, <1>3, <2>1 DEF Cargo, ConsumeEvent
    <3>. QED  BY <3>1 DEF Arrival
  <2>2. CASE m.op # "bare"
    <3>1. heard'[i] = Append(heard[i], row)
      BY <1>1, <1>2, <1>3, <2>2 DEF ConsumeEvent, Deliver, TypeOK
    <3>. QED  BY <3>1, LastDelivered DEF Arrival
  <2>. QED  BY <2>1, <2>2
<1>4. CASE Reread(i)
  <2>1. alive  BY <1>1, <1>2, <1>4 DEF Reread, Cargo
  <2>2. loop'[i].read = row  BY <1>4, <2>1 DEF Reread, TypeOK, LoopRec
  <2>. QED  BY <2>2 DEF Arrival
<1>5. CASE RereadFails(i)
  <2>1. row \in lost'[i]  BY <1>1, <1>2, <1>5 DEF RereadFails, TypeOK
  <2>. QED  BY <2>1 DEF Arrival
<1>. QED  BY <1>3, <1>4, <1>5

\* Wherever the last change is on its way, it stays on its way or arrives.
LEMMA ArrivalKept ==
    ASSUME TypeOK, SourceInv, MessageInv, CargoInv, OrderInv, ArrivalInv, [Next]_vars
    PROVE  ArrivalInv'
<1>. SUFFICES ASSUME NEW i \in Instances PROVE Arrival(i)'
  BY DEF ArrivalInv
<1>. wire[i] \in Seq(Messages) /\ chan[i] \in Seq(Messages) /\ heard[i] \in Seq(Changes)  BY DEF TypeOK
<1>1. /\ row \in Nat /\ row' \in {row, row + 1} /\ (row' = row => by' = by)
      /\ lost[i] \subseteq lost'[i] /\ late[i] \subseteq late'[i]
      /\ WireOrder(i) /\ ChanOrder(i) /\ ReadOrder(i) /\ Arrival(i)
  <2>1. row \in Nat  BY DEF TypeOK
  <2>. QED  BY <2>1, History DEF OrderInv, ArrivalInv
<1>2. ASSUME NEW m \in Messages, News(m, i, row'), wire'[i] = Append(wire[i], m) PROVE Arrival(i)'
  <2>1. HasNews(wire'[i], i, row')  BY <1>2, NewsAppend
  <2>. QED  BY <2>1 DEF Arrival, HasNews, News, Tells
<1>3. CASE row' = row + 1  BY <1>2, <1>3, NewRow DEF Arrival
<1>4. CASE row' = row /\ row \notin Changes
  <2>1. row' = 0  BY <1>4, BoundsAssumption DEF TypeOK, Changes
  <2>. QED  BY <2>1 DEF Arrival
<1>5. ASSUME row' = row, row \in Changes PROVE Arrival(i)'
  <2>1. PICK n \in Changes : n = row  BY <1>5
  <2>2. CASE row \in lost[i]  BY <1>1, <1>5, <2>2 DEF Arrival
  <2>3. CASE ToTell(i, row)
    <3>1. CASE ToTell(i, row)'  BY <3>1 DEF Arrival
    <3>2. CASE ~ToTell(i, row)'
      <4>1. ToTell(i, n) /\ ~ToTell(i, n)' /\ n <= row
        BY <1>1, <1>5, <2>1, <2>3, <3>2 DEF ToTell, AtSource, InThread, InQueue, Unpublished
      <4>2. \/ n \in lost'[i]
            \/ heard'[i] = Append(heard[i], n)
            \/ \E m \in Messages : News(m, i, n) /\ wire'[i] = Append(wire[i], m)
        BY <4>1, ToTellEnds
      <4>3. heard'[i] = Append(heard[i], n) => Arrival(i)'
        BY <1>5, <2>1, LastDelivered DEF Arrival
      <4>. QED  BY <1>2, <1>5, <2>1, <4>2, <4>3 DEF Arrival
    <3>. QED  BY <3>1, <3>2
  <2>4. CASE HasNews(wire[i], i, row)
    <3>1. \/ n \in lost'[i] \/ HasNews(wire'[i], i, n)
          \/ \E m \in Messages : News(m, i, n) /\ chan'[i] = Append(chan[i], m)
      BY <2>1, <2>4, NewsSteps
    <3>2. ASSUME NEW m \in Messages, News(m, i, n), chan'[i] = Append(chan[i], m) PROVE HasNews(chan'[i], i, n)
      BY <3>2, NewsAppend
    <3>. QED  BY <1>5, <2>1, <3>1, <3>2 DEF Arrival, HasNews, News, Tells
  <2>5. CASE HasNews(chan[i], i, row)
    <3>1. HasNews(chan'[i], i, row) => Arrival(i)'  BY <1>5 DEF Arrival, HasNews, News, Tells
    <3>2. CASE chan'[i] = chan[i]  BY <2>5, <3>1, <3>2
    <3>3. ASSUME NEW m \in Messages, chan'[i] = Append(chan[i], m) PROVE HasNews(chan'[i], i, row)
      BY <2>5, <3>3, NewsAppend
    <3>4. CASE /\ ConsumeEvent(i) \/ Reread(i) \/ RereadFails(i)
               /\ chan[i] # <<>> /\ chan'[i] = Tail(chan[i])
      <4>1. HasNews(chan'[i], i, row) \/ News(Head(chan[i]), i, row)  BY <2>5, <3>4, NewsTail
      <4>. QED  BY <1>5, <3>1, <3>4, <4>1, NewsTaken
    <3>5. wire[i] # <<>> => Head(wire[i]) \in Messages  BY TailElements
    <3>. QED  BY <3>1, <3>2, <3>3, <3>4, <3>5, ChanSteps
  <2>6. CASE loop[i].read = row
    <3>1. row # 0  BY <1>5 DEF Changes
    <3>2. CASE loop'[i].read = loop[i].read  BY <1>5, <2>6, <3>2 DEF Arrival
    <3>3. CASE DeliverReread(i)
      <4>1. heard'[i] = Append(heard[i], n)  BY <2>1, <2>6, <3>3 DEF DeliverReread, Deliver, TypeOK
      <4>. QED  BY <1>5, <2>1, <4>1, LastDelivered DEF Arrival
    <3>. QED  BY <2>6, <3>1, <3>2, <3>3, ReadSteps
  <2>7. CASE LastHeard(i)
    <3>1. CASE heard'[i] = heard[i]  BY <1>1, <1>5, <2>7, <3>1 DEF LastHeard, Arrival
    <3>2. ASSUME NEW x \in Changes, Heard(i, x), heard'[i] = Append(heard[i], x), x <= row, wire' = wire
          PROVE  Arrival(i)'
      <4>1. CASE x \in {row} \cup late'[i]  BY <1>5, <3>2, <4>1, LastDelivered DEF Arrival
      <4>2. ASSUME x \notin {row} \cup late[i], ~Overtaken(i, x),
                   \/ Safe(i) \/ HasNews(wire[i], i, row)
                   \/ HasNews(chan[i], i, row) \/ HasNews(chan'[i], i, row)
            PROVE  Arrival(i)'
        <5>1. ~(by[row] = i /\ Has(heard[i], row))
          <6>1. row > x  BY <1>1, <3>2, <4>2 DEF Changes
          <6>. QED  BY <4>2, <6>1 DEF Overtaken, Has
        <5>2. HasNews(chan'[i], i, row) => Arrival(i)'  BY <1>5 DEF Arrival, HasNews, News, Tells
        <5>. QED  BY <2>2, <2>3, <2>4, <2>5, <4>2, <5>1, <5>2 DEF Safe
      <4>3. CASE \E t \in Threads : PublishLocal(t) /\ thread[t].at = i /\ thread[t].change = x
        <5>1. x < row => x \in late'[i]  BY <4>3 DEF PublishLocal, TypeOK
        <5>2. x < row \/ x = row  BY <1>1, <3>2 DEF Changes
        <5>. QED  BY <4>1, <5>1, <5>2
      <4>4. CASE ConsumeEvent(i) /\ Head(chan[i]).change = x /\ Head(chan[i]).op # "bare"
        <5>1. Overtaken(i, x) => x \in late'[i]  BY <4>4 DEF ConsumeEvent, TypeOK
        <5>2. chan[i] # <<>> /\ chan'[i] = Tail(chan[i])  BY <4>4 DEF ConsumeEvent, TypeOK
        <5>3. 1 \in 1..Len(chan[i]) /\ chan[i][1] = Head(chan[i])
          <6>1. Len(chan[i]) \in Nat \ {0} /\ chan[i][1] = Head(chan[i])  BY <5>2, TailElements
          <6>. QED  BY <6>1
        <5>4. x \notin {row} \cup late[i] =>
                Safe(i) \/ HasNews(wire[i], i, row) \/ NewsBehind(chan[i], i, row, 1)
          BY <1>1, <4>4, <5>3 DEF ChanOrder
        <5>5. NewsBehind(chan[i], i, row, 1) => HasNews(chan'[i], i, row)  BY <5>2, BehindTail
        <5>. QED  BY <1>1, <4>1, <4>2, <5>1, <5>4, <5>5
      <4>5. CASE DeliverReread(i) /\ loop[i].read = x
        <5>1. Overtaken(i, x) => x \in late'[i]  BY <4>5 DEF DeliverReread, TypeOK
        <5>2. x # 0  BY DEF Changes
        <5>3. x \notin {row} \cup late[i] =>
                Safe(i) \/ HasNews(wire[i], i, row) \/ HasNews(chan[i], i, row)
          BY <1>1, <4>5, <5>2 DEF ReadOrder
        <5>. QED  BY <1>1, <4>1, <4>2, <5>1, <5>3
      <4>. QED  BY <3>2, <4>3, <4>4, <4>5 DEF Heard
    <3>. QED  BY <3>1, <3>2, HeardSteps
  <2>8. row # 0  BY <1>5 DEF Changes
  <2>. QED  BY <1>1, <2>2, <2>3, <2>4, <2>5, <2>6, <2>7, <2>8 DEF Arrival
<1>. QED  BY <1>1, <1>3, <1>4, <1>5
----------------------------------------------------------------------------
(* The theorems.                                                           *)

LEMMA InitIInv == Init => IInv
<1>. SUFFICES ASSUME Init PROVE IInv  OBVIOUS
<1>. USE BoundsAssumption DEF Init
<1>1. TypeOK
  <2>1. [pc |-> "new", at |-> None, change |-> 0] \in ThreadRec  BY DEF ThreadRec, Writers
  <2>2. Idle \in LoopRec  BY DEF Idle, LoopRec
  <2>3. Len(<<>>) <= Buffer /\ <<>> \in Seq(Messages) /\ <<>> \in Seq(Changes)  BY EmptySeq
  <2>4. /\ row \in 0..MaxChanges /\ alive \in BOOLEAN /\ by \in [Changes -> Writers]
        /\ listening \in [Instances -> BOOLEAN] /\ failures \in 0..MaxFailures
        /\ lost \in [Instances -> SUBSET Changes] /\ late \in [Instances -> SUBSET Changes]
        /\ again \in [Instances -> SUBSET Changes]
    <3>1. /\ alive \in BOOLEAN /\ by \in [Changes -> Writers] /\ listening \in [Instances -> BOOLEAN]
          /\ lost \in [Instances -> SUBSET Changes] /\ late \in [Instances -> SUBSET Changes]
          /\ again \in [Instances -> SUBSET Changes]
      BY Zenon DEF Writers
    <3>2. row \in 0..MaxChanges /\ failures \in 0..MaxFailures  OBVIOUS
    <3>. QED  BY <3>1, <3>2
  <2>5. thread \in [Threads -> ThreadRec] /\ loop \in [Instances -> LoopRec]
    BY <2>1, <2>2 DEF Idle
  <2>6. /\ wire \in [Instances -> Seq(Messages)] /\ chan \in [Instances -> Seq(Messages)]
        /\ retry \in [Instances -> Seq(Changes)] /\ heard \in [Instances -> Seq(Changes)]
        /\ \A i \in Instances : Len(chan[i]) <= Buffer
    BY <2>3
  <2>. QED  BY <2>4, <2>5, <2>6 DEF TypeOK
<1>2. Len(<<>>) = 0 /\ 1..0 = {}  BY EmptySeq
<1>3. \A i \in Instances : /\ wire[i] = <<>> /\ chan[i] = <<>> /\ retry[i] = <<>> /\ heard[i] = <<>>
                           /\ loop[i].read = 0 /\ loop[i].flush = <<>>
  OBVIOUS
<1>4. row = 0 /\ \A t \in Threads : thread[t].pc = "new"  OBVIOUS
<1>5. Elems(<<>>) = {} /\ \A n : ~Has(<<>>, n) /\ Once(<<>>, n)  BY <1>2 DEF Elems, Has, Once
<1>6. SourceInv  BY <1>3, <1>4, <1>5 DEF SourceInv
<1>7. MessageInv /\ CargoInv  BY <1>3, <1>4, <1>5 DEF MessageInv, CargoInv
<1>8. OnceInv  BY <1>4, <1>2 DEF OnceInv
<1>9. OrderInv  BY <1>2, <1>3 DEF OrderInv, WireOrder, ChanOrder, ReadOrder
<1>10. ArrivalInv  BY <1>4 DEF ArrivalInv, Arrival
<1>. QED  BY <1>1, <1>6, <1>7, <1>8, <1>9, <1>10 DEF IInv

LEMMA InvariantKept == IInv /\ [Next]_vars => IInv'
  BY TypeKept, SourceKept, MessageKept, OnceKept, CargoKept, OrderKept, ArrivalKept DEF IInv

\* What is on its way to the subscribers of every instance, in every state that
\* publish, the retry queue, the listener and the main loop reach.
THEOREM Invariance == Spec => []IInv
<1>1. Init => IInv  BY InitIInv
<1>2. IInv /\ [Next]_vars => IInv'  BY InvariantKept
<1>. QED  BY <1>1, <1>2, PTL DEF Spec

\* The queues, the channels, the threads and the loops keep their types, and the
\* channel of the listener never holds more than REMOTE_CHANGE_BUFFER events.
THEOREM TypeCorrect == Spec => []TypeOK
<1>1. IInv => TypeOK  BY DEF IInv
<1>. QED  BY <1>1, Invariance, PTL

\* parse_remote_notification skips its own echo and the trigger of a writer that
\* notifies by itself, so an instance hears of a change once, unless the row was
\* re-read or a NOTIFY failed after PostgreSQL took it.
THEOREM HeardOnceCorrect == Spec => []HeardOnce
<1>1. IInv => HeardOnce
  <2>. SUFFICES ASSUME IInv, NEW i \in Instances, NEW j \in 1..Len(heard[i]), NEW k \in 1..Len(heard[i]),
                       j # k, heard[i][j] = heard[i][k]
                PROVE  heard[i][j] \in again[i]
    BY DEF HeardOnce
  <2>1. heard[i] \in Seq(Changes)  BY DEF IInv, TypeOK
  <2>2. PICK n \in Changes : n = heard[i][j]  BY <2>1, ElementOfSeq
  <2>3. n <= row /\ row \in Nat  BY <2>2 DEF IInv, MessageInv, TypeOK, Elems
  <2>4. n \in 1..row  BY <2>2, <2>3 DEF Changes
  <2>5. ~Once(heard[i], n)  BY <2>2 DEF Once
  <2>. QED  BY <2>2, <2>4, <2>5 DEF IInv, OnceInv, OncePlace
<1>. QED  BY <1>1, Invariance, PTL

\* When the threads, the retry queues, the channels and the main loops have nothing
\* left, what every instance told its subscribers last is the last change of the
\* row, or the change is given up or known to be late for one of the named reasons.
THEOREM ConvergedCorrect == Spec => []Converged
<1>1. IInv => Converged
  <2>. SUFFICES ASSUME IInv, Quiet, NEW i \in Instances
                PROVE  \/ row \in {0} \cup lost[i]
                       \/ heard[i] # <<>> /\ heard[i][Len(heard[i])] \in {row} \cup late[i]
    BY DEF Converged
  <2>1. /\ wire[i] = <<>> /\ chan[i] = <<>> /\ loop[i].read = 0
        /\ \A j \in Instances : retry[j] = <<>> /\ loop[j].flush = <<>>
        /\ \A t \in Threads : thread[t].pc \in {"new", "done"}
    BY DEF Quiet
  <2>2. ~HasNews(wire[i], i, row) /\ ~HasNews(chan[i], i, row)
    BY <2>1, EmptySeq DEF HasNews
  <2>3. ~ToTell(i, row)
    <3>1. \A n : ~Has(<<>>, n)  BY EmptySeq DEF Has
    <3>. QED  BY <2>1, <3>1 DEF ToTell, AtSource, InThread, InQueue, Unpublished, Working
  <2>. QED  BY <2>1, <2>2, <2>3 DEF IInv, ArrivalInv, Arrival, LastHeard
<1>. QED  BY <1>1, Invariance, PTL
=============================================================================
