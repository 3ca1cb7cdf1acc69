--------------------------- MODULE RemoteChanges ---------------------------
(***************************************************************************)
(* How the instances of `linkc serve` on one PostgreSQL database tell each *)
(* other of a change (runtime/db.rs publish, notify_remote, the retry      *)
(* queue, spawn_remote_listener, publish_remote, publish_external), with   *)
(* the triggers of triggers.rs for writes of other systems and the part of *)
(* the main loop of runtime/server.rs that delivers and retries.           *)
(*                                                                         *)
(* One row is followed.  Its changes are numbered in commit order, and an  *)
(* event is the number of the change it announces (a deletion is announced *)
(* with the deleted row, like a change).  `Broadcast` is PostgreSQL: a     *)
(* NOTIFY reaches, in order, the connections that listen at that moment.   *)
(***************************************************************************)
EXTENDS Naturals, Sequences

CONSTANTS
    Instances,    \* processes that share the database
    Threads,      \* request threads, each makes one write
    None,         \* the writer that is no instance: psql, an ORM
    MaxChanges,   \* bound: changes of the row
    MaxFailures,  \* bound: failed NOTIFY, broken listeners, failed reads
    Buffer,       \* REMOTE_CHANGE_BUFFER
    MaxRetries    \* MAX_PENDING_NOTIFY_RETRIES

ASSUME BoundsAssumption ==
    /\ MaxChanges \in Nat /\ MaxFailures \in Nat
    /\ Buffer \in Nat \ {0} /\ MaxRetries \in Nat \ {0}
ASSUME NoneAssumption == None \notin Instances

VARIABLES
    row,        \* the last change of the row, 0 before the first
    alive,      \* is the row there?
    by,         \* who made each change
    thread,     \* request threads
    listening,  \* does the LISTEN connection of an instance work?
    wire,       \* notifications on their way to its listener thread
    chan,       \* the channel from the listener to the main loop
    retry,      \* pending_notify_retries
    loop,       \* the main loop: a row just re-read, the retries in hand
    heard,      \* what deliver_local handed to the subscribers
    failures,   \* failures so far
    lost,       \* history: changes an instance will not be told of
    late,       \* history: changes it was told of after a newer one
    again       \* history: changes it may be told of twice

vars == <<row, alive, by, thread, listening, wire, chan, retry, loop, heard,
          failures, lost, late, again>>
history == <<lost, late, again>>

Changes == 1..MaxChanges
Writers == Instances \cup {None}
\* `via` is "notify" for notify_remote and "trigger" for a trigger, whose `op`
\* carries the deleted row ("delete"), nothing else ("bare"), or is a write.
Messages == [via : {"notify", "trigger"}, from : Writers, change : Changes,
             op : {"write", "delete", "bare"}]

ThreadRec == [pc : {"new", "publish", "notify", "enqueue", "done"},
              at : Writers, change : 0..MaxChanges]
LoopRec == [read : 0..MaxChanges, flush : Seq(Changes)]

TypeOK ==
    /\ row \in 0..MaxChanges /\ alive \in BOOLEAN
    /\ by \in [Changes -> Writers]
    /\ thread \in [Threads -> ThreadRec]
    /\ listening \in [Instances -> BOOLEAN]
    /\ wire \in [Instances -> Seq(Messages)]
    /\ chan \in [Instances -> Seq(Messages)]
    /\ \A i \in Instances : Len(chan[i]) <= Buffer
    /\ retry \in [Instances -> Seq(Changes)]
    /\ loop \in [Instances -> LoopRec]
    /\ heard \in [Instances -> Seq(Changes)]
    /\ failures \in 0..MaxFailures
    /\ lost \in [Instances -> SUBSET Changes]
    /\ late \in [Instances -> SUBSET Changes]
    /\ again \in [Instances -> SUBSET Changes]

Init ==
    /\ row = 0 /\ alive = FALSE
    /\ by = [n \in Changes |-> None]
    /\ thread = [t \in Threads |-> [pc |-> "new", at |-> None, change |-> 0]]
    /\ listening = [i \in Instances |-> TRUE]
    /\ wire = [i \in Instances |-> <<>>]
    /\ chan = [i \in Instances |-> <<>>]
    /\ retry = [i \in Instances |-> <<>>]
    /\ loop = [i \in Instances |-> [read |-> 0, flush |-> <<>>]]
    /\ heard = [i \in Instances |-> <<>>]
    /\ failures = 0
    /\ lost = [i \in Instances |-> {}]
    /\ late = [i \in Instances |-> {}]
    /\ again = [i \in Instances |-> {}]

Fail == failures < MaxFailures /\ failures' = failures + 1

\* Does the message tell instance `i` of its change?  (It decides what is lost
\* with it, not what is done with it.)
Tells(m, i) == m.from # i /\ (m.via = "trigger" => m.from = None)

\* pg_notify: in order, to whoever listens now.
Broadcast(m) ==
    /\ wire' = [i \in Instances |-> IF listening[i] THEN Append(wire[i], m) ELSE wire[i]]
    /\ lost' = [i \in Instances |->
                  IF Tells(m, i) /\ (~listening[i] \/ m.op = "bare")
                  THEN lost[i] \cup {m.change} ELSE lost[i]]
    /\ late' = [i \in Instances |->
                  IF Tells(m, i) /\ m.change < row THEN late[i] \cup {m.change} ELSE late[i]]

\* deliver_local.
Deliver(i, n) == heard' = [heard EXCEPT ![i] = Append(@, n)]

Change(who, dead) ==
    /\ row < MaxChanges
    /\ dead => alive
    /\ row' = row + 1
    /\ alive' = ~dead
    /\ by' = [by EXCEPT ![row + 1] = who]

\* The trigger fires in the writer's transaction and is sent when it commits.
Trigger(who, op) ==
    LET m == [via |-> "trigger", from |-> who, change |-> row + 1, op |-> op] IN
    /\ wire' = [i \in Instances |-> IF listening[i] THEN Append(wire[i], m) ELSE wire[i]]
    /\ lost' = [i \in Instances |->
                  IF Tells(m, i) /\ (~listening[i] \/ op = "bare")
                  THEN lost[i] \cup {row + 1} ELSE lost[i]]

\* insert, applyPatch or delete commits on a connection marked `link.instance`.
Write(t, i, dead) ==
    /\ thread[t].pc = "new"
    /\ Change(i, dead)
    /\ Trigger(i, IF dead THEN "delete" ELSE "write")
    /\ thread' = [thread EXCEPT ![t] = [pc |-> "publish", at |-> i, change |-> row + 1]]
    /\ UNCHANGED <<listening, chan, retry, loop, heard, failures, late, again>>

\* Another system writes: only the trigger tells.  A deleted row too large for
\* a NOTIFY is announced without it.
ExternalWrite(dead, large) ==
    /\ Change(None, dead)
    /\ large => dead
    /\ Trigger(None, IF large THEN "bare" ELSE IF dead THEN "delete" ELSE "write")
    /\ UNCHANGED <<thread, listening, chan, retry, loop, heard, failures, late, again>>

\* publish: first the subscribers of this process.
PublishLocal(t) ==
    LET i == thread[t].at
        n == thread[t].change
    IN
    /\ thread[t].pc = "publish"
    /\ Deliver(i, n)
    /\ thread' = [thread EXCEPT ![t].pc = "notify"]
    /\ late' = IF n < row THEN [late EXCEPT ![i] = @ \cup {n}] ELSE late
    /\ UNCHANGED <<row, alive, by, listening, wire, chan, retry, loop, failures, lost, again>>

Notification(i, n) == [via |-> "notify", from |-> i, change |-> n, op |-> "write"]
Others(i) == Instances \ {i}

\* try_notify_remote says yes: sent, or larger than MAX_NOTIFY_PAYLOAD_BYTES,
\* which is counted and dropped.
Notify(t) ==
    LET i == thread[t].at
        n == thread[t].change
    IN
    /\ thread[t].pc = "notify"
    /\ \/ Broadcast(Notification(i, n))
       \/ /\ lost' = [j \in Instances |-> IF j = i THEN lost[j] ELSE lost[j] \cup {n}]
          /\ UNCHANGED <<wire, late>>
    /\ thread' = [thread EXCEPT ![t].pc = "done"]
    /\ UNCHANGED <<row, alive, by, listening, chan, retry, loop, heard, failures, again>>

\* It says no: the statement failed, before or after PostgreSQL took it.
NotifyFails(t) ==
    LET i == thread[t].at
        n == thread[t].change
    IN
    /\ thread[t].pc = "notify"
    /\ Fail
    /\ \/ UNCHANGED <<wire, lost, late, again>>
       \/ /\ Broadcast(Notification(i, n))
          /\ again' = [j \in Instances |-> again[j] \cup {n}]
    /\ thread' = [thread EXCEPT ![t].pc = "enqueue"]
    /\ UNCHANGED <<row, alive, by, listening, chan, retry, loop, heard>>

\* notify_remote: a full queue drops its oldest entry.
Enqueue(t) ==
    LET i == thread[t].at
        full == Len(retry[i]) >= MaxRetries
    IN
    /\ thread[t].pc = "enqueue"
    /\ retry' = [retry EXCEPT ![i] = Append(IF full THEN Tail(@) ELSE @, thread[t].change)]
    /\ lost' = IF ~full THEN lost
               ELSE [j \in Instances |-> IF j = i THEN lost[j] ELSE lost[j] \cup {Head(retry[i])}]
    /\ thread' = [thread EXCEPT ![t].pc = "done"]
    /\ UNCHANGED <<row, alive, by, listening, wire, chan, loop, heard, failures, late, again>>
----------------------------------------------------------------------------
(* The listener thread.                                                    *)

\* The connection breaks; what was on its way is gone.
ListenerFails(i) ==
    LET gone == {n \in Changes : \E k \in 1..Len(wire[i]) :
                    wire[i][k].change = n /\ Tells(wire[i][k], i)}
    IN
    /\ listening[i] /\ Fail
    /\ listening' = [listening EXCEPT ![i] = FALSE]
    /\ wire' = [wire EXCEPT ![i] = <<>>]
    /\ lost' = [lost EXCEPT ![i] = @ \cup gone]
    /\ UNCHANGED <<row, alive, by, thread, chan, retry, loop, heard, late, again>>

\* After 5 s: LISTEN again, from now on.
ListenerReturns(i) ==
    /\ ~listening[i]
    /\ listening' = [listening EXCEPT ![i] = TRUE]
    /\ UNCHANGED <<row, alive, by, thread, wire, chan, retry, loop, heard, failures, history>>

\* Mutant: a trigger is taken for news whoever wrote.
ParsesTriggers(m, i) == m.from # i

\* parse_remote_notification: neither an echo of this process nor a trigger of
\* a writer that notifies by itself.
Parses(m, i) ==
    /\ m.from # i
    /\ m.via = "trigger" => m.from = None

\* A full channel blocks the listener.
Receive(i) ==
    LET m == Head(wire[i]) IN
    /\ wire[i] # <<>>
    /\ IF Parses(m, i)
       THEN Len(chan[i]) < Buffer /\ chan' = [chan EXCEPT ![i] = Append(@, m)]
       ELSE UNCHANGED chan
    /\ wire' = [wire EXCEPT ![i] = Tail(@)]
    /\ UNCHANGED <<row, alive, by, thread, listening, retry, loop, heard, failures, history>>
----------------------------------------------------------------------------
(* The main loop.                                                          *)

\* An event that was sent in time is late after all when this process has
\* told its subscribers of a newer change of its own meanwhile.
Overtaken(i, n) == \E k \in 1..Len(heard[i]) : heard[i][k] > n /\ by[heard[i][k]] = i

\* publish_remote, and publish_external of a deletion.
ConsumeEvent(i) ==
    LET m == Head(chan[i]) IN
    /\ loop[i] = [read |-> 0, flush |-> <<>>]
    /\ chan[i] # <<>> /\ (m.via = "notify" \/ m.op # "write")
    /\ chan' = [chan EXCEPT ![i] = Tail(@)]
    /\ IF m.op = "bare"
       THEN UNCHANGED <<heard, late>>
       ELSE /\ Deliver(i, m.change)
            /\ late' = IF Overtaken(i, m.change)
                       THEN [late EXCEPT ![i] = @ \cup {m.change}] ELSE late
    /\ UNCHANGED <<row, alive, by, thread, listening, wire, retry, loop, failures, lost, again>>

\* publish_external of a write re-reads the row: whatever version is there by
\* now, or nothing.
Reread(i) ==
    LET m == Head(chan[i]) IN
    /\ loop[i] = [read |-> 0, flush |-> <<>>]
    /\ chan[i] # <<>> /\ m.via = "trigger" /\ m.op = "write"
    /\ chan' = [chan EXCEPT ![i] = Tail(@)]
    /\ loop' = [loop EXCEPT ![i].read = IF alive THEN row ELSE 0]
    /\ again' = IF alive THEN [again EXCEPT ![i] = @ \cup {row}] ELSE again
    /\ UNCHANGED <<row, alive, by, thread, listening, wire, retry, heard, failures, lost, late>>

RereadFails(i) ==
    LET m == Head(chan[i]) IN
    /\ loop[i] = [read |-> 0, flush |-> <<>>]
    /\ chan[i] # <<>> /\ m.via = "trigger" /\ m.op = "write"
    /\ Fail
    /\ chan' = [chan EXCEPT ![i] = Tail(@)]
    /\ lost' = [lost EXCEPT ![i] = @ \cup {m.change}]
    /\ UNCHANGED <<row, alive, by, thread, listening, wire, retry, loop, heard, late, again>>

DeliverReread(i) ==
    LET n == loop[i].read IN
    /\ n # 0
    /\ Deliver(i, n)
    /\ loop' = [loop EXCEPT ![i].read = 0]
    /\ late' = IF Overtaken(i, n) THEN [late EXCEPT ![i] = @ \cup {n}] ELSE late
    /\ UNCHANGED <<row, alive, by, thread, listening, wire, chan, retry, failures, lost, again>>

\* Mutant: the queue is only emptied when it is full.
FlushWhenFull(i) ==
    /\ loop[i] = [read |-> 0, flush |-> <<>>]
    /\ chan[i] = <<>> /\ Len(retry[i]) > MaxRetries
    /\ loop' = [loop EXCEPT ![i].flush = retry[i]]
    /\ retry' = [retry EXCEPT ![i] = <<>>]
    /\ UNCHANGED <<row, alive, by, thread, listening, wire, chan, heard, failures, history>>

\* flush_pending_notify_retries, once the channel is empty: the queue is taken
\* under its lock...
FlushTake(i) ==
    /\ loop[i] = [read |-> 0, flush |-> <<>>]
    /\ chan[i] = <<>> /\ retry[i] # <<>>
    /\ loop' = [loop EXCEPT ![i].flush = retry[i]]
    /\ retry' = [retry EXCEPT ![i] = <<>>]
    /\ UNCHANGED <<row, alive, by, thread, listening, wire, chan, heard, failures, history>>

\* ... and sent without it.
FlushSend(i) ==
    /\ loop[i].flush # <<>>
    /\ Broadcast(Notification(i, Head(loop[i].flush)))
    /\ loop' = [loop EXCEPT ![i].flush = Tail(@)]
    /\ UNCHANGED <<row, alive, by, thread, listening, chan, retry, heard, failures, again>>

\* Mutant: a retry that fails is not queued again.
FlushForgets(i) ==
    /\ loop[i].flush # <<>>
    /\ Fail
    /\ loop' = [loop EXCEPT ![i].flush = Tail(@)]
    /\ UNCHANGED <<row, alive, by, thread, listening, wire, chan, retry, heard, history>>

\* A retry that fails goes to the back of the queue, however long it is.
FlushFails(i) ==
    /\ loop[i].flush # <<>>
    /\ Fail
    /\ loop' = [loop EXCEPT ![i].flush = Tail(@)]
    /\ retry' = [retry EXCEPT ![i] = Append(@, Head(loop[i].flush))]
    /\ UNCHANGED <<row, alive, by, thread, listening, wire, chan, heard, history>>
----------------------------------------------------------------------------
Request(t) == PublishLocal(t) \/ Notify(t) \/ NotifyFails(t) \/ Enqueue(t)
Listener(i) == ListenerReturns(i) \/ Receive(i)
MainLoop(i) ==
    \/ ConsumeEvent(i) \/ Reread(i) \/ RereadFails(i) \/ DeliverReread(i)
    \/ FlushTake(i) \/ FlushSend(i) \/ FlushFails(i)

Next ==
    \/ \E t \in Threads :
         (\E i \in Instances, dead \in BOOLEAN : Write(t, i, dead)) \/ Request(t)
    \/ \E dead, large \in BOOLEAN : ExternalWrite(dead, large)
    \/ \E i \in Instances : ListenerFails(i) \/ Listener(i) \/ MainLoop(i)

\* The threads of a process run, its main loop ticks every 200 ms.
Spec ==
    /\ Init /\ [][Next]_vars
    /\ \A t \in Threads : WF_vars(Request(t))
    /\ \A i \in Instances : WF_vars(Listener(i)) /\ WF_vars(MainLoop(i))
----------------------------------------------------------------------------
(* Properties.                                                             *)

\* Nothing is on its way to anybody.
Quiet ==
    /\ \A t \in Threads : thread[t].pc \in {"new", "done"}
    /\ \A i \in Instances :
         /\ wire[i] = <<>> /\ chan[i] = <<>> /\ retry[i] = <<>>
         /\ loop[i] = [read |-> 0, flush |-> <<>>]

\* When nothing is on its way, the subscribers of every instance last heard of
\* the last change of the row, unless that change is lost to the instance for
\* a named reason (its listener was down, the retry queue was full, the
\* payload was too large, the read failed) or what they heard last was sent or
\* delivered after a newer change (threads that publish out of commit order,
\* a retry, a remote change behind one of its own).
Converged ==
    Quiet => \A i \in Instances :
        \/ row \in {0} \cup lost[i]
        \/ heard[i] # <<>> /\ heard[i][Len(heard[i])] \in {row} \cup late[i]

\* An instance hears of a change once: neither its own NOTIFY nor the trigger
\* of a writer that notifies repeats it.  The exceptions are a row that
\* publish_external re-read and a NOTIFY that failed after it was sent.
HeardOnce ==
    \A i \in Instances : \A j, k \in 1..Len(heard[i]) :
        j # k /\ heard[i][j] = heard[i][k] => heard[i][j] \in again[i]

\* However the failures fall, what was to be told is told or given up: the
\* retry queue, the channels and the loop drain.
Settles == <>[]Quiet
=============================================================================
