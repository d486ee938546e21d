-------------------------- MODULE MessagingProofs ---------------------------
(***************************************************************************)
(* Proofs about Messaging, for every set of threads and processes, every   *)
(* queue size and every program of calls: the producer forgets no message, *)
(* what it acknowledges is stored, and ensure_topics returns only when the *)
(* topics are as configured.                                               *)
(***************************************************************************)
EXTENDS Messaging, TLAPS

Places == {"idle", "wait_publish", "wait_flush", "produce", "poll", "poll_full", "flush"}
Critical == {"produce", "poll", "poll_full", "flush"}

ThreadType ==
    th \in [Threads -> [calls : Seq(Calls), pc : Places, todo : Seq(Messages), attempt : Nat]]

\* Where t is after a step of it, and that the other threads are where they were.
Now(t, calls, place, todo) ==
    /\ th'[t].calls = calls /\ th'[t].pc = place /\ th'[t].todo = todo
    /\ \A u \in Threads \ {t} : th'[u] = th[u]

-----------------------------------------------------------------------------
\* What each kind of step does to the thread that takes it.

\* A call of the publisher returns: its thread goes on with the next call.
LEMMA ReturnMoves ==
    ASSUME ThreadType, NEW t \in Threads, NEW m, NEW r, th[t].calls # <<>>, Return(t, m, r)
    PROVE  ThreadType' /\ Now(t, Tail(th[t].calls), "idle", <<>>)
<1> DEFINE new == [calls |-> Tail(th[t].calls), pc |-> "idle", todo |-> <<>>, attempt |-> 0]
<1>1. th[t].calls \in Seq(Calls)
  BY DEF ThreadType
<1>2. Tail(th[t].calls) \in Seq(Calls) /\ <<>> \in Seq(Messages)
  BY <1>1
<1>3. th' = [th EXCEPT ![t] = new]
  BY DEF Return
<1>4. new \in [calls : Seq(Calls), pc : Places, todo : Seq(Messages), attempt : Nat]
  BY <1>2 DEF Places
<1>5. th'[t] = new /\ \A u \in Threads \ {t} : th'[u] = th[u]
  BY <1>3 DEF ThreadType
<1>6. ThreadType'
  BY <1>3, <1>4 DEF ThreadType
<1> QED
  BY <1>5, <1>6 DEF Now

\* A step within a call.
LEMMA InCallMoves ==
    ASSUME ThreadType, NEW t \in Threads, NEW place \in Places, NEW todo \in Seq(Messages),
           NEW attempt \in Nat,
           th' = [th EXCEPT ![t].todo = todo, ![t].pc = place, ![t].attempt = attempt]
    PROVE  ThreadType' /\ Now(t, th[t].calls, place, todo)
  BY DEF ThreadType, Now

\* A call or message that is not the head of the list is in its tail.
LEMMA HeadAndTail ==
    ASSUME NEW S, NEW s \in Seq(S), s # <<>>
    PROVE  /\ Head(s) \in S /\ Tail(s) \in Seq(S)
           /\ Elems(s) \subseteq {Head(s)} \cup Elems(Tail(s))
           /\ Elems(Tail(s)) \subseteq Elems(s)
           /\ Head(s) \in Elems(s)
<1>1. /\ Len(s) \in Nat \ {0} /\ DOMAIN s = 1 .. Len(s)
      /\ Head(s) = s[1] /\ Tail(s) \in Seq(S) /\ Len(Tail(s)) = Len(s) - 1
      /\ DOMAIN Tail(s) = 1 .. Len(s) - 1
      /\ \A k \in 1 .. Len(s) - 1 : Tail(s)[k] = s[k + 1]
  OBVIOUS
<1>2. ASSUME NEW k \in DOMAIN s PROVE s[k] \in {Head(s)} \cup Elems(Tail(s))
  <2>1. CASE k = 1
    BY <1>1, <2>1
  <2>2. CASE k # 1
    <3>1. k - 1 \in 1 .. Len(s) - 1 /\ Tail(s)[k - 1] = s[k]
      BY <1>1, <2>2
    <3> QED
      BY ZenonT(20), <1>1, <3>1 DEF Elems
  <2> QED
    BY <2>1, <2>2
<1>3. ASSUME NEW k \in DOMAIN Tail(s) PROVE Tail(s)[k] \in Elems(s)
  <2>1. k + 1 \in DOMAIN s /\ Tail(s)[k] = s[k + 1]
    BY <1>1
  <2> QED
    BY ZenonT(20), <2>1 DEF Elems
<1>4. Head(s) \in Elems(s) /\ Head(s) \in S
  BY <1>1 DEF Elems
<1> QED
  BY ZenonT(20), <1>1, <1>2, <1>3, <1>4 DEF Elems

\* The call a thread is in is one of publish_batch, publish and close.
LEMMA CallFacts ==
    ASSUME ThreadType, NEW t \in Threads, th[t].calls # <<>>
    PROVE  /\ Call(t) \in Calls /\ Call(t).messages \in Seq(Messages)
           /\ Call(t).kind \in {"batch", "event", "close"}
           /\ Call(t).kind = "close" => Call(t).messages = <<>>
           /\ Call(t) \in Elems(th[t].calls)
<1>1. th[t].calls \in Seq(Calls)
  BY DEF ThreadType
<1>2. Call(t) \in Calls /\ Call(t) \in Elems(th[t].calls)
  BY <1>1, HeadAndTail DEF Call
<1> QED
  BY <1>2, ProgramsAssumption

-----------------------------------------------------------------------------
(* The lock and the place of each thread in its call *)

ThreadOK(t) ==
    /\ lock = t <=> th[t].pc \in Critical
    /\ th[t].pc # "idle" => th[t].calls # <<>>
    /\ th[t].pc \in {"produce", "poll", "poll_full"} => th[t].todo # <<>>
    /\ th[t].pc \in {"wait_flush", "flush"} => th[t].todo = <<>>
    /\ th[t].pc = "wait_publish" => th[t].todo = Call(t).messages
    /\ th[t].pc = "wait_flush" => Call(t).kind \in {"event", "close"}

Control ==
    /\ ThreadType
    /\ lock \in Threads \cup {NoThread}
    /\ \A t \in Threads : ThreadOK(t)

\* A thread that has not the lock may take it when it is free, and one that has
\* it may give it back: the others see no change.
LEMMA ControlMoves ==
    ASSUME Control, NEW t \in Threads, ThreadType', ThreadOK(t)',
           \A u \in Threads \ {t} : th'[u] = th[u],
           lock' = lock \/ (lock \in {t, NoThread} /\ lock' \in {t, NoThread})
    PROVE  Control'
<1>1. ASSUME NEW u \in Threads, u # t PROVE ThreadOK(u)'
  <2>1. th'[u] = th[u] /\ Call(u)' = Call(u)
    BY ZenonT(20), <1>1 DEF Call
  <2>2. lock' = u <=> lock = u
    <3>1. u # NoThread
      BY ProducerAssumption
    <3> QED
      BY <1>1, <3>1
  <2>3. ThreadOK(u)
    BY DEF Control
  <2> QED
    BY ZenonT(20), <2>1, <2>2, <2>3 DEF ThreadOK
<1>2. (lock \in Threads \cup {NoThread})'
  BY ZenonT(20) DEF Control
<1> QED
  BY ZenonT(20), <1>1, <1>2 DEF Control

\* A call that returns, from any place, with the lock or without it.
LEMMA ControlReturn ==
    ASSUME Control, NEW t \in Threads, th[t].pc # "idle", NEW m, NEW r, Return(t, m, r)
    PROVE  Control' /\ Now(t, Tail(th[t].calls), "idle", <<>>)
<1>1. ThreadType /\ ThreadOK(t)
  BY DEF Control
<1>2. ThreadType' /\ Now(t, Tail(th[t].calls), "idle", <<>>)
  BY <1>1, ReturnMoves DEF ThreadOK
<1>3. lock' = IF lock = t THEN NoThread ELSE lock
  BY DEF Return
<1>4. ThreadOK(t)'
  <2>1. lock' # t
    BY <1>3, ProducerAssumption
  <2>2. th'[t].pc = "idle"
    BY <1>2 DEF Now
  <2> QED
    BY <2>1, <2>2 DEF ThreadOK, Critical
<1> QED
  BY ZenonT(20), <1>2, <1>3, <1>4, ControlMoves DEF Now

\* A step within a call.
LEMMA ControlBegin ==
    ASSUME Control, NEW t \in Threads, Begin(t)
    PROVE  /\ Control'
           /\ Now(t, th[t].calls, IF Call(t).kind = "close" THEN "wait_flush"
                                  ELSE "wait_publish", Call(t).messages)
<1> DEFINE place == IF Call(t).kind = "close" THEN "wait_flush" ELSE "wait_publish"
<1>1. ThreadType /\ ThreadOK(t) /\ th[t].calls # <<>> /\ th[t].pc = "idle" /\ lock' = lock
  BY DEF Control, Begin
<1>2. /\ Call(t).messages \in Seq(Messages)
      /\ Call(t).kind = "close" => Call(t).messages = <<>>
  BY <1>1, CallFacts
<1>3. ThreadType' /\ Now(t, th[t].calls, place, Call(t).messages)
  <2>1. th' = [th EXCEPT ![t].todo = Call(t).messages, ![t].pc = place]
    BY DEF Begin
  <2> QED
    BY <1>1, <1>2, <2>1 DEF ThreadType, Now, Places
<1>4. Call(t)' = Call(t)
  BY <1>3 DEF Now, Call
<1>5. ThreadOK(t)'
  BY <1>1, <1>2, <1>3, <1>4 DEF ThreadOK, Now, Critical
<1> QED
  BY ZenonT(20), <1>1, <1>3, <1>5, ControlMoves DEF Now

\* A thread that gets the lock of an open publisher is its only holder.
LEMMA ControlAcquire ==
    ASSUME Control, NEW t \in Threads, Acquire(t), ~closed
    PROVE  /\ Control' /\ lock' = t
           /\ Now(t, th[t].calls, IF th[t].pc = "wait_publish" /\ th[t].todo # <<>>
                                  THEN "produce" ELSE "flush", th[t].todo)
<1> DEFINE place == IF th[t].pc = "wait_publish" /\ th[t].todo # <<>> THEN "produce"
                    ELSE "flush"
<1>1. ThreadType /\ ThreadOK(t) /\ lock = NoThread /\ lock' = t
  BY DEF Control, Acquire
<1>2. th[t].pc \in {"wait_publish", "wait_flush"}
  BY DEF Acquire
<1>3. ThreadType' /\ Now(t, th[t].calls, place, th[t].todo)
  <2>1. th' = [th EXCEPT ![t].pc = place]
    BY DEF Acquire, ThreadType, Control
  <2> QED
    BY <1>1, <2>1 DEF ThreadType, Now, Places
<1>4. ThreadOK(t)'
  BY <1>1, <1>2, <1>3 DEF ThreadOK, Now, Critical
<1> QED
  BY ZenonT(20), <1>1, <1>3, <1>4, ControlMoves DEF Now

\* produce that does not raise.
LEMMA ControlProduce ==
    ASSUME Control, NEW t \in Threads, NEW place \in {"poll", "poll_full"},
           th[t].pc = "produce", lock' = lock,
           th' = [th EXCEPT ![t].pc = place] \/
             th' = [th EXCEPT ![t].pc = place, ![t].attempt = @ + 1]
    PROVE  Control' /\ Now(t, th[t].calls, place, th[t].todo)
<1>1. ThreadType /\ ThreadOK(t)
  BY DEF Control
<1>2. place \in Places /\ th[t].attempt \in Nat /\ th[t].attempt + 1 \in Nat
  BY <1>1 DEF ThreadType, Places
<1>3. ThreadType' /\ Now(t, th[t].calls, place, th[t].todo)
  <2>1. CASE th' = [th EXCEPT ![t].pc = place]
    BY <1>1, <1>2, <2>1 DEF ThreadType, Now
  <2>2. CASE th' = [th EXCEPT ![t].pc = place, ![t].attempt = @ + 1]
    BY <1>1, <1>2, <2>2 DEF ThreadType, Now
  <2> QED
    BY <2>1, <2>2
<1>4. ThreadOK(t)'
  BY <1>1, <1>3 DEF ThreadOK, Now, Critical
<1> QED
  BY ZenonT(20), <1>3, <1>4, ControlMoves DEF Now

\* poll that does not raise: the message again, the next one, or the flush.
PollGoesOn(t) ==
    LET rest == Tail(th[t].todo)
        batch == Call(t).kind = "batch"
    IN  /\ th[t].pc \in {"poll", "poll_full"}
        /\ th' = IF th[t].pc = "poll_full" THEN [th EXCEPT ![t].pc = "produce"]
                 ELSE [th EXCEPT ![t].todo = rest, ![t].attempt = 0,
                                 ![t].pc = IF rest # <<>> THEN "produce"
                                           ELSE IF batch THEN "flush" ELSE "wait_flush"]
        /\ lock' = IF th'[t].pc = "wait_flush" THEN NoThread ELSE lock

\* A poll that raises nothing goes on with the message, the next one or a flush.
LEMMA ControlPoll ==
    ASSUME Control, NEW t \in Threads, PollGoesOn(t)
    PROVE  /\ Control'
           /\ \/ th[t].pc = "poll_full" /\ Now(t, th[t].calls, "produce", th[t].todo)
              \/ /\ th[t].pc = "poll"
                 /\ \E p \in {"produce", "flush", "wait_flush"} :
                       Now(t, th[t].calls, p, Tail(th[t].todo))
<1>1. ThreadType /\ ThreadOK(t) /\ th[t].pc \in {"poll", "poll_full"}
  BY DEF Control, PollGoesOn
<1>2. lock = t /\ th[t].todo # <<>> /\ th[t].calls # <<>>
  BY <1>1 DEF ThreadOK, Critical
<1>3. /\ th[t].todo \in Seq(Messages) /\ Tail(th[t].todo) \in Seq(Messages)
      /\ Call(t).kind \in {"batch", "event", "close"}
  BY <1>1, <1>2, HeadAndTail, CallFacts DEF ThreadType
<1>4. CASE th[t].pc = "poll_full"
  <2>1. th' = [th EXCEPT ![t].pc = "produce"]
    BY <1>4 DEF PollGoesOn
  <2>2. ThreadType' /\ Now(t, th[t].calls, "produce", th[t].todo)
    BY <1>1, <2>1 DEF ThreadType, Now, Places
  <2>3. lock' = t
    BY <1>2, <2>2 DEF PollGoesOn, Now
  <2>4. ThreadOK(t)'
    BY <1>1, <1>2, <2>2, <2>3 DEF ThreadOK, Now, Critical
  <2> QED
    BY ZenonT(20), <1>2, <1>4, <2>2, <2>3, <2>4, ControlMoves DEF Now
<1>5. CASE th[t].pc = "poll"
  <2> DEFINE place == IF Tail(th[t].todo) # <<>> THEN "produce"
                      ELSE IF Call(t).kind = "batch" THEN "flush" ELSE "wait_flush"
  <2>1. th' = [th EXCEPT ![t].todo = Tail(th[t].todo), ![t].attempt = 0, ![t].pc = place]
    BY <1>5 DEF PollGoesOn
  <2>2. ThreadType' /\ Now(t, th[t].calls, place, Tail(th[t].todo))
    BY <1>1, <1>3, <2>1 DEF ThreadType, Now, Places
  <2>3. lock' = IF place = "wait_flush" THEN NoThread ELSE t
    BY <1>2, <2>2 DEF PollGoesOn, Now
  <2>4. Call(t)' = Call(t)
    BY <2>2 DEF Now, Call
  <2>5. ThreadOK(t)'
    BY <1>1, <1>2, <1>3, <2>2, <2>3, <2>4, ProducerAssumption DEF ThreadOK, Now, Critical
  <2>6. place \in {"produce", "flush", "wait_flush"} /\ lock' \in {t, NoThread}
    BY <2>3
  <2> HIDE DEF place
  <2> QED
    BY ZenonT(20), <1>2, <1>5, <2>2, <2>5, <2>6, ControlMoves DEF Now
<1> QED
  BY <1>1, <1>4, <1>5

-----------------------------------------------------------------------------
(* The messages *)

Reported == {r.message : r \in reports}
Kept == log \cup told \cup inflight \cup Reported \cup errors
Safe == log \cup inflight \cup Served

Memory ==
    /\ \A r \in reports : r.ok => r.message \in log
    /\ closed => inflight = {} /\ reports = {} /\ errors = {} /\ lock = NoThread
    /\ sent \subseteq Kept

\* What the broker has stored it keeps, and a message that was served is stored
\* or has failed.
LEMMA ServedFacts ==
    ASSUME Memory
    PROVE  Reported \subseteq log \cup Served /\ errors \subseteq Served
  BY ZenonT(20) DEF Memory, Reported, Served

\* A step that adds messages, tells failures or serves reports forgets none.
LEMMA MemoryMoves ==
    ASSUME Memory, log' = log, \A r \in reports' : r \in reports,
           closed' => inflight' = {} /\ reports' = {} /\ errors' = {} /\ lock' = NoThread,
           sent' = sent \/ sent' = sent \cup inflight',
           told \subseteq told', inflight \subseteq inflight',
           \/ reports' = reports /\ errors' = errors
           \/ Served \subseteq told' \cup errors'
    PROVE  Memory'
<1>1. Kept \subseteq Kept'
  <2>1. CASE reports' = reports /\ errors' = errors
    BY ZenonT(20), <2>1 DEF Kept, Reported
  <2>2. CASE Served \subseteq told' \cup errors'
    BY ZenonT(20), <2>2, ServedFacts DEF Kept
  <2> QED
    BY <2>1, <2>2
<1>2. sent' \subseteq Kept'
  <2>1. inflight' \subseteq Kept'
    BY ZenonT(20) DEF Kept
  <2> QED
    BY ZenonT(20), <1>1, <2>1 DEF Memory
<1> QED
  BY ZenonT(20), <1>2 DEF Memory

\* The delivery callback of librdkafka: the message moves from the client's
\* memory to the reports, in the log when it was stored.
LEMMA DeliverMemory ==
    ASSUME Memory, NEW m, Deliver(m)
    PROVE  Memory' /\ Safe \subseteq Safe' /\ log \subseteq log'
<1>1. PICK ok \in BOOLEAN :
         /\ reports' = reports \cup {[message |-> m, ok |-> ok]}
         /\ log' \in (IF ok THEN {} ELSE {log})
                        \cup (IF m.topic \in DOMAIN topics THEN {log \cup {m}} ELSE {})
  BY ZenonT(20) DEF Deliver
<1> DEFINE new == [message |-> m, ok |-> ok]
<1>2. new.message = m /\ new.ok = ok
  OBVIOUS
<1>3. log \subseteq log' /\ (ok => m \in log')
  BY ZenonT(20), <1>1
<1>4. m \in inflight /\ inflight' = inflight \ {m} /\ reports' = reports \cup {new}
  BY ZenonT(20), <1>1 DEF Deliver
<1>5. UNCHANGED <<errors, lock, closed, sent, told>>
  BY ZenonT(20) DEF Deliver, history
<1> HIDE DEF new
<1>6. Reported \subseteq Reported' /\ m \in Reported'
  BY ZenonT(20), <1>2, <1>4 DEF Reported
<1>7. Served \subseteq Served' /\ (~ok => m \in Served')
  BY ZenonT(20), <1>2, <1>4, <1>5 DEF Served
<1>8. Kept \subseteq Kept'
  BY ZenonT(20), <1>3, <1>4, <1>5, <1>6 DEF Kept
<1>9. Safe \subseteq Safe'
  BY ZenonT(20), <1>3, <1>4, <1>7 DEF Safe
<1>10. Memory'
  BY ZenonT(20), <1>2, <1>3, <1>4, <1>5, <1>8 DEF Memory
<1> QED
  BY <1>3, <1>9, <1>10

-----------------------------------------------------------------------------
(* What a call has published *)

\* The messages of its call that t has not published yet.
Left(t) == IF th[t].pc = "poll" THEN Tail(th[t].todo) ELSE th[t].todo

Accounted(t) ==
    th[t].pc # "idle" => Elems(Call(t).messages) \subseteq Elems(Left(t)) \cup Safe

Delivered == acked \subseteq log /\ \A t \in Threads : Accounted(t)

\* Nobody publishes single events, or one thread makes all the calls.
Alone ==
    \/ \A t \in Threads : \A c \in Elems(th[t].calls) : c.kind # "event"
    \/ \E s \in Threads : \A u \in Threads \ {s} : th[u].calls = <<>>

\* A thread that goes on with its calls stays the only one to make calls.
LEMMA AloneMoves ==
    ASSUME Control, Alone, NEW t \in Threads, th[t].calls # <<>>, NEW calls, NEW p, NEW d,
           Now(t, calls, p, d), calls \in {th[t].calls, Tail(th[t].calls)}
    PROVE  Alone'
<1>1. th[t].calls \in Seq(Calls)
  BY DEF Control, ThreadType
<1>2. Elems(calls) \subseteq Elems(th[t].calls)
  BY <1>1, HeadAndTail
<1>3. th'[t].calls = calls /\ \A u \in Threads \ {t} : th'[u] = th[u]
  BY ZenonT(20) DEF Now
<1>4. CASE \A u \in Threads : \A c \in Elems(th[u].calls) : c.kind # "event"
  <2>1. ASSUME NEW u \in Threads PROVE Elems(th'[u].calls) \subseteq Elems(th[u].calls)
    BY ZenonT(20), <1>2, <1>3
  <2> QED
    BY ZenonT(20), <1>4, <2>1 DEF Alone
<1>5. ASSUME NEW s \in Threads, \A u \in Threads \ {s} : th[u].calls = <<>>
      PROVE  Alone'
  <2>1. s = t
    BY ZenonT(20), <1>5
  <2> QED
    BY ZenonT(20), <1>3, <1>5, <2>1 DEF Alone
<1> QED
  BY ZenonT(20), <1>4, <1>5 DEF Alone

\* A step of t that takes no message from the safe ones.
LEMMA DeliveredMoves ==
    ASSUME Control, Delivered, NEW t \in Threads, NEW c, NEW p, NEW d, Now(t, c, p, d),
           Safe \subseteq Safe', acked' \subseteq log', Accounted(t)'
    PROVE  Delivered'
<1>1. ASSUME NEW u \in Threads, u # t PROVE Accounted(u)'
  <2>1. th'[u] = th[u]
    BY ZenonT(20), <1>1 DEF Now
  <2>2. Accounted(u)
    BY ZenonT(20) DEF Delivered
  <2> QED
    BY ZenonT(20), <2>1, <2>2 DEF Accounted, Left, Call
<1> QED
  BY ZenonT(20), <1>1 DEF Delivered

\* A call that raises the failures there are: no other call is in between
\* publishing and its check.
LEMMA DeliveredRaises ==
    ASSUME Control, Alone, Delivered, NEW t \in Threads, lock = t, th[t].calls # <<>>,
           Now(t, Tail(th[t].calls), "idle", <<>>), acked' = acked, log' = log
    PROVE  Delivered'
<1>1. ASSUME NEW u \in Threads, u # t PROVE Accounted(u)'
  <2>1. th'[u] = th[u] /\ Call(u)' = Call(u)
    BY ZenonT(20), <1>1 DEF Now, Call
  <2>2. ThreadOK(u) /\ ThreadType
    BY ZenonT(20) DEF Control
  <2>3. th[u].pc \in {"idle", "wait_publish", "wait_flush"}
    BY <1>1, <2>2 DEF ThreadOK, ThreadType, Critical, Places
  <2>4. CASE th[u].pc = "idle"
    BY ZenonT(20), <2>1, <2>4 DEF Accounted
  <2>5. CASE th[u].pc = "wait_publish"
    <3>1. th[u].todo = Call(u).messages /\ Left(u)' = th[u].todo
      BY <2>1, <2>2, <2>5 DEF ThreadOK, Left
    <3> QED
      BY ZenonT(20), <2>1, <3>1 DEF Accounted
  <2>6. CASE th[u].pc = "wait_flush"
    <3>1. th[u].calls # <<>> /\ Call(u).kind \in {"event", "close"}
      BY ZenonT(20), <2>2, <2>6 DEF ThreadOK
    <3>2. Call(u) \in Elems(th[u].calls) /\ (Call(u).kind = "close" => Call(u).messages = <<>>)
      BY <2>2, <3>1, CallFacts
    <3>3. Call(u).kind # "event"
      BY ZenonT(20), <1>1, <3>1, <3>2 DEF Alone
    <3>4. Call(u).messages = <<>>
      BY ZenonT(20), <3>1, <3>2, <3>3
    <3>5. Elems(<<>>) = {}
      BY DEF Elems
    <3> QED
      BY ZenonT(20), <2>1, <3>4, <3>5 DEF Accounted
  <2> QED
    BY ZenonT(20), <2>3, <2>4, <2>5, <2>6
<1>2. Accounted(t)'
  BY ZenonT(20) DEF Now, Accounted
<1> QED
  BY ZenonT(20), <1>1, <1>2 DEF Delivered

-----------------------------------------------------------------------------
(* The steps *)

Keeps == Control' /\ Memory' /\ (Alone /\ Delivered => Alone' /\ Delivered')

\* A call that raises tells what it clears, or clears nothing.
LEMMA RaiseKeeps ==
    ASSUME Control, Memory, NEW t \in Threads, th[t].pc # "idle", NEW r, Raises(t, r),
           UNCHANGED <<log, inflight, closed>>, sent' = sent \/ sent' = sent \cup inflight',
           \/ reports' = reports /\ errors' = errors
           \/ reports' = {} /\ errors' = {} /\ r = Served /\ lock = t
           \/ reports' = {} /\ errors' = Served /\ lock = t
    PROVE  Keeps
<1>1. Control' /\ Now(t, Tail(th[t].calls), "idle", <<>>)
  BY ZenonT(20), ControlReturn DEF Raises
<1>2. /\ lock' = (IF lock = t THEN NoThread ELSE lock) /\ acked' = acked \cup {}
      /\ told' = told \cup r
  BY ZenonT(20) DEF Raises, Return
<1>3. th[t].calls # <<>>
  BY ZenonT(20) DEF Control, ThreadOK
<1>4. lock = t => ~closed
  BY ProducerAssumption DEF Memory
<1>5. closed' => inflight' = {} /\ reports' = {} /\ errors' = {} /\ lock' = NoThread
  BY ZenonT(20), <1>2, <1>4 DEF Memory
<1>6. \A q \in reports' : q \in reports
  BY ZenonT(20)
<1>7. \/ reports' = reports /\ errors' = errors
      \/ Served \subseteq told' \cup errors'
  BY ZenonT(20), <1>2
<1>8. Memory'
  BY ZenonT(20), <1>2, <1>5, <1>6, <1>7, MemoryMoves
<1>9. ASSUME Alone, Delivered PROVE Alone' /\ Delivered'
  <2>1. Alone'
    BY ZenonT(20), <1>1, <1>3, <1>9, AloneMoves
  <2>2. acked' = acked /\ acked \subseteq log
    BY ZenonT(20), <1>2, <1>9 DEF Delivered
  <2>3. Accounted(t)'
    BY ZenonT(20), <1>1 DEF Now, Accounted
  <2>4. CASE reports' = reports /\ errors' = errors
    <3>1. Safe \subseteq Safe'
      BY ZenonT(20), <2>4 DEF Safe, Served
    <3> QED
      BY ZenonT(20), <1>1, <1>9, <2>1, <2>2, <2>3, <3>1, DeliveredMoves
  <2>5. CASE lock = t
    BY ZenonT(20), <1>1, <1>3, <1>9, <2>1, <2>2, <2>5, DeliveredRaises
  <2> QED
    BY ZenonT(20), <2>4, <2>5
<1> QED
  BY ZenonT(20), <1>1, <1>8, <1>9 DEF Keeps

\* The start of publish_batch, publish or close, before the lock is taken.
LEMMA BeginKeeps ==
    ASSUME Control, Memory, NEW t \in Threads, Begin(t)
    PROVE  Keeps
<1> DEFINE place == IF Call(t).kind = "close" THEN "wait_flush" ELSE "wait_publish"
<1>1. Control' /\ Now(t, th[t].calls, place, Call(t).messages)
  BY ZenonT(20), ControlBegin
<1>2. UNCHANGED <<inflight, reports, log, errors, lock, closed, sent, acked, told>>
  BY ZenonT(20) DEF Begin, client, history
<1>3. th[t].calls # <<>>
  BY ZenonT(20) DEF Begin
<1>4. Memory'
  BY ZenonT(20), <1>2 DEF Memory, Kept, Reported
<1>5. Safe' = Safe
  BY ZenonT(20), <1>2 DEF Safe, Served
<1>6. place # "poll" /\ Call(t)' = Call(t)
  BY <1>1 DEF Now, Call
<1> HIDE DEF place
<1>7. Accounted(t)'
  BY ZenonT(20), <1>1, <1>6 DEF Accounted, Left, Now
<1>8. ASSUME Alone, Delivered PROVE Alone' /\ Delivered'
  <2>1. Alone'
    BY ZenonT(20), <1>1, <1>3, <1>8, AloneMoves
  <2>2. acked' \subseteq log'
    BY ZenonT(20), <1>2, <1>8 DEF Delivered
  <2> QED
    BY ZenonT(20), <1>1, <1>5, <1>7, <1>8, <2>1, <2>2, DeliveredMoves
<1> QED
  BY ZenonT(20), <1>1, <1>4, <1>8 DEF Keeps

\* Taking the lock of the publisher, which a closed one answers by an error.
LEMMA AcquireKeeps ==
    ASSUME Control, Memory, NEW t \in Threads, Acquire(t)
    PROVE  Keeps
<1>1. CASE closed
  <2>1. Raises(t, {}) /\ th[t].pc # "idle"
    BY <1>1 DEF Acquire
  <2>2. UNCHANGED <<inflight, reports, log, errors, closed, sent>>
    BY ZenonT(20) DEF Acquire, client
  <2> QED
    BY ZenonT(20), <2>1, <2>2, RaiseKeeps
<1>2. CASE ~closed
  <2> DEFINE place == IF th[t].pc = "wait_publish" /\ th[t].todo # <<>> THEN "produce"
                      ELSE "flush"
  <2>1. Control' /\ lock' = t /\ Now(t, th[t].calls, place, th[t].todo)
    BY ZenonT(20), <1>2, ControlAcquire
  <2>2. UNCHANGED <<inflight, reports, log, errors, closed, sent, acked, told>>
    BY ZenonT(20), <1>2 DEF Acquire, client, history
  <2>3. th[t].pc # "idle" /\ th[t].pc # "poll" /\ place # "poll" /\ Call(t)' = Call(t)
    BY <2>1 DEF Acquire, Now, Call
  <2>4. th[t].calls # <<>>
    BY ZenonT(20), <2>3 DEF Control, ThreadOK
  <2> HIDE DEF place
  <2>5. Memory'
    BY ZenonT(20), <1>2, <2>2 DEF Memory, Kept, Reported
  <2>6. Safe' = Safe
    BY ZenonT(20), <2>2 DEF Safe, Served
  <2>7. ASSUME Alone, Delivered PROVE Alone' /\ Delivered'
    <3>1. Alone'
      BY ZenonT(20), <2>1, <2>4, <2>7, AloneMoves
    <3>2. acked' \subseteq log'
      BY ZenonT(20), <2>2, <2>7 DEF Delivered
    <3>3. Accounted(t)'
      <4>1. Left(t) = th[t].todo /\ Left(t)' = th[t].todo
        BY ZenonT(20), <2>1, <2>3 DEF Left, Now
      <4>2. Accounted(t)
        BY ZenonT(20), <2>7 DEF Delivered
      <4> QED
        BY ZenonT(20), <2>3, <2>6, <4>1, <4>2 DEF Accounted
    <3> QED
      BY ZenonT(20), <2>1, <2>6, <2>7, <3>1, <3>2, <3>3, DeliveredMoves
  <2> QED
    BY ZenonT(20), <2>1, <2>5, <2>7 DEF Keeps
<1> QED
  BY <1>1, <1>2

\* A step within a call that takes nothing from the safe messages.
LEMMA GoesOn ==
    ASSUME Control, Control', Memory', NEW t \in Threads, th[t].pc # "idle", NEW p, NEW d,
           Now(t, th[t].calls, p, d), log' = log, acked' = acked, Safe \subseteq Safe',
           Accounted(t) => Accounted(t)'
    PROVE  Keeps
<1>1. th[t].calls # <<>>
  BY ZenonT(20) DEF Control, ThreadOK
<1>2. ASSUME Alone, Delivered PROVE Alone' /\ Delivered'
  <2>1. Alone'
    BY ZenonT(20), <1>1, <1>2, AloneMoves
  <2>2. acked' \subseteq log' /\ Accounted(t)'
    BY ZenonT(20), <1>2 DEF Delivered
  <2> QED
    BY ZenonT(20), <1>2, <2>1, <2>2, DeliveredMoves
<1> QED
  BY ZenonT(20), <1>2 DEF Keeps

\* produce: the message is queued, or refused because the queue is full.
LEMMA ProduceKeeps ==
    ASSUME Control, Memory, NEW t \in Threads, Produce(t)
    PROVE  Keeps
<1>0. /\ th[t].pc = "produce" /\ th[t].pc # "idle" /\ th[t].pc # "poll"
      /\ sent' = sent \cup inflight' /\ UNCHANGED <<reports, log, errors, closed>>
  BY DEF Produce
<1>1. ThreadType /\ ThreadOK(t)
  BY ZenonT(20) DEF Control
<1>2. lock = t /\ th[t].todo # <<>> /\ th[t].todo \in Seq(Messages)
  BY <1>0, <1>1 DEF ThreadOK, ThreadType, Critical
<1>3. ~closed
  BY <1>2, ProducerAssumption DEF Memory
<1>4. CASE \E r : Raises(t, r) /\ UNCHANGED inflight
  BY ZenonT(20), <1>0, <1>4, RaiseKeeps
<1>5. CASE /\ inflight' = inflight \cup {Head(th[t].todo)}
           /\ th' = [th EXCEPT ![t].pc = "poll"]
           /\ UNCHANGED <<lock, history, exceptions>>
  <2>1. Control' /\ Now(t, th[t].calls, "poll", th[t].todo)
    BY ZenonT(20), <1>0, <1>5, ControlProduce
  <2>2. told' = told /\ acked' = acked /\ lock' = lock
    BY ZenonT(20), <1>5 DEF history
  <2>3. Memory'
    BY ZenonT(20), <1>0, <1>3, <1>5, <2>2, MemoryMoves
  <2>4. Safe \subseteq Safe' /\ Head(th[t].todo) \in Safe'
    BY ZenonT(20), <1>0, <1>5 DEF Safe, Served
  <2>5. /\ Left(t) = th[t].todo /\ Left(t)' = Tail(th[t].todo) /\ Call(t)' = Call(t)
    BY ZenonT(20), <1>0, <2>1 DEF Left, Now, Call
  <2>6. Elems(th[t].todo) \subseteq {Head(th[t].todo)} \cup Elems(Tail(th[t].todo))
    BY ZenonT(20), <1>2, HeadAndTail
  <2>7. Accounted(t) => Accounted(t)'
    BY ZenonT(20), <1>0, <2>4, <2>5, <2>6 DEF Accounted
  <2> QED
    BY ZenonT(20), <1>0, <2>1, <2>2, <2>3, <2>4, <2>7, GoesOn
<1>6. CASE /\ th' = [th EXCEPT ![t].pc = "poll_full", ![t].attempt = @ + 1]
           /\ UNCHANGED <<inflight, lock, history, exceptions>>
  <2>1. Control' /\ Now(t, th[t].calls, "poll_full", th[t].todo)
    BY ZenonT(20), <1>0, <1>6, ControlProduce
  <2>2. told' = told /\ acked' = acked /\ lock' = lock /\ inflight' = inflight
    BY ZenonT(20), <1>6 DEF history
  <2>3. Memory'
    BY ZenonT(20), <1>0, <1>3, <2>2, MemoryMoves
  <2>4. Safe \subseteq Safe'
    BY ZenonT(20), <1>0, <2>2 DEF Safe, Served
  <2>5. "poll_full" # "poll"
    OBVIOUS
  <2>6. /\ Left(t) = th[t].todo /\ Left(t)' = th[t].todo /\ Call(t)' = Call(t)
    BY ZenonT(20), <1>0, <2>1, <2>5 DEF Left, Now, Call
  <2>7. Accounted(t) => Accounted(t)'
    BY ZenonT(20), <1>0, <2>4, <2>6 DEF Accounted
  <2> QED
    BY ZenonT(20), <1>0, <2>1, <2>2, <2>3, <2>4, <2>7, GoesOn
<1> QED
  BY ZenonT(20), <1>4, <1>5, <1>6 DEF Produce

\* poll serves the delivery reports that are there, their errors included.
LEMMA PollKeeps ==
    ASSUME Control, Memory, NEW t \in Threads, Poll(t)
    PROVE  Keeps
<1>0. /\ th[t].pc \in {"poll", "poll_full"} /\ th[t].pc # "idle"
      /\ UNCHANGED <<inflight, log, closed, sent>>
  BY DEF Poll
<1>1. ThreadType /\ ThreadOK(t)
  BY ZenonT(20) DEF Control
<1>2. lock = t
  BY <1>0, <1>1 DEF ThreadOK, Critical
<1>3. ~closed
  BY <1>2, ProducerAssumption DEF Memory
<1>4. CASE Raises(t, {}) /\ UNCHANGED <<reports, errors>>
  BY ZenonT(20), <1>0, <1>4, RaiseKeeps
<1>5. CASE reports' = {} /\ errors' = {} /\ Raises(t, Served)
  BY ZenonT(20), <1>0, <1>2, <1>5, RaiseKeeps
<1>6. CASE Served = {} /\ reports' = {} /\ PollGoesOn(t) /\ UNCHANGED <<errors, history>>
  <2>1. /\ Control'
        /\ \/ th[t].pc = "poll_full" /\ Now(t, th[t].calls, "produce", th[t].todo)
           \/ /\ th[t].pc = "poll"
              /\ \E p \in {"produce", "flush", "wait_flush"} :
                    Now(t, th[t].calls, p, Tail(th[t].todo))
    BY ZenonT(20), <1>6, ControlPoll
  <2>2. told' = told /\ acked' = acked /\ errors' = errors
    BY ZenonT(20), <1>6 DEF history
  <2>3. Memory'
    BY ZenonT(20), <1>0, <1>3, <1>6, <2>2, MemoryMoves
  <2>4. Safe \subseteq Safe'
    BY ZenonT(20), <1>0, <1>6 DEF Safe
  <2>5. PICK p \in {"produce", "flush", "wait_flush"} :
           Now(t, th[t].calls, p, IF th[t].pc = "poll" THEN Tail(th[t].todo) ELSE th[t].todo)
    <3>1. CASE th[t].pc = "poll_full" /\ Now(t, th[t].calls, "produce", th[t].todo)
      <4>1. th[t].pc # "poll"
        BY <3>1
      <4> QED
        BY ZenonT(20), <3>1, <4>1
    <3>2. CASE /\ th[t].pc = "poll"
               /\ \E p \in {"produce", "flush", "wait_flush"} :
                    Now(t, th[t].calls, p, Tail(th[t].todo))
      BY ZenonT(20), <3>2
    <3> QED
      BY ZenonT(20), <2>1, <3>1, <3>2
  <2>6. p # "poll"
    OBVIOUS
  <2>7. Left(t)' = Left(t) /\ Call(t)' = Call(t)
    BY ZenonT(20), <2>5, <2>6 DEF Left, Now, Call
  <2>8. Accounted(t) => Accounted(t)'
    BY ZenonT(20), <1>0, <2>4, <2>7 DEF Accounted
  <2> QED
    BY ZenonT(20), <1>0, <2>1, <2>2, <2>3, <2>4, <2>5, <2>8, GoesOn
<1> QED
  BY ZenonT(20), <1>4, <1>5, <1>6 DEF Poll, PollGoesOn

\* flush serves every report, and close gives the client up after it.
LEMMA FlushKeeps ==
    ASSUME Control, Memory, NEW t \in Threads, Flush(t)
    PROVE  Keeps
<1>0. /\ th[t].pc = "flush" /\ th[t].pc # "idle" /\ th[t].pc # "poll"
      /\ UNCHANGED <<inflight, log, sent>>
  BY DEF Flush
<1>1. ThreadType /\ ThreadOK(t)
  BY ZenonT(20) DEF Control
<1>2. lock = t /\ th[t].todo = <<>> /\ th[t].calls # <<>>
  BY <1>0, <1>1 DEF ThreadOK, Critical
<1>4. CASE Raises(t, {}) /\ UNCHANGED <<reports, errors, closed>>
  BY ZenonT(20), <1>0, <1>4, RaiseKeeps
<1>5. CASE reports' = {} /\ errors' = Served /\ Raises(t, {}) /\ UNCHANGED closed
  BY ZenonT(20), <1>0, <1>2, <1>5, RaiseKeeps
<1>6. CASE reports' = {} /\ errors' = {} /\ Raises(t, Served) /\ UNCHANGED closed
  BY ZenonT(20), <1>0, <1>2, <1>6, RaiseKeeps
<1>7. CASE /\ inflight = {} /\ Served = {} /\ reports' = {} /\ errors' = {}
           /\ Return(t, Elems(Call(t).messages), {})
  <2>1. Control' /\ Now(t, Tail(th[t].calls), "idle", <<>>)
    BY ZenonT(20), <1>0, <1>7, ControlReturn
  <2>2. /\ lock' = NoThread /\ acked' = acked \cup Elems(Call(t).messages)
        /\ told' = told \cup {}
    BY ZenonT(20), <1>2, <1>7 DEF Return
  <2>3. Memory'
    BY ZenonT(20), <1>0, <1>7, <2>2, MemoryMoves
  <2>4. Safe \subseteq Safe' /\ Safe = log
    BY ZenonT(20), <1>0, <1>7 DEF Safe
  <2>5. ASSUME Alone, Delivered PROVE Alone' /\ Delivered'
    <3>1. Alone'
      BY ZenonT(20), <1>2, <2>1, <2>5, AloneMoves
    <3>2. Elems(<<>>) = {}
      BY DEF Elems
    <3>3. Elems(Call(t).messages) \subseteq log
      BY ZenonT(20), <1>0, <1>2, <2>4, <2>5, <3>2 DEF Delivered, Accounted, Left
    <3>4. acked' \subseteq log'
      BY ZenonT(20), <1>0, <2>2, <2>5, <3>3 DEF Delivered
    <3>5. Accounted(t)'
      BY ZenonT(20), <2>1 DEF Now, Accounted
    <3> QED
      BY ZenonT(20), <2>1, <2>4, <2>5, <3>1, <3>4, <3>5, DeliveredMoves
  <2> QED
    BY ZenonT(20), <2>1, <2>3, <2>5 DEF Keeps
<1> QED
  BY ZenonT(20), <1>4, <1>5, <1>6, <1>7 DEF Flush

\* Every step of the publisher's threads and of its client.
LEMMA ProducerStep ==
    ASSUME Control, Memory, Next
    PROVE  Keeps
<1>1. ASSUME NEW m \in inflight, Deliver(m) PROVE Keeps
  <2>1. Memory' /\ Safe \subseteq Safe' /\ log \subseteq log'
    BY ZenonT(20), <1>1, DeliverMemory
  <2>2. UNCHANGED <<th, lock, acked>>
    BY ZenonT(20), <1>1 DEF Deliver, history
  <2>3. Control' /\ (Alone => Alone')
    BY ZenonT(20), <2>2 DEF Control, ThreadType, ThreadOK, Call, Alone
  <2>4. Delivered => Delivered'
    BY ZenonT(20), <2>1, <2>2 DEF Delivered, Accounted, Left, Call
  <2> QED
    BY ZenonT(20), <2>1, <2>3, <2>4 DEF Keeps
<1> QED
  BY ZenonT(20), <1>1, BeginKeeps, AcquireKeeps, ProduceKeeps, PollKeeps, FlushKeeps
  DEF Next, Step

-----------------------------------------------------------------------------
(* The topics *)

AdminType ==
    adm \in [Admins -> [pc : {"read", "create", "refresh", "done"},
                        missing : SUBSET Names, raced : SUBSET Names]]

Ready(p, n) == n \in DOMAIN topics /\ topics[n] = Topology[p]

\* A topic is as p wants it, or p still has to create or to verify it.
AdminOK(p) ==
    /\ adm[p].pc = "done" => \A n \in Names : Ready(p, n)
    /\ adm[p].pc \in {"create", "refresh"} =>
          \A n \in Names : n \in adm[p].missing \/ n \in adm[p].raced \/ Ready(p, n)
    /\ adm[p].pc = "refresh" => adm[p].missing = {}
    /\ adm[p].raced \subseteq DOMAIN topics

Topics ==
    /\ AdminType
    /\ visible \subseteq DOMAIN topics
    /\ \A p \in Admins : AdminOK(p)

\* No topic is removed or changed.
TopicsGrow ==
    /\ DOMAIN topics \subseteq DOMAIN topics'
    /\ \A n \in DOMAIN topics : topics'[n] = topics[n]

\* Creating topics leaves the ones that exist, and their partitions, alone.
LEMMA CreatedGrows ==
    ASSUME NEW p, NEW made, topics' = TA!Created(p, made)
    PROVE  /\ TopicsGrow
           /\ DOMAIN topics' = DOMAIN topics \cup made
           /\ \A n \in made \ DOMAIN topics : topics'[n] = Topology[p]
  BY ZenonT(20) DEF TA!Created, TopicsGrow

\* What p has verified or created stays as it is; so it is enough to look at p.
LEMMA TopicsMove ==
    ASSUME Topics, NEW p \in Admins, TopicsGrow, visible' = visible, AdminType',
           \A q \in Admins \ {p} : adm'[q] = adm[q], AdminOK(p)'
    PROVE  Topics'
<1>1. ASSUME NEW q \in Admins, q # p PROVE AdminOK(q)'
  <2>1. adm'[q] = adm[q] /\ AdminOK(q)
    BY ZenonT(20), <1>1 DEF Topics
  <2>2. \A n \in Names : Ready(q, n) => Ready(q, n)'
    BY ZenonT(20) DEF Ready, TopicsGrow
  <2> QED
    BY ZenonT(20), <2>1, <2>2 DEF AdminOK, TopicsGrow
<1>2. (visible \subseteq DOMAIN topics)'
  BY ZenonT(20) DEF Topics, TopicsGrow
<1> QED
  BY ZenonT(20), <1>1, <1>2 DEF Topics

\* An administrator that starts over has nothing to show for yet.
LEMMA FreshAdmin ==
    ASSUME Topics, NEW p \in Admins, TopicsGrow, visible' = visible,
           adm' = [adm EXCEPT ![p] = TA!Fresh]
    PROVE  Topics'
<1>1. TA!Fresh = [pc |-> "read", missing |-> {}, raced |-> {}]
  BY DEF TA!Fresh
<1>2. AdminType' /\ adm'[p] = TA!Fresh /\ \A q \in Admins \ {p} : adm'[q] = adm[q]
  BY <1>1 DEF Topics, AdminType
<1>3. adm'[p].pc = "read" /\ adm'[p].raced = {}
  BY <1>1, <1>2
<1>4. AdminOK(p)'
  BY <1>3 DEF AdminOK
<1> QED
  BY ZenonT(20), <1>2, <1>4, TopicsMove

\* list_topics: the topics the metadata lacks are the missing ones.
LEMMA ReadMetadataTopics ==
    ASSUME Topics, NEW p \in Admins, TA!ReadMetadata(p)
    PROVE  Topics'
<1> DEFINE missing == Names \ visible
           new == [TA!Fresh EXCEPT !.pc = IF missing = {} THEN "done" ELSE "create",
                                   !.missing = missing]
<1>0. TopicsGrow /\ visible' = visible
  BY ZenonT(20) DEF TA!ReadMetadata, TopicsGrow
<1>1. CASE TA!Mismatch(p, Names \cap visible)
  <2>1. adm' = [adm EXCEPT ![p] = TA!Fresh]
    BY <1>1 DEF TA!ReadMetadata
  <2> QED
    BY ZenonT(20), <1>0, <2>1, FreshAdmin
<1>2. CASE ~TA!Mismatch(p, Names \cap visible)
  <2>1. adm' = [adm EXCEPT ![p] = new]
    BY <1>2 DEF TA!ReadMetadata
  <2>i. ASSUME NEW a \in {"done", "create"}, NEW b \in SUBSET Names
        PROVE  LET x == [TA!Fresh EXCEPT !.pc = a, !.missing = b]
               IN  /\ x \in [pc : {"read", "create", "refresh", "done"},
                             missing : SUBSET Names, raced : SUBSET Names]
                   /\ x.pc = a /\ x.missing = b /\ x.raced = {}
    BY DEF TA!Fresh
  <2>p. missing \in SUBSET Names /\ (IF missing = {} THEN "done" ELSE "create") \in {"done", "create"}
    OBVIOUS
  <2>2. /\ new \in [pc : {"read", "create", "refresh", "done"},
                     missing : SUBSET Names, raced : SUBSET Names]
        /\ new.pc = (IF missing = {} THEN "done" ELSE "create")
        /\ new.missing = missing /\ new.raced = {}
    BY ZenonT(20), <2>i, <2>p
  <2> HIDE DEF new, missing
  <2>3. AdminType' /\ adm'[p] = new /\ \A q \in Admins \ {p} : adm'[q] = adm[q]
    BY <2>1, <2>2, <2>p DEF Topics, AdminType
  <2>4. ASSUME NEW n \in Names, n \in visible PROVE Ready(p, n)'
    <3>1. n \in DOMAIN topics
      BY ZenonT(20), <2>4 DEF Topics
    <3>2. topics[n] = Topology[p]
      BY ZenonT(20), <1>2, <2>4 DEF TA!Mismatch
    <3> QED
      BY ZenonT(20), <1>0, <3>1, <3>2 DEF Ready, TopicsGrow
  <2>5. /\ adm'[p].missing = missing /\ adm'[p].raced = {}
        /\ adm'[p].pc = "done" => missing = {}
        /\ adm'[p].pc # "refresh"
    BY <2>2, <2>3
  <2>6. AdminOK(p)'
    BY ZenonT(20), <2>4, <2>5 DEF AdminOK, missing
  <2> QED
    BY ZenonT(20), <1>0, <2>3, <2>6, TopicsMove
<1> QED
  BY <1>1, <1>2

\* The answer to create_topics for one topic, created here or by another.
LEMMA CreateTopicTopics ==
    ASSUME Topics, NEW p \in Admins, TA!CreateTopic(p)
    PROVE  Topics'
<1>1. PICK n \in adm[p].missing :
         /\ adm[p].pc = "create"
         /\ topics' = TA!Created(p, {n})
         /\ visible' = visible
         /\ LET rest == adm[p].missing \ {n}
                raced == adm[p].raced \cup ({n} \cap DOMAIN topics)
            IN  adm' = [adm EXCEPT ![p].missing = rest, ![p].raced = raced,
                                   ![p].pc = IF rest # {} THEN "create"
                                             ELSE IF raced = {} THEN "done" ELSE "refresh"]
  BY ZenonT(20) DEF TA!CreateTopic
<1> DEFINE rest == adm[p].missing \ {n}
           raced == adm[p].raced \cup ({n} \cap DOMAIN topics)
           place == IF rest # {} THEN "create" ELSE IF raced = {} THEN "done" ELSE "refresh"
<1>2. /\ TopicsGrow /\ DOMAIN topics' = DOMAIN topics \cup {n}
      /\ n \notin DOMAIN topics => topics'[n] = Topology[p]
  BY ZenonT(20), <1>1, CreatedGrows
<1>3. adm' = [adm EXCEPT ![p].missing = rest, ![p].raced = raced, ![p].pc = place]
  BY <1>1
<1>4. adm[p].missing \subseteq Names /\ adm[p].raced \subseteq Names
  BY DEF Topics, AdminType
<1>5. rest \in SUBSET Names /\ raced \in SUBSET Names
  BY ZenonT(20), <1>4
<1>6. place \in {"create", "refresh", "done"}
  OBVIOUS
<1>7. place = "refresh" => rest = {}
  OBVIOUS
<1>8. place = "done" => rest = {} /\ raced = {}
  OBVIOUS
<1>k. n \in DOMAIN topics => n \in raced
  OBVIOUS
<1>l. adm[p].raced \subseteq raced /\ raced \subseteq adm[p].raced \cup {n}
  OBVIOUS
<1>m. \A x \in adm[p].missing : x \in rest \/ x = n
  OBVIOUS
<1> HIDE DEF rest, raced, place
<1>9. /\ AdminType' /\ \A q \in Admins \ {p} : adm'[q] = adm[q]
      /\ adm'[p].missing = rest /\ adm'[p].raced = raced /\ adm'[p].pc = place
  BY <1>3, <1>5, <1>6 DEF Topics, AdminType
<1>10. ASSUME NEW x \in Names PROVE x \in rest \/ x \in raced \/ Ready(p, x)'
  <2>1. x \in adm[p].missing \/ x \in adm[p].raced \/ Ready(p, x)
    BY <1>1 DEF Topics, AdminOK
  <2>2. Ready(p, x) => Ready(p, x)'
    BY ZenonT(20), <1>2 DEF Ready, TopicsGrow
  <2>3. n \in raced \/ Ready(p, n)'
    BY ZenonT(20), <1>2, <1>k DEF Ready
  <2> QED
    BY ZenonT(20), <2>1, <2>2, <2>3, <1>l, <1>m
<1>11. raced \subseteq DOMAIN topics'
  BY ZenonT(20), <1>2, <1>l DEF Topics, AdminOK
<1>12. AdminOK(p)'
  BY ZenonT(20), <1>7, <1>8, <1>9, <1>10, <1>11 DEF AdminOK
<1> QED
  BY ZenonT(20), <1>1, <1>2, <1>9, <1>12, TopicsMove

\* The second look at the metadata, for the topics another one created.
LEMMA RefreshTopics ==
    ASSUME Topics, NEW p \in Admins, TA!Refresh(p)
    PROVE  Topics'
<1> DEFINE new == [TA!Fresh EXCEPT !.pc = "done"]
<1>0. TopicsGrow /\ visible' = visible /\ adm[p].pc = "refresh" /\ topics' = topics
  BY ZenonT(20) DEF TA!Refresh, TopicsGrow
<1>1. CASE adm' = [adm EXCEPT ![p] = TA!Fresh]
  BY ZenonT(20), <1>0, <1>1, FreshAdmin
<1>2. CASE /\ adm' = [adm EXCEPT ![p] = new]
           /\ adm[p].raced \subseteq visible /\ ~TA!Mismatch(p, adm[p].raced)
  <2>1. new = [pc |-> "done", missing |-> {}, raced |-> {}]
    BY DEF TA!Fresh
  <2>2. AdminType' /\ adm'[p] = new /\ \A q \in Admins \ {p} : adm'[q] = adm[q]
    BY <1>2, <2>1 DEF Topics, AdminType
  <2>3. AdminOK(p) /\ visible \subseteq DOMAIN topics
    BY ZenonT(20) DEF Topics
  <2>4. adm[p].missing = {} /\ \A n \in Names : n \in adm[p].missing \/ n \in adm[p].raced \/ Ready(p, n)
    BY <1>0, <2>3 DEF AdminOK
  <2>5. \A n \in adm[p].raced : Ready(p, n)
    BY ZenonT(20), <1>2, <2>3 DEF TA!Mismatch, Ready
  <2>6. \A n \in Names : Ready(p, n)'
    BY ZenonT(20), <1>0, <2>4, <2>5 DEF Ready
  <2>7. adm'[p].pc = "done" /\ adm'[p].raced = {}
    BY <2>1, <2>2
  <2>8. AdminOK(p)'
    BY <2>6, <2>7 DEF AdminOK
  <2> QED
    BY ZenonT(20), <1>0, <2>2, <2>8, TopicsMove
<1> QED
  BY ZenonT(20), <1>1, <1>2 DEF TA!Refresh

\* Every step of the processes that ensure the topics of the topology.
LEMMA TopicsStep ==
    ASSUME Topics, TA!Next
    PROVE  Topics'
<1>1. CASE TA!Propagate
  BY ZenonT(20), <1>1 DEF TA!Propagate, Topics, AdminType, AdminOK, Ready
<1>2. ASSUME NEW p \in Admins, TA!RequestFails(p) PROVE Topics'
  <2>1. PICK made : topics' = TA!Created(p, made)
    BY ZenonT(20), <1>2 DEF TA!RequestFails
  <2>2. TopicsGrow
    BY ZenonT(20), <2>1, CreatedGrows
  <2>3. visible' = visible /\ adm' = [adm EXCEPT ![p] = TA!Fresh]
    BY ZenonT(20), <1>2 DEF TA!RequestFails
  <2> QED
    BY ZenonT(20), <2>2, <2>3, FreshAdmin
<1> QED
  BY ZenonT(20), <1>1, <1>2, ReadMetadataTopics, CreateTopicTopics, RefreshTopics
  DEF TA!Next, TA!Step

-----------------------------------------------------------------------------
(* The theorems *)

\* The crawler publishes batches only, and the analyzer from one thread; of the
\* API's request threads, which publish single events, this is not true.
PublishesSafely ==
    \A program \in Programs :
        \/ \A t \in Threads : \A c \in Elems(program[t]) : c.kind # "event"
        \/ \E s \in Threads : \A u \in Threads \ {s} : program[u] = <<>>

MInv == Control /\ Memory /\ Topics

\* A process starts with nothing queued and its topics not looked at.
LEMMA MessagingInit ==
    ASSUME MInit
    PROVE  MInv /\ (PublishesSafely => Alone /\ Delivered)
<1>1. PICK program \in Programs :
         th = [t \in Threads |->
                 [calls |-> program[t], pc |-> "idle", todo |-> <<>>, attempt |-> 0]]
  BY ZenonT(20) DEF MInit, Init
<1>2. program \in [Threads -> Seq(Calls)]
  BY ZenonT(20), ProgramsAssumption
<1>3. /\ inflight = {} /\ reports = {} /\ log = {} /\ errors = {} /\ lock = NoThread
      /\ closed = FALSE /\ sent = {} /\ acked = {}
  BY ZenonT(20) DEF MInit, Init
<1>4. \A t \in Threads : th[t].pc = "idle" /\ th[t].calls = program[t]
  BY <1>1
<1>5. ThreadType
  BY <1>1, <1>2 DEF ThreadType, Places
<1>6. Control
  <2>1. ASSUME NEW t \in Threads PROVE ThreadOK(t)
    <3>1. th[t].pc = "idle" /\ lock # t
      BY <1>3, <1>4, ProducerAssumption
    <3> QED
      BY <3>1 DEF ThreadOK, Critical
  <2> QED
    BY ZenonT(20), <1>3, <1>5, <2>1 DEF Control
<1>7. Memory
  BY ZenonT(20), <1>3 DEF Memory
<1>8. Topics
  <2>1. /\ visible = DOMAIN topics
        /\ adm = [p \in Admins |-> [pc |-> "read", missing |-> {}, raced |-> {}]]
    BY ZenonT(20) DEF MInit, TA!Init, TA!Fresh
  <2>2. AdminType /\ \A p \in Admins : adm[p].pc = "read" /\ adm[p].raced = {}
    BY <2>1 DEF AdminType
  <2>3. ASSUME NEW p \in Admins PROVE AdminOK(p)
    BY <2>2 DEF AdminOK
  <2> QED
    BY ZenonT(20), <2>1, <2>2, <2>3 DEF Topics
<1>9. ASSUME PublishesSafely PROVE Alone
  BY ZenonT(20), <1>4, <1>9 DEF PublishesSafely, Alone
<1>10. Delivered
  BY ZenonT(20), <1>3, <1>4 DEF Delivered, Accounted
<1> QED
  BY ZenonT(20), <1>6, <1>7, <1>8, <1>9, <1>10 DEF MInv

\* The publisher and the administrators share no variable, so each step of
\* one keeps what is known of the other.
LEMMA MessagingStep ==
    ASSUME MInv, [MNext]_<<vars, admin>>
    PROVE  MInv' /\ (Alone /\ Delivered => Alone' /\ Delivered')
<1>1. CASE /\ UNCHANGED <<client, errors, lock, closed, th, sent, history, exceptions>>
           /\ TA!Next \/ UNCHANGED <<topics, admin>>
  <2>1. UNCHANGED <<inflight, reports, log, errors, lock, closed, th, sent, acked, told>>
    BY ZenonT(20), <1>1 DEF client, history
  <2>2. Control' /\ (Alone => Alone')
    BY ZenonT(20), <2>1 DEF MInv, Control, ThreadType, ThreadOK, Call, Alone
  <2>3. Memory'
    BY ZenonT(20), <2>1 DEF MInv, Memory, Kept, Reported
  <2>4. Delivered => Delivered'
    BY ZenonT(20), <2>1 DEF Delivered, Accounted, Left, Call, Safe, Served
  <2> QED
    <3>1. CASE TA!Next
      BY ZenonT(20), <2>2, <2>3, <2>4, <3>1, TopicsStep DEF MInv
    <3>2. CASE UNCHANGED <<topics, admin>>
      <4>1. Topics'
        BY ZenonT(20), <3>2 DEF admin, MInv, Topics, AdminType, AdminOK, Ready
      <4> QED
        BY ZenonT(20), <2>2, <2>3, <2>4, <4>1 DEF MInv
    <3> QED
      BY <1>1, <3>1, <3>2
<1>2. CASE Next /\ UNCHANGED admin
  <2>1. topics' = topics
    BY ZenonT(20), <1>2
    DEF Next, Step, Begin, Acquire, Produce, Poll, Flush, Deliver
  <2>2. Topics'
    BY ZenonT(20), <1>2, <2>1 DEF admin, MInv, Topics, AdminType, AdminOK, Ready
  <2> QED
    BY ZenonT(20), <1>2, <2>2, ProducerStep DEF MInv, Keeps
<1> QED
  BY ZenonT(20), <1>1, <1>2 DEF MNext, vars

\* The invariant holds in every state of the publisher and the administrators.
LEMMA MessagingInvariant == MSpec => []MInv
  BY MessagingInit, MessagingStep, PTL DEF MSpec

\* Whatever the threads of a process publish, poll, flush and close, a message
\* that produce has queued is stored, in the client, waiting to be reported, or
\* some caller was told of its failure; a closed producer has nothing left
\* (KafkaProducer.publish, flush, close and _on_delivery).
THEOREM NothingIsForgotten == MSpec => []NothingForgotten
<1>1. MInv => NothingForgotten
  <2> SUFFICES ASSUME MInv PROVE NothingForgotten
    OBVIOUS
  <2>1. sent \subseteq log \cup told \cup inflight \cup Reported \cup errors
    BY ZenonT(20) DEF MInv, Memory, Kept
  <2>2. CASE closed
    <3>1. inflight = {} /\ reports = {} /\ errors = {}
      BY ZenonT(20), <2>2 DEF MInv, Memory
    <3>2. Reported = {}
      BY ZenonT(20), <3>1 DEF Reported
    <3> QED
      BY ZenonT(20), <2>1, <2>2, <3>1, <3>2 DEF NothingForgotten
  <2>3. CASE ~closed
    BY ZenonT(20), <2>1, <2>3 DEF NothingForgotten, Reported
  <2> QED
    BY <2>2, <2>3
<1> QED
  BY <1>1, MessagingInvariant, PTL

\* When nobody publishes single events beside other threads, a call that returns
\* without an exception has all its messages stored by the broker, whatever the
\* other threads have sent, served and raised (publish_batch's one hold of the
\* lock from the first message to the check after the flush).
THEOREM AckedAreStored == PublishesSafely => (MSpec => []AckedIsDelivered)
<1> SUFFICES ASSUME PublishesSafely PROVE MSpec => []AckedIsDelivered
  OBVIOUS
<1>1. MInit => MInv /\ Alone /\ Delivered
  BY MessagingInit
<1>2. MInv /\ Alone /\ Delivered /\ [MNext]_<<vars, admin>> => MInv' /\ Alone' /\ Delivered'
  BY MessagingStep
<1>3. Delivered => AckedIsDelivered
  BY DEF Delivered, AckedIsDelivered
<1> QED
  BY <1>1, <1>2, <1>3, PTL DEF MSpec

\* ensure_topics returns only when every topic exists with the topology of its
\* process, whoever created it and however late the metadata is: also after it
\* has returned, whatever other processes do.
THEOREM EnsuredAreReady == MSpec => []EnsuredMeansReady
<1>1. MInv => EnsuredMeansReady
  BY ZenonT(20) DEF MInv, Topics, AdminOK, Ready, EnsuredMeansReady, TA!EnsuredMeansReady
<1> QED
  BY <1>1, MessagingInvariant, PTL

=============================================================================
