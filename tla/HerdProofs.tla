----------------------------- MODULE HerdProofs ------------------------------
(***************************************************************************)
(* What becomes of herds: the indexes that the scheduler keeps of them,    *)
(* the promise that a herder makes, the diagrams that are drawn of them,   *)
(* and what their instances wait for; and that none is forgotten.          *)
(***************************************************************************)
EXTENDS SchedulerProofs, HerdDiagram, TaskWait

-----------------------------------------------------------------------------
(* The indexes of herds.                                                   *)

Calls(op, i) == \E k \in DOMAIN stack : stack[k].op = op /\ stack[k].id = i

\* The calls that are only made by an event, or by one another.
EventOps ==
  {"abort", "abortEach", "abortHerd", "aborted", "reload", "start", "enqueueEach"}

\* A herd that is indexed is in memory with its herder, whole.
Shelved ==
  /\ \A h \in Ids :
       /\ unfinishedHerds[h] # {} => h \in unfinishedTasks
       /\ unfinishedHerds[h] \subseteq unfinishedTasks
  /\ \A i \in Created : ~IsHerder(i) /\ info[i].herdid \in unfinishedTasks =>
       i \in unfinishedHerds[info[i].herdid]

\* A herder waits for those of its herd that are not finished, and for those
\* whose end it is still to be told of.
AwaitedExact ==
  \A h \in Ids : \A j \in unfinishedHerds[h] :
    /\ j \notin finish => j \in unfinishedHerdedTasks[h]
    /\ j \in finish /\ j \in unfinishedHerdedTasks[h] => Calls("herded", j)

\* A herder is told of the end of an instance right after that end.
Told ==
  \A k \in DOMAIN stack :
    /\ stack[k].op = "herded" =>
         /\ ~IsHerder(stack[k].id)
         /\ \/ stack[k].id \in finish
            \/ /\ k > 1 /\ stack[k - 1].op = "finish"
               /\ stack[k - 1].id = stack[k].id
    /\ stack[k].op = "finish" /\ ~IsHerder(stack[k].id) =>
         /\ k + 1 \in DOMAIN stack
         /\ stack[k + 1].op = "herded" /\ stack[k + 1].id = stack[k].id

\* A finished instance is in memory for its herder, or is about to be forgotten.
Kept ==
  \A i \in unfinishedTasks \cap finish :
    \/ ~IsHerder(i) /\ info[i].herdid \in unfinishedTasks
    \/ Calls("forget", i)

\* An instance whose execution has ended and whose signal was handled is a
\* herder that waits for some instance, or is about to finish.
Attended ==
  \A h \in unfinishedTasks : Status(h) = "Waiting" /\ h \notin stopped =>
    \/ IsHerder(h) /\ unfinishedHerdedTasks[h] # {}
    \/ \E op \in Ends : Calls(op, h)

\* Nothing happens to an instance of a herd, whose herder has started, from the
\* call of enqueueTaskInstance() to its end.
Ready ==
  \A k \in DOMAIN stack :
    stack[k].op \in {"enqueue", "queue"} /\ ~IsHerder(stack[k].id) =>
      /\ ~Begun(stack[k].id) /\ ~Unstarted(info[stack[k].id].herdid)
      /\ \A m \in 1..(k - 1) : /\ stack[m].op \notin EventOps
                               /\ stack[k].id \notin Touches(stack[m])

IndexInv == Shelved /\ AwaitedExact /\ Told /\ Kept /\ Attended /\ Ready

\* Where the calls of the old stack and of the new one are.
LEMMA NewStack ==
  ASSUME IndInv, CallsInv, NEW frames \in Seq(CallFrame), Pushes(frames)
  PROVE  /\ stack' \in Seq(CallFrame) /\ DOMAIN stack' = 1..Len(stack')
         /\ Len(stack') \in Nat
         /\ Len(frames) \in Nat /\ DOMAIN frames = 1..Len(frames)
         /\ Len(stack) \in Nat /\ DOMAIN stack = 1..Len(stack)
         /\ \A k \in DOMAIN stack' :
              \/ k \in DOMAIN frames /\ stack'[k] = frames[k]
              \/ \E n \in DOMAIN stack :
                   /\ n > 1 /\ k = n - 1 + Len(frames) /\ stack'[k] = stack[n]
         /\ \A k \in DOMAIN frames : k \in DOMAIN stack' /\ stack'[k] = frames[k]
         /\ \A n \in DOMAIN stack : n > 1 =>
              /\ n - 1 + Len(frames) \in DOMAIN stack'
              /\ stack'[n - 1 + Len(frames)] = stack[n]
<1>1. /\ Len(frames) \in Nat /\ DOMAIN frames = 1..Len(frames)
      /\ Len(stack) \in Nat /\ DOMAIN stack = 1..Len(stack)
      /\ stack \in Seq(CallFrame)
  BY StackFrames
<1>2. /\ stack' \in Seq(CallFrame)
      /\ \A k \in DOMAIN stack' :
           \/ k \in DOMAIN frames /\ stack'[k] = frames[k]
           \/ /\ k - Len(frames) + 1 \in DOMAIN stack
              /\ k - Len(frames) + 1 > 1
              /\ stack'[k] = stack[k - Len(frames) + 1]
      /\ \A k \in DOMAIN frames : k \in DOMAIN stack' /\ stack'[k] = frames[k]
      /\ \A n \in DOMAIN stack : n > 1 =>
           /\ n - 1 + Len(frames) \in DOMAIN stack'
           /\ stack'[n - 1 + Len(frames)] = stack[n]
  BY <1>1, Shift
<1>3. DOMAIN stack' = 1..Len(stack') /\ Len(stack') \in Nat
  BY <1>2
<1>4. ASSUME NEW k \in DOMAIN stack',
             ~(k \in DOMAIN frames /\ stack'[k] = frames[k])
      PROVE  \E n \in DOMAIN stack :
               /\ n > 1 /\ k = n - 1 + Len(frames) /\ stack'[k] = stack[n]
  <2>1. PICK n : n = k - Len(frames) + 1
    OBVIOUS
  <2>2. n \in DOMAIN stack /\ n > 1 /\ stack'[k] = stack[n]
    BY <1>2, <1>4, <2>1
  <2>3. k = n - 1 + Len(frames)
    BY <1>1, <1>3, <2>1
  <2> QED BY <2>2, <2>3
<1> QED BY <1>1, <1>2, <1>3, <1>4

\* Calls stay on the stack until they are done.
LEMMA CallsStay ==
  ASSUME IndInv, CallsInv, NEW frames \in Seq(CallFrame), Pushes(frames)
  PROVE  /\ \A op, i : Calls(op, i) =>
              Calls(op, i)' \/ (stack # <<>> /\ Top.op = op /\ Top.id = i)
         /\ \A k \in DOMAIN frames : Calls(frames[k].op, frames[k].id)'
<1>1. ASSUME NEW op, NEW i, Calls(op, i)
      PROVE  Calls(op, i)' \/ (stack # <<>> /\ Top.op = op /\ Top.id = i)
  <2>1. PICK k \in DOMAIN stack : stack[k].op = op /\ stack[k].id = i
    BY <1>1 DEF Calls
  <2>2. k = 1 \/ k > 1
    BY <2>1, NewStack
  <2>3. CASE k = 1
    <3>1. stack # <<>>
      BY <2>1, Concats
    <3> QED BY <2>1, <2>3, <3>1, FrameFacts
  <2>4. CASE k > 1
    <3>1. k - 1 + Len(frames) \in DOMAIN stack'
          /\ stack'[k - 1 + Len(frames)] = stack[k]
      BY <2>4, NewStack
    <3> QED BY <2>1, <3>1 DEF Calls
  <2> QED BY <2>2, <2>3, <2>4
<1>2. \A k \in DOMAIN frames : Calls(frames[k].op, frames[k].id)'
  BY NewStack DEF Calls
<1> QED BY <1>1, <1>2

\* New calls that tell a herder of the end of an instance right after that end.
Tells(frames) ==
  \A k \in DOMAIN frames :
    /\ frames[k].op = "herded" =>
         /\ ~IsHerder(frames[k].id)
         /\ k > 1 /\ frames[k - 1].op = "finish"
         /\ frames[k - 1].id = frames[k].id
    /\ frames[k].op = "finish" /\ ~IsHerder(frames[k].id) =>
         /\ k + 1 \in DOMAIN frames
         /\ frames[k + 1].op = "herded" /\ frames[k + 1].id = frames[k].id

LEMMA ToldKept ==
  ASSUME IndInv, CallsInv, Told, Advances,
         NEW frames \in Seq(CallFrame), Pushes(frames), Tells(frames)',
         On("finish") => Top.id \in finish'
  PROVE  Told'
<1> DEFINE Fine(k, g) ==
      /\ g.op = "herded" =>
           /\ ~IsHerder(g.id)
           /\ \/ g.id \in finish
              \/ /\ k > 1 /\ stack[k - 1].op = "finish"
                 /\ stack[k - 1].id = g.id
      /\ g.op = "finish" /\ ~IsHerder(g.id) =>
           /\ k + 1 \in DOMAIN stack
           /\ stack[k + 1].op = "herded" /\ stack[k + 1].id = g.id
<1> SUFFICES ASSUME NEW k \in DOMAIN stack', NEW g, g = stack'[k]
             PROVE  Fine(k, g)'
  BY DEF Told
<1>1. CASE k \in DOMAIN frames /\ stack'[k] = frames[k]
  <2>1. k > 1 => k - 1 \in DOMAIN frames
    BY <1>1, NewStack
  <2>2. g = frames[k]
    BY <1>1
  <2>3. /\ g.op = "herded" =>
             /\ ~IsHerder(g.id)'
             /\ k > 1 /\ frames[k - 1].op = "finish" /\ frames[k - 1].id = g.id
        /\ g.op = "finish" /\ ~IsHerder(g.id)' =>
             /\ k + 1 \in DOMAIN frames
             /\ frames[k + 1].op = "herded" /\ frames[k + 1].id = g.id
    BY <1>1, <2>2 DEF Tells
  <2> QED BY <2>1, <2>3, NewStack
<1>2. ASSUME NEW n \in DOMAIN stack, n > 1, k = n - 1 + Len(frames),
             stack'[k] = stack[n]
      PROVE  Fine(k, g)'
  <2>1. PICK f : f = stack[n] /\ f = g
    BY <1>2
  <2>2. f.op \in {"finish", "herded"} => (IsHerder(f.id)' <=> IsHerder(f.id))
    <3>1. f.op \in {"finish", "herded"} => f.id \in Created
      BY <2>1, StackFrames DEF Loops
    <3> QED BY <3>1 DEF Advances, IsHerder
  <2>3. ASSUME f.op = "herded"
        PROVE  /\ ~IsHerder(f.id)'
               /\ \/ f.id \in finish'
                  \/ /\ k > 1 /\ stack'[k - 1].op = "finish"
                     /\ stack'[k - 1].id = f.id
    <3>1. /\ ~IsHerder(f.id)
          /\ \/ f.id \in finish
             \/ stack[n - 1].op = "finish" /\ stack[n - 1].id = f.id
      BY <2>1, <2>3 DEF Told
    <3>2. CASE f.id \in finish
      BY <2>2, <2>3, <3>1, <3>2 DEF Advances
    <3>3. CASE stack[n - 1].op = "finish" /\ stack[n - 1].id = f.id
      <4>1. n \in Nat /\ Len(frames) \in Nat /\ DOMAIN stack = 1..Len(stack)
            /\ Len(stack) \in Nat
        BY NewStack
      <4>2. CASE n = 2
        <5>1. n - 1 = 1
          BY <4>2
        <5>2. stack # <<>>
          BY Concats
        <5>3. Top.op = "finish" /\ Top.id = f.id
          BY <3>3, <5>1, <5>2, FrameFacts
        <5> QED BY <2>2, <2>3, <3>1, <5>2, <5>3 DEF On, Top
      <4>3. CASE n > 2
        <5>1. n - 1 \in DOMAIN stack /\ n - 1 > 1
          BY <1>2, <4>1, <4>3
        <5>2. stack'[(n - 1) - 1 + Len(frames)] = stack[n - 1]
          BY <5>1, NewStack
        <5>3. (n - 1) - 1 + Len(frames) = k - 1 /\ k > 1
          BY <1>2, <4>1, <4>3
        <5> QED BY <2>2, <2>3, <3>1, <3>3, <5>2, <5>3
      <4> QED BY <1>2, <4>1, <4>2, <4>3
    <3> QED BY <3>1, <3>2, <3>3
  <2>4. ASSUME f.op = "finish", ~IsHerder(f.id)'
        PROVE  /\ k + 1 \in DOMAIN stack' /\ stack'[k + 1].op = "herded"
               /\ stack'[k + 1].id = f.id
    <3>1. n + 1 \in DOMAIN stack /\ stack[n + 1].op = "herded"
          /\ stack[n + 1].id = f.id
      <4>1. ~IsHerder(f.id)
        BY <2>2, <2>4
      <4>2. stack[n].op = "finish" /\ ~IsHerder(stack[n].id)
        BY <2>1, <2>4, <4>1
      <4>3. n + 1 \in DOMAIN stack /\ stack[n + 1].op = "herded"
            /\ stack[n + 1].id = stack[n].id
        BY <4>2 DEF Told
      <4> QED BY <2>1, <4>3
    <3>2. n + 1 > 1 /\ (n + 1) - 1 + Len(frames) = k + 1
      BY <1>2, NewStack
    <3>3. /\ (n + 1) - 1 + Len(frames) \in DOMAIN stack'
          /\ stack'[(n + 1) - 1 + Len(frames)] = stack[n + 1]
      BY <3>1, <3>2, NewStack
    <3> QED BY <3>1, <3>2, <3>3
  <2> QED BY <1>2, <2>1, <2>3, <2>4
<1> QED BY <1>1, <1>2, NewStack

\* An instance of a herd that nothing has happened to, whose herder has started.
Fallow(j) == ~IsHerder(j) /\ ~Begun(j) /\ ~Unstarted(info[j].herdid)

\* A call that touches no such instance, unless the call on top of the stack does.
StillFrame ==
  {f \in CallFrame :
     \/ stack = <<>> \/ Top.op \in EventOps
     \/ /\ f.op \notin EventOps
        /\ \A j \in Touches(f) : j \in Created /\ Fallow(j) => j \in Touches(Top)}

\* New calls that queue an instance are the first ones to touch it.
Queues(frames) ==
  \A k \in DOMAIN frames :
    frames[k].op \in {"enqueue", "queue"} /\ ~IsHerder(frames[k].id) =>
      /\ Fallow(frames[k].id)
      /\ \A m \in 1..(k - 1) : /\ frames[m].op \notin EventOps
                               /\ frames[k].id \notin Touches(frames[m])

LEMMA ReadyKept ==
  ASSUME IndInv, CallsInv, Ready, Advances,
         NEW frames \in Seq(StillFrame), Pushes(frames), Queues(frames)',
         \A j \in Created : ~IsHerder(j) /\ Begun(j)' =>
           \/ Begun(j) \/ stack = <<>>
           \/ Top.op \in EventOps \/ j \in Touches(Top)
  PROVE  Ready'
<1> DEFINE Fine(k, g) ==
      g.op \in {"enqueue", "queue"} /\ ~IsHerder(g.id) =>
        /\ ~Begun(g.id) /\ ~Unstarted(info[g.id].herdid)
        /\ \A m \in 1..(k - 1) : /\ stack[m].op \notin EventOps
                                 /\ g.id \notin Touches(stack[m])
<1>1. frames \in Seq(CallFrame) /\ \A k \in DOMAIN frames : frames[k] \in StillFrame
  <2>1. StillFrame \subseteq CallFrame
    BY DEF StillFrame
  <2> QED BY <2>1, SeqMonotonic
<1>2. \A f : Touches(f)' = Touches(f)
  BY DEF Touches
<1> SUFFICES ASSUME NEW k \in DOMAIN stack', NEW g, g = stack'[k],
                    g.op \in {"enqueue", "queue"}, ~IsHerder(g.id)'
             PROVE  /\ ~Begun(g.id)' /\ ~Unstarted(info[g.id].herdid)'
                    /\ \A m \in 1..(k - 1) : /\ stack'[m].op \notin EventOps
                                             /\ g.id \notin Touches(stack'[m])
  BY <1>2 DEF Ready, Touches
<1>3. CASE k \in DOMAIN frames /\ stack'[k] = frames[k]
  <2>1. /\ ~Begun(g.id)' /\ ~Unstarted(info[g.id].herdid)'
        /\ \A m \in 1..(k - 1) : /\ frames[m].op \notin EventOps
                                 /\ g.id \notin Touches(frames[m])
    BY <1>2, <1>3 DEF Queues, Fallow, Touches
  <2>2. \A m \in 1..(k - 1) : stack'[m] = frames[m]
    BY <1>1, <1>3, NewStack
  <2> QED BY <2>1, <2>2
<1>4. ASSUME NEW n \in DOMAIN stack, n > 1, k = n - 1 + Len(frames),
             stack'[k] = stack[n]
      PROVE  /\ ~Begun(g.id)' /\ ~Unstarted(info[g.id].herdid)'
             /\ \A m \in 1..(k - 1) : /\ stack'[m].op \notin EventOps
                                      /\ g.id \notin Touches(stack'[m])
  <2>1. PICK i : i = g.id
    OBVIOUS
  <2>2. i \in Created /\ ~IsHerder(i) /\ info'[i] = info[i]
        /\ info[i].herdid \in Created /\ stack[n] = g
    <3>1. i \in Created /\ info[i].herdid \in Created
      BY <1>4, <2>1, StackFrames DEF Loops
    <3> QED BY <1>4, <2>1, <3>1 DEF Advances, IsHerder
  <2>3. /\ ~Begun(i) /\ ~Unstarted(info[i].herdid)
        /\ \A m \in 1..(n - 1) : /\ stack[m].op \notin EventOps
                                 /\ i \notin Touches(stack[m])
    <3>1. \A j : j = i => ~IsHerder(stack[n].id)
      BY <2>1, <2>2
    <3> QED BY <2>1, <2>2, <3>1 DEF Ready
  <2>4. stack # <<>> /\ Top.op \notin EventOps /\ i \notin Touches(Top)
    <3>1. n \in Nat /\ 1 \in 1..(n - 1)
      BY <1>4, <1>1, NewStack
    <3>2. stack # <<>>
      BY Concats
    <3> QED BY <2>3, <3>1, <3>2, FrameFacts
  <2>5. ~Begun(i)'
    BY <2>2, <2>3, <2>4
  <2>6. ~Unstarted(info[i].herdid)'
    BY <2>2, <2>3 DEF Unstarted, Advances
  <2>7. ASSUME NEW m \in 1..(k - 1)
        PROVE  stack'[m].op \notin EventOps /\ i \notin Touches(stack'[m])
    <3>1. m \in DOMAIN stack'
      BY <1>1, NewStack
    <3>2. CASE m \in DOMAIN frames /\ stack'[m] = frames[m]
      BY <1>1, <2>2, <2>3, <2>4, <3>2 DEF StillFrame, Fallow
    <3>3. ASSUME NEW l \in DOMAIN stack, l > 1, m = l - 1 + Len(frames),
                 stack'[m] = stack[l]
          PROVE  stack'[m].op \notin EventOps /\ i \notin Touches(stack'[m])
      <4>1. l \in 1..(n - 1)
        BY <1>1, <1>4, <3>3, NewStack
      <4> QED BY <2>3, <3>3, <4>1
    <3> QED BY <1>1, <3>1, <3>2, <3>3, NewStack
  <2> QED BY <2>1, <2>5, <2>6, <2>7
<1> QED BY <1>1, <1>3, <1>4, NewStack

\* Steps that change no index, finish nothing, and only make or return calls.
LEMMA CalmIndex ==
  ASSUME IndInv, CallsInv, IndexInv, Advances,
         NEW frames \in Seq(StillFrame), Pushes(frames),
         Tells(frames)', Queues(frames)',
         UNCHANGED <<info, finish, unfinishedTasks, unfinishedHerds,
                     unfinishedHerdedTasks>>,
         stack = <<>> \/ Top.op \notin {"finish", "forget", "herded"},
         \A j \in Created : ~IsHerder(j) /\ Begun(j)' =>
           \/ Begun(j) \/ stack = <<>>
           \/ Top.op \in EventOps \/ j \in Touches(Top),
         \A h \in unfinishedTasks :
           Status(h)' = "Waiting" /\ h \notin stopped' =>
             \/ /\ Status(h) = "Waiting" /\ h \notin stopped
                /\ stack = <<>> \/ Top.op \notin Ends \/ Top.id # h
             \/ \E k \in DOMAIN frames : frames[k].op \in Ends /\ frames[k].id = h
             \/ IsHerder(h) /\ unfinishedHerdedTasks[h] # {}
  PROVE  IndexInv'
<1>1. frames \in Seq(CallFrame)
  <2>1. StillFrame \subseteq CallFrame
    BY DEF StillFrame
  <2> QED BY <2>1, SeqMonotonic
<1>2. /\ \A op, i : Calls(op, i) =>
           Calls(op, i)' \/ (stack # <<>> /\ Top.op = op /\ Top.id = i)
      /\ \A k \in DOMAIN frames : Calls(frames[k].op, frames[k].id)'
  BY <1>1, CallsStay
<1>3. Created' = Created /\ \A i : IsHerder(i)' <=> IsHerder(i)
  BY DEF Created, IsHerder
<1>4. Shelved'
  BY <1>3 DEF IndexInv, Shelved
<1>5. AwaitedExact'
  BY <1>2 DEF IndexInv, AwaitedExact
<1>6. Told'
  <2>1. On("finish") => FALSE
    BY DEF On, Top
  <2> QED BY <1>1, <2>1, ToldKept DEF IndexInv
<1>7. Kept'
  BY <1>2, <1>3 DEF IndexInv, Kept
<1>8. Attended'
  <2> SUFFICES ASSUME NEW h \in unfinishedTasks, Status(h)' = "Waiting",
                      h \notin stopped'
               PROVE  \/ IsHerder(h) /\ unfinishedHerdedTasks[h] # {}
                      \/ \E op \in Ends : Calls(op, h)'
    BY <1>3 DEF Attended
  <2>1. CASE /\ Status(h) = "Waiting" /\ h \notin stopped
             /\ stack = <<>> \/ Top.op \notin Ends \/ Top.id # h
    BY <1>2, <2>1 DEF IndexInv, Attended
  <2>2. CASE \E k \in DOMAIN frames : frames[k].op \in Ends /\ frames[k].id = h
    BY <1>2, <2>2
  <2> QED BY <2>1, <2>2
<1>9. Ready'
  BY ReadyKept DEF IndexInv
<1> QED BY <1>4, <1>5, <1>6, <1>7, <1>8, <1>9 DEF IndexInv

\* The same, for calls that finish and queue nothing.
GentleFrame ==
  {f \in StillFrame : f.op \notin {"finish", "herded", "enqueue", "queue"}}

LEMMA StillCalls ==
  /\ <<>> \in Seq(GentleFrame)
  /\ \A op \in FrameOp, i \in Nat, mark \in BOOLEAN :
       /\ \/ stack = <<>> \/ Top.op \in EventOps
          \/ op \notin EventOps /\ (i \in Created /\ Fallow(i) => i \in Touches(Top))
       => /\ CallMark(op, i, mark) \in StillFrame
          /\ op \notin {"finish", "herded", "enqueue", "queue"} =>
               CallMark(op, i, mark) \in GentleFrame
  /\ \A op \in Loops \cup {"deduplicate"}, i \in Nat, S \in SUBSET Nat :
       /\ \/ stack = <<>> \/ Top.op \in EventOps
          \/ /\ op \notin EventOps
             /\ \A j \in S : j \in Created /\ Fallow(j) => j \in Touches(Top)
       => Loop(op, i, S) \in Seq(GentleFrame)
  /\ \A i \in Nat, acts \in Seq(Action) : Trigger(i, acts) \in Seq(GentleFrame)
<1>1. ASSUME NEW op \in FrameOp, NEW i \in Nat, NEW mark \in BOOLEAN,
             \/ stack = <<>> \/ Top.op \in EventOps
             \/ op \notin EventOps /\ (i \in Created /\ Fallow(i) => i \in Touches(Top))
      PROVE  /\ CallMark(op, i, mark) \in StillFrame
             /\ op \notin {"finish", "herded", "enqueue", "queue"} =>
                  CallMark(op, i, mark) \in GentleFrame
  <2>1. PICK f : f = CallMark(op, i, mark)
    OBVIOUS
  <2>2. f \in CallFrame /\ f.op = op /\ f.id = i /\ f.ids = {}
    BY <2>1, SeqClosed DEF CallMark, CallFrame
  <2>3. Touches(f) \subseteq {i}
    BY <2>2 DEF Touches
  <2> QED BY <1>1, <2>1, <2>2, <2>3 DEF StillFrame, GentleFrame
<1>2. ASSUME NEW op \in Loops \cup {"deduplicate"}, NEW i \in Nat, NEW S \in SUBSET Nat,
             \/ stack = <<>> \/ Top.op \in EventOps
             \/ /\ op \notin EventOps
                /\ \A j \in S : j \in Created /\ Fallow(j) => j \in Touches(Top)
      PROVE  Loop(op, i, S) \in Seq(GentleFrame)
  <2>1. PICK f : f = [op |-> op, id |-> i, ids |-> S, acts |-> <<>>, mark |-> FALSE]
    OBVIOUS
  <2>2. op \in FrameOp /\ op \notin {"finish", "herded", "enqueue", "queue"}
    BY DEF FrameOp, Loops
  <2>3. f \in CallFrame /\ f.op = op /\ f.ids = S
    BY <2>1, <2>2, SeqClosed DEF CallFrame
  <2>4. Touches(f) \subseteq S
    BY <1>2, <2>3 DEF Touches, Loops
  <2>5. f \in GentleFrame
    BY <1>2, <2>2, <2>3, <2>4 DEF StillFrame, GentleFrame
  <2> QED BY <2>1, <2>5, LoopIn
<1>3. ASSUME NEW i \in Nat, NEW acts \in Seq(Action)
      PROVE  Trigger(i, acts) \in Seq(GentleFrame)
  <2>1. PICK f : f = [op |-> "trigger", id |-> i, ids |-> {}, acts |-> acts,
                      mark |-> FALSE]
    OBVIOUS
  <2>2. f \in CallFrame /\ f.op = "trigger"
    BY <2>1 DEF CallFrame, FrameOp
  <2>3. Touches(f) = {} /\ f.op \notin EventOps
    BY <2>2 DEF Touches, EventOps
  <2>4. f \in GentleFrame
    BY <2>2, <2>3 DEF StillFrame, GentleFrame
  <2> QED BY <2>1, <2>4, TriggerIn
<1> QED BY <1>1, <1>2, <1>3, SeqClosed

\* Steps that change nothing but the stack and only make such calls, when the
\* call on top of the stack does not end an instance.
LEMMA GentleStep ==
  ASSUME IndInv, CallsInv, IndexInv,
         \E frames \in Seq(GentleFrame) : Pushes(frames),
         UNCHANGED <<info, queue, start, stop, finish, success, stopped,
                     unfinishedTasks, unfinishedHerds, unfinishedHerdedTasks>>,
         stack = <<>> \/ Top.op \notin Ends \cup {"forget", "herded"}
  PROVE  IndexInv'
<1>1. PICK frames \in Seq(GentleFrame) : Pushes(frames)
  OBVIOUS
<1>2. /\ frames \in Seq(StillFrame) /\ frames \in Seq(CallFrame)
      /\ \A k \in DOMAIN frames : frames[k] \in GentleFrame
  <2>1. GentleFrame \subseteq StillFrame /\ GentleFrame \subseteq CallFrame
    BY DEF GentleFrame, StillFrame
  <2> QED BY <2>1, SeqMonotonic
<1>3. Tells(frames)' /\ Queues(frames)'
  BY <1>2 DEF GentleFrame, Tells, Queues
<1>4. /\ Advances /\ \A j : Begun(j)' <=> Begun(j)
      /\ \A h : Status(h)' = Status(h)
  BY DEF Advances, Begun, Status, Created
<1> QED BY <1>1, <1>2, <1>3, <1>4, CalmIndex DEF Ends

\* A call made before or after others.
LEMMA LastCall ==
  ASSUME NEW G, NEW s \in Seq(G), NEW f \in G
  PROVE  LET t == s \o << f >>
         IN  /\ t \in Seq(G) /\ Len(s) \in Nat /\ DOMAIN t = 1..(Len(s) + 1)
             /\ Len(s) + 1 \in DOMAIN t /\ t[Len(s) + 1] = f
             /\ \A k \in DOMAIN t :
                  k = Len(s) + 1 \/ (k \in DOMAIN s /\ t[k] = s[k])
<1>1. PICK t, g : t = s \o g /\ g = << f >>
  OBVIOUS
<1>2. g \in Seq(G) /\ Len(g) = 1 /\ g[1] = f
  BY <1>1, SeqClosed, Concats
<1>3. /\ t \in Seq(G) /\ Len(t) = Len(s) + Len(g)
      /\ \A k \in 1..(Len(s) + Len(g)) :
           t[k] = IF k <= Len(s) THEN s[k] ELSE g[k - Len(s)]
      /\ Len(s) \in Nat /\ DOMAIN s = 1..Len(s) /\ DOMAIN t = 1..Len(t)
  BY <1>1, <1>2, ConcatProperties
<1>4. Len(s) + 1 \in DOMAIN t /\ ~(Len(s) + 1 <= Len(s)) /\ Len(s) + 1 - Len(s) = 1
  BY <1>2, <1>3
<1>5. t[Len(s) + 1] = f
  BY <1>2, <1>3, <1>4
<1> QED BY <1>1, <1>2, <1>3, <1>4, <1>5

LEMMA FirstCall ==
  ASSUME NEW G, NEW s \in Seq(G), NEW f \in G
  PROVE  LET t == << f >> \o s
         IN  /\ t \in Seq(G) /\ 1 \in DOMAIN t /\ t[1] = f
             /\ DOMAIN t = 1..(Len(s) + 1)
             /\ \A k \in DOMAIN t :
                  k = 1 \/ (k > 1 /\ k - 1 \in DOMAIN s /\ t[k] = s[k - 1])
<1>1. PICK t, g : t = g \o s /\ g = << f >>
  OBVIOUS
<1>2. g \in Seq(G) /\ Len(g) = 1 /\ g[1] = f
  BY <1>1, SeqClosed, Concats
<1>3. /\ t \in Seq(G) /\ Len(t) = Len(g) + Len(s)
      /\ \A k \in 1..(Len(g) + Len(s)) :
           t[k] = IF k <= Len(g) THEN g[k] ELSE s[k - Len(g)]
      /\ Len(s) \in Nat /\ DOMAIN s = 1..Len(s) /\ DOMAIN t = 1..Len(t)
  BY <1>1, <1>2, ConcatProperties
<1> QED BY <1>1, <1>2, <1>3

\* What the call on top of the stack is about when it is not finished.
LEMMA NotBegun ==
  ASSUME IndInv, NEW i \in Created, Status(i) \in UnstartedStatus
  PROVE  /\ Unstarted(i) /\ \A j : info[j].herdid = i => ~Fallow(j)
         /\ Status(i) = "Planned" => ~Begun(i)
<1>1. Unstarted(i)
  BY DEF Status, UnstartedStatus, Unstarted
<1>2. Status(i) = "Planned" => ~Begun(i)
  BY DEF Status, Begun
<1> QED BY <1>1, <1>2 DEF Fallow

\* The steps that only make calls that finish and queue nothing.
LEMMA IndexSimple ==
  ASSUME IndInv, CallsInv, IndexInv,
         \/ Planned \/ Dropped \/ Aborted \/ LoopEnds \/ Deduplicate
         \/ DoAbortTaskInstance \/ DoCancelTaskInstance \/ CancelOrAbortEach
         \/ PlanTask /\ Head(Top.acts).task \notin enabled
  PROVE  IndexInv'
<1>1. /\ stack # <<>>
      /\ Top.op \notin Ends \cup {"forget", "herded"}
      /\ Top.id \in Nat /\ Top.ids \in SUBSET Nat
      /\ Top.op \notin Loops \cup {"trigger"} => Top.id \in Created /\ Top.id \in Ids
  <2>1. stack # <<>> /\ Top.op \notin Ends \cup {"forget", "herded"}
    BY DEF Planned, Dropped, Aborted, LoopEnds, Deduplicate, DoAbortTaskInstance,
           DoCancelTaskInstance, PlanTask, CancelOrAbortEach, On, Top, Ends
  <2> QED BY <2>1, TopFacts
<1>2. UNCHANGED <<info, queue, start, stop, finish, success, stopped,
                  unfinishedTasks, unfinishedHerds, unfinishedHerdedTasks>>
  BY DEF Planned, Dropped, Aborted, LoopEnds, Deduplicate, DoAbortTaskInstance,
         DoCancelTaskInstance, PlanTask, CancelOrAbortEach, instanceVars, indexVars,
         executionVars
<1> DEFINE ordinary == \E frames \in Seq(GentleFrame) : Return(frames)
<1>3. ASSUME Planned \/ Dropped \/ Aborted \/ LoopEnds PROVE ordinary
  BY <1>3, StillCalls DEF Planned, Dropped, Aborted, LoopEnds
<1>4. ASSUME Deduplicate PROVE ordinary
  <2>1. PICK j \in Top.ids :
          Return(<< Call("cancel", j) >>
                 \o Loop("deduplicate", Top.id, Top.ids \ {j}))
    BY <1>4 DEF Deduplicate
  <2>2. Touches(Top) = Top.ids
    BY <1>4 DEF Touches, Deduplicate, On, Top
  <2>3. Call("cancel", j) \in GentleFrame
    BY <1>1, <2>2, StillCalls DEF Call, FrameOp, EventOps
  <2>4. Loop("deduplicate", Top.id, Top.ids \ {j}) \in Seq(GentleFrame)
    BY <1>1, <2>2, StillCalls DEF EventOps
  <2> QED BY <2>1, <2>3, <2>4, SeqClosed
<1>5. ASSUME DoAbortTaskInstance PROVE ordinary
  <2>1. Top.op = "abort" /\ Top.id \in Ids
    BY <1>1, <1>5 DEF DoAbortTaskInstance, On, Top, Loops
  <2>2. HerdedTasks(Top.id) \in SUBSET Nat
    BY <2>1, HerdFacts
  <2>3. Loop("abortHerd", Top.id, HerdedTasks(Top.id)) \in Seq(GentleFrame)
    BY <1>1, <2>1, <2>2, StillCalls DEF Loops, EventOps
  <2>4. Call("aborted", Top.id) \in GentleFrame
    BY <1>1, <2>1, StillCalls DEF Call, FrameOp, EventOps
  <2> QED BY <1>5, <2>3, <2>4, SeqClosed DEF DoAbortTaskInstance
<1>6. ASSUME DoCancelTaskInstance PROVE ordinary
  <2>1. Top.op = "cancel" /\ Top.id \in Ids /\ Top.id \in Created
    BY <1>1, <1>6 DEF DoCancelTaskInstance, On, Top, Loops
  <2>2. CASE Status(Top.id) \in UnstartedStatus
    <3>1. HerdedTasks(Top.id) \in SUBSET Nat
          /\ \A j \in HerdedTasks(Top.id) : ~Fallow(j)
      BY <2>1, <2>2, HerdFacts, NotBegun
    <3>2. Loop("cancelEach", Top.id, HerdedTasks(Top.id)) \in Seq(GentleFrame)
      BY <1>1, <3>1, StillCalls DEF Loops, EventOps
    <3>3. Top.id \in Touches(Top)
      BY <2>1 DEF Touches
    <3>4. Call("stopped", Top.id) \in GentleFrame
      BY <1>1, <3>3, StillCalls DEF Call, FrameOp, EventOps
    <3> QED BY <1>6, <2>2, <3>2, <3>4, SeqClosed DEF DoCancelTaskInstance
  <2>3. CASE Status(Top.id) \notin UnstartedStatus
    BY <1>6, <2>3, StillCalls DEF DoCancelTaskInstance
  <2> QED BY <2>2, <2>3
<1>7. ASSUME CancelOrAbortEach PROVE ordinary
  <2>1. PICK j \in Top.ids :
          LET next == Loop(Top.op, Top.id, Top.ids \ {j})
          IN  \/ Top.op # "abortEach" /\ Return(<< Call("cancel", j) >> \o next)
              \/ Top.op # "cancelEach" /\ Return(<< Call("abort", j) >> \o next)
              \/ Return(next)
    BY <1>7 DEF CancelOrAbortEach
  <2>2. /\ Top.op \in {"cancelEach", "abortEach", "abortHerd"} /\ j \in Nat
    BY <1>1, <1>7 DEF CancelOrAbortEach
  <2>3. Top.op \in EventOps \/ (Top.op = "cancelEach" /\ Touches(Top) = Top.ids)
    BY <2>2 DEF EventOps, Touches
  <2>4. Loop(Top.op, Top.id, Top.ids \ {j}) \in Seq(GentleFrame)
    BY <1>1, <2>2, <2>3, StillCalls DEF Loops, EventOps
  <2>5. Call("cancel", j) \in GentleFrame
    BY <1>1, <2>2, <2>3, StillCalls DEF Call, FrameOp, EventOps
  <2>6. Top.op # "cancelEach" => Call("abort", j) \in GentleFrame
    BY <1>1, <2>2, <2>3, StillCalls DEF Call, FrameOp
  <2> QED BY <2>1, <2>4, <2>5, <2>6, SeqClosed
<1>8. ASSUME PlanTask /\ Head(Top.acts).task \notin enabled PROVE ordinary
  <2>1. Return(Trigger(Top.id, Tail(Top.acts)))
    BY <1>8 DEF PlanTask
  <2>2. Top.acts \in Seq(Action) /\ Top.acts # <<>>
    BY <1>1, <1>8, NumberFacts DEF PlanTask, On, Top
  <2>3. Tail(Top.acts) \in Seq(Action)
    BY <2>2, HeadTailProperties
  <2> QED BY <1>1, <2>1, <2>3, StillCalls
<1> HIDE DEF ordinary
<1>9. ordinary
  BY <1>3, <1>4, <1>5, <1>6, <1>7, <1>8
<1>10. \E frames \in Seq(GentleFrame) : Pushes(frames)
  BY <1>1, <1>9, ReturnPushes DEF ordinary
<1> QED BY <1>1, <1>2, <1>10, GentleStep

\* Steps that change no index and no timestamp but those of the instances that
\* the call on top of the stack touches, and end none.
LEMMA StillStep ==
  ASSUME IndInv, CallsInv, IndexInv, stack # <<>>,
         NEW frames \in Seq(StillFrame), Pushes(frames),
         Tells(frames), Queues(frames),
         UNCHANGED <<info, queue, start, stop, finish, success, stopped,
                     unfinishedTasks, unfinishedHerds, unfinishedHerdedTasks>>,
         Top.op \notin {"finish", "forget", "herded"},
         Top.op \in Ends =>
           \/ \E k \in DOMAIN frames : frames[k].op \in Ends /\ frames[k].id = Top.id
           \/ IsHerder(Top.id) /\ unfinishedHerdedTasks[Top.id] # {}
  PROVE  IndexInv'
<1>1. /\ Advances /\ \A j : Begun(j)' <=> Begun(j)
      /\ \A h : Status(h)' = Status(h)
  BY DEF Advances, Begun, Status, Created
<1>2. Tells(frames)'
  BY DEF Tells, IsHerder
<1>3. Queues(frames)'
  BY <1>1 DEF Queues, IsHerder, Fallow, Unstarted, Touches, EventOps
<1> QED BY <1>1, <1>2, <1>3, CalmIndex

\* The calls of a loop.
LEMMA LoopFrames ==
  ASSUME NEW op \in FrameOp, NEW i \in Nat, NEW S \in SUBSET Nat
  PROVE  LET s == Loop(op, i, S)
         IN  /\ s \in Seq(CallFrame) /\ DOMAIN s \subseteq {1}
             /\ \A k \in DOMAIN s : s[k].op = op /\ s[k].id = i /\ s[k].ids = S
                                    /\ Touches(s[k]) \subseteq S \cup {i}
             /\ op \in Loops \cup {"deduplicate"} =>
                  \A k \in DOMAIN s : Touches(s[k]) \subseteq S
<1>1. PICK f : f = [op |-> op, id |-> i, ids |-> S, acts |-> <<>>, mark |-> FALSE]
  OBVIOUS
<1>2. f \in CallFrame /\ f.op = op /\ f.id = i /\ f.ids = S
  BY <1>1, SeqClosed DEF CallFrame
<1>3. Loop(op, i, S) = <<>> \/ Loop(op, i, S) = << f >>
  BY <1>1 DEF Loop
<1>4. Touches(f) \subseteq S \cup {i}
      /\ (op \in Loops \cup {"deduplicate"} => Touches(f) \subseteq S)
  BY <1>2 DEF Touches, Loops
<1>5. PICK s : s = Loop(op, i, S)
  OBVIOUS
<1>6. s \in Seq(CallFrame) /\ DOMAIN s \subseteq {1} /\ \A k \in DOMAIN s : s[k] = f
  <2>1. CASE s = <<>>
    BY <2>1, SeqClosed, Concats
  <2>2. CASE s = << f >>
    BY <1>2, <2>2, SeqClosed, Concats
  <2> QED BY <1>3, <1>5, <2>1, <2>2
<1> QED BY <1>2, <1>4, <1>5, <1>6

\* Gentle calls are still, finish and queue nothing.
LEMMA GentleIsStill ==
  /\ \A s \in Seq(GentleFrame) :
       /\ s \in Seq(StillFrame) /\ s \in Seq(CallFrame)
       /\ \A k \in DOMAIN s : s[k] \in GentleFrame /\ s[k] \in StillFrame
  /\ GentleFrame \subseteq StillFrame /\ StillFrame \subseteq CallFrame
<1>1. GentleFrame \subseteq StillFrame /\ StillFrame \subseteq CallFrame
  BY DEF GentleFrame, StillFrame
<1>2. GentleFrame \subseteq CallFrame
  BY <1>1
<1> QED BY <1>1, <1>2, SeqMonotonic

\* Queuing an instance, once its duplicates are canceled.
LEMMA IndexEnqueue ==
  ASSUME IndInv, CallsInv, IndexInv, EnqueueTaskInstance
  PROVE  IndexInv'
<1>1. PICK i, victims, last :
        /\ i = Top.id
        /\ victims = IF info[i].force THEN {} ELSE Deduplicated(i)
        /\ last = Call(IF i \in victims THEN "dropped" ELSE "queue", i)
  OBVIOUS
<1>2. /\ stack # <<>> /\ stack[1] = Top /\ Top.op = "enqueue" /\ Top.id = i
      /\ i \in Created /\ i \in Nat /\ 1 \in DOMAIN stack
  BY <1>1, TopCall DEF EnqueueTaskInstance, On, Top, Loops
<1>3. i \in Touches(Top)
  BY <1>2 DEF Touches
<1>4. victims \in SUBSET Nat
      /\ \A j \in victims : j \in Created /\ Fallow(j) => j \in Touches(Top)
  <2>1. Duplicates(i) \subseteq Queued /\ Queued \subseteq Nat
    BY StepFacts, NumberFacts DEF Duplicates
  <2>2. \A j \in Queued : ~Fallow(j)
    BY DEF Queued, Status, Begun, Fallow
  <2>3. victims \subseteq Duplicates(i) \cup {i}
    BY <1>1 DEF Deduplicated
  <2> QED BY <1>2, <1>3, <2>1, <2>2, <2>3
<1>5. PICK loop : loop = Loop("deduplicate", i, victims)
  OBVIOUS
<1>6. /\ loop \in Seq(GentleFrame) /\ loop \in Seq(StillFrame)
      /\ \A k \in DOMAIN loop :
           loop[k].op = "deduplicate" /\ Touches(loop[k]) \subseteq victims
  <2>1. loop \in Seq(GentleFrame)
    BY <1>2, <1>4, <1>5, StillCalls DEF EventOps
  <2>2. \A k \in DOMAIN loop :
          loop[k].op = "deduplicate" /\ Touches(loop[k]) \subseteq victims
    BY <1>2, <1>4, <1>5, LoopFrames DEF FrameOp
  <2> QED BY <2>1, <2>2, GentleIsStill
<1>7. /\ last \in StillFrame /\ last.id = i
      /\ last.op = IF i \in victims THEN "dropped" ELSE "queue"
  <2>1. /\ last = CallMark(IF i \in victims THEN "dropped" ELSE "queue", i, FALSE)
    BY <1>1 DEF Call
  <2>2. last \in StillFrame
    BY <1>2, <1>3, <2>1, StillCalls DEF FrameOp, EventOps
  <2> QED BY <2>1, <2>2 DEF CallMark
<1>8. UNCHANGED <<info, queue, start, stop, finish, success, stopped,
                  unfinishedTasks, unfinishedHerds, unfinishedHerdedTasks>>
  BY DEF EnqueueTaskInstance, instanceVars, indexVars, executionVars
<1>9. Call("cancel", i) \in GentleFrame
  BY <1>2, <1>3, StillCalls DEF Call, FrameOp, EventOps
<1>10. ~IsHerder(i) => Fallow(i)
  BY <1>2 DEF IndexInv, Ready, Fallow
<1>11. \/ Return(<<>>) \/ Return(<< Call("cancel", i) >>)
       \/ Return(loop \o << last >>)
  BY <1>1, <1>5 DEF EnqueueTaskInstance
<1> HIDE <1>1, <1>5
<1>12. CASE Return(<<>>) \/ Return(<< Call("cancel", i) >>)
  <2>1. \E frames \in Seq(GentleFrame) : Pushes(frames)
    BY <1>2, <1>9, <1>12, SeqClosed, ReturnPushes
  <2> QED BY <1>2, <1>8, <2>1, GentleStep DEF Ends
<1>13. CASE Return(loop \o << last >>)
  <2>1. PICK frames : frames = loop \o << last >>
    OBVIOUS
  <2>2. /\ frames \in Seq(StillFrame) /\ Len(loop) \in Nat
        /\ DOMAIN frames = 1..(Len(loop) + 1) /\ frames[Len(loop) + 1] = last
        /\ \A k \in DOMAIN frames :
             k = Len(loop) + 1 \/ (k \in DOMAIN loop /\ frames[k] = loop[k])
    BY <1>6, <1>7, <2>1, LastCall
  <2>3. Tells(frames)
    BY <1>6, <1>7, <2>2 DEF Tells
  <2>4. Queues(frames)
    <3> SUFFICES ASSUME NEW k \in DOMAIN frames,
                        frames[k].op \in {"enqueue", "queue"},
                        ~IsHerder(frames[k].id)
                 PROVE  /\ Fallow(frames[k].id)
                        /\ \A m \in 1..(k - 1) : /\ frames[m].op \notin EventOps
                                                 /\ frames[k].id \notin Touches(frames[m])
      BY DEF Queues
    <3>1. k = Len(loop) + 1 /\ frames[k] = last
      BY <1>6, <2>2
    <3>2. i \notin victims /\ frames[k].id = i
      BY <1>7, <3>1
    <3>3. \A m \in 1..(k - 1) : m \in DOMAIN loop /\ frames[m] = loop[m]
      BY <2>2, <3>1
    <3> QED BY <1>6, <1>10, <3>2, <3>3 DEF EventOps
  <2>5. Pushes(frames)
    BY <1>2, <1>13, <2>1, ReturnPushes
  <2> QED BY <1>2, <1>8, <2>2, <2>3, <2>4, <2>5, StillStep DEF Ends
<1> QED BY <1>11, <1>12, <1>13

\* The loops on planned and on unstarted instances.
LEMMA IndexEach ==
  ASSUME IndInv, CallsInv, IndexInv, NEW i \in Created,
         EnqueueOrCancelPlanned(i) \/ ReplaceTaskOrCancel(i)
  PROVE  IndexInv'
<1>1. /\ stack # <<>> /\ Top = stack[1] /\ Top.op \in {"enqueueEach", "reload"}
      /\ Top.op \in EventOps /\ Top.op \notin Ends \cup {"finish", "forget", "herded"}
      /\ i \in Nat /\ i \in Top.ids /\ Top.ids \in SUBSET Nat
  BY TopCall, TopFacts, NumberFacts
     DEF EnqueueOrCancelPlanned, ReplaceTaskOrCancel, On, Top, Lowest, EventOps, Ends
<1>2. UNCHANGED <<info, queue, start, stop, finish, success, stopped,
                  unfinishedTasks, unfinishedHerds, unfinishedHerdedTasks>>
  <2>1. CASE EnqueueOrCancelPlanned(i)
    BY <2>1 DEF EnqueueOrCancelPlanned, instanceVars, indexVars, executionVars
  <2>2. CASE ReplaceTaskOrCancel(i)
    <3>1. i \notin finish
      BY <2>2 DEF ReplaceTaskOrCancel, Lowest, Status, UnstartedStatus
    <3>2. i \in unfinishedTasks
      BY <3>1 DEF CallsInv, Remembered
    <3> QED BY <2>2, <3>2 DEF ReplaceTaskOrCancel, instanceVars, executionVars
  <2> QED BY <2>1, <2>2
<1>3. PICK n1, n2, f :
        /\ n1 = Loop("enqueueEach", 0,
                     Above(i, {j \in Top.ids : Status(j) = "Planned"}))
        /\ n2 = Loop("reload", 0,
                     Above(i, {j \in Top.ids : Status(j) \in UnstartedStatus}))
        /\ f = Call("enqueue", i)
  OBVIOUS
<1>4. n1 \in Seq(GentleFrame) /\ n2 \in Seq(GentleFrame)
  BY <1>1, <1>3, StillCalls DEF Loops, Above
<1>5. Call("cancel", i) \in GentleFrame
  BY <1>1, StillCalls DEF Call, FrameOp
<1>6. f \in StillFrame /\ f.op = "enqueue" /\ f.id = i
  <2>1. f = CallMark("enqueue", i, FALSE)
    BY <1>3 DEF Call
  <2> QED BY <1>1, <2>1, StillCalls DEF CallMark, FrameOp
<1>7. \/ \E frames \in Seq(GentleFrame) : Return(frames)
      \/ /\ Return(<< f >> \o n1) /\ Status(i) = "Planned"
         /\ ~(info[i].herdid \in unfinishedTasks
              /\ Status(info[i].herdid) \in UnstartedStatus)
  <2>1. << Call("cancel", i) >> \o n1 \in Seq(GentleFrame)
        /\ << Call("cancel", i) >> \o n2 \in Seq(GentleFrame)
    BY <1>4, <1>5, SeqClosed
  <2>2. CASE EnqueueOrCancelPlanned(i)
    <3>1. \/ /\ Return(<< f >> \o n1) /\ Status(i) = "Planned"
             /\ ~(info[i].herdid \in unfinishedTasks
                  /\ Status(info[i].herdid) \in UnstartedStatus)
          \/ Return(<< Call("cancel", i) >> \o n1) \/ Return(n1)
      BY <1>3, <2>2 DEF EnqueueOrCancelPlanned, Lowest
    <3> QED BY <1>4, <2>1, <3>1
  <2>3. CASE ReplaceTaskOrCancel(i)
    <3>1. Return(<< Call("cancel", i) >> \o n2) \/ Return(n2)
      BY <1>3, <2>3 DEF ReplaceTaskOrCancel
    <3> QED BY <1>4, <2>1, <3>1
  <2> QED BY <2>2, <2>3
<1> HIDE <1>3
<1>8. CASE \E frames \in Seq(GentleFrame) : Return(frames)
  <2>1. \E frames \in Seq(GentleFrame) : Pushes(frames)
    BY <1>1, <1>8, ReturnPushes
  <2> QED BY <1>1, <1>2, <2>1, GentleStep
<1>9. CASE /\ Return(<< f >> \o n1) /\ Status(i) = "Planned"
           /\ ~(info[i].herdid \in unfinishedTasks
                /\ Status(info[i].herdid) \in UnstartedStatus)
  <2>1. PICK frames : frames = << f >> \o n1
    OBVIOUS
  <2>2. /\ n1 \in Seq(StillFrame) /\ \A k \in DOMAIN n1 : n1[k] \in GentleFrame
    BY <1>4, GentleIsStill
  <2>3. /\ frames \in Seq(StillFrame) /\ 1 \in DOMAIN frames /\ frames[1] = f
        /\ \A k \in DOMAIN frames :
             k = 1 \/ (k > 1 /\ k - 1 \in DOMAIN n1 /\ frames[k] = n1[k - 1])
    BY <1>6, <2>1, <2>2, FirstCall
  <2>4. \A k \in DOMAIN frames : k = 1 \/ frames[k] \in GentleFrame
    BY <2>2, <2>3
  <2>5. Tells(frames)
    BY <1>6, <2>3, <2>4 DEF Tells, GentleFrame
  <2>6. ~IsHerder(i) => Fallow(i)
    <3>1. info[i].herdid \in Created
      BY StepFacts
    <3>2. ~Unstarted(info[i].herdid)
      BY <1>9, <3>1
         DEF Unstarted, CallsInv, Remembered, Status, UnstartedStatus
    <3> QED BY <1>9, <3>2 DEF Fallow, Status, Begun
  <2>7. Queues(frames)
    <3> SUFFICES ASSUME NEW k \in DOMAIN frames,
                        frames[k].op \in {"enqueue", "queue"},
                        ~IsHerder(frames[k].id)
                 PROVE  /\ Fallow(frames[k].id)
                        /\ \A m \in 1..(k - 1) : /\ frames[m].op \notin EventOps
                                                 /\ frames[k].id \notin Touches(frames[m])
      BY DEF Queues
    <3>1. k = 1 /\ frames[k] = f
      BY <2>3, <2>4 DEF GentleFrame
    <3>2. 1..(k - 1) = {}
      BY <3>1
    <3> QED BY <1>6, <2>6, <3>1, <3>2
  <2>8. Pushes(frames)
    BY <1>1, <1>9, <2>1, ReturnPushes
  <2> QED BY <1>1, <1>2, <2>3, <2>5, <2>7, <2>8, StillStep
<1> QED BY <1>7, <1>8, <1>9

\* The end of enqueueTaskInstance().
LEMMA IndexQueue == ASSUME IndInv, CallsInv, IndexInv, Queue PROVE IndexInv'
<1>1. PICK i : i = Top.id
  OBVIOUS
<1>2. /\ stack # <<>> /\ stack[1] = Top /\ Top.op = "queue" /\ Top.id = i
      /\ i \in Created /\ 1 \in DOMAIN stack
  BY <1>1, TopCall DEF Queue, On, Top, Loops
<1>3. ~Begun(i)
  BY <1>2 DEF IndexInv, Ready, CallsInv, Fresh
<1>4. i \in unfinishedTasks
  BY <1>2, <1>3 DEF CallsInv, Remembered, Begun
<1>5. /\ UNCHANGED <<info, start, stop, finish, stopped, success, unfinishedTasks,
                     unfinishedHerds, unfinishedHerdedTasks>>
      /\ queue' \subseteq queue \cup {i} /\ Return(<<>>)
  BY <1>1, <1>4 DEF Queue, executionVars
<1>6. Advances /\ Created' = Created
  BY <1>5 DEF Advances, Created
<1>7. <<>> \in Seq(StillFrame) /\ DOMAIN <<>> = {} /\ Pushes(<<>>)
  BY <1>2, <1>5, SeqClosed, Concats, ReturnPushes
<1>8. Tells(<<>>)' /\ Queues(<<>>)'
  BY <1>7 DEF Tells, Queues
<1>9. \A j \in Created : ~IsHerder(j) /\ Begun(j)' =>
        \/ Begun(j) \/ stack = <<>>
        \/ Top.op \in EventOps \/ j \in Touches(Top)
  BY <1>2, <1>5 DEF Begun, Touches
<1>10. \A h \in unfinishedTasks : Status(h)' = "Waiting" /\ h \notin stopped' =>
         Status(h) = "Waiting" /\ h \notin stopped
  BY <1>5 DEF Status
<1>11. Top.op \notin Ends \cup {"finish", "forget", "herded"}
  BY <1>2 DEF Ends
<1> QED BY <1>5, <1>6, <1>7, <1>8, <1>9, <1>10, <1>11, CalmIndex

\* Stopping an instance, before it finishes.
LEMMA IndexStopped ==
  ASSUME IndInv, CallsInv, IndexInv, TaskInstanceStoppedOrCanceled \/ Settle
  PROVE  IndexInv'
<1>1. PICK i, s, e, n :
        /\ i = Top.id /\ s = CallMark("settle", i, Top.mark)
        /\ e = CallMark("finish", i, Top.mark) /\ n = Call("herded", i)
  OBVIOUS
<1>2. /\ stack # <<>> /\ stack[1] = Top /\ Top.op \in {"stopped", "settle"}
      /\ Top.id = i /\ i \in Created /\ i \in Nat /\ Top.mark \in BOOLEAN
      /\ Top.op = "settle" => IsHerder(i)
      /\ Top.op \notin {"finish", "forget", "herded"}
  <2>1. stack # <<>> /\ Top.op \in {"stopped", "settle"}
    BY DEF TaskInstanceStoppedOrCanceled, Settle, On, Top
  <2> QED BY <1>1, <2>1, TopCall, TopFacts DEF Loops
<1>3. i \in Touches(Top)
  BY <1>2 DEF Touches
<1>4. UNCHANGED <<info, queue, start, stop, finish, success, stopped,
                  unfinishedTasks, unfinishedHerds, unfinishedHerdedTasks>>
  BY DEF TaskInstanceStoppedOrCanceled, Settle, instanceVars, indexVars,
         executionVars
<1>5. /\ s \in GentleFrame /\ s.op = "settle" /\ s.id = i
      /\ e \in StillFrame /\ e.op = "finish" /\ e.id = i
      /\ n \in StillFrame /\ n.op = "herded" /\ n.id = i
  <2>1. n = CallMark("herded", i, FALSE)
    BY <1>1 DEF Call
  <2>2. s \in GentleFrame /\ e \in StillFrame /\ n \in StillFrame
    BY <1>1, <1>2, <1>3, <2>1, StillCalls DEF FrameOp, EventOps
  <2> QED BY <1>1, <2>1, <2>2 DEF CallMark
<1>6. PICK t \in Seq(GentleFrame) :
        t = IF Status(i) = "Canceled" THEN <<>> ELSE Trigger(i, FinishActions(i))
  BY <1>2, FinishPlain, StillCalls
<1>7. \/ IsHerder(i) /\ Return(t \o << s >>)
      \/ ~IsHerder(i) /\ Return(<< e, n >>)
      \/ IsHerder(i) /\ Return(<< e >>)
      \/ IsHerder(i) /\ unfinishedHerdedTasks[i] # {} /\ Return(<<>>)
  <2>1. CASE TaskInstanceStoppedOrCanceled
    BY <1>1, <1>6, <2>1 DEF TaskInstanceStoppedOrCanceled
  <2>2. CASE Settle
    <3>1. IsHerder(i)
      BY <1>2, <2>2 DEF Settle, On, Top
    <3> QED BY <1>1, <2>2, <3>1 DEF Settle
  <2> QED BY <2>1, <2>2
<1> HIDE <1>1, <1>6
<1>8. CASE IsHerder(i) /\ Return(t \o << s >>)
  <2>1. PICK frames : frames = t \o << s >>
    OBVIOUS
  <2>2. /\ frames \in Seq(GentleFrame) /\ Len(t) + 1 \in DOMAIN frames
        /\ frames[Len(t) + 1] = s
    BY <1>5, <2>1, LastCall
  <2>3. frames \in Seq(StillFrame) /\ \A k \in DOMAIN frames : frames[k] \in GentleFrame
    BY <2>2, GentleIsStill
  <2>4. Tells(frames) /\ Queues(frames)
    BY <2>3 DEF GentleFrame, Tells, Queues
  <2>5. \E k \in DOMAIN frames : frames[k].op \in Ends /\ frames[k].id = Top.id
    BY <1>2, <1>5, <2>2 DEF Ends
  <2>6. Pushes(frames)
    BY <1>2, <1>8, <2>1, ReturnPushes
  <2> QED BY <1>2, <1>4, <2>3, <2>4, <2>5, <2>6, StillStep
<1>9. CASE ~IsHerder(i) /\ Return(<< e, n >>)
  <2>1. PICK frames : frames = << e, n >>
    OBVIOUS
  <2>2. /\ frames \in Seq(StillFrame) /\ DOMAIN frames = {1, 2}
        /\ frames[1] = e /\ frames[2] = n
    BY <1>5, <2>1, SeqClosed, Concats
  <2>3. Tells(frames) /\ Queues(frames)
    BY <1>5, <1>9, <2>2 DEF Tells, Queues
  <2>4. \E k \in DOMAIN frames : frames[k].op \in Ends /\ frames[k].id = Top.id
    BY <1>2, <1>5, <2>2 DEF Ends
  <2>5. Pushes(frames)
    BY <1>2, <1>9, <2>1, ReturnPushes
  <2> QED BY <1>2, <1>4, <2>2, <2>3, <2>4, <2>5, StillStep
<1>10. CASE IsHerder(i) /\ Return(<< e >>)
  <2>1. PICK frames : frames = << e >>
    OBVIOUS
  <2>2. frames \in Seq(StillFrame) /\ DOMAIN frames = {1} /\ frames[1] = e
    BY <1>5, <2>1, SeqClosed, Concats
  <2>3. Tells(frames) /\ Queues(frames)
    BY <1>5, <1>10, <2>2 DEF Tells, Queues
  <2>4. \E k \in DOMAIN frames : frames[k].op \in Ends /\ frames[k].id = Top.id
    BY <1>2, <1>5, <2>2 DEF Ends
  <2>5. Pushes(frames)
    BY <1>2, <1>10, <2>1, ReturnPushes
  <2> QED BY <1>2, <1>4, <2>2, <2>3, <2>4, <2>5, StillStep
<1>11. CASE IsHerder(i) /\ unfinishedHerdedTasks[i] # {} /\ Return(<<>>)
  <2>1. PICK frames : frames = <<>>
    OBVIOUS
  <2>2. frames \in Seq(StillFrame) /\ DOMAIN frames = {}
    BY <2>1, SeqClosed, Concats
  <2>3. Tells(frames) /\ Queues(frames)
    BY <2>2 DEF Tells, Queues
  <2>4. Pushes(frames)
    BY <1>2, <1>11, <2>1, ReturnPushes
  <2> QED BY <1>2, <1>4, <1>11, <2>2, <2>3, <2>4, StillStep
<1> QED BY <1>7, <1>8, <1>9, <1>10, <1>11

\* An instance that finishes: its herder is still to be told.
LEMMA IndexFinish ==
  ASSUME IndInv, CallsInv, IndexInv, TaskInstanceFinishedOrCanceled
  PROVE  IndexInv'
<1>1. PICK i, f : i = Top.id /\ f = Call("forget", i)
  OBVIOUS
<1>2. /\ stack # <<>> /\ stack[1] = Top /\ Top.op = "finish" /\ Top.id = i
      /\ i \in Created /\ i \in Nat /\ 1 \in DOMAIN stack
  BY <1>1, TopCall DEF TaskInstanceFinishedOrCanceled, On, Top, Loops
<1>3. /\ UNCHANGED <<info, queue, stopped, unfinishedTasks, unfinishedHerds,
                     unfinishedHerdedTasks>>
      /\ finish' = finish \cup {i} /\ start \subseteq start' /\ stop \subseteq stop'
      /\ start' \subseteq start \cup {i} /\ stop' \subseteq stop \cup {i}
  BY <1>1 DEF TaskInstanceFinishedOrCanceled, indexVars, executionVars
<1>4. /\ Return(<< f >>) \/ Return(Trigger(i, FinishActions(i)) \o << f >>)
  <2>1. <<>> \o << f >> = << f >>
    BY Concats
  <2> QED BY <1>1, <2>1 DEF TaskInstanceFinishedOrCanceled
<1>5. /\ Created' = Created
      /\ Advances
      /\ \A j : (IsHerder(j)' <=> IsHerder(j)) /\ (j # i => (Begun(j)' <=> Begun(j)))
      /\ \A j : j # i => (Status(j)' = "Waiting" => Status(j) = "Waiting")
  BY <1>3 DEF Created, Advances, IsHerder, Begun, Status
<1>6. f \in GentleFrame /\ f.op = "forget" /\ f.id = i
  <2>1. f = CallMark("forget", i, FALSE)
    BY <1>1 DEF Call
  <2>2. i \in Touches(Top)
    BY <1>2 DEF Touches
  <2>3. f \in GentleFrame
    BY <1>2, <2>1, <2>2, StillCalls DEF FrameOp, EventOps
  <2> QED BY <2>1, <2>3 DEF CallMark
<1> HIDE <1>1
<1>7. PICK frames \in Seq(GentleFrame) :
        Pushes(frames) /\ \E k \in DOMAIN frames : frames[k] = f
  <2>1. PICK t \in Seq(GentleFrame) : Return(t \o << f >>)
    <3>1. Trigger(i, FinishActions(i)) \in Seq(GentleFrame)
      BY <1>2, FinishPlain, StillCalls
    <3>2. <<>> \o << f >> = << f >> /\ <<>> \in Seq(GentleFrame)
      BY Concats, SeqClosed
    <3>3. CASE Return(<< f >>)
      <4>1. PICK t : t = <<>>
        OBVIOUS
      <4>2. t \in Seq(GentleFrame) /\ t \o << f >> = << f >>
        BY <3>2, <4>1
      <4> QED BY <3>3, <4>2
    <3> QED BY <1>4, <3>1, <3>3
  <2>2. PICK frames : frames = t \o << f >>
    OBVIOUS
  <2>3. /\ frames \in Seq(GentleFrame) /\ Len(t) + 1 \in DOMAIN frames
        /\ frames[Len(t) + 1] = f
    BY <1>6, <2>2, LastCall
  <2> QED BY <1>2, <2>1, <2>2, <2>3, ReturnPushes
<1>8. /\ frames \in Seq(StillFrame) /\ frames \in Seq(CallFrame)
      /\ \A k \in DOMAIN frames : frames[k] \in GentleFrame
  BY <1>7, GentleIsStill
<1>9. /\ \A op, j : Calls(op, j) => Calls(op, j)' \/ (op = "finish" /\ j = i)
      /\ Calls("forget", i)'
  BY <1>2, <1>6, <1>7, <1>8, CallsStay
<1>10. Shelved'
  BY <1>3, <1>5 DEF IndexInv, Shelved
<1>11. ~IsHerder(i) => Calls("herded", i)
  BY <1>2 DEF IndexInv, Told, Calls
<1>12. AwaitedExact'
  <2> SUFFICES ASSUME NEW h \in Ids, NEW j \in unfinishedHerds[h]
               PROVE  /\ j \notin finish' => j \in unfinishedHerdedTasks[h]
                      /\ j \in finish' /\ j \in unfinishedHerdedTasks[h] =>
                           Calls("herded", j)'
    BY <1>3 DEF AwaitedExact
  <2>1. /\ j \notin finish => j \in unfinishedHerdedTasks[h]
        /\ j \in finish /\ j \in unfinishedHerdedTasks[h] => Calls("herded", j)
    BY DEF IndexInv, AwaitedExact
  <2>2. j = i => ~IsHerder(i)
    BY DEF CallsInv, Herds, IsHerder
  <2> QED BY <1>3, <1>9, <1>11, <2>1, <2>2
<1>13. Told'
  <2>1. Tells(frames)'
    BY <1>8 DEF GentleFrame, Tells
  <2>2. Top.id \in finish'
    BY <1>2, <1>3
  <2> QED BY <1>5, <1>7, <1>8, <2>1, <2>2, ToldKept DEF IndexInv
<1>14. Kept'
  BY <1>3, <1>5, <1>9 DEF IndexInv, Kept
<1>15. Attended'
  <2> SUFFICES ASSUME NEW h \in unfinishedTasks, Status(h)' = "Waiting",
                      h \notin stopped
               PROVE  \/ IsHerder(h) /\ unfinishedHerdedTasks[h] # {}
                      \/ \E op \in Ends : Calls(op, h)'
    BY <1>3, <1>5 DEF Attended
  <2>1. h # i
    BY <1>3 DEF Status
  <2>2. Status(h) = "Waiting"
    BY <1>5, <2>1
  <2> QED BY <1>9, <2>1, <2>2 DEF IndexInv, Attended
<1>16. Ready'
  <2>1. Queues(frames)'
    BY <1>8 DEF GentleFrame, Queues
  <2>2. i \in Touches(Top)
    BY <1>2 DEF Touches
  <2> QED BY <1>5, <1>7, <1>8, <2>1, <2>2, ReadyKept DEF IndexInv
<1> QED BY <1>10, <1>12, <1>13, <1>14, <1>15, <1>16 DEF IndexInv

\* A finished instance is forgotten: a herder with its finished herd, an instance
\* of a herd if its herder already is.
LEMMA IndexForget == ASSUME IndInv, CallsInv, IndexInv, Forget PROVE IndexInv'
<1>1. PICK i : i = Top.id
  OBVIOUS
<1>2. /\ stack # <<>> /\ stack[1] = Top /\ Top.op = "forget" /\ Top.id = i
      /\ i \in Created /\ i \in Ids /\ 1 \in DOMAIN stack /\ i \in finish
  BY <1>1, TopCall, TopFacts DEF Forget, On, Top, Loops
<1>3. /\ UNCHANGED <<info, queue, start, stop, finish, success, stopped>>
      /\ Return(<<>>) /\ unfinishedTasks' = unfinishedTasks \ Forgotten(i)
      /\ \/ IsHerder(i)
            /\ unfinishedHerds' = [unfinishedHerds EXCEPT ![i] = {}]
            /\ unfinishedHerdedTasks' = [unfinishedHerdedTasks EXCEPT ![i] = {}]
         \/ ~IsHerder(i) /\ UNCHANGED <<unfinishedHerds, unfinishedHerdedTasks>>
  BY <1>1 DEF Forget, instanceVars, executionVars
<1>4. Created' = Created /\ Advances
      /\ \A j : (IsHerder(j)' <=> IsHerder(j)) /\ Status(j)' = Status(j)
                /\ (Begun(j)' <=> Begun(j))
  BY <1>3 DEF Created, Advances, IsHerder, Status, Begun
<1>5. /\ <<>> \in Seq(StillFrame) /\ <<>> \in Seq(CallFrame) /\ DOMAIN <<>> = {}
      /\ Pushes(<<>>)
  BY <1>2, <1>3, SeqClosed, Concats, ReturnPushes
<1>6. \A op, j : Calls(op, j) => Calls(op, j)' \/ (op = "forget" /\ j = i)
  BY <1>2, <1>5, CallsStay
<1>7. \A h \in Ids :
        /\ (h # i \/ ~IsHerder(i)) =>
              /\ unfinishedHerds'[h] = unfinishedHerds[h]
              /\ unfinishedHerdedTasks'[h] = unfinishedHerdedTasks[h]
        /\ (h = i /\ IsHerder(i)) => unfinishedHerds'[h] = {}
  BY <1>2, <1>3, StepFacts
<1>8. \A h \in Ids : \A j \in unfinishedHerds[h] :
        /\ IsHerder(h) /\ ~IsHerder(j) /\ info[j].herdid = h /\ j \in Created
  BY DEF CallsInv, Herds, IsHerder
<1>9. /\ \A h \in unfinishedTasks : IsHerder(h) /\ h # i => h \in unfinishedTasks'
      /\ IsHerder(i) => i \notin unfinishedTasks'
      /\ unfinishedTasks' \subseteq unfinishedTasks
      /\ unfinishedTasks \subseteq Ids
  BY <1>2, <1>3, <1>8, StepFacts DEF Forgotten
<1>10. \A j \in Created : info[j].herdid \in Ids /\ IsHerder(info[j].herdid)
  BY StepFacts DEF CallsInv, Herds
<1>11. Shelved'
  <2>1. ASSUME NEW h \in Ids, NEW j \in unfinishedHerds'[h]
        PROVE  h \in unfinishedTasks' /\ j \in unfinishedTasks'
    <3>1. /\ unfinishedHerds'[h] = unfinishedHerds[h] /\ (h = i => ~IsHerder(i))
          /\ j \in unfinishedHerds[h]
      BY <1>7, <2>1
    <3>2. h \in unfinishedTasks /\ j \in unfinishedTasks
      BY <3>1 DEF IndexInv, Shelved
    <3>3. h # i /\ h \in unfinishedTasks'
      BY <1>8, <1>9, <3>1, <3>2
    <3>4. j \notin Forgotten(i)
      BY <1>2, <1>8, <3>1, <3>2, <3>3 DEF Forgotten
    <3> QED BY <1>3, <3>2, <3>3, <3>4
  <2>2. ASSUME NEW j \in Created, ~IsHerder(j), info[j].herdid \in unfinishedTasks'
        PROVE  j \in unfinishedHerds'[info[j].herdid]
    <3>1. PICK h : h = info[j].herdid
      OBVIOUS
    <3>2. h \in Ids /\ h \in unfinishedTasks /\ (IsHerder(i) => h # i)
      BY <1>9, <2>2, <3>1
    <3>3. j \in unfinishedHerds[h]
      BY <2>2, <3>1, <3>2 DEF IndexInv, Shelved
    <3> QED BY <1>7, <3>1, <3>2, <3>3
  <2> QED BY <1>3, <1>4, <2>1, <2>2 DEF Shelved
<1>12. AwaitedExact'
  <2> SUFFICES ASSUME NEW h \in Ids, NEW j \in unfinishedHerds'[h]
               PROVE  /\ j \notin finish => j \in unfinishedHerdedTasks'[h]
                      /\ j \in finish /\ j \in unfinishedHerdedTasks'[h] =>
                           Calls("herded", j)'
    BY <1>3 DEF AwaitedExact
  <2>1. /\ unfinishedHerds'[h] = unfinishedHerds[h]
        /\ unfinishedHerdedTasks'[h] = unfinishedHerdedTasks[h]
    BY <1>7
  <2> QED BY <1>6, <2>1 DEF IndexInv, AwaitedExact
<1>13. Told'
  <2>1. Tells(<<>>)' /\ ~On("finish")
    BY <1>2, <1>5 DEF Tells, On, Top
  <2> QED BY <1>4, <1>5, <2>1, ToldKept DEF IndexInv
<1>14. Kept'
  <2> SUFFICES ASSUME NEW j \in unfinishedTasks' \cap finish
               PROVE  \/ ~IsHerder(j) /\ info[j].herdid \in unfinishedTasks'
                      \/ Calls("forget", j)'
    BY <1>3, <1>4 DEF Kept
  <2>1. j \in unfinishedTasks \cap finish /\ j \in Created /\ j \notin Forgotten(i)
    BY <1>3, StepFacts
  <2>2. IsFinished(j)
    BY <2>1 DEF IsFinished, Status, FinishedStatus
  <2>3. PICK h : h = info[j].herdid
    OBVIOUS
  <2>4. h \in Ids /\ IsHerder(h)
    BY <1>10, <2>1, <2>3
  <2>5. ASSUME ~IsHerder(j), h \in unfinishedTasks
        PROVE  h \in unfinishedTasks'
    <3>1. ASSUME h = i PROVE FALSE
      <4>1. j \in unfinishedHerds[i] /\ IsHerder(i)
        BY <2>1, <2>3, <2>4, <2>5, <3>1 DEF IndexInv, Shelved
      <4> QED BY <2>1, <2>2, <4>1 DEF Forgotten
    <3> QED BY <1>9, <2>4, <2>5, <3>1
  <2>6. CASE j = i
    <3>1. ~IsHerder(i) /\ h \in unfinishedTasks
      BY <2>1, <2>3, <2>6 DEF Forgotten
    <3> QED BY <2>3, <2>5, <2>6, <3>1
  <2>7. CASE j # i
    BY <1>6, <2>1, <2>3, <2>5, <2>7 DEF IndexInv, Kept
  <2> QED BY <2>6, <2>7
<1>15. Attended'
  <2> SUFFICES ASSUME NEW h \in unfinishedTasks', Status(h) = "Waiting",
                      h \notin stopped
               PROVE  \/ IsHerder(h) /\ unfinishedHerdedTasks'[h] # {}
                      \/ \E op \in Ends : Calls(op, h)'
    BY <1>3, <1>4 DEF Attended
  <2>1. h \in unfinishedTasks /\ h \in Ids /\ (h = i => ~IsHerder(i))
    BY <1>9
  <2>2. \/ IsHerder(h) /\ unfinishedHerdedTasks[h] # {}
        \/ \E op \in Ends : Calls(op, h)
    BY <2>1 DEF IndexInv, Attended
  <2> QED BY <1>6, <1>7, <2>1, <2>2 DEF Ends
<1>16. Ready'
  <2>1. Queues(<<>>)'
    BY <1>5 DEF Queues
  <2> QED BY <1>4, <1>5, <2>1, ReadyKept DEF IndexInv
<1> QED BY <1>11, <1>12, <1>13, <1>14, <1>15, <1>16 DEF IndexInv

\* A herder is told of the end of an instance, and finishes if it was the last.
LEMMA IndexHerded == ASSUME IndInv, CallsInv, IndexInv, Herded PROVE IndexInv'
<1>1. PICK i, h, f : i = Top.id /\ h = info[i].herdid /\ f = Call("finish", h)
  OBVIOUS
<1>2. /\ stack # <<>> /\ stack[1] = Top /\ Top.op = "herded" /\ Top.id = i
      /\ i \in Created /\ i \in Ids /\ 1 \in DOMAIN stack
      /\ h \in Created /\ h \in Ids /\ h \in Nat /\ IsHerder(h)
  <2>1. /\ stack # <<>> /\ stack[1] = Top /\ Top.op = "herded" /\ Top.id = i
        /\ i \in Created /\ i \in Ids /\ 1 \in DOMAIN stack
    BY <1>1, TopCall DEF Herded, On, Top, Loops
  <2> QED BY <1>1, <2>1, StepFacts, NumberFacts DEF CallsInv, Herds
<1>3. i \in finish /\ ~IsHerder(i)
  BY <1>2 DEF IndexInv, Told
<1>4. /\ UNCHANGED <<info, queue, start, stop, finish, success, stopped,
                     unfinishedTasks, unfinishedHerds>>
      /\ \A g \in Ids : g # h => unfinishedHerdedTasks'[g] = unfinishedHerdedTasks[g]
      /\ \/ /\ h \notin unfinishedTasks \/ unfinishedHerds[h] = {}
            /\ UNCHANGED unfinishedHerdedTasks
         \/ unfinishedHerdedTasks'[h] = unfinishedHerdedTasks[h] \ {i}
      /\ \/ Return(<< f >>)
         \/ /\ Return(<<>>)
            /\ \/ UNCHANGED unfinishedHerdedTasks
               \/ unfinishedHerdedTasks'[h] # {} \/ Status(h) # "Waiting"
  BY <1>1, <1>2, StepFacts DEF Herded, instanceVars, executionVars, HerderFinishes
<1>5. /\ f \in CallFrame /\ f.op = "finish" /\ f.id = h
  BY <1>1, <1>2, SeqClosed DEF Call, CallMark, CallFrame, FrameOp
<1>6. f \in StillFrame
  BY <1>2, <1>5 DEF StillFrame, EventOps, Touches, Fallow
<1> HIDE <1>1
<1>7. PICK frames \in Seq({f}) :
        /\ Pushes(frames)
        /\ \/ DOMAIN frames = {1} /\ frames[1] = f
           \/ UNCHANGED unfinishedHerdedTasks
           \/ unfinishedHerdedTasks'[h] # {} \/ Status(h) # "Waiting"
  <2>1. CASE Return(<< f >>)
    <3>1. PICK s : s = << f >>
      OBVIOUS
    <3>2. s \in Seq({f}) /\ DOMAIN s = {1} /\ s[1] = f /\ Pushes(s)
      BY <1>2, <2>1, <3>1, SeqClosed, Concats, ReturnPushes
    <3> QED BY <3>2
  <2>2. CASE /\ Return(<<>>)
             /\ \/ UNCHANGED unfinishedHerdedTasks
                \/ unfinishedHerdedTasks'[h] # {} \/ Status(h) # "Waiting"
    <3>1. <<>> \in Seq({f}) /\ Pushes(<<>>)
      BY <1>2, <2>2, SeqClosed, ReturnPushes
    <3> QED BY <2>2, <3>1
  <2> QED BY <1>4, <2>1, <2>2
<1>8. /\ frames \in Seq(CallFrame) /\ frames \in Seq(StillFrame)
      /\ \A k \in DOMAIN frames : frames[k] = f
  <2>1. {f} \subseteq CallFrame /\ {f} \subseteq StillFrame
    BY <1>5, <1>6
  <2> QED BY <2>1, SeqMonotonic
<1>9. Created' = Created /\ Advances
      /\ \A j : (IsHerder(j)' <=> IsHerder(j)) /\ (Begun(j)' <=> Begun(j))
                /\ Status(j)' = Status(j)
  BY <1>4 DEF Created, Advances, IsHerder, Begun, Status
<1>10. /\ \A op, j : Calls(op, j) => Calls(op, j)' \/ (op = "herded" /\ j = i)
       /\ \A k \in DOMAIN frames : Calls(frames[k].op, frames[k].id)'
  BY <1>2, <1>7, <1>8, CallsStay
<1>11. Shelved'
  BY <1>4, <1>9 DEF IndexInv, Shelved
<1>12. AwaitedExact'
  <2> SUFFICES ASSUME NEW g \in Ids, NEW j \in unfinishedHerds[g]
               PROVE  /\ j \notin finish => j \in unfinishedHerdedTasks'[g]
                      /\ j \in finish /\ j \in unfinishedHerdedTasks'[g] =>
                           Calls("herded", j)'
    BY <1>4 DEF AwaitedExact
  <2>1. /\ j \notin finish => j \in unfinishedHerdedTasks[g]
        /\ j \in finish /\ j \in unfinishedHerdedTasks[g] => Calls("herded", j)
    BY DEF IndexInv, AwaitedExact
  <2>2. g \in unfinishedTasks /\ info[j].herdid = g
    BY DEF IndexInv, Shelved, CallsInv, Herds
  <2>3. ASSUME j = i PROVE i \notin unfinishedHerdedTasks'[g]
    <3>1. g = h /\ h \in unfinishedTasks /\ unfinishedHerds[h] # {}
      <4>1. g = info[i].herdid
        BY <2>2, <2>3
      <4> QED BY <1>1, <2>2, <4>1
    <3> QED BY <1>4, <3>1
  <2>4. ASSUME j # i
        PROVE  j \in unfinishedHerdedTasks'[g] <=> j \in unfinishedHerdedTasks[g]
    BY <1>4, <2>4
  <2> QED BY <1>3, <1>10, <2>1, <2>3, <2>4
<1>13. Told'
  <2>1. Tells(frames)' /\ ~On("finish")
    BY <1>2, <1>5, <1>8, <1>9 DEF Tells, On, Top
  <2> QED BY <1>7, <1>8, <1>9, <2>1, ToldKept DEF IndexInv
<1>14. Kept'
  BY <1>4, <1>9, <1>10 DEF IndexInv, Kept
<1>15. Attended'
  <2> SUFFICES ASSUME NEW g \in unfinishedTasks, Status(g) = "Waiting",
                      g \notin stopped
               PROVE  \/ IsHerder(g) /\ unfinishedHerdedTasks'[g] # {}
                      \/ \E op \in Ends : Calls(op, g)'
    BY <1>4, <1>9 DEF Attended
  <2>1. \/ IsHerder(g) /\ unfinishedHerdedTasks[g] # {}
        \/ \E op \in Ends : Calls(op, g)
    BY DEF IndexInv, Attended
  <2>2. CASE \E op \in Ends : Calls(op, g)
    BY <1>10, <2>2 DEF Ends
  <2>3. CASE IsHerder(g) /\ unfinishedHerdedTasks[g] # {}
    <3>1. g \in Ids
      BY StepFacts
    <3>2. CASE g # h
      BY <1>4, <2>3, <3>1, <3>2
    <3>3. CASE g = h
      BY <1>5, <1>7, <1>10, <2>3, <3>3 DEF Ends
    <3> QED BY <3>2, <3>3
  <2> QED BY <2>1, <2>2, <2>3
<1>16. Ready'
  <2>1. Queues(frames)'
    BY <1>5, <1>8 DEF Queues
  <2> QED BY <1>7, <1>8, <1>9, <2>1, ReadyKept DEF IndexInv
<1> QED BY <1>11, <1>12, <1>13, <1>14, <1>15, <1>16 DEF IndexInv

\* Planning an instance: its herder, if it is not finished, gets to wait for it.
LEMMA IndexPlan ==
  ASSUME IndInv, CallsInv, IndexInv, PlanTask, Head(Top.acts).task \in enabled
  PROVE  IndexInv'
<1>1. PICK a, i, herdid, parent, acts, onplan, last :
        /\ a = Head(Top.acts) /\ i = Len(info) + 1 /\ herdid = HerdOf(Top.id, a)
        /\ parent = Top.id /\ acts = Tail(Top.acts) /\ onplan = Task[a.task].onplan
        /\ last = Call(IF herdid \in unfinishedTasks THEN "planned"
                       ELSE "enqueue", i)
  OBVIOUS
<1>2. PICK s1, s2 : s1 = Trigger(i, onplan) /\ s2 = Trigger(parent, acts)
  OBVIOUS
<1> DEFINE s == s1 \o << last >> \o s2
<1>3. /\ stack # <<>> /\ Top.op = "trigger"
      /\ acts \in Seq(Action) /\ onplan \in Seq(Action)
      /\ i \in Ids /\ i \in Nat /\ i \notin Created
      /\ parent \in {0} \cup Created
      /\ herdid \in {0} \cup Created
      /\ Created' = Created \cup {i}
      /\ \A j \in Created : info'[j] = info[j]
      /\ info'[i].herdid = IF herdid = 0 THEN i ELSE herdid
      /\ unfinishedTasks' = unfinishedTasks \cup {i}
      /\ IF herdid \in unfinishedTasks THEN AppendToHerd(herdid, i)
         ELSE UNCHANGED <<unfinishedHerds, unfinishedHerdedTasks>>
      /\ UNCHANGED <<queue, start, stop, finish, success, stopped>>
      /\ Pushes(s)
      /\ last = Call(IF herdid \in unfinishedTasks THEN "planned" ELSE "enqueue", i)
  BY <1>1, <1>2, NewlyPlanned DEF PlanTask, executionVars
<1> HIDE <1>1
<1>4. /\ queue \subseteq Created /\ start \subseteq Created /\ stop \subseteq Created
      /\ finish \subseteq Created /\ Created \subseteq Ids /\ 0 \notin Created
      /\ parent \in Nat /\ unfinishedTasks \subseteq Created
      /\ herdid \in unfinishedTasks => herdid # 0 /\ herdid # i /\ herdid \in Ids
  BY <1>3, StepFacts, NumberFacts DEF TypeOK, InstanceTypeOK, Created
<1>5. /\ s1 \in Seq(GentleFrame) /\ s2 \in Seq(GentleFrame)
      /\ \A k \in DOMAIN s1 : s1[k].op = "trigger" /\ Touches(s1[k]) = {}
      /\ \A k \in DOMAIN s2 : s2[k].op = "trigger"
  BY <1>2, <1>3, <1>4, StillCalls, Concats DEF Trigger, Touches
<1>6. /\ last \in StillFrame /\ last.id = i
      /\ last.op = IF herdid \in unfinishedTasks THEN "planned" ELSE "enqueue"
  <2>1. \A op \in {"planned", "enqueue"} : CallMark(op, i, FALSE) \in StillFrame
    BY <1>3, StillCalls DEF FrameOp, EventOps
  <2> QED BY <1>3, <2>1 DEF Call, CallMark
<1>7. PICK frames : frames = s
  OBVIOUS
<1>8. /\ frames \in Seq(StillFrame) /\ Pushes(frames)
      /\ Len(s1) \in Nat /\ DOMAIN frames = 1..Len(frames) /\ Len(frames) \in Nat
      /\ \A k \in DOMAIN frames :
           \/ k \in DOMAIN s1 /\ k < Len(s1) + 1 /\ frames[k] = s1[k]
           \/ k = Len(s1) + 1 /\ frames[k] = last
           \/ k - Len(s1) - 1 \in DOMAIN s2 /\ k > Len(s1) + 1
              /\ frames[k] = s2[k - Len(s1) - 1]
  <2>1. s1 \in Seq(StillFrame) /\ s2 \in Seq(StillFrame)
    BY <1>5, GentleIsStill
  <2> HIDE DEF s
  <2>2. s \in Seq(StillFrame) /\ Len(s1) \in Nat /\ DOMAIN s = 1..Len(s)
        /\ \A k \in DOMAIN s :
             \/ k \in DOMAIN s1 /\ k < Len(s1) + 1 /\ s[k] = s1[k]
             \/ k = Len(s1) + 1 /\ s[k] = last
             \/ k - Len(s1) - 1 \in DOMAIN s2 /\ k > Len(s1) + 1
                /\ s[k] = s2[k - Len(s1) - 1]
    BY <1>6, <2>1, Sandwich DEF s
  <2> QED BY <1>3, <1>7, <2>2
<1> HIDE DEF s
<1>9. /\ frames \in Seq(CallFrame)
      /\ \A k \in DOMAIN frames : frames[k].op \in {"trigger", "planned", "enqueue"}
  <2>1. frames \in Seq(CallFrame)
    BY <1>8, GentleIsStill, SeqMonotonic
  <2> QED BY <1>5, <1>6, <1>8, <2>1
<1>10. /\ Advances
       /\ \A j \in Created : /\ IsHerder(j)' <=> IsHerder(j)
                             /\ Begun(j)' <=> Begun(j)
                             /\ info'[j] = info[j]
       /\ \A j : Status(j)' = Status(j)
  BY <1>3 DEF Advances, IsHerder, Begun, Status
<1>11. \A op, j : op # "trigger" /\ Calls(op, j) => Calls(op, j)'
  BY <1>3, <1>8, <1>9, CallsStay
<1>12. /\ unfinishedHerds \in [Ids -> SUBSET Created]
       /\ unfinishedHerdedTasks \in [Ids -> SUBSET Created]
       /\ \A j \in Created : info[j].herdid \in Created
  BY StepFacts
<1>13. ASSUME NEW h \in Ids
       PROVE  \/ /\ unfinishedHerds'[h] = unfinishedHerds[h]
                 /\ unfinishedHerdedTasks'[h] = unfinishedHerdedTasks[h]
              \/ /\ herdid \in unfinishedTasks /\ h = herdid
                 /\ unfinishedHerds'[h] = unfinishedHerds[h] \cup {i}
                 /\ unfinishedHerdedTasks'[h] = unfinishedHerdedTasks[h] \cup {i}
  BY <1>3, <1>12 DEF AppendToHerd
<1>14. herdid \in unfinishedTasks =>
         /\ unfinishedHerds'[herdid] = unfinishedHerds[herdid] \cup {i}
         /\ unfinishedHerdedTasks'[herdid] = unfinishedHerdedTasks[herdid] \cup {i}
  BY <1>3, <1>4, <1>12 DEF AppendToHerd
<1>15. Shelved'
  <2>1. ASSUME NEW h \in Ids
        PROVE  /\ unfinishedHerds'[h] # {} => h \in unfinishedTasks'
               /\ unfinishedHerds'[h] \subseteq unfinishedTasks'
    BY <1>3, <1>13 DEF IndexInv, Shelved
  <2>2. ASSUME NEW j \in Created', ~IsHerder(j)', info'[j].herdid \in unfinishedTasks'
        PROVE  j \in unfinishedHerds'[info'[j].herdid]
    <3>1. CASE j = i
      <4>1. info'[i].herdid = herdid /\ herdid \in unfinishedTasks
        BY <1>3, <1>4, <2>2, <3>1 DEF IsHerder
      <4> QED BY <1>14, <3>1, <4>1
    <3>2. CASE j \in Created
      <4>1. PICK h : h = info[j].herdid
        OBVIOUS
      <4>2. /\ h \in unfinishedTasks /\ ~IsHerder(j) /\ h \in Ids
            /\ info'[j].herdid = h
        BY <1>3, <1>4, <1>10, <1>12, <2>2, <3>2, <4>1
      <4>3. j \in unfinishedHerds[h]
        BY <3>2, <4>1, <4>2 DEF IndexInv, Shelved
      <4> QED BY <1>13, <4>2, <4>3
    <3> QED BY <1>3, <2>2, <3>1, <3>2
  <2> QED BY <2>1, <2>2 DEF Shelved
<1>16. AwaitedExact'
  <2> SUFFICES ASSUME NEW h \in Ids, NEW j \in unfinishedHerds'[h]
               PROVE  /\ j \notin finish => j \in unfinishedHerdedTasks'[h]
                      /\ j \in finish /\ j \in unfinishedHerdedTasks'[h] =>
                           Calls("herded", j)'
    BY <1>3 DEF AwaitedExact
  <2>1. CASE j \in unfinishedHerds[h]
    <3>1. /\ j \notin finish => j \in unfinishedHerdedTasks[h]
          /\ j \in finish /\ j \in unfinishedHerdedTasks[h] => Calls("herded", j)
      BY <2>1 DEF IndexInv, AwaitedExact
    <3>2. j # i
      BY <1>3, <1>12, <2>1
    <3> QED BY <1>11, <1>13, <3>1, <3>2
  <2>2. CASE j \notin unfinishedHerds[h]
    <3>1. j = i /\ i \in unfinishedHerdedTasks'[h]
      <4>1. /\ unfinishedHerds'[h] = unfinishedHerds[h] \cup {i}
            /\ unfinishedHerdedTasks'[h] = unfinishedHerdedTasks[h] \cup {i}
        BY <1>13, <2>2
      <4> QED BY ONLY <4>1, <2>2, j \in unfinishedHerds'[h]
    <3>2. i \notin finish
      BY <1>3, <1>4
    <3> QED BY <3>1, <3>2
  <2> QED BY <2>1, <2>2
<1>17. Told'
  <2>1. Tells(frames)' /\ ~On("finish")
    BY <1>3, <1>9 DEF Tells, On, Top
  <2> QED BY <1>8, <1>9, <1>10, <2>1, ToldKept DEF IndexInv
<1>18. Kept'
  <2> SUFFICES ASSUME NEW j \in unfinishedTasks' \cap finish
               PROVE  \/ ~IsHerder(j)' /\ info'[j].herdid \in unfinishedTasks'
                      \/ Calls("forget", j)'
    BY <1>3 DEF Kept
  <2>1. j \in unfinishedTasks \cap finish /\ j \in Created
    BY <1>3, <1>4
  <2>2. \/ ~IsHerder(j) /\ info[j].herdid \in unfinishedTasks
        \/ Calls("forget", j)
    BY <2>1 DEF IndexInv, Kept
  <2> QED BY <1>3, <1>10, <1>11, <2>1, <2>2
<1>19. Attended'
  <2> SUFFICES ASSUME NEW h \in unfinishedTasks', Status(h) = "Waiting",
                      h \notin stopped
               PROVE  \/ IsHerder(h)' /\ unfinishedHerdedTasks'[h] # {}
                      \/ \E op \in Ends : Calls(op, h)'
    BY <1>3, <1>10 DEF Attended
  <2>1. h \in unfinishedTasks /\ h \in Created /\ h \in Ids
    BY <1>3, <1>4 DEF Status
  <2>2. \/ IsHerder(h) /\ unfinishedHerdedTasks[h] # {}
        \/ \E op \in Ends : Calls(op, h)
    BY <2>1 DEF IndexInv, Attended
  <2> QED BY <1>10, <1>11, <1>13, <2>1, <2>2 DEF Ends
<1>20. Ready'
  <2>1. ASSUME NEW k \in DOMAIN frames, frames[k].op \in {"enqueue", "queue"},
               ~IsHerder(frames[k].id)'
        PROVE  /\ Fallow(frames[k].id)'
               /\ \A m \in 1..(k - 1) : /\ frames[m].op \notin EventOps
                                        /\ frames[k].id \notin Touches(frames[m])
    <3>1. k = Len(s1) + 1 /\ frames[k] = last /\ frames[k].id = i
          /\ herdid \notin unfinishedTasks
      BY <1>5, <1>6, <1>8, <2>1
    <3>2. \A m \in 1..(k - 1) : m \in DOMAIN s1 /\ frames[m] = s1[m]
      BY <1>8, <3>1
    <3>3. herdid \in finish /\ herdid \in Created /\ info'[i].herdid = herdid
      <4>1. herdid # 0
        BY <1>3, <2>1, <3>1 DEF IsHerder
      <4> QED BY <1>3, <3>1, <4>1 DEF CallsInv, Remembered
    <3>4. Fallow(i)'
      <4>1. ~Begun(i)'
        BY <1>3, <1>4 DEF Begun
      <4> QED BY <1>3, <2>1, <3>1, <3>3, <4>1 DEF Fallow, Unstarted
    <3> QED BY <1>5, <3>1, <3>2, <3>4 DEF EventOps
  <2>2. Queues(frames)'
    BY <2>1 DEF Queues, Touches, EventOps
  <2> QED BY <1>8, <1>10, <2>2, ReadyKept DEF IndexInv
<1> QED BY <1>15, <1>16, <1>17, <1>18, <1>19, <1>20 DEF IndexInv

LEMMA GentleCalls ==
  ASSUME NEW frames \in Seq(GentleFrame)
  PROVE  /\ frames \in Seq(StillFrame) /\ frames \in Seq(CallFrame)
         /\ Tells(frames)' /\ Queues(frames)'
<1>1. /\ frames \in Seq(StillFrame) /\ frames \in Seq(CallFrame)
      /\ \A k \in DOMAIN frames : frames[k] \in GentleFrame
  BY GentleIsStill
<1> QED BY <1>1 DEF GentleFrame, Tells, Queues

\* The loop that starts instances.
LEMMA IndexStart ==
  ASSUME IndInv, CallsInv, IndexInv, NEW i \in Created, StartTaskInstance(i)
  PROVE  IndexInv'
<1>1. PICK rest : rest = Above(i, {j \in Top.ids : Status(j) = "Queued"})
  OBVIOUS
<1> DEFINE next == Loop("start", 0, rest)
<1>2. /\ stack # <<>> /\ Top.op = "start" /\ Top.op \in EventOps
      /\ Status(i) = "Queued" /\ i \in Nat /\ rest \in SUBSET Nat
  <2>1. /\ stack # <<>> /\ Top.op = "start" /\ Status(i) = "Queued" /\ i \in Nat
    BY StartLoop
  <2> QED BY <1>1, <2>1, NumberFacts DEF Above, EventOps
<1>3. /\ UNCHANGED <<info, queue, stop, finish, success, stopped,
                     unfinishedTasks, unfinishedHerds, unfinishedHerdedTasks>>
      /\ start' = start \/ start' = start \cup {i}
      /\ \/ Return(next)
         \/ Return(<< CallMark("stopped", i, TRUE) >> \o next)
         \/ Return(Trigger(i, TaskOf(i).onstart) \o next)
  BY <1>1 DEF StartTaskInstance, Launch, indexVars, executionVars
<1>4. /\ next \in Seq(GentleFrame)
      /\ CallMark("stopped", i, TRUE) \in GentleFrame
      /\ Trigger(i, TaskOf(i).onstart) \in Seq(GentleFrame)
  <2>1. TaskOf(i).onstart \in Seq(Action)
    BY StepFacts DEF TaskConfig
  <2> QED BY <1>2, <2>1, StillCalls DEF FrameOp, Loops
<1> HIDE DEF next
<1>5. PICK frames \in Seq(GentleFrame) : Pushes(frames)
  <2>1. << CallMark("stopped", i, TRUE) >> \o next \in Seq(GentleFrame)
        /\ Trigger(i, TaskOf(i).onstart) \o next \in Seq(GentleFrame)
    BY <1>4, SeqClosed
  <2> QED BY <1>2, <1>3, <1>4, <2>1, ReturnPushes
<1>6. Advances
  BY <1>3 DEF Advances, Created
<1>7. \A h : Status(h)' = "Waiting" => Status(h) = "Waiting"
  BY <1>2, <1>3 DEF Status
<1>8. Top.op \notin Ends \cup {"finish", "forget", "herded"}
  BY <1>2 DEF Ends
<1> QED BY <1>2, <1>3, <1>5, <1>6, <1>7, <1>8, GentleCalls, CalmIndex

\* What a step of the event loop calls.
LEMMA IndexIdle ==
  ASSUME IndInv, CallsInv, IndexInv, stack = <<>>, NEW frames \in Seq(GentleFrame),
         stack' = frames,
         UNCHANGED <<info, queue, start, stop, finish, success, stopped,
                     unfinishedTasks, unfinishedHerds, unfinishedHerdedTasks>>
  PROVE  IndexInv'
<1>1. Rest = <<>>
  BY DEF Rest
<1>2. Pushes(frames)
  BY <1>1, ConcatEmptySeq DEF Pushes
<1> QED BY <1>2, GentleStep

\* Handling an event: the signal that is handled makes the call that ends the
\* instance.
LEMMA IndexEvent ==
  ASSUME IndInv, CallsInv, IndexInv, HandleEvent PROVE IndexInv'
<1>1. CASE HandleQueuedEvent
  <2>1. stack = <<>>
    BY <1>1 DEF HandleQueuedEvent, Idle
  <2>2. Loop("start", 0, unfinishedTasks) \in Seq(GentleFrame)
    BY <2>1, NumberFacts, StillCalls DEF Loops
  <2>3. \E frames \in Seq(GentleFrame) : stack' = frames
    BY <1>1, <2>2, SeqClosed DEF HandleQueuedEvent
  <2> QED BY <1>1, <2>1, <2>3, IndexIdle
          DEF HandleQueuedEvent, instanceVars, indexVars, executionVars
<1>2. CASE HandlePlannedEvent
  <2>1. stack = <<>>
    BY <1>2 DEF HandlePlannedEvent, Idle
  <2>2. Loop("enqueueEach", 0,
             {i \in unfinishedTasks : info[i].herdid \in dirtyHerds})
          \in Seq(GentleFrame)
    BY <2>1, NumberFacts, StillCalls DEF Loops
  <2>3. \E frames \in Seq(GentleFrame) : stack' = frames
    BY <1>2, <2>1, <2>2, SeqClosed DEF HandlePlannedEvent
  <2> QED BY <1>2, <2>1, <2>3, IndexIdle
          DEF HandlePlannedEvent, instanceVars, executionVars
<1>3. ASSUME NEW i \in Ids, HandleTaskInstanceStopped(i) PROVE IndexInv'
  <2>1. PICK f, frames : f = Call("stopped", i) /\ frames = << f >>
    OBVIOUS
  <2>2. /\ stack = <<>> /\ i \in Nat /\ stopped' = stopped \ {i}
        /\ UNCHANGED <<info, queue, start, stop, finish, success,
                       unfinishedTasks, unfinishedHerds, unfinishedHerdedTasks>>
        /\ stack' = frames
    BY <1>3, <2>1, NumberFacts
       DEF HandleTaskInstanceStopped, Idle, instanceVars, indexVars, Ids
  <2>3. f \in GentleFrame /\ f.op = "stopped" /\ f.id = i
    <3>1. CallMark("stopped", i, FALSE) \in GentleFrame
      BY <2>2, StillCalls DEF FrameOp
    <3> QED BY <2>1, <3>1 DEF Call, CallMark
  <2>4. frames \in Seq(GentleFrame) /\ DOMAIN frames = {1} /\ frames[1] = f
    BY <2>1, <2>3, SeqClosed, Concats
  <2>5. Pushes(frames)
    <3>1. Rest = <<>>
      BY <2>2 DEF Rest
    <3> QED BY <2>2, <2>4, <3>1, ConcatEmptySeq DEF Pushes
  <2>6. Advances /\ \A h : Status(h)' = Status(h)
    BY <2>2 DEF Advances, Created, Status
  <2>7. \A h \in unfinishedTasks :
          Status(h)' = "Waiting" /\ h \notin stopped' =>
            \/ /\ Status(h) = "Waiting" /\ h \notin stopped
               /\ stack = <<>> \/ Top.op \notin Ends \/ Top.id # h
            \/ \E k \in DOMAIN frames : frames[k].op \in Ends /\ frames[k].id = h
    BY <2>2, <2>3, <2>4, <2>6 DEF Ends
  <2> QED BY <2>2, <2>4, <2>5, <2>6, <2>7, GentleCalls, CalmIndex
<1> QED BY <1>1, <1>2, <1>3 DEF HandleEvent

\* A step of another thread, which may end an execution and post its signal.
LEMMA IndexOther ==
  ASSUME IndInv, CallsInv, IndexInv,
         UNCHANGED <<info, queue, start, finish, unfinishedTasks, unfinishedHerds,
                     unfinishedHerdedTasks, stack>>,
         stop \subseteq stop', stop' \subseteq stop \cup start,
         stop' \ stop \subseteq stopped', stopped \subseteq stopped'
  PROVE  IndexInv'
<1>1. /\ Created' = Created
      /\ \A j : (IsHerder(j)' <=> IsHerder(j)) /\ (Begun(j)' <=> Begun(j))
      /\ \A j : Status(j)' = "Waiting" /\ j \notin stopped' => Status(j) = "Waiting"
  BY DEF Created, IsHerder, Begun, Status
<1>2. \A op, j : Calls(op, j)' <=> Calls(op, j)
  BY DEF Calls
<1>3. Shelved' /\ AwaitedExact' /\ Kept'
  BY <1>1, <1>2 DEF IndexInv, Shelved, AwaitedExact, Kept
<1>4. Told'
  BY <1>1 DEF IndexInv, Told
<1>5. Attended'
  BY <1>1, <1>2 DEF IndexInv, Attended
<1>6. Ready'
  BY <1>1 DEF IndexInv, Ready, Unstarted, Touches, EventOps
<1> QED BY <1>3, <1>4, <1>5, <1>6 DEF IndexInv

\* What happens outside the event loop.
LEMMA IndexEnvironment ==
  ASSUME IndInv, CallsInv, IndexInv, Environment PROVE IndexInv'
<1>1. CASE \/ \E tasks \in Switches, b \in BOOLEAN : EnableTasks(tasks, b)
           \/ \E h \in Hosts : HostChanged(h)
           \/ Shutdown
  BY <1>1, IndexOther
     DEF EnableTasks, HostChanged, Shutdown, instanceVars, indexVars, executionVars
<1>2. ASSUME stack = <<>>,
             UNCHANGED <<instanceVars, indexVars, executionVars>>,
             \E frames \in Seq(GentleFrame) : stack' = frames
      PROVE  IndexInv'
  BY <1>2, IndexIdle DEF instanceVars, indexVars, executionVars
<1>3. ASSUME NEW a \in Requests, RequestTask(a) PROVE IndexInv'
  <2>1. << a >> \in Seq(Action)
    BY ConfigAssumption
  <2>2. Trigger(0, << a >>) \in Seq(GentleFrame)
    BY <2>1, StillCalls
  <2> QED BY <1>2, <1>3, <2>2 DEF RequestTask, Idle
<1>4. ASSUME NEW i \in unfinishedTasks,
             CancelTaskInstance(i) \/ AbortTaskInstance(i)
      PROVE  IndexInv'
  <2>1. i \in Nat /\ stack = <<>>
    BY <1>4, NumberFacts DEF CancelTaskInstance, AbortTaskInstance, Command, Idle
  <2>2. << Call("cancel", i) >> \in Seq(GentleFrame)
        /\ << Call("abort", i) >> \in Seq(GentleFrame)
    BY <2>1, StillCalls, SeqClosed DEF FrameOp, Call
  <2> QED BY <1>2, <1>4, <2>1, <2>2
          DEF CancelTaskInstance, AbortTaskInstance, Command
<1>5. ASSUME NEW t \in Tasks, \/ CancelTaskInstancesByTaskId(t)
                              \/ AbortTaskInstanceByTaskId(t)
      PROVE  IndexInv'
  <2>1. stack = <<>>
    BY <1>5 DEF CancelTaskInstancesByTaskId, AbortTaskInstanceByTaskId,
                Command, Idle
  <2>2. ASSUME NEW S \in SUBSET unfinishedTasks
        PROVE  /\ Loop("cancelEach", 0, S) \in Seq(GentleFrame)
               /\ Loop("abortEach", 0, S) \in Seq(GentleFrame)
    BY <2>1, NumberFacts, StillCalls DEF Loops
  <2>3. \E frames \in Seq(GentleFrame) : stack' = frames
    BY <1>5, <2>2
       DEF CancelTaskInstancesByTaskId, AbortTaskInstanceByTaskId, Command
  <2> QED BY <1>2, <1>5, <2>1, <2>3
          DEF CancelTaskInstancesByTaskId, AbortTaskInstanceByTaskId, Command
<1>6. ASSUME NEW c \in Configs, ActivateConfig(c) PROVE IndexInv'
  <2>1. stack = <<>>
    BY <1>6 DEF ActivateConfig, Idle
  <2>2. Loop("reload", 0, unfinishedTasks) \in Seq(GentleFrame)
    BY <2>1, NumberFacts, StillCalls DEF Loops
  <2>3. Trigger(0, OnConfigLoad[c]) \in Seq(GentleFrame)
    BY ConfigAssumption, StillCalls
  <2>4. \E frames \in Seq(GentleFrame) : stack' = frames
    BY <1>6, <2>2, <2>3, SeqClosed DEF ActivateConfig
  <2> QED BY <1>2, <1>6, <2>1, <2>4 DEF ActivateConfig
<1> QED BY <1>1, <1>3, <1>4, <1>5, <1>6 DEF Environment

\* No instance is in memory at first.
LEMMA IndexInit == Init => IndexInv
<1> SUFFICES ASSUME Init PROVE IndexInv
  OBVIOUS
<1>1. /\ stack = <<>> /\ Created = {} /\ finish = {} /\ unfinishedTasks = {}
      /\ \A h \in Ids : unfinishedHerds[h] = {}
  BY DEF Init, InstanceInit, Created
<1>2. DOMAIN stack = {}
  BY <1>1, Concats
<1> QED BY <1>1, <1>2
        DEF IndexInv, Shelved, AwaitedExact, Told, Kept, Attended, Ready

\* Every step keeps the invariant.
LEMMA IndexNext ==
  ASSUME IndInv, CallsInv, IndexInv, [Next]_vars PROVE IndexInv'
<1>1. CASE UNCHANGED vars
  BY <1>1, IndexOther DEF vars, instanceVars, indexVars, executionVars
<1>2. CASE Step
  <2>1. CASE PlanTask
    BY <2>1, IndexSimple, IndexPlan
  <2>2. CASE \E i \in Created : \/ StartTaskInstance(i)
                                \/ EnqueueOrCancelPlanned(i)
                                \/ ReplaceTaskOrCancel(i)
    BY <2>2, IndexStart, IndexEach
  <2> QED BY <1>2, <2>1, <2>2, IndexSimple, IndexEnqueue, IndexQueue,
             IndexStopped, IndexFinish, IndexForget, IndexHerded DEF Step
<1>3. ASSUME NEW i \in Ids, ExecutorStop(i) PROVE IndexInv'
  <2>1. i \in start
    BY <1>3 DEF ExecutorStop, IndInv, ExecutorKnown
  <2> QED BY <1>3, <2>1, IndexOther DEF ExecutorStop, indexVars
<1> QED BY <1>1, <1>2, <1>3, IndexEvent, IndexEnvironment DEF Next

\* The indexes once the calls have returned.
LEMMA IndexesIdle == ASSUME IndInv, CallsInv, IndexInv PROVE IndexesAgree
<1> SUFFICES ASSUME Idle PROVE IndexesAgree
  BY DEF IndexesAgree, HerdAwaited, MemoryIsExact, HerderNotForgotten
<1>1. \A op, i : ~Calls(op, i)
  <2>1. DOMAIN stack = {}
    BY Concats DEF Idle
  <2> QED BY <2>1 DEF Calls
<1>2. \A h \in Ids : unfinishedHerdedTasks[h] \subseteq unfinishedHerds[h]
  BY DEF CallsInv, Herds
<1>3. Created \subseteq Ids /\ unfinishedTasks \subseteq Created
  BY StepFacts
<1>4. \A h \in Ids : unfinishedHerdedTasks[h] = unfinishedHerds[h] \ finish
  BY <1>1, <1>2 DEF IndexInv, AwaitedExact
<1>5. HerdAwaited
  BY <1>3, <1>4 DEF HerdAwaited, IndexInv, Shelved
<1>6. MemoryIsExact
  <2> SUFFICES ASSUME NEW i \in Created
               PROVE  i \in unfinishedTasks <=>
                        \/ i \notin finish
                        \/ ~IsHerder(i) /\ info[i].herdid \in unfinishedTasks
                                        /\ i \in unfinishedHerds[info[i].herdid]
    BY DEF MemoryIsExact
  <2>1. i \notin finish => i \in unfinishedTasks
    BY DEF CallsInv, Remembered
  <2>2. info[i].herdid \in Ids
    BY StepFacts
  <2>3. i \in unfinishedHerds[info[i].herdid] => i \in unfinishedTasks
    BY <2>2 DEF IndexInv, Shelved
  <2>4. i \in unfinishedTasks \cap finish =>
          ~IsHerder(i) /\ info[i].herdid \in unfinishedTasks
    BY <1>1 DEF IndexInv, Kept
  <2>5. ~IsHerder(i) /\ info[i].herdid \in unfinishedTasks =>
          i \in unfinishedHerds[info[i].herdid]
    BY DEF IndexInv, Shelved
  <2> QED BY <2>1, <2>3, <2>4, <2>5
<1>7. HerderNotForgotten
  <2> SUFFICES ASSUME NEW h \in unfinishedTasks, Status(h) = "Waiting",
                      h \notin stopped
               PROVE  unfinishedHerdedTasks[h] \ finish # {}
    BY DEF HerderNotForgotten
  <2>1. unfinishedHerdedTasks[h] # {}
    BY <1>1 DEF IndexInv, Attended
  <2> QED BY <1>3, <1>4, <2>1
<1> QED BY <1>5, <1>6, <1>7 DEF IndexesAgree

\* However the calls nest and the two threads interleave, the three indexes of
\* herds agree with one another and with the statuses between two events.
THEOREM HerdIndexesAgree == Spec => []IndexesAgree
<1>1. Init => IndexInv
  BY IndexInit
<1>2. IndInv /\ CallsInv /\ IndexInv /\ [Next]_vars => IndexInv'
  BY IndexNext
<1>3. IndInv /\ CallsInv /\ IndexInv => IndexesAgree
  BY IndexesIdle
<1> QED BY <1>1, <1>2, <1>3, Invariant, CallsAreKnown, PTL DEF Spec

-----------------------------------------------------------------------------
(* The promise of herders.                                                 *)

NoWait(h) == TaskOf(h).herdingPolicy = "NoWait"

\* Where the herders come from, those to be planned included.
HeadsHerd ==
  /\ \A h \in Created : IsHerder(h) => info[h].task \in Heads
  /\ \A k \in DOMAIN stack : stack[k].op = "trigger" =>
       \A n \in DOMAIN stack[k].acts :
         stack[k].acts[n].lone \/ stack[k].id = 0 => stack[k].acts[n].task \in Heads

\* No instance of a herd is queued before the herder starts, or is canceled.
HerdFollows ==
  \A j \in Created :
    ~IsHerder(j) /\ j \in queue \cup start => ~Unstarted(info[j].herdid)

\* What is marked as a failure was queued, and is not yet finished unless it is
\* a herder.
MarkedQueued ==
  \A k \in DOMAIN stack : stack[k].mark =>
    /\ stack[k].id \in queue
    /\ IsHerder(stack[k].id) \/ (k = 1 /\ Unstarted(stack[k].id))

\* An instance of a herd is ended once, at once.
HerdedEndOnce ==
  /\ \A k \in DOMAIN stack :
       stack[k].op \in {"stopped", "finish"} /\ ~IsHerder(stack[k].id) =>
         k = 1 /\ stack[k].id \notin finish \cup stopped
  /\ \A i \in stopped : ~IsHerder(i) => i \notin finish

\* A herder finishes at once too, when it awaits nothing, and may finish again.
AwaitsNone(h) == h \in finish \/ unfinishedHerdedTasks[h] = {} \/ NoWait(h)
HerdersFinish ==
  \A k \in DOMAIN stack : stack[k].op = "finish" /\ IsHerder(stack[k].id) =>
    k = 1 /\ AwaitsNone(stack[k].id)

\* The calls before the k-th one leave instance j alone.
Guarded(k, j) ==
  /\ j \in Created /\ Status(j) # "Queued"
  /\ \A m \in 1..(k - 1) :
       /\ stack[m].op \notin EventOps
       /\ j \notin Touches(stack[m])
       /\ stack[m].op \in {"herded", "forget"} => stack[m].id # j
Sheltered(k, j) == Guarded(k, j) /\ Guarded(k, info[j].herdid)

\* While the actions of an instance plan in its herd, the herder does not finish:
\* it waits for that instance, or is that instance and its herd is left alone.
InTime(k, p) ==
  LET h == info[p].herdid
  IN  /\ h \notin finish
      /\ p # h => p \in unfinishedHerdedTasks[h]
      /\ Sheltered(k, p)
      /\ p = h => \A j \in Herd(h) : Sheltered(k, j)
PlansInTime ==
  \A k \in DOMAIN stack :
    /\ stack[k].op = "trigger" /\ stack[k].id # 0 /\ ~LoneActions(stack[k].acts)
    => NoWait(info[stack[k].id].herdid) \/ InTime(k, stack[k].id)

\* Of the herd of a herder that is canceled nothing ever starts.
HerdNeverStarts ==
  \A h \in finish \ start :
    IsHerder(h) /\ ~NoWait(h) => Herd(h) \cap start = {}

PromiseInv ==
  /\ HeadsHerd /\ HerdFollows /\ MarkedQueued /\ HerdedEndOnce /\ HerdersFinish
  /\ PlansInTime /\ HerdNeverStarts /\ HerderKeepsPromise

\* The instances that a step may touch: those that the call on top of the stack
\* does, their herds, duplicates that are queued, and a herder told of the end of
\* the last instance it awaits.
WithinReach(j) ==
  \/ j \in Touches(Top) \/ Status(j) = "Queued" \/ info[j].herdid \in Touches(Top)
  \/ /\ Top.op = "herded" /\ j = info[Top.id].herdid
     /\ unfinishedHerdedTasks[j] \subseteq {Top.id}
Reaches(f) ==
  Top.op \notin EventOps =>
    /\ f.op \notin EventOps
    /\ \A j \in Touches(f) : j \in Created => WithinReach(j)
    /\ f.op \in {"herded", "forget"} => f.id \in Touches(Top)

\* The k-th call that the call on top of the stack makes, unless it plans.
Begins(k, f) ==
  f.op = "trigger" =>
    \/ /\ Top.op = "stopped" /\ IsHerder(Top.id) /\ f.id = Top.id
       /\ f.acts = FinishActions(Top.id)
    \/ /\ k = 1 /\ Top.op = "finish" /\ ~IsHerder(Top.id) /\ f.id = Top.id
       /\ Top.id \in start /\ f.acts = FinishActions(Top.id)
    \/ /\ k = 1 /\ Top.op = "start" /\ Status(f.id) = "Queued" /\ f.id \in Created
       /\ f.id \in start' /\ f.acts = TaskOf(f.id).onstart
Ceases(k, f) ==
  /\ f.op = "finish" =>
       /\ k = 1
       /\ \/ IsHerder(f.id) /\ (f.id \in finish \/ unfinishedHerdedTasks'[f.id] = {}
                                \/ NoWait(f.id))
          \/ ~IsHerder(f.id) /\ Top.op = "stopped" /\ f.id = Top.id
  /\ f.op = "stopped" /\ ~IsHerder(f.id) => k = 1 /\ Unstarted(f.id) /\ Unstarted(f.id)'
  /\ f.mark =>
       \/ /\ Top.op \in {"stopped", "settle"} /\ Top.mark /\ f.id = Top.id
          /\ k = 1 \/ IsHerder(f.id)
       \/ /\ k = 1 /\ Top.op = "start" /\ Status(f.id) = "Queued"
          /\ Unstarted(f.id)'
NextCall(k, f) == Reaches(f) /\ Begins(k, f) /\ Ceases(k, f)

\* Calls that end nothing and plan nothing.
CommonFrame ==
  {f \in CallFrame :
     /\ f.op \notin {"trigger", "stopped", "finish", "herded", "forget"}
     /\ ~f.mark /\ Reaches(f)}

\* Calls and loops of the handlers that are such calls.
LEMMA CommonCalls ==
  /\ \A op \in FrameOp \ {"trigger", "stopped", "finish", "herded", "forget"}, i \in Nat :
       \/ Top.op \in EventOps
       \/ op \notin EventOps /\ (i \in Created => WithinReach(i))
       => Call(op, i) \in CommonFrame
  /\ \A op \in Loops \cup {"deduplicate"}, i \in Nat, S \in SUBSET Nat :
       \/ Top.op \in EventOps
       \/ op \notin EventOps /\ \A j \in S : j \in Created => WithinReach(j)
       => Loop(op, i, S) \in Seq(CommonFrame)
<1>1. ASSUME NEW op \in FrameOp \ {"trigger", "stopped", "finish", "herded", "forget"},
             NEW i \in Nat,
             \/ Top.op \in EventOps
             \/ op \notin EventOps /\ (i \in Created => WithinReach(i))
      PROVE  Call(op, i) \in CommonFrame
  <2>1. PICK f : f = Call(op, i)
    OBVIOUS
  <2>2. f \in CallFrame /\ f.op = op /\ f.id = i /\ f.ids = {} /\ f.mark = FALSE
    BY <2>1, SeqClosed DEF Call, CallMark, CallFrame
  <2>3. Touches(f) \subseteq {i}
    BY <2>2 DEF Touches
  <2> QED BY <1>1, <2>1, <2>2, <2>3 DEF CommonFrame, Reaches
<1>2. ASSUME NEW op \in Loops \cup {"deduplicate"}, NEW i \in Nat, NEW S \in SUBSET Nat,
             \/ Top.op \in EventOps
             \/ op \notin EventOps /\ \A j \in S : j \in Created => WithinReach(j)
      PROVE  Loop(op, i, S) \in Seq(CommonFrame)
  <2>1. PICK f : f = [op |-> op, id |-> i, ids |-> S, acts |-> <<>>, mark |-> FALSE]
    OBVIOUS
  <2>2. op \in FrameOp /\ op \notin {"trigger", "stopped", "finish", "herded", "forget"}
    BY DEF FrameOp, Loops
  <2>3. f \in CallFrame /\ f.op = op /\ f.ids = S /\ f.mark = FALSE
    BY <2>1, <2>2, SeqClosed DEF CallFrame
  <2>4. Touches(f) \subseteq S
    BY <1>2, <2>3 DEF Touches, Loops
  <2>5. f \in CommonFrame
    BY <1>2, <2>2, <2>3, <2>4 DEF CommonFrame, Reaches
  <2> QED BY <2>1, <2>5, LoopIn
<1> QED BY <1>1, <1>2

\* Such calls are what the next calls may be.
LEMMA CommonNext ==
  ASSUME NEW frames \in Seq(CommonFrame)
  PROVE  /\ frames \in Seq(CallFrame)
         /\ \A k \in DOMAIN frames : frames[k] \in CommonFrame /\ NextCall(k, frames[k])
<1>1. CommonFrame \subseteq CallFrame
  BY DEF CommonFrame
<1>2. frames \in Seq(CallFrame) /\ \A k \in DOMAIN frames : frames[k] \in CommonFrame
  BY <1>1, SeqMonotonic
<1> QED BY <1>2 DEF CommonFrame, NextCall, Begins, Ceases

\* The handlers that make no other call.
LEMMA CommonSteps ==
  ASSUME IndInv, CallsInv, IndexInv,
         \/ Planned \/ Dropped \/ Aborted \/ LoopEnds \/ Deduplicate \/ Queue
         \/ DoAbortTaskInstance \/ CancelOrAbortEach \/ Forget
  PROVE  \E frames \in Seq(CommonFrame) : Pushes(frames)
<1>1. /\ stack # <<>> /\ Top.id \in Nat /\ Top.ids \in SUBSET Nat
      /\ Top.op \notin Loops \cup {"trigger"} => Top.id \in Created /\ Top.id \in Ids
  <2>1. stack # <<>>
    BY DEF Planned, Dropped, Aborted, LoopEnds, Deduplicate, DoAbortTaskInstance,
           Queue, CancelOrAbortEach, Forget, On
  <2> QED BY <2>1, TopFacts
<1> DEFINE ordinary == \E frames \in Seq(CommonFrame) : Return(frames)
<1>2. ASSUME Planned \/ Dropped \/ Aborted \/ LoopEnds \/ Queue \/ Forget PROVE ordinary
  BY <1>2, SeqClosed DEF Planned, Dropped, Aborted, LoopEnds, Queue, Forget
<1>3. ASSUME Deduplicate PROVE ordinary
  <2>1. PICK j \in Top.ids :
          Return(<< Call("cancel", j) >>
                 \o Loop("deduplicate", Top.id, Top.ids \ {j}))
    BY <1>3 DEF Deduplicate
  <2>2. Touches(Top) = Top.ids
    BY <1>3 DEF Touches, Deduplicate, On, Top
  <2>3. Call("cancel", j) \in CommonFrame
    BY <1>1, <2>2, CommonCalls DEF FrameOp, EventOps, WithinReach
  <2>4. Loop("deduplicate", Top.id, Top.ids \ {j}) \in Seq(CommonFrame)
    BY <1>1, <2>2, CommonCalls DEF EventOps, WithinReach
  <2> QED BY <2>1, <2>3, <2>4, SeqClosed
<1>4. ASSUME DoAbortTaskInstance PROVE ordinary
  <2>1. Top.op = "abort" /\ Top.id \in Ids
    BY <1>1, <1>4 DEF DoAbortTaskInstance, On, Top, Loops
  <2>2. HerdedTasks(Top.id) \in SUBSET Nat
    BY <2>1, HerdFacts
  <2>3. Loop("abortHerd", Top.id, HerdedTasks(Top.id)) \in Seq(CommonFrame)
    BY <1>1, <2>1, <2>2, CommonCalls DEF Loops, EventOps
  <2>4. Call("aborted", Top.id) \in CommonFrame
    BY <1>1, <2>1, CommonCalls DEF FrameOp, EventOps
  <2> QED BY <1>4, <2>3, <2>4, SeqClosed DEF DoAbortTaskInstance
<1>5. ASSUME CancelOrAbortEach PROVE ordinary
  <2>1. PICK j \in Top.ids :
          LET next == Loop(Top.op, Top.id, Top.ids \ {j})
          IN  \/ Return(<< Call("cancel", j) >> \o next)
              \/ Top.op # "cancelEach" /\ Return(<< Call("abort", j) >> \o next)
              \/ Return(next)
    BY <1>5 DEF CancelOrAbortEach
  <2>2. /\ Top.op \in {"cancelEach", "abortEach", "abortHerd"} /\ j \in Nat
    BY <1>1, <1>5 DEF CancelOrAbortEach
  <2>3. Top.op \in EventOps \/ (Top.op = "cancelEach" /\ Touches(Top) = Top.ids)
    BY <2>2 DEF EventOps, Touches
  <2>4. Loop(Top.op, Top.id, Top.ids \ {j}) \in Seq(CommonFrame)
    BY <1>1, <2>2, <2>3, CommonCalls DEF Loops, EventOps, WithinReach
  <2>5. Call("cancel", j) \in CommonFrame
    BY <1>1, <2>2, <2>3, CommonCalls DEF FrameOp, EventOps, WithinReach
  <2>6. Top.op # "cancelEach" => Call("abort", j) \in CommonFrame
    BY <1>1, <2>2, <2>3, CommonCalls DEF FrameOp
  <2> QED BY <2>1, <2>4, <2>5, <2>6, SeqClosed
<1> HIDE DEF ordinary
<1>6. ordinary
  BY <1>2, <1>3, <1>4, <1>5
<1> QED BY <1>1, <1>6, ReturnPushes DEF ordinary

\* So do those that reevaluate the instances one by one.
LEMMA CommonEach ==
  ASSUME IndInv, CallsInv, IndexInv, NEW i \in Created,
         EnqueueOrCancelPlanned(i) \/ ReplaceTaskOrCancel(i)
  PROVE  \E frames \in Seq(CommonFrame) : Pushes(frames)
<1>1. /\ stack # <<>> /\ Top.op \in EventOps
      /\ i \in Nat /\ Top.ids \in SUBSET Nat
  BY TopFacts, NumberFacts
     DEF EnqueueOrCancelPlanned, ReplaceTaskOrCancel, On, Top, EventOps
<1>2. PICK n1, n2 :
        /\ n1 = Loop("enqueueEach", 0,
                     Above(i, {j \in Top.ids : Status(j) = "Planned"}))
        /\ n2 = Loop("reload", 0,
                     Above(i, {j \in Top.ids : Status(j) \in UnstartedStatus}))
  OBVIOUS
<1>3. n1 \in Seq(CommonFrame) /\ n2 \in Seq(CommonFrame)
  BY <1>1, <1>2, CommonCalls DEF Loops, Above
<1>4. Call("cancel", i) \in CommonFrame /\ Call("enqueue", i) \in CommonFrame
  BY <1>1, CommonCalls DEF FrameOp
<1>5. \/ Return(<< Call("cancel", i) >> \o n1) \/ Return(n1)
      \/ Return(<< Call("enqueue", i) >> \o n1)
      \/ Return(<< Call("cancel", i) >> \o n2) \/ Return(n2)
  BY <1>2 DEF EnqueueOrCancelPlanned, ReplaceTaskOrCancel
<1> HIDE <1>2
<1>6. \E frames \in Seq(CommonFrame) : Return(frames)
  BY <1>3, <1>4, <1>5, SeqClosed
<1> QED BY <1>1, <1>6, ReturnPushes

\* Queuing an instance only calls for its duplicates, which are queued.
LEMMA CommonEnqueue ==
  ASSUME IndInv, CallsInv, IndexInv, EnqueueTaskInstance
  PROVE  \E frames \in Seq(CommonFrame) : Pushes(frames)
<1>1. PICK i, victims :
        /\ i = Top.id
        /\ victims = IF info[i].force THEN {} ELSE Deduplicated(i)
  OBVIOUS
<1>2. /\ stack # <<>> /\ Top.op = "enqueue" /\ Top.id = i
      /\ i \in Created /\ i \in Nat
  BY <1>1, TopCall DEF EnqueueTaskInstance, On, Top, Loops
<1>3. i \in Touches(Top) /\ Top.op \notin EventOps
  BY <1>2 DEF Touches, EventOps
<1>4. victims \in SUBSET Nat /\ \A j \in victims : WithinReach(j)
  <2>1. victims \subseteq {i} \cup {j \in Created : Status(j) = "Queued"}
    BY <1>1, StepFacts DEF Deduplicated, Duplicates, Queued
  <2> QED BY <1>2, <1>3, <2>1, NumberFacts DEF WithinReach
<1>5. Loop("deduplicate", i, victims) \in Seq(CommonFrame)
  BY <1>2, <1>3, <1>4, CommonCalls DEF EventOps
<1>6. \A op \in {"cancel", "dropped", "queue"} : Call(op, i) \in CommonFrame
  BY <1>2, <1>3, CommonCalls DEF FrameOp, EventOps, WithinReach
<1>7. \/ Return(<<>>) \/ Return(<< Call("cancel", i) >>)
      \/ \E op \in {"dropped", "queue"} :
           Return(Loop("deduplicate", i, victims) \o << Call(op, i) >>)
  BY <1>1 DEF EnqueueTaskInstance
<1> HIDE <1>1
<1>8. \E frames \in Seq(CommonFrame) : Return(frames)
  BY <1>5, <1>6, <1>7, SeqClosed
<1> QED BY <1>2, <1>8, ReturnPushes

\* At most one call, which triggers the actions of instance i.
TriggerAt(s, i, acts) ==
  /\ s \in Seq(CallFrame) /\ DOMAIN s \subseteq {1}
  /\ \A k \in DOMAIN s :
       /\ s[k].op = "trigger" /\ s[k].id = i /\ s[k].acts = acts
       /\ ~s[k].mark /\ Touches(s[k]) = {} /\ s[k].op \notin EventOps

LEMMA TriggerFields ==
  ASSUME NEW i \in Nat, NEW acts \in Seq(Action)
  PROVE  TriggerAt(Trigger(i, acts), i, acts)
<1>1. PICK f : f = [op |-> "trigger", id |-> i, ids |-> {}, acts |-> acts, mark |-> FALSE]
  OBVIOUS
<1>2. /\ f \in CallFrame /\ f.op = "trigger" /\ f.id = i /\ f.acts = acts
      /\ f.mark = FALSE
  BY <1>1 DEF CallFrame, FrameOp
<1>3. Touches(f) = {} /\ f.op \notin EventOps
  BY <1>2 DEF Touches, EventOps
<1>4. PICK s : s = Trigger(i, acts)
  OBVIOUS
<1>5. s = <<>> \/ s = << f >>
  BY <1>1, <1>4 DEF Trigger
<1>6. s \in Seq(CallFrame) /\ DOMAIN s \subseteq {1} /\ \A k \in DOMAIN s : s[k] = f
  <2>1. CASE s = <<>>
    BY <2>1, SeqClosed, Concats
  <2>2. CASE s = << f >>
    BY <1>2, <2>2, SeqClosed, Concats
  <2> QED BY <1>5, <2>1, <2>2
<1> QED BY <1>2, <1>3, <1>4, <1>6 DEF TriggerAt

\* The calls that a step makes.
NextCalls ==
  \E frames \in Seq(CallFrame) :
    Pushes(frames) /\ \A k \in DOMAIN frames : NextCall(k, frames[k])

\* Canceling an instance cancels its herd, then stops it.
LEMMA CancelNext ==
  ASSUME IndInv, CallsInv, IndexInv, DoCancelTaskInstance PROVE NextCalls
<1>1. PICK i, s, f : /\ i = Top.id /\ s = Loop("cancelEach", i, HerdedTasks(i))
                     /\ f = Call("stopped", i)
  OBVIOUS
<1>2. /\ stack # <<>> /\ Top.op = "cancel" /\ Top.id = i
      /\ i \in Created /\ i \in Nat /\ i \in Ids
  BY <1>1, TopCall DEF DoCancelTaskInstance, On, Top, Loops
<1>3. i \in Touches(Top) /\ Top.op \notin EventOps
  BY <1>2 DEF Touches, EventOps
<1>4. /\ HerdedTasks(i) \in SUBSET Nat
      /\ \A j \in HerdedTasks(i) : j \in Created /\ info[j].herdid = i
  BY <1>2, HerdFacts
<1>5. ~IsHerder(i) => HerdedTasks(i) = {}
  BY <1>4 DEF CallsInv, Herds
<1>6. s \in Seq(CommonFrame)
  <2>1. \A j \in HerdedTasks(i) : WithinReach(j)
    BY <1>3, <1>4 DEF WithinReach
  <2> QED BY <1>1, <1>2, <1>4, <2>1, CommonCalls DEF Loops, EventOps
<1>7. /\ f \in CallFrame /\ f.op = "stopped" /\ f.id = i /\ ~f.mark
      /\ Touches(f) \subseteq {i}
  <2>1. f \in CallFrame /\ f.op = "stopped" /\ f.id = i /\ f.mark = FALSE
    BY <1>1, <1>2, SeqClosed DEF Call, CallMark, CallFrame, FrameOp
  <2> QED BY <2>1 DEF Touches
<1>8. Return(<<>>) \/ (Return(s \o << f >>) /\ Status(i) \in UnstartedStatus)
  BY <1>1 DEF DoCancelTaskInstance
<1>9. ~IsHerder(i) => s = <<>>
  BY <1>1, <1>5 DEF Loop
<1> HIDE <1>1
<1>10. CASE Return(<<>>)
  <2>1. <<>> \in Seq(CommonFrame) /\ Pushes(<<>>)
    BY <1>2, <1>10, SeqClosed, ReturnPushes
  <2> QED BY <2>1, CommonNext DEF NextCalls
<1>11. CASE Return(s \o << f >>) /\ Status(i) \in UnstartedStatus
  <2>1. PICK t : t = s \o << f >>
    OBVIOUS
  <2>2. /\ s \in Seq(CallFrame)
        /\ \A k \in DOMAIN s : NextCall(k, s[k])
    BY <1>6, CommonNext
  <2>3. /\ t \in Seq(CallFrame) /\ Len(s) \in Nat
        /\ \A k \in DOMAIN t :
             (k = Len(s) + 1 /\ t[k] = f) \/ (k \in DOMAIN s /\ t[k] = s[k])
    BY <1>7, <2>1, <2>2, LastCall
  <2>4. ~IsHerder(i) => Len(s) + 1 = 1
    BY <1>9, EmptySeq
  <2>5. Unstarted(i) /\ Unstarted(i)'
    <3>1. Unstarted(i)
      BY <1>2, <1>11, NotBegun
    <3> QED BY <3>1 DEF Unstarted, DoCancelTaskInstance, instanceVars
  <2>6. NextCall(Len(s) + 1, f)
    BY <1>3, <1>7, <2>4, <2>5
       DEF NextCall, Reaches, Begins, Ceases, EventOps, WithinReach
  <2>7. Pushes(t)
    BY <1>2, <1>11, <2>1, ReturnPushes
  <2> QED BY <2>2, <2>3, <2>6, <2>7 DEF NextCalls
<1> QED BY <1>8, <1>10, <1>11

\* What stops is finished at once, or is a herder that waits and plans.
LEMMA StoppedNext ==
  ASSUME IndInv, CallsInv, IndexInv, TaskInstanceStoppedOrCanceled \/ Settle
  PROVE  NextCalls
<1>1. PICK i, s, e, n :
        /\ i = Top.id /\ s = CallMark("settle", i, Top.mark)
        /\ e = CallMark("finish", i, Top.mark) /\ n = Call("herded", i)
  OBVIOUS
<1>2. /\ stack # <<>> /\ Top.op \in {"stopped", "settle"}
      /\ Top.id = i /\ i \in Created /\ i \in Nat /\ Top.mark \in BOOLEAN
      /\ Top.op = "settle" => IsHerder(i)
  <2>1. stack # <<>> /\ Top.op \in {"stopped", "settle"}
    BY DEF TaskInstanceStoppedOrCanceled, Settle, On, Top
  <2> QED BY <1>1, <2>1, TopCall, TopFacts DEF Loops
<1>3. i \in Touches(Top) /\ Top.op \notin EventOps
  BY <1>2 DEF Touches, EventOps
<1>4. /\ s \in CallFrame /\ s.op = "settle" /\ s.id = i /\ s.mark = Top.mark
      /\ e \in CallFrame /\ e.op = "finish" /\ e.id = i /\ e.mark = Top.mark
      /\ n \in CallFrame /\ n.op = "herded" /\ n.id = i /\ n.mark = FALSE
      /\ Touches(s) \subseteq {i} /\ Touches(e) \subseteq {i}
      /\ Touches(n) \subseteq {i}
  <2>1. s \in CallFrame /\ s.op = "settle" /\ s.id = i /\ s.mark = Top.mark
    BY <1>1, <1>2, SeqClosed DEF CallMark, CallFrame, FrameOp
  <2>2. e \in CallFrame /\ e.op = "finish" /\ e.id = i /\ e.mark = Top.mark
    BY <1>1, <1>2, SeqClosed DEF CallMark, CallFrame, FrameOp
  <2>3. n \in CallFrame /\ n.op = "herded" /\ n.id = i /\ n.mark = FALSE
    BY <1>1, <1>2, SeqClosed DEF Call, CallMark, CallFrame, FrameOp
  <2> QED BY <2>1, <2>2, <2>3 DEF Touches
<1>5. PICK t : t = IF Status(i) = "Canceled" THEN <<>> ELSE Trigger(i, FinishActions(i))
  OBVIOUS
<1>6. /\ t \in Seq(CallFrame) /\ DOMAIN t \subseteq {1}
      /\ \A k \in DOMAIN t :
           /\ t[k].op = "trigger" /\ t[k].id = i /\ t[k].acts = FinishActions(i)
           /\ ~t[k].mark /\ Touches(t[k]) = {} /\ t[k].op \notin EventOps
  <2>1. FinishActions(i) \in Seq(Action)
    BY <1>2, FinishPlain
  <2>2. PICK u : u = Trigger(i, FinishActions(i))
    OBVIOUS
  <2>3. CASE t = u
    <3>1. TriggerAt(t, i, FinishActions(i))
      BY <1>2, <2>1, <2>2, <2>3, TriggerFields
    <3> QED BY <3>1 DEF TriggerAt
  <2>4. CASE t = <<>>
    BY <2>4, SeqClosed, Concats
  <2> QED BY <1>5, <2>2, <2>3, <2>4
<1>7. \/ Top.op = "stopped" /\ IsHerder(i) /\ Return(t \o << s >>)
      \/ Top.op = "stopped" /\ ~IsHerder(i) /\ Return(<< e, n >>)
      \/ /\ IsHerder(i) /\ Return(<< e >>)
         /\ \/ Status(i) = "Canceled" \/ unfinishedHerdedTasks'[i] = {} \/ NoWait(i)
      \/ Return(<<>>)
  <2>1. CASE TaskInstanceStoppedOrCanceled
    BY <1>1, <1>5, <2>1 DEF TaskInstanceStoppedOrCanceled, On, Top
  <2>2. CASE Settle
    <3>1. IsHerder(i)
      BY <1>2, <2>2 DEF Settle, On, Top
    <3> QED BY <1>1, <2>2, <3>1 DEF Settle, NoWait
  <2> QED BY <2>1, <2>2
<1> HIDE <1>1, <1>5
<1>8. CASE Top.op = "stopped" /\ IsHerder(i) /\ Return(t \o << s >>)
  <2>1. PICK u : u = t \o << s >>
    OBVIOUS
  <2>2. /\ u \in Seq(CallFrame)
        /\ \A k \in DOMAIN u : u[k] = s \/ (k \in DOMAIN t /\ u[k] = t[k])
    BY <1>4, <1>6, <2>1, LastCall
  <2>3. \A k : NextCall(k, s)
    BY <1>2, <1>3, <1>4, <1>8
       DEF NextCall, Reaches, Begins, Ceases, EventOps, WithinReach
  <2>4. \A k \in DOMAIN t : NextCall(k, t[k])
    BY <1>2, <1>6, <1>8 DEF NextCall, Reaches, Begins, Ceases
  <2>5. Pushes(u)
    BY <1>2, <1>8, <2>1, ReturnPushes
  <2> QED BY <2>2, <2>3, <2>4, <2>5 DEF NextCalls
<1>9. CASE Top.op = "stopped" /\ ~IsHerder(i) /\ Return(<< e, n >>)
  <2>1. PICK u : u = << e, n >>
    OBVIOUS
  <2>2. /\ u \in Seq(CallFrame) /\ DOMAIN u = {1, 2} /\ u[1] = e /\ u[2] = n
    BY <1>4, <2>1, SeqClosed, Concats
  <2>3. NextCall(1, e) /\ NextCall(2, n)
    BY <1>2, <1>3, <1>4, <1>9
       DEF NextCall, Reaches, Begins, Ceases, EventOps, WithinReach
  <2>4. Pushes(u)
    BY <1>2, <1>9, <2>1, ReturnPushes
  <2> QED BY <2>2, <2>3, <2>4 DEF NextCalls
<1>10. CASE /\ IsHerder(i) /\ Return(<< e >>)
            /\ \/ Status(i) = "Canceled" \/ unfinishedHerdedTasks'[i] = {} \/ NoWait(i)
  <2>1. PICK u : u = << e >>
    OBVIOUS
  <2>2. u \in Seq(CallFrame) /\ DOMAIN u = {1} /\ u[1] = e
    BY <1>4, <2>1, SeqClosed, Concats
  <2>3. Status(i) = "Canceled" => i \in finish
    BY DEF Status, CallsInv, Timestamps
  <2>4. NextCall(1, e)
    BY <1>2, <1>3, <1>4, <1>10, <2>3
       DEF NextCall, Reaches, Begins, Ceases, EventOps, WithinReach
  <2>5. Pushes(u)
    BY <1>2, <1>10, <2>1, ReturnPushes
  <2> QED BY <2>2, <2>4, <2>5 DEF NextCalls
<1>11. CASE Return(<<>>)
  <2>1. <<>> \in Seq(CommonFrame) /\ Pushes(<<>>)
    BY <1>2, <1>11, SeqClosed, ReturnPushes
  <2> QED BY <2>1, CommonNext DEF NextCalls
<1> QED BY <1>7, <1>8, <1>9, <1>10, <1>11

\* An instance of a herd plans when it finishes, unless it was canceled.
LEMMA FinishNext ==
  ASSUME IndInv, CallsInv, IndexInv, TaskInstanceFinishedOrCanceled PROVE NextCalls
<1>1. PICK i, f, t : /\ i = Top.id /\ f = Call("forget", i)
                     /\ t = Trigger(i, FinishActions(i))
  OBVIOUS
<1>2. /\ stack # <<>> /\ Top.op = "finish" /\ Top.id = i /\ i \in Created /\ i \in Nat
  BY <1>1, TopCall DEF TaskInstanceFinishedOrCanceled, On, Top, Loops
<1>3. i \in Touches(Top) /\ Top.op \notin EventOps
  BY <1>2 DEF Touches, EventOps
<1>4. /\ f \in CallFrame /\ f.op = "forget" /\ f.id = i /\ ~f.mark
      /\ Touches(f) \subseteq {i}
  <2>1. f \in CallFrame /\ f.op = "forget" /\ f.id = i /\ f.mark = FALSE
    BY <1>1, <1>2, SeqClosed DEF Call, CallMark, CallFrame, FrameOp
  <2> QED BY <2>1 DEF Touches
<1>5. /\ t \in Seq(CallFrame) /\ DOMAIN t \subseteq {1}
      /\ \A k \in DOMAIN t :
           /\ t[k].op = "trigger" /\ t[k].id = i /\ t[k].acts = FinishActions(i)
           /\ ~t[k].mark /\ Touches(t[k]) = {} /\ t[k].op \notin EventOps
  <2>1. FinishActions(i) \in Seq(Action)
    BY <1>2, FinishPlain
  <2>2. TriggerAt(t, i, FinishActions(i))
    BY <1>1, <1>2, <2>1, TriggerFields
  <2> QED BY <2>2 DEF TriggerAt
<1>6. Return(<< f >>) \/ (~IsHerder(i) /\ i \in start /\ Return(t \o << f >>))
  <2>1. <<>> \o << f >> = << f >>
    BY Concats
  <2> QED BY <1>1, <2>1 DEF TaskInstanceFinishedOrCanceled
<1> HIDE <1>1
<1>7. \A k : NextCall(k, f)
  BY <1>2, <1>3, <1>4
     DEF NextCall, Reaches, Begins, Ceases, EventOps, WithinReach
<1>8. CASE Return(<< f >>)
  <2>1. PICK u : u = << f >>
    OBVIOUS
  <2>2. u \in Seq(CallFrame) /\ DOMAIN u = {1} /\ u[1] = f /\ Pushes(u)
    BY <1>2, <1>4, <1>8, <2>1, SeqClosed, Concats, ReturnPushes
  <2> QED BY <1>7, <2>2 DEF NextCalls
<1>9. CASE ~IsHerder(i) /\ i \in start /\ Return(t \o << f >>)
  <2>1. PICK u : u = t \o << f >>
    OBVIOUS
  <2>2. /\ u \in Seq(CallFrame)
        /\ \A k \in DOMAIN u : u[k] = f \/ (k \in DOMAIN t /\ u[k] = t[k])
    BY <1>4, <1>5, <2>1, LastCall
  <2>3. \A k \in DOMAIN t : NextCall(k, t[k])
    BY <1>2, <1>5, <1>9 DEF NextCall, Reaches, Begins, Ceases
  <2>4. Pushes(u)
    BY <1>2, <1>9, <2>1, ReturnPushes
  <2> QED BY <1>7, <2>2, <2>3, <2>4 DEF NextCalls
<1> QED BY <1>6, <1>8, <1>9

\* A herder is finished when the last instance that it awaits is.
LEMMA HerdedNext ==
  ASSUME IndInv, CallsInv, IndexInv, Herded PROVE NextCalls
<1>1. PICK i, h, f : i = Top.id /\ h = info[i].herdid /\ f = Call("finish", h)
  OBVIOUS
<1>2. /\ stack # <<>> /\ Top.op = "herded" /\ Top.id = i
      /\ h \in Created /\ h \in Ids /\ h \in Nat /\ IsHerder(h)
  <2>1. /\ stack # <<>> /\ Top.op = "herded" /\ Top.id = i /\ i \in Created
    BY <1>1, TopCall DEF Herded, On, Top, Loops
  <2> QED BY <1>1, <2>1, StepFacts, NumberFacts DEF CallsInv, Herds
<1>3. /\ f \in CallFrame /\ f.op = "finish" /\ f.id = h /\ f.mark = FALSE
      /\ Touches(f) = {h}
  <2>1. f \in CallFrame /\ f.op = "finish" /\ f.id = h /\ f.mark = FALSE
    BY <1>1, <1>2, SeqClosed DEF Call, CallMark, CallFrame, FrameOp
  <2> QED BY <2>1 DEF Touches
<1>4. \/ Return(<<>>)
      \/ /\ Return(<< f >>) /\ unfinishedHerdedTasks'[h] = {}
         /\ unfinishedHerdedTasks[h] \subseteq {i}
  <2>1. \/ Return(<<>>)
        \/ /\ Return(<< f >>)
           /\ unfinishedHerdedTasks' =
                [unfinishedHerdedTasks EXCEPT ![h] = unfinishedHerdedTasks[h] \ {i}]
           /\ unfinishedHerdedTasks[h] \ {i} = {}
    BY <1>1 DEF Herded, HerderFinishes
  <2> QED BY <1>2, <2>1, StepFacts
<1>5. h = info[Top.id].herdid
  BY <1>1
<1> HIDE <1>1
<1>6. CASE Return(<<>>)
  <2>1. <<>> \in Seq(CommonFrame) /\ Pushes(<<>>)
    BY <1>2, <1>6, SeqClosed, ReturnPushes
  <2> QED BY <2>1, CommonNext DEF NextCalls
<1>7. CASE /\ Return(<< f >>) /\ unfinishedHerdedTasks'[h] = {}
           /\ unfinishedHerdedTasks[h] \subseteq {i}
  <2>1. PICK u : u = << f >>
    OBVIOUS
  <2>2. u \in Seq(CallFrame) /\ DOMAIN u = {1} /\ u[1] = f /\ Pushes(u)
    BY <1>2, <1>3, <1>7, <2>1, SeqClosed, Concats, ReturnPushes
  <2>3. WithinReach(h)
    BY <1>2, <1>5, <1>7 DEF WithinReach
  <2>4. NextCall(1, f)
    BY <1>2, <1>3, <1>7, <2>3 DEF NextCall, Reaches, Begins, Ceases, EventOps
  <2> QED BY <2>2, <2>4 DEF NextCalls
<1> QED BY <1>4, <1>6, <1>7

\* What starts plans, and what cannot be started is marked.
LEMMA StartNext ==
  ASSUME IndInv, CallsInv, IndexInv, NEW i \in Created, StartTaskInstance(i)
  PROVE  NextCalls
<1>1. PICK rest, s, f, t :
        /\ rest = Above(i, {j \in Top.ids : Status(j) = "Queued"})
        /\ s = Loop("start", 0, rest) /\ f = CallMark("stopped", i, TRUE)
        /\ t = Trigger(i, TaskOf(i).onstart)
  OBVIOUS
<1>2. /\ stack # <<>> /\ Top.op = "start" /\ Top.op \in EventOps
      /\ Status(i) = "Queued" /\ i \in Nat /\ rest \in SUBSET Nat
  <2>1. /\ stack # <<>> /\ Top.op = "start" /\ Status(i) = "Queued" /\ i \in Nat
    BY StartLoop
  <2> QED BY <1>1, <2>1, NumberFacts DEF Above, EventOps
<1>3. s \in Seq(CommonFrame)
  BY <1>1, <1>2, CommonCalls DEF Loops
<1>4. /\ s \in Seq(CallFrame)
      /\ \A k \in DOMAIN s : s[k] \in CommonFrame /\ \A n : NextCall(n, s[k])
  <2>1. s \in Seq(CallFrame) /\ \A k \in DOMAIN s : s[k] \in CommonFrame
    BY <1>3, CommonNext
  <2> QED BY <2>1 DEF CommonFrame, NextCall, Begins, Ceases
<1>5. f \in CallFrame /\ f.op = "stopped" /\ f.id = i
  BY <1>1, <1>2, SeqClosed DEF CallMark, CallFrame, FrameOp
<1>6. /\ t \in Seq(CallFrame) /\ DOMAIN t \subseteq {1}
      /\ \A k \in DOMAIN t :
           /\ t[k].op = "trigger" /\ t[k].id = i /\ t[k].acts = TaskOf(i).onstart
           /\ ~t[k].mark
  <2>1. TaskOf(i).onstart \in Seq(Action)
    BY StepFacts DEF TaskConfig
  <2>2. TriggerAt(t, i, TaskOf(i).onstart)
    BY <1>1, <1>2, <2>1, TriggerFields
  <2> QED BY <2>2 DEF TriggerAt
<1>7. /\ UNCHANGED <<stop, finish>>
      /\ \/ Return(s) \/ (Return(<< f >> \o s) /\ UNCHANGED start)
         \/ i \in start' /\ Return(t \o s)
  BY <1>1 DEF StartTaskInstance, Launch
<1> HIDE <1>1
<1>8. CASE Return(s)
  BY <1>2, <1>4, <1>8, ReturnPushes DEF NextCalls
<1>9. CASE Return(<< f >> \o s) /\ UNCHANGED start
  <2>1. PICK u : u = << f >> \o s
    OBVIOUS
  <2>2. /\ u \in Seq(CallFrame) /\ u[1] = f
        /\ \A k \in DOMAIN u : k = 1 \/ (k - 1 \in DOMAIN s /\ u[k] = s[k - 1])
    BY <1>4, <1>5, <2>1, FirstCall
  <2>3. Unstarted(i) /\ Unstarted(i)'
    <3>1. Unstarted(i)
      BY <1>2, NotBegun DEF UnstartedStatus
    <3> QED BY <1>7, <1>9, <3>1 DEF Unstarted
  <2>4. NextCall(1, f)
    BY <1>2, <1>5, <2>3 DEF NextCall, Reaches, Begins, Ceases
  <2>5. Pushes(u)
    BY <1>2, <1>9, <2>1, ReturnPushes
  <2>6. \A k \in DOMAIN u : NextCall(k, u[k])
    BY <1>4, <2>2, <2>4
  <2> QED BY <2>2, <2>5, <2>6 DEF NextCalls
<1>10. CASE i \in start' /\ Return(t \o s)
  <2>1. PICK u : u = t \o s
    OBVIOUS
  <2>2. /\ u \in Seq(CallFrame)
        /\ \A k \in DOMAIN u :
             \/ k \in DOMAIN t /\ u[k] = t[k]
             \/ \E n \in DOMAIN s : u[k] = s[n]
    <3>1. /\ u \in Seq(CallFrame) /\ Len(u) = Len(t) + Len(s)
          /\ \A k \in 1..(Len(t) + Len(s)) :
               u[k] = IF k <= Len(t) THEN t[k] ELSE s[k - Len(t)]
          /\ Len(t) \in Nat /\ DOMAIN t = 1..Len(t)
          /\ Len(s) \in Nat /\ DOMAIN s = 1..Len(s) /\ DOMAIN u = 1..Len(u)
      BY <1>4, <1>6, <2>1, ConcatProperties
    <3>2. ASSUME NEW k \in DOMAIN u, ~(k <= Len(t))
          PROVE  \E n \in DOMAIN s : u[k] = s[n]
      <4>1. k - Len(t) \in DOMAIN s /\ u[k] = s[k - Len(t)]
        BY <3>1, <3>2
      <4> QED BY <4>1
    <3>3. \A k \in DOMAIN u : k <= Len(t) => k \in DOMAIN t /\ u[k] = t[k]
      BY <3>1
    <3> QED BY <3>1, <3>2, <3>3
  <2>3. \A k \in DOMAIN t : NextCall(k, t[k])
    BY <1>2, <1>6, <1>10 DEF NextCall, Reaches, Begins, Ceases
  <2>4. Pushes(u)
    BY <1>2, <1>10, <2>1, ReturnPushes
  <2>5. \A k \in DOMAIN u : NextCall(k, u[k])
    BY <1>4, <2>2, <2>3
  <2> QED BY <2>2, <2>4, <2>5 DEF NextCalls
<1> QED BY <1>7, <1>8, <1>9, <1>10

\* Every handler but planTask() makes such calls.
LEMMA CallsOfStep ==
  ASSUME IndInv, CallsInv, IndexInv, Step, ~PlanTask PROVE NextCalls
<1>1. ASSUME \E frames \in Seq(CommonFrame) : Pushes(frames) PROVE NextCalls
  BY <1>1, CommonNext DEF NextCalls
<1>2. CASE \E i \in Created : \/ StartTaskInstance(i)
                              \/ EnqueueOrCancelPlanned(i)
                              \/ ReplaceTaskOrCancel(i)
  BY <1>1, <1>2, StartNext, CommonEach
<1> QED BY <1>1, <1>2, CommonSteps, CommonEnqueue, CancelNext, StoppedNext,
           FinishNext, HerdedNext DEF Step

\* What a step that does not plan changes of the instances.
StepMoves ==
  /\ stack # <<>> /\ UNCHANGED <<info, config, stopped>> /\ Created' = Created
  /\ Top.op \notin Loops \cup {"trigger"} => Top.id \in Created /\ Top.id \in Ids
  /\ \/ queue' = queue
     \/ Top.op = "queue" /\ queue \subseteq queue' /\ queue' \subseteq queue \cup {Top.id}
  /\ \/ start' = start
     \/ \E i \in Created :
          Top.op = "start" /\ Status(i) = "Queued" /\ start' = start \cup {i}
     \/ /\ Top.op = "finish" /\ Top.mark /\ Top.id \notin start
        /\ start' = start \cup {Top.id}
  /\ \/ stop' = stop
     \/ Top.op = "finish" /\ Top.id \notin start /\ stop' = stop \cup {Top.id}
  /\ finish' = finish \/ (Top.op = "finish" /\ finish' = finish \cup {Top.id})
  /\ Top.op # "finish" => success' = success
  /\ \A h \in Ids :
       \/ unfinishedHerdedTasks'[h] = unfinishedHerdedTasks[h]
       \/ Top.op = "forget" /\ h = Top.id
       \/ /\ Top.op = "herded" /\ h = info[Top.id].herdid
          /\ unfinishedHerdedTasks'[h] = unfinishedHerdedTasks[h] \ {Top.id}

\* Every handler but planTask() changes the instances in that way.
LEMMA MovesOfStep ==
  ASSUME IndInv, CallsInv, IndexInv, Step, ~PlanTask PROVE StepMoves
<1>1. /\ stack # <<>> /\ UNCHANGED <<info, config, stopped>> /\ Created' = Created
  <2>1. stack # <<>>
    BY DEF Step, Planned, EnqueueTaskInstance, Deduplicate, Dropped, Queue,
           DoCancelTaskInstance, DoAbortTaskInstance, Aborted, CancelOrAbortEach,
           TaskInstanceStoppedOrCanceled, Settle, TaskInstanceFinishedOrCanceled,
           Forget, Herded, StartTaskInstance, EnqueueOrCancelPlanned,
           ReplaceTaskOrCancel, LoopEnds, On
  <2>2. UNCHANGED <<info, config, stopped>>
    BY DEF Step, Planned, EnqueueTaskInstance, Deduplicate, Dropped, Queue,
           DoCancelTaskInstance, DoAbortTaskInstance, Aborted, CancelOrAbortEach,
           TaskInstanceStoppedOrCanceled, Settle, TaskInstanceFinishedOrCanceled,
           Forget, Herded, StartTaskInstance, EnqueueOrCancelPlanned,
           ReplaceTaskOrCancel, LoopEnds, instanceVars, settingVars, executionVars
  <2> QED BY <2>1, <2>2 DEF Created
<1>2. Top.op \notin Loops \cup {"trigger"} => Top.id \in Created /\ Top.id \in Ids
  BY <1>1, TopCall
<1>3. CASE /\ UNCHANGED <<instanceVars, unfinishedHerdedTasks>>
  BY <1>1, <1>2, <1>3 DEF StepMoves, instanceVars
<1>4. CASE Queue
  BY <1>1, <1>2, <1>4 DEF StepMoves, Queue, On, Top
<1>5. CASE TaskInstanceFinishedOrCanceled
  BY <1>1, <1>2, <1>5 DEF StepMoves, TaskInstanceFinishedOrCanceled, On, Top, indexVars
<1>6. CASE Forget
  <2>1. Top.op = "forget" /\ UNCHANGED instanceVars
    BY <1>6 DEF Forget, On, Top
  <2>2. \A h \in Ids : h # Top.id => unfinishedHerdedTasks'[h] = unfinishedHerdedTasks[h]
    BY <1>6, StepFacts DEF Forget
  <2> QED BY <1>1, <1>2, <2>1, <2>2 DEF StepMoves, instanceVars
<1>7. CASE Herded
  <2>1. Top.op = "herded" /\ UNCHANGED instanceVars
    BY <1>7 DEF Herded, On, Top
  <2>2. PICK h : h = info[Top.id].herdid
    OBVIOUS
  <2>3. \/ UNCHANGED unfinishedHerdedTasks
        \/ unfinishedHerdedTasks' =
             [unfinishedHerdedTasks EXCEPT ![h] = unfinishedHerdedTasks[h] \ {Top.id}]
    BY <1>7, <2>2 DEF Herded
  <2>4. \A g \in Ids :
          \/ unfinishedHerdedTasks'[g] = unfinishedHerdedTasks[g]
          \/ g = h /\ unfinishedHerdedTasks'[g] = unfinishedHerdedTasks[g] \ {Top.id}
    BY <2>3, StepFacts
  <2> QED BY <1>1, <1>2, <2>1, <2>2, <2>4 DEF StepMoves, instanceVars
<1>8. ASSUME NEW i \in Created, StartTaskInstance(i) PROVE StepMoves
  <2>1. Top.op = "start" /\ Status(i) = "Queued"
    BY <1>8, StartLoop
  <2>2. /\ UNCHANGED <<queue, stop, finish, success, unfinishedHerdedTasks>>
        /\ start' = start \/ start' = start \cup {i}
    BY <1>8 DEF StartTaskInstance, Launch, indexVars
  <2> QED BY <1>1, <1>2, <2>1, <2>2 DEF StepMoves
<1>9. CASE \/ Planned \/ EnqueueTaskInstance \/ Deduplicate \/ Dropped
           \/ DoCancelTaskInstance \/ DoAbortTaskInstance \/ Aborted
           \/ CancelOrAbortEach \/ TaskInstanceStoppedOrCanceled \/ Settle \/ LoopEnds
           \/ \E i \in Created : EnqueueOrCancelPlanned(i) \/ ReplaceTaskOrCancel(i)
  <2>1. UNCHANGED <<instanceVars, unfinishedHerdedTasks>>
    BY <1>9 DEF Planned, EnqueueTaskInstance, Deduplicate, Dropped,
                DoCancelTaskInstance, DoAbortTaskInstance, Aborted,
                CancelOrAbortEach, TaskInstanceStoppedOrCanceled, Settle, LoopEnds,
                EnqueueOrCancelPlanned, ReplaceTaskOrCancel, indexVars
  <2> QED BY <1>3, <2>1
<1> QED BY <1>4, <1>5, <1>6, <1>7, <1>8, <1>9 DEF Step

\* What comes after a step: a call that it makes, or one below the top.
LEMMA CallsAfter ==
  ASSUME IndInv, CallsInv, NEW frames \in Seq(CallFrame), Pushes(frames),
         NEW k \in DOMAIN stack', NEW g, g = stack'[k]
  PROVE  \/ k \in DOMAIN frames /\ g = frames[k]
         \/ \E n \in DOMAIN stack :
              n > 1 /\ k = n - 1 + Len(frames) /\ g = stack[n]
  BY NewStack

\* What a step keeps of the instances.
LEMMA MovesKeep ==
  ASSUME IndInv, CallsInv, StepMoves
  PROVE  /\ Created' = Created /\ info' = info /\ config' = config
         /\ queue \subseteq queue' /\ start \subseteq start'
         /\ stop \subseteq stop' /\ finish \subseteq finish'
         /\ Top = stack[1] /\ 1 \in DOMAIN stack
         /\ \A i : /\ IsHerder(i)' <=> IsHerder(i)
                   /\ NoWait(i)' <=> NoWait(i)
                   /\ Herd(i)' = Herd(i)
                   /\ ~Unstarted(i) => ~Unstarted(i)'
<1>1. /\ Created' = Created /\ info' = info /\ config' = config
      /\ queue \subseteq queue' /\ start \subseteq start'
      /\ stop \subseteq stop' /\ finish \subseteq finish' /\ stack # <<>>
  BY DEF StepMoves
<1>2. \A i : ~Unstarted(i) => ~Unstarted(i)'
  BY <1>1 DEF Unstarted
<1>3. \A i : /\ IsHerder(i)' <=> IsHerder(i)
             /\ NoWait(i)' <=> NoWait(i)
             /\ Herd(i)' = Herd(i)
  BY <1>1 DEF IsHerder, NoWait, TaskOf, Task, Herd, Created
<1>4. Top = stack[1] /\ 1 \in DOMAIN stack
  BY <1>1, TopCall
<1> QED BY <1>1, <1>2, <1>3, <1>4

\* The tasks of the lone actions of an instance.
LEMMA LoneHeads ==
  ASSUME IndInv
  PROVE  /\ \A t \in Tasks : \A acts \in AllActions(config, t) :
              /\ acts \in Seq(Action)
              /\ \A n \in DOMAIN acts : acts[n].lone => acts[n].task \in Heads
         /\ \A i \in Created : \A n \in DOMAIN FinishActions(i) :
              FinishActions(i)[n].lone => FinishActions(i)[n].task \in Heads
<1>1. config \in Configs /\ Task \in [Tasks -> TaskConfig] /\ Task = TasksOf[config]
  BY StepFacts DEF TypeOK, Task
<1>2. ASSUME NEW t \in Tasks, NEW acts \in AllActions(config, t)
      PROVE  /\ acts \in Seq(Action)
             /\ \A n \in DOMAIN acts : acts[n].lone => acts[n].task \in Heads
  <2>1. TasksOf[config][t] \in TaskConfig
    BY <1>1
  <2>2. acts \in Seq(Action)
    BY <1>2, <2>1 DEF AllActions, EndActions, TaskConfig
  <2>3. \A n \in DOMAIN acts : acts[n] \in Action
    BY <2>2
  <2> QED BY <1>1, <2>2, <2>3 DEF Heads, Action
<1>3. ASSUME NEW i \in Created, NEW n \in DOMAIN FinishActions(i),
             FinishActions(i)[n].lone
      PROVE  FinishActions(i)[n].task \in Heads
  <2>1. PICK a, b :
          /\ a = IF i \in success THEN TaskOf(i).onsuccess ELSE TaskOf(i).onfailure
          /\ b = IF i \in stderr THEN <<>> ELSE TaskOf(i).onnostderr
    OBVIOUS
  <2>2. info[i].task \in Tasks
    BY StepFacts
  <2>3. /\ a \in AllActions(config, info[i].task)
        /\ b = <<>> \/ b \in AllActions(config, info[i].task)
    BY <1>1, <2>1, <2>2 DEF AllActions, EndActions, TaskOf
  <2>4. /\ a \in Seq(Action) /\ b \in Seq(Action)
        /\ \A m \in DOMAIN a : a[m].lone => a[m].task \in Heads
        /\ \A m \in DOMAIN b : b[m].lone => b[m].task \in Heads
    BY <1>2, <2>2, <2>3, SeqClosed, Concats
  <2>5. PICK s : s = a \o b
    OBVIOUS
  <2>6. FinishActions(i) = s
    BY <2>1, <2>5 DEF FinishActions
  <2>7. /\ Len(s) = Len(a) + Len(b) /\ DOMAIN s = 1..Len(s)
        /\ Len(a) \in Nat /\ Len(b) \in Nat
        /\ DOMAIN a = 1..Len(a) /\ DOMAIN b = 1..Len(b)
        /\ \A m \in 1..(Len(a) + Len(b)) :
             s[m] = IF m <= Len(a) THEN a[m] ELSE b[m - Len(a)]
    BY <2>4, <2>5, ConcatProperties
  <2>8. CASE n <= Len(a)
    BY <1>3, <2>4, <2>6, <2>7, <2>8
  <2>9. CASE ~(n <= Len(a))
    <3>1. n - Len(a) \in DOMAIN b /\ s[n] = b[n - Len(a)]
      BY <2>6, <2>7, <2>9
    <3> QED BY <1>3, <2>4, <2>6, <3>1
  <2> QED BY <2>8, <2>9
<1> QED BY <1>2, <1>3

\* Where herders come from.
LEMMA HeadsStep ==
  ASSUME IndInv, CallsInv, HeadsHerd, StepMoves, NEW frames \in Seq(CallFrame),
         Pushes(frames), \A k \in DOMAIN frames : NextCall(k, frames[k])
  PROVE  HeadsHerd'
<1>1. \A h \in Created' : IsHerder(h)' => info'[h].task \in Heads
  BY MovesKeep DEF HeadsHerd
<1>2. ASSUME NEW k \in DOMAIN stack', NEW g, g = stack'[k], g.op = "trigger",
             NEW n \in DOMAIN g.acts, g.acts[n].lone \/ g.id = 0
      PROVE  g.acts[n].task \in Heads
  <2>1. CASE \E m \in DOMAIN stack : g = stack[m]
    BY <1>2, <2>1 DEF HeadsHerd
  <2>2. CASE k \in DOMAIN frames /\ g = frames[k]
    <3>1. Begins(k, g)
      BY <2>2 DEF NextCall
    <3>2. \/ Top.op \in {"stopped", "finish"} /\ g.id = Top.id
             /\ g.acts = FinishActions(g.id)
          \/ g.id \in Created /\ g.acts = TaskOf(g.id).onstart
      BY <1>2, <3>1 DEF Begins
    <3>3. g.id \in Created
      <4>1. Top.op \in {"stopped", "finish"} => Top.id \in Created
        BY DEF StepMoves, Loops
      <4> QED BY <3>2, <4>1
    <3>4. g.id # 0 /\ info[g.id].task \in Tasks
      BY <3>3, StepFacts
    <3>5. TaskOf(g.id).onstart \in AllActions(config, info[g.id].task)
      BY DEF TaskOf, Task, AllActions
    <3> QED BY <1>2, <3>2, <3>3, <3>4, <3>5, LoneHeads
  <2> QED BY <1>2, <2>1, <2>2, CallsAfter
<1> QED BY <1>1, <1>2 DEF HeadsHerd

\* Instances of a herd follow their herder.
LEMMA FollowsStep ==
  ASSUME IndInv, CallsInv, IndexInv, HerdFollows, MarkedQueued, StepMoves
  PROVE  HerdFollows'
<1> SUFFICES ASSUME NEW j \in Created, ~IsHerder(j), j \in queue' \cup start'
             PROVE  ~Unstarted(info[j].herdid)
  BY MovesKeep DEF HerdFollows
<1>1. CASE j \in queue \cup start
  BY <1>1 DEF HerdFollows
<1>2. CASE Top.op = "queue" /\ j = Top.id
  BY <1>2, MovesKeep DEF IndexInv, Ready
<1>3. CASE Status(j) = "Queued"
  BY <1>3 DEF HerdFollows, Status
<1>4. CASE Top.mark /\ j = Top.id
  BY <1>4, MovesKeep DEF HerdFollows, MarkedQueued
<1> QED BY <1>1, <1>2, <1>3, <1>4 DEF StepMoves

\* What is marked.
LEMMA MarkedStep ==
  ASSUME IndInv, CallsInv, MarkedQueued, StepMoves, NEW frames \in Seq(CallFrame),
         Pushes(frames), \A k \in DOMAIN frames : NextCall(k, frames[k])
  PROVE  MarkedQueued'
<1> SUFFICES ASSUME NEW k \in DOMAIN stack', NEW g, g = stack'[k], g.mark
             PROVE  /\ g.id \in queue'
                    /\ IsHerder(g.id) \/ (k = 1 /\ Unstarted(g.id)')
  BY MovesKeep DEF MarkedQueued
<1>1. CASE \E n \in DOMAIN stack : n > 1 /\ g = stack[n]
  BY <1>1, MovesKeep DEF MarkedQueued
<1>2. CASE k \in DOMAIN frames /\ g = frames[k]
  <2>1. Ceases(k, g)
    BY <1>2 DEF NextCall
  <2>2. CASE /\ Top.op \in {"stopped", "settle"} /\ Top.mark /\ g.id = Top.id
             /\ k = 1 \/ IsHerder(g.id)
    <3>1. /\ g.id \in queue
          /\ IsHerder(g.id) \/ Unstarted(g.id)
      BY <2>2, MovesKeep DEF MarkedQueued
    <3>2. UNCHANGED <<start, stop, finish>>
      BY <2>2 DEF StepMoves
    <3> QED BY <2>2, <3>1, <3>2, MovesKeep DEF Unstarted
  <2>3. CASE k = 1 /\ Status(g.id) = "Queued" /\ Unstarted(g.id)'
    BY <2>3, MovesKeep DEF Status
  <2> QED BY <2>1, <2>2, <2>3 DEF Ceases
<1> QED BY <1>1, <1>2, CallsAfter

\* How instances of a herd end.
LEMMA HerdedStep ==
  ASSUME IndInv, CallsInv, HerdedEndOnce, StepMoves, NEW frames \in Seq(CallFrame),
         Pushes(frames), \A k \in DOMAIN frames : NextCall(k, frames[k])
  PROVE  HerdedEndOnce'
<1>1. ASSUME NEW k \in DOMAIN stack', NEW g, g = stack'[k],
             g.op \in {"stopped", "finish"}, ~IsHerder(g.id)
      PROVE  k = 1 /\ g.id \notin finish' \cup stopped'
  <2>1. CASE \E n \in DOMAIN stack : n > 1 /\ g = stack[n]
    BY <1>1, <2>1 DEF HerdedEndOnce
  <2>2. CASE k \in DOMAIN frames /\ g = frames[k]
    <3>1. Ceases(k, g)
      BY <2>2 DEF NextCall
    <3>2. CASE g.op = "stopped"
      <4>1. k = 1 /\ Unstarted(g.id) /\ Unstarted(g.id)'
        BY <1>1, <3>1, <3>2 DEF Ceases
      <4>2. stopped \subseteq start /\ stopped' = stopped
        BY StepFacts DEF IndInv, ExecutorKnown, TypeOK, StepMoves
      <4> QED BY <4>1, <4>2 DEF Unstarted
    <3>3. CASE g.op = "finish"
      <4>1. k = 1 /\ Top.op = "stopped" /\ g.id = Top.id
        BY <1>1, <3>1, <3>3 DEF Ceases
      <4>2. UNCHANGED <<finish, stopped>>
        BY <4>1 DEF StepMoves
      <4> QED BY <1>1, <4>1, <4>2, MovesKeep DEF HerdedEndOnce
    <3> QED BY <1>1, <3>2, <3>3
  <2> QED BY <2>1, <2>2, CallsAfter, <1>1
<1>2. ASSUME NEW i \in stopped', ~IsHerder(i)
      PROVE  i \notin finish'
  <2>1. i \in stopped /\ i \notin finish
    BY <1>2 DEF HerdedEndOnce, StepMoves
  <2>2. ~(Top.op = "finish" /\ Top.id = i)
    BY <1>2, <2>1, MovesKeep DEF HerdedEndOnce
  <2> QED BY <2>1, <2>2 DEF StepMoves
<1> QED BY <1>1, <1>2, MovesKeep DEF HerdedEndOnce

\* How herders finish.
LEMMA HerderStep ==
  ASSUME IndInv, CallsInv, HerdersFinish, StepMoves, NEW frames \in Seq(CallFrame),
         Pushes(frames), \A k \in DOMAIN frames : NextCall(k, frames[k])
  PROVE  HerdersFinish'
<1> SUFFICES ASSUME NEW k \in DOMAIN stack', NEW g, g = stack'[k],
                    g.op = "finish", IsHerder(g.id)
             PROVE  k = 1 /\ AwaitsNone(g.id)'
  BY MovesKeep DEF HerdersFinish
<1>1. CASE \E n \in DOMAIN stack : n > 1 /\ g = stack[n]
  BY <1>1 DEF HerdersFinish
<1>2. CASE k \in DOMAIN frames /\ g = frames[k]
  <2>1. /\ k = 1
        /\ \/ g.id \in finish \/ unfinishedHerdedTasks'[g.id] = {}
           \/ NoWait(g.id)
    BY <1>2 DEF NextCall, Ceases
  <2> QED BY <2>1, MovesKeep DEF AwaitsNone
<1> QED BY <1>1, <1>2, CallsAfter

\* An unfinished herder has its herd in memory, and waits for what is not
\* finished of it.
LEMMA HerdAwaits ==
  ASSUME IndInv, CallsInv, IndexInv, NEW h \in Created, h \notin finish
  PROVE  /\ h \in unfinishedTasks /\ h \in Ids
         /\ HerdedTasks(h) = Herd(h) /\ unfinishedHerds[h] = Herd(h)
         /\ \A j \in Herd(h) : /\ j \in Created /\ ~IsHerder(j) /\ j # h
                               /\ info[j].herdid = h
                               /\ j \notin finish => j \in unfinishedHerdedTasks[h]
<1>1. h \in unfinishedTasks /\ h \in Ids
  BY StepFacts DEF CallsInv, Remembered
<1>2. \A j \in Herd(h) : j \in Created /\ ~IsHerder(j) /\ j # h /\ info[j].herdid = h
  BY DEF Herd, IsHerder
<1>3. Herd(h) \subseteq unfinishedHerds[h]
  BY <1>1, <1>2 DEF IndexInv, Shelved
<1>4. unfinishedHerds[h] \subseteq Herd(h)
  BY <1>1 DEF CallsInv, Herds, Herd
<1>5. unfinishedHerds[h] \subseteq unfinishedTasks
  BY <1>1 DEF IndexInv, Shelved
<1>6. \A j \in Herd(h) : j \notin finish => j \in unfinishedHerdedTasks[h]
  BY <1>1, <1>3 DEF IndexInv, AwaitedExact
<1> QED BY <1>1, <1>2, <1>3, <1>4, <1>5, <1>6 DEF HerdedTasks

\* A herder that finishes for the first time has a finished herd; if it was
\* canceled nothing of the herd has started.
LEMMA FirstFinish ==
  ASSUME IndInv, CallsInv, IndexInv, HerdersFinish, HerdFollows, StepMoves,
         NEW h \in finish', h \notin finish, IsHerder(h), ~NoWait(h)
  PROVE  /\ Top.op = "finish" /\ Top.id = h /\ h \in Created
         /\ Herd(h) \subseteq finish
         /\ h \notin start => Herd(h) \cap start = {}
<1>1. Top.op = "finish" /\ Top.id = h /\ h \in Created
  BY DEF StepMoves, Loops
<1>2. unfinishedHerdedTasks[h] = {}
  BY <1>1, MovesKeep DEF HerdersFinish, AwaitsNone
<1>3. \A j \in Herd(h) : j \in finish /\ ~IsHerder(j) /\ j \in Created /\ info[j].herdid = h
  BY <1>1, <1>2, HerdAwaits
<1>4. h \notin start => Unstarted(h)
  BY DEF CallsInv, Timestamps, Unstarted
<1> QED BY <1>1, <1>3, <1>4 DEF HerdFollows

\* Herders that were canceled.
LEMMA NeverStep ==
  ASSUME IndInv, CallsInv, IndexInv, HerdersFinish, HerdFollows, MarkedQueued,
         HerdNeverStarts, HerderOutlivesHerd, StepMoves
  PROVE  HerdNeverStarts'
<1> SUFFICES ASSUME NEW h \in finish', h \notin start', IsHerder(h), ~NoWait(h),
                    NEW j \in Herd(h), j \in start'
             PROVE  FALSE
  BY MovesKeep DEF HerdNeverStarts
<1>1. h \notin start /\ j \in Created /\ ~IsHerder(j)
  BY MovesKeep DEF Herd, IsHerder
<1>2. CASE h \in finish
  <2>1. j \notin start /\ j \in finish
    BY <1>1, <1>2 DEF HerdNeverStarts, HerderOutlivesHerd, NoWait
  <2>2. \/ Status(j) = "Queued"
        \/ Top.mark /\ Top.id = j
    BY <2>1 DEF StepMoves
  <2>3. Top.mark /\ Top.id = j => j \notin finish
    BY <1>1, MovesKeep DEF MarkedQueued, Unstarted
  <2> QED BY <2>1, <2>2, <2>3 DEF Status
<1>3. CASE h \notin finish
  <2>1. Top.op = "finish" /\ Top.id = h /\ j \notin start
    BY <1>1, <1>3, FirstFinish
  <2>2. start' = start \/ start' = start \cup {h}
    BY <2>1 DEF StepMoves
  <2> QED BY <2>1, <2>2, <1>1
<1> QED BY <1>2, <1>3

\* A herder ends after its herd.
LEMMA OutlivesStep ==
  ASSUME IndInv, CallsInv, IndexInv, HerdersFinish, HerdFollows, HerderOutlivesHerd,
         StepMoves
  PROVE  HerderOutlivesHerd'
<1> SUFFICES ASSUME NEW h \in finish', IsHerder(h), ~NoWait(h)
             PROVE  Herd(h) \subseteq finish'
  <2>1. \A h : NoWait(h)' <=> TaskOf(h)'.herdingPolicy = "NoWait"
    BY DEF NoWait
  <2> QED BY <2>1, MovesKeep DEF HerderOutlivesHerd
<1>1. CASE h \in finish
  BY <1>1, MovesKeep DEF HerderOutlivesHerd, NoWait
<1>2. CASE h \notin finish
  BY <1>2, FirstFinish, MovesKeep
<1> QED BY <1>1, <1>2

\* What the policy of herder h promises.
Honoured(h) ==
  LET policy == TaskOf(h).herdingPolicy
      good == Status(h) = "Success"
  IN  /\ policy = "AllSuccess" /\ good => \A i \in Herd(h) : Status(i) = "Success"
      /\ policy = "NoFailure" /\ good => \A i \in Herd(h) : Status(i) # "Failure"
      /\ policy = "OneSuccess" =>
           (good <=> \E i \in Herd(h) : Status(i) = "Success")

\* The policies are honoured when each herder honours its own.
LEMMA HonouredPolicies ==
  /\ PolicyHonoured <=>
       \A h \in finish \cap start : IsHerder(h) /\ Herd(h) # {} => Honoured(h)
  /\ PolicyHonoured' <=>
       \A h \in finish' \cap start' : IsHerder(h)' /\ Herd(h)' # {} => Honoured(h)'
  /\ \A h : NoWait(h) => Honoured(h)
  /\ \A h : NoWait(h)' => Honoured(h)'
<1>1. \A h : NoWait(h) => Honoured(h)
  BY DEF Honoured, NoWait
<1>2. \A h : NoWait(h)' => Honoured(h)'
  BY DEF Honoured, NoWait
<1>3. PolicyHonoured <=>
        \A h \in finish \cap start : IsHerder(h) /\ Herd(h) # {} => Honoured(h)
  BY DEF PolicyHonoured, Honoured
<1>4. PolicyHonoured' <=>
        \A h \in finish' \cap start' : IsHerder(h)' /\ Herd(h)' # {} => Honoured(h)'
  BY DEF PolicyHonoured, Honoured
<1> QED BY <1>1, <1>2, <1>3, <1>4

\* The policy of a herder is honoured as long as the statuses are the same.
LEMMA HonouredStill ==
  ASSUME NEW h, Honoured(h), Herd(h)' = Herd(h),
         TaskOf(h)'.herdingPolicy = TaskOf(h).herdingPolicy,
         (Status(h)' = "Success") <=> (Status(h) = "Success"),
         \A j \in Herd(h) : Status(j)' = Status(j)
  PROVE  Honoured(h)'
BY DEF Honoured

\* Policies, when the call on top of the stack finishes an instance.
LEMMA PolicyFinish ==
  ASSUME IndInv, CallsInv, IndexInv, PromiseInv, StepMoves,
         TaskInstanceFinishedOrCanceled
  PROVE  PolicyHonoured'
<1>1. PICK i : i = Top.id
  OBVIOUS
<1>2. /\ Top.op = "finish" /\ i \in Created /\ ~On("forget")
      /\ finish' = finish \cup {i}
      /\ \/ /\ i \notin start /\ success' = success \ {i}
            /\ start' = start \/ start' = start \cup {i}
            /\ stop' = stop \cup {i}
         \/ /\ i \in start /\ start' = start /\ stop' = stop
            /\ success' = IF HerderSuccess(i) THEN success \cup {i} ELSE success \ {i}
  <2>1. Top.op = "finish" /\ ~On("forget")
    BY DEF TaskInstanceFinishedOrCanceled, On, Top
  <2> QED BY <1>1, <2>1 DEF TaskInstanceFinishedOrCanceled, StepMoves, Loops
<1>3. \A j : j # i => Status(j)' = Status(j)
  <2>1. \A j : j # i => /\ (j \in finish' <=> j \in finish)
                        /\ (j \in stop' <=> j \in stop)
                        /\ (j \in start' <=> j \in start)
                        /\ (j \in success' <=> j \in success)
    BY <1>2
  <2>2. queue' = queue
    BY DEF TaskInstanceFinishedOrCanceled
  <2> QED BY <2>1, <2>2 DEF Status
<1> SUFFICES ASSUME NEW h \in finish', h \in start', IsHerder(h), Herd(h) # {},
                    ~NoWait(h)
             PROVE  Honoured(h)'
  BY HonouredPolicies, MovesKeep
<1>4. TaskOf(h)' = TaskOf(h) /\ Herd(h)' = Herd(h)
  BY MovesKeep DEF TaskOf, Task
<1>5. ASSUME h # i PROVE Honoured(h)'
  <2>1. h \in finish \cap start
    BY <1>2, <1>5
  <2>2. Honoured(h)
    BY <2>1, HonouredPolicies DEF PromiseInv, HerderKeepsPromise
  <2>3. i \notin Herd(h)
    <3>1. i \in Herd(h) => ~IsHerder(i) /\ i \in finish
      BY <2>1 DEF Herd, IsHerder, PromiseInv, HerderKeepsPromise,
                  HerderOutlivesHerd, NoWait
    <3>2. ~IsHerder(i) => i \notin finish
      BY <1>1, <1>2, MovesKeep DEF PromiseInv, HerdedEndOnce
    <3> QED BY <3>1, <3>2
  <2>4. \A j \in Herd(h) : Status(j)' = Status(j)
    BY <1>3, <2>3
  <2>5. Status(h)' = Status(h)
    BY <1>3, <1>5
  <2> QED BY <1>4, <2>2, <2>4, <2>5, HonouredStill
<1>6. ASSUME h = i, h \in start, h \in finish PROVE Honoured(h)'
  <2>1. Honoured(h)
    BY <1>6, HonouredPolicies DEF PromiseInv, HerderKeepsPromise
  <2>2. HerderSuccess(h) <=> h \in success
    BY <1>2, <1>6, NoHerdLeft
  <2>3. h \in success' <=> h \in success
    BY <1>2, <1>6, <2>2
  <2>4. Status(h)' = Status(h)
    BY <1>2, <1>6, <2>3 DEF Status
  <2>5. \A j \in Herd(h) : Status(j)' = Status(j)
    BY <1>3, <1>6 DEF Herd
  <2> QED BY <1>4, <2>1, <2>4, <2>5, HonouredStill
<1>7. ASSUME h = i, h \notin start PROVE Honoured(h)'
  <2>1. Herd(h) \cap start = {}
    <3>1. CASE h \in finish
      BY <1>7, <3>1 DEF PromiseInv, HerdNeverStarts
    <3>2. CASE h \notin finish
      BY <1>7, <3>2, FirstFinish DEF PromiseInv
    <3> QED BY <3>1, <3>2
  <2>2. Status(h)' # "Success"
    BY <1>2, <1>7 DEF Status
  <2>3. \A j \in Herd(h) : Status(j)' # "Success"
    BY <1>3, <1>7, <2>1 DEF Herd, Status
  <2> QED BY <1>4, <2>2, <2>3 DEF Honoured
<1>8. ASSUME h = i, h \in start, h \notin finish PROVE Honoured(h)'
  <2>1. HerdedTasks(h) = Herd(h) /\ h \in Created
    BY <1>2, <1>8, HerdAwaits
  <2>2. \A j \in Herd(h) : Status(j)' = Status(j)
    BY <1>3, <1>8 DEF Herd
  <2>3. Status(h)' = "Success" <=> HerderSuccess(h)
    BY <1>2, <1>8 DEF Status
  <2>4. PICK policy : policy = TaskOf(h).herdingPolicy
    OBVIOUS
  <2>5. /\ policy = "AllSuccess" /\ HerderSuccess(h) =>
             \A j \in Herd(h) : Status(j) = "Success"
        /\ policy = "NoFailure" /\ HerderSuccess(h) =>
             \A j \in Herd(h) : Status(j) # "Failure"
        /\ policy = "OneSuccess" =>
             (HerderSuccess(h) <=> \E j \in Herd(h) : Status(j) = "Success")
    BY <2>1, <2>4 DEF HerderSuccess
  <2> QED BY <1>4, <2>2, <2>3, <2>4, <2>5 DEF Honoured
<1> QED BY <1>5, <1>6, <1>7, <1>8

\* Policies, when it finishes none.
LEMMA PolicyStep ==
  ASSUME IndInv, CallsInv, IndexInv, PromiseInv, StepMoves, Top.op # "finish"
  PROVE  PolicyHonoured'
<1>1. /\ UNCHANGED <<finish, stop, success>>
      /\ start' = start \/ \E i \in Created : Status(i) = "Queued" /\ start' = start \cup {i}
  BY DEF StepMoves
<1>2. \A j \in finish : Status(j)' = Status(j) /\ (j \in start' <=> j \in start)
  BY <1>1 DEF Status
<1> SUFFICES ASSUME NEW h \in finish', h \in start', IsHerder(h), Herd(h) # {},
                    ~NoWait(h)
             PROVE  Honoured(h)'
  BY HonouredPolicies, MovesKeep
<1>3. h \in finish \cap start
  BY <1>1, <1>2
<1>4. Honoured(h)
  BY <1>3, HonouredPolicies DEF PromiseInv, HerderKeepsPromise
<1>5. TaskOf(h)' = TaskOf(h) /\ Herd(h)' = Herd(h)
  BY MovesKeep DEF TaskOf, Task
<1>6. Herd(h) \subseteq finish
  BY <1>3 DEF PromiseInv, HerderKeepsPromise, HerderOutlivesHerd, NoWait
<1> QED BY <1>2, <1>3, <1>4, <1>5, <1>6, HonouredStill

\* What a step does not reach stays guarded.
LEMMA GuardKept ==
  ASSUME IndInv, CallsInv, StepMoves, NEW frames \in Seq(CallFrame),
         Pushes(frames), \A k \in DOMAIN frames : NextCall(k, frames[k]),
         NEW n \in DOMAIN stack, n > 1, NEW j, Guarded(n, j), ~WithinReach(j),
         NEW k, k = n - 1 + Len(frames)
  PROVE  Guarded(k, j)'
<1>1. /\ Len(frames) \in Nat /\ DOMAIN frames = 1..Len(frames)
      /\ DOMAIN stack = 1..Len(stack) /\ Len(stack) \in Nat /\ n \in Nat
      /\ k \in DOMAIN stack' /\ DOMAIN stack' = 1..Len(stack') /\ Len(stack') \in Nat
  BY NewStack
<1>2. /\ Top.op \notin EventOps /\ j \notin Touches(Top)
      /\ Top.op \in {"herded", "forget"} => Top.id # j
  <2>1. 1 \in 1..(n - 1)
    BY <1>1
  <2> QED BY <2>1, MovesKeep DEF Guarded
<1>3. j \in Created' /\ Status(j)' # "Queued"
  <2>1. j \in Created /\ Status(j) # "Queued"
    BY DEF Guarded
  <2>2. Top.op = "queue" => Top.id # j
    BY <1>2 DEF Touches
  <2>3. j \in queue' => j \in queue
    BY <2>2 DEF StepMoves
  <2> QED BY <2>1, <2>3, MovesKeep DEF Status
<1>4. ASSUME NEW m \in 1..(k - 1), NEW g, g = stack'[m]
      PROVE  /\ g.op \notin EventOps /\ j \notin Touches(g)
             /\ g.op \in {"herded", "forget"} => g.id # j
  <2>1. m \in DOMAIN stack'
    BY <1>1
  <2>2. CASE m \in DOMAIN frames /\ g = frames[m]
    <3>1. Reaches(g) /\ j \in Created
      BY <2>2 DEF NextCall, Guarded
    <3> QED BY <1>2, <3>1 DEF Reaches
  <2>3. ASSUME NEW l \in DOMAIN stack, l > 1, m = l - 1 + Len(frames), g = stack[l]
        PROVE  /\ g.op \notin EventOps /\ j \notin Touches(g)
               /\ g.op \in {"herded", "forget"} => g.id # j
    <3>1. l \in 1..(n - 1)
      BY <1>1, <2>3
    <3> QED BY <2>3, <3>1 DEF Guarded
  <2> QED BY <1>4, <2>1, <2>2, <2>3, CallsAfter
<1> QED BY <1>3, <1>4 DEF Guarded, Touches, EventOps

\* A herd that is planned in stays guarded.
LEMMA InTimeKept ==
  ASSUME IndInv, CallsInv, IndexInv, StepMoves, NEW frames \in Seq(CallFrame),
         Pushes(frames), \A k \in DOMAIN frames : NextCall(k, frames[k]),
         NEW n \in DOMAIN stack, n > 1, NEW p, InTime(n, p),
         NEW k, k = n - 1 + Len(frames)
  PROVE  InTime(k, p)'
<1>1. PICK h : h = info[p].herdid
  OBVIOUS
<1>2. /\ p \in Created /\ h \in Created /\ IsHerder(h) /\ info[h].herdid = h
      /\ Guarded(n, p) /\ Guarded(n, h) /\ h \notin finish
      /\ p # h => p \in unfinishedHerdedTasks[h]
      /\ p = h => \A j \in Herd(h) : Guarded(n, j)
  <2>1. /\ Guarded(n, p) /\ Guarded(n, h) /\ h \notin finish
        /\ p # h => p \in unfinishedHerdedTasks[h]
        /\ p = h => \A j \in Herd(h) : Guarded(n, j)
    BY <1>1 DEF InTime, Sheltered
  <2>2. p \in Created /\ h \in Created
    BY <2>1 DEF Guarded
  <2>3. IsHerder(h)
    BY <1>1, <2>2 DEF CallsInv, Herds
  <2> QED BY <2>1, <2>2, <2>3 DEF IsHerder
<1>3. \A j : Guarded(n, j) => /\ j \notin Touches(Top) /\ Status(j) # "Queued"
                              /\ Top.op \in {"herded", "forget"} => Top.id # j
  <2>1. 1 \in 1..(n - 1)
    BY NewStack
  <2> QED BY <2>1, MovesKeep DEF Guarded
<1>4. ASSUME Top.op = "herded", h = info[Top.id].herdid,
             unfinishedHerdedTasks[h] \subseteq {Top.id}
      PROVE  FALSE
  <2>1. Top.id \in Created /\ ~IsHerder(Top.id)
    BY <1>4, MovesKeep DEF StepMoves, Loops, IndexInv, Told
  <2>2. Top.id \in Herd(h)
    BY <1>2, <1>4, <2>1 DEF Herd, IsHerder
  <2>3. Top.id = p \/ (p = h /\ Guarded(n, Top.id))
    BY <1>2, <1>4, <2>2
  <2> QED BY <1>2, <1>3, <1>4, <2>3
<1>5. \A j \in Herd(h) \cup {p, h} :
        Guarded(n, j) => ~WithinReach(j)
  <2> SUFFICES ASSUME NEW j \in Herd(h) \cup {p, h}, Guarded(n, j), WithinReach(j)
               PROVE  FALSE
    OBVIOUS
  <2>1. info[j].herdid = h /\ j \in Created
    BY <1>1, <1>2 DEF Herd
  <2>2. /\ Top.op = "herded" /\ j = info[Top.id].herdid
        /\ unfinishedHerdedTasks[j] \subseteq {Top.id}
    BY <1>2, <1>3, <2>1 DEF WithinReach
  <2>3. Top.id \in Created
    BY <2>2 DEF StepMoves, Loops
  <2>4. IsHerder(j)
    BY <2>2, <2>3 DEF CallsInv, Herds
  <2> QED BY <1>4, <2>1, <2>2, <2>4 DEF IsHerder
<1>6. \A j \in Herd(h) \cup {p, h} : Guarded(n, j) => Guarded(k, j)'
  BY <1>5, GuardKept
<1>7. h \notin finish'
  <2>1. Top.op = "finish" => Top.id # h
    BY <1>2, <1>3 DEF Touches
  <2> QED BY <1>2, <2>1 DEF StepMoves
<1>8. p # h => p \in unfinishedHerdedTasks'[h]
  <2>1. h \in Ids
    BY <1>2, StepFacts
  <2>2. \/ unfinishedHerdedTasks'[h] = unfinishedHerdedTasks[h]
        \/ Top.op = "forget" /\ h = Top.id
        \/ /\ Top.op = "herded"
           /\ unfinishedHerdedTasks'[h] = unfinishedHerdedTasks[h] \ {Top.id}
    BY <2>1 DEF StepMoves
  <2> QED BY <1>2, <1>3, <2>2
<1>9. info' = info /\ Herd(h)' = Herd(h)
  BY MovesKeep
<1>10. Sheltered(k, p)' /\ (p = h => \A j \in Herd(h) : Sheltered(k, j)')
  <2>1. \A j \in Herd(h) : info[j].herdid = h
    BY DEF Herd
  <2>2. \A j \in Herd(h) \cup {p} : Guarded(k, j)' /\ Guarded(k, h)' => Sheltered(k, j)'
    BY <1>1, <1>9, <2>1 DEF Sheltered
  <2> QED BY <1>2, <1>6, <2>2
<1> QED BY <1>1, <1>7, <1>8, <1>9, <1>10 DEF InTime

\* Herders plan nothing in their herd when they end.
LEMMA HeadsFinishLone ==
  ASSUME IndInv, HerdersFinishLone, NEW i \in Created, info[i].task \in Heads
  PROVE  LoneActions(FinishActions(i))
<1>1. PICK a, b :
        /\ a = IF i \in success THEN TaskOf(i).onsuccess ELSE TaskOf(i).onfailure
        /\ b = IF i \in stderr THEN <<>> ELSE TaskOf(i).onnostderr
  OBVIOUS
<1>2. config \in Configs /\ info[i].task \in Tasks /\ TaskOf(i) \in TaskConfig
  BY StepFacts DEF TypeOK
<1>3. a \in Seq(Action) /\ b \in Seq(Action)
  BY <1>1, <1>2, SeqClosed DEF TaskConfig
<1>4. a \in EndActions(config, info[i].task)
      /\ (b = <<>> \/ b \in EndActions(config, info[i].task))
  BY <1>1 DEF EndActions, TaskOf, Task
<1>5. LoneActions(a) /\ LoneActions(b)
  <2>1. \A acts \in EndActions(config, info[i].task) : LoneActions(acts)
    BY <1>2 DEF HerdersFinishLone
  <2>2. LoneActions(<<>>)
    BY Concats DEF LoneActions
  <2> QED BY <1>4, <2>1, <2>2
<1>6. PICK s : s = a \o b
  OBVIOUS
<1>7. FinishActions(i) = s
  BY <1>1, <1>6 DEF FinishActions
<1>8. /\ Len(s) = Len(a) + Len(b) /\ DOMAIN s = 1..Len(s)
      /\ Len(a) \in Nat /\ Len(b) \in Nat
      /\ DOMAIN a = 1..Len(a) /\ DOMAIN b = 1..Len(b)
      /\ \A m \in 1..(Len(a) + Len(b)) :
           s[m] = IF m <= Len(a) THEN a[m] ELSE b[m - Len(a)]
  BY <1>3, <1>6, ConcatProperties
<1>9. ASSUME NEW n \in DOMAIN s PROVE s[n].lone
  <2>1. CASE n <= Len(a)
    BY <1>5, <1>8, <1>9, <2>1 DEF LoneActions
  <2>2. CASE ~(n <= Len(a))
    <3>1. n - Len(a) \in DOMAIN b /\ s[n] = b[n - Len(a)]
      BY <1>8, <1>9, <2>2
    <3> QED BY <1>5, <3>1 DEF LoneActions
  <2> QED BY <2>1, <2>2
<1> QED BY <1>7, <1>9 DEF LoneActions

\* The actions that a step begins are planned in time.
LEMMA BeginsInTime ==
  ASSUME IndInv, CallsInv, IndexInv, PromiseInv, HerdersFinishLone, StepMoves,
         NEW k, NEW f, Begins(k, f), f.op = "trigger", ~LoneActions(f.acts),
         NEW p, p = f.id
  PROVE  NoWait(info[p].herdid) \/ InTime(k, p)'
<1>1. PICK h : h = info[p].herdid
  OBVIOUS
<1> SUFFICES ASSUME ~NoWait(h) PROVE InTime(k, p)'
  BY <1>1
<1>2. p \in Created
  <2>1. Top.op \in {"stopped", "finish"} => Top.id \in Created
    BY DEF StepMoves, Loops
  <2> QED BY <2>1 DEF Begins
<1>3. h \in Created /\ IsHerder(h) /\ info[h].herdid = h
  BY <1>1, <1>2, StepFacts DEF CallsInv, Herds, IsHerder
<1>4. k = 1 /\ p \in start'
  <2>1. ~(IsHerder(p) /\ f.acts = FinishActions(p))
    BY <1>2, HeadsFinishLone DEF PromiseInv, HeadsHerd
  <2> QED BY <2>1, MovesKeep DEF Begins
<1>5. \A j \in Created : Status(j)' # "Queued" => Guarded(k, j)'
  BY <1>4, MovesKeep DEF Guarded
<1>6. Status(p)' # "Queued"
  BY <1>4 DEF Status
<1>7. \/ Top.op = "finish" /\ ~IsHerder(p) /\ p = Top.id /\ p \in start
      \/ Top.op = "start" /\ Status(p) = "Queued"
  <2>1. ~(IsHerder(p) /\ f.acts = FinishActions(p))
    BY <1>2, HeadsFinishLone DEF PromiseInv, HeadsHerd
  <2> QED BY <2>1 DEF Begins
<1>8. CASE p = h
  <2>1. Top.op = "start" /\ Status(p) = "Queued"
    BY <1>1, <1>7, <1>8 DEF IsHerder
  <2>2. UNCHANGED <<finish, stop, queue>> /\ h \notin finish
    BY <1>8, <2>1 DEF StepMoves, Status
  <2>3. Unstarted(h)
    BY <1>8, <2>1 DEF Status, Unstarted
  <2>4. ASSUME NEW j \in Herd(h) PROVE Status(j)' # "Queued" /\ j \in Created /\ info[j].herdid = h
    <3>1. j \in Created /\ ~IsHerder(j) /\ info[j].herdid = h
      BY DEF Herd, IsHerder
    <3>2. j \notin queue
      BY <2>3, <3>1 DEF PromiseInv, HerdFollows
    <3> QED BY <2>2, <3>1, <3>2 DEF Status
  <2>5. info' = info /\ Herd(h)' = Herd(h)
    BY MovesKeep
  <2>6. \A j \in Herd(h) : Sheltered(k, j)'
    BY <1>2, <1>5, <1>6, <1>8, <2>4, <2>5 DEF Sheltered
  <2>7. Sheltered(k, p)'
    BY <1>1, <1>2, <1>5, <1>6, <1>8, <2>5 DEF Sheltered
  <2> QED BY <1>1, <1>8, <2>2, <2>5, <2>6, <2>7 DEF InTime
<1>9. CASE p # h
  <2>1. ~IsHerder(p)
    BY <1>1, <1>9 DEF IsHerder
  <2>2. p \in queue \cup start
    BY <1>7 DEF Status
  <2>3. ~Unstarted(h)
    BY <1>1, <1>2, <2>1, <2>2 DEF PromiseInv, HerdFollows
  <2>4. p \notin finish
    <3>1. Top.op = "finish" /\ p = Top.id => p \notin finish
      BY <2>1, MovesKeep DEF PromiseInv, HerdedEndOnce
    <3> QED BY <1>7, <3>1 DEF Status
  <2>5. p \in Herd(h)
    BY <1>1, <1>2, <1>9 DEF Herd
  <2>6. h \notin finish
    BY <1>3, <2>4, <2>5 DEF PromiseInv, HerderKeepsPromise, HerderOutlivesHerd, NoWait
  <2>7. h \in Ids /\ p \in unfinishedHerdedTasks[h]
    BY <1>3, <2>4, <2>5, <2>6, HerdAwaits
  <2>8. h \notin finish' /\ p \in unfinishedHerdedTasks'[h]
    BY <1>7, <1>9, <2>6, <2>7 DEF StepMoves
  <2>9. Status(h)' # "Queued"
    BY <2>3, MovesKeep DEF Status, Unstarted
  <2>10. info' = info
    BY MovesKeep
  <2>11. Sheltered(k, p)'
    BY <1>1, <1>2, <1>3, <1>5, <1>6, <2>9, <2>10 DEF Sheltered
  <2> QED BY <1>1, <1>9, <2>8, <2>10, <2>11 DEF InTime
<1> QED BY <1>8, <1>9

\* The calls that plan are still made in time after a step.
LEMMA InTimeStep ==
  ASSUME IndInv, CallsInv, IndexInv, PromiseInv, HerdersFinishLone, StepMoves,
         NEW frames \in Seq(CallFrame),
         Pushes(frames), \A k \in DOMAIN frames : NextCall(k, frames[k])
  PROVE  PlansInTime'
<1> SUFFICES ASSUME NEW k \in DOMAIN stack', NEW g, g = stack'[k],
                    g.op = "trigger", g.id # 0, ~LoneActions(g.acts)
             PROVE  NoWait(info[g.id].herdid) \/ InTime(k, g.id)'
  BY MovesKeep DEF PlansInTime
<1>1. CASE k \in DOMAIN frames /\ g = frames[k]
  BY <1>1, BeginsInTime DEF NextCall
<1>2. ASSUME NEW n \in DOMAIN stack, n > 1, k = n - 1 + Len(frames), g = stack[n]
      PROVE  NoWait(info[g.id].herdid) \/ InTime(k, g.id)'
  <2>1. NoWait(info[g.id].herdid) \/ InTime(n, g.id)
    BY <1>2 DEF PromiseInv, PlansInTime
  <2> QED BY <1>2, <2>1, InTimeKept
<1> QED BY <1>1, <1>2, CallsAfter

\* The promise is kept by the steps that do not plan.
LEMMA PromiseStep ==
  ASSUME IndInv, CallsInv, IndexInv, PromiseInv, HerdersFinishLone, Step, ~PlanTask
  PROVE  PromiseInv'
<1>1. StepMoves
  BY MovesOfStep
<1>2. PICK frames \in Seq(CallFrame) :
        Pushes(frames) /\ \A k \in DOMAIN frames : NextCall(k, frames[k])
  BY CallsOfStep DEF NextCalls
<1>3. HeadsHerd' /\ HerdFollows' /\ MarkedQueued'
  BY <1>1, <1>2, HeadsStep, FollowsStep, MarkedStep DEF PromiseInv
<1>4. HerdedEndOnce' /\ HerdersFinish'
  BY <1>1, <1>2, HerdedStep, HerderStep DEF PromiseInv
<1>5. PlansInTime'
  BY <1>1, <1>2, InTimeStep
<1>6. HerdNeverStarts' /\ HerderOutlivesHerd'
  BY <1>1, NeverStep, OutlivesStep DEF PromiseInv, HerderKeepsPromise
<1>7. PolicyHonoured'
  <2>1. Top.op = "finish" => TaskInstanceFinishedOrCanceled
    <3> SUFFICES ASSUME Top.op = "finish" PROVE TaskInstanceFinishedOrCanceled
      OBVIOUS
    <3> QED BY DEF Step, Planned, EnqueueTaskInstance, Deduplicate, Dropped, Queue,
           DoCancelTaskInstance, DoAbortTaskInstance, Aborted, CancelOrAbortEach,
           TaskInstanceStoppedOrCanceled, Settle,
           Forget, Herded, StartTaskInstance, EnqueueOrCancelPlanned,
           ReplaceTaskOrCancel, LoopEnds, On, Top
  <2> QED BY <1>1, <2>1, PolicyFinish, PolicyStep
<1> QED BY <1>3, <1>4, <1>5, <1>6, <1>7 DEF PromiseInv, HerderKeepsPromise

\* Calls that end nothing.
LEMMA QuietEnds ==
  ASSUME IndInv, CallsInv, MarkedQueued, HerdedEndOnce, HerdersFinish, Advances,
         UNCHANGED <<queue, start, stop, finish, stopped>>,
         NEW frames \in Seq(CallFrame), Pushes(frames),
         \A k \in DOMAIN frames :
           ~frames[k].mark /\ frames[k].op \notin {"stopped", "finish"}
  PROVE  MarkedQueued' /\ HerdedEndOnce' /\ HerdersFinish'
<1>1. \A j \in Created : IsHerder(j)' <=> IsHerder(j)
  BY DEF Advances, IsHerder
<1>2. \A k \in DOMAIN stack :
        stack[k].op \in {"stopped", "finish"} \/ stack[k].mark =>
          stack[k].id \in Created
  <2>1. queue \subseteq Created
    BY StepFacts DEF TypeOK, InstanceTypeOK
  <2> QED BY <2>1, StackFrames DEF MarkedQueued, Loops
<1>3. MarkedQueued'
  <2> SUFFICES ASSUME NEW k \in DOMAIN stack', NEW g, g = stack'[k], g.mark
               PROVE  g.id \in queue /\ IsHerder(g.id)'
    BY DEF MarkedQueued
  <2>1. PICK n \in DOMAIN stack : n > 1 /\ g = stack[n]
    BY CallsAfter
  <2> QED BY <1>1, <1>2, <2>1 DEF MarkedQueued
<1>4. \A k \in DOMAIN stack' : stack'[k].op \in {"stopped", "finish"} =>
        /\ stack'[k].op = "finish" => ~IsHerder(stack'[k].id)
        /\ IsHerder(stack'[k].id)
        /\ stack'[k].id \in Created
  <2> SUFFICES ASSUME NEW k \in DOMAIN stack', NEW g, g = stack'[k],
                      g.op \in {"stopped", "finish"}
               PROVE  /\ g.op = "finish" => ~IsHerder(g.id)
                      /\ IsHerder(g.id) /\ g.id \in Created
    OBVIOUS
  <2>1. PICK n \in DOMAIN stack : n > 1 /\ g = stack[n]
    BY CallsAfter
  <2> QED BY <1>2, <2>1 DEF HerdedEndOnce, HerdersFinish
<1>5. HerdersFinish'
  <2> SUFFICES ASSUME NEW k \in DOMAIN stack', NEW g, g = stack'[k], g.op = "finish"
               PROVE  FALSE
    BY DEF HerdersFinish
  <2> QED BY <1>4
<1>6. HerdedEndOnce'
  <2>1. ASSUME NEW k \in DOMAIN stack', NEW g, g = stack'[k],
               g.op \in {"stopped", "finish"}, ~IsHerder(g.id)'
        PROVE  FALSE
    BY <1>1, <1>4, <2>1
  <2>2. stopped \subseteq Created
    BY StepFacts DEF TypeOK
  <2>3. \A i \in stopped' : ~IsHerder(i)' => i \notin finish'
    BY <1>1, <2>2 DEF HerdedEndOnce
  <2> QED BY <2>1, <2>3 DEF HerdedEndOnce
<1> QED BY <1>3, <1>5, <1>6

\* What is planned next is no sooner planned than what is on top of the stack.
LEMMA PlanGuards ==
  ASSUME IndInv, CallsInv, NEW frames \in Seq(CallFrame), Pushes(frames),
         \A m \in DOMAIN frames :
           /\ frames[m].op \notin EventOps \cup {"herded", "forget"}
           /\ Touches(frames[m]) \cap Created = {},
         NEW n \in DOMAIN stack, NEW j, Guarded(n, j), Status(j)' = Status(j),
         Created \subseteq Created', NEW k, k = n - 1 + Len(frames)
  PROVE  Guarded(k, j)'
<1>1. /\ Len(frames) \in Nat /\ DOMAIN frames = 1..Len(frames)
      /\ DOMAIN stack = 1..Len(stack) /\ Len(stack) \in Nat /\ n \in Nat /\ n > 0
      /\ DOMAIN stack' = 1..Len(stack') /\ Len(stack') \in Nat
      /\ \A m \in DOMAIN frames : m \in DOMAIN stack' /\ stack'[m] = frames[m]
      /\ \A m \in DOMAIN stack : m > 1 =>
           /\ m - 1 + Len(frames) \in DOMAIN stack'
           /\ stack'[m - 1 + Len(frames)] = stack[m]
  BY NewStack
<1>2. j \in Created /\ Status(j) # "Queued"
  BY DEF Guarded
<1>3. ASSUME NEW m \in 1..(k - 1), NEW g, g = stack'[m]
      PROVE  /\ g.op \notin EventOps /\ j \notin Touches(g)
             /\ g.op \in {"herded", "forget"} => g.id # j
  <2>1. CASE m <= Len(frames)
    <3>1. m \in DOMAIN frames /\ g = frames[m]
      BY <1>1, <1>3, <2>1
    <3> QED BY <1>2, <3>1
  <2>2. CASE ~(m <= Len(frames))
    <3>1. PICK l : l = m + 1 - Len(frames)
      OBVIOUS
    <3>2. l \in 1..(n - 1) /\ l > 1 /\ l \in DOMAIN stack /\ m = l - 1 + Len(frames)
      BY <1>1, <1>3, <2>2, <3>1
    <3>3. g = stack[l]
      BY <1>1, <1>3, <3>2
    <3> QED BY <3>2, <3>3 DEF Guarded
  <2> QED BY <2>1, <2>2
<1> QED BY <1>2, <1>3 DEF Guarded, Touches, EventOps

\* A call only touches instances that are created.
LEMMA TouchesCreated ==
  ASSUME IndInv, CallsInv, NEW k \in DOMAIN stack
  PROVE  /\ Touches(stack[k]) \subseteq Created
         /\ stack[k].op \in {"herded", "forget"} => stack[k].id \in Created
<1>1. /\ stack[k] \in Frame
      /\ stack[k].op \notin Loops \cup {"trigger"} => stack[k].id \in Created
  BY FrameFacts
<1>2. PICK g : g = stack[k]
  OBVIOUS
<1>3. g.ids \subseteq Created /\ (g.op \notin Loops \cup {"trigger"} => g.id \in Created)
  BY <1>1, <1>2 DEF Frame
<1> QED BY <1>2, <1>3 DEF Touches, Loops

\* What a step that plans changes: perhaps one more instance, and calls that only
\* touch that one, and do not if it is planned in the herd of an unfinished herder.
PlanMoves(frames) ==
  /\ Pushes(frames) /\ Advances
  /\ UNCHANGED <<queue, start, stop, finish, success, stopped, config>>
  /\ \A h \in Ids : unfinishedHerdedTasks[h] \subseteq unfinishedHerdedTasks'[h]
  /\ \A m \in DOMAIN frames :
       /\ frames[m].op \in {"trigger", "planned", "enqueue"} /\ ~frames[m].mark
       /\ Touches(frames[m]) \cap Created = {}
  /\ \A j \in Created' \ Created : info'[j].herdid \in Created \ finish =>
       \A m \in DOMAIN frames : j \notin Touches(frames[m])

\* What planning an instance leaves of the others.
LEMMA PlanKeeps ==
  ASSUME IndInv, CallsInv, NEW frames \in Seq(CallFrame), PlanMoves(frames)
  PROVE  /\ \A j : Status(j)' = Status(j)
         /\ \A j \in Created : /\ IsHerder(j)' <=> IsHerder(j)
                               /\ TaskOf(j)' = TaskOf(j)
                               /\ NoWait(j)' <=> NoWait(j)
                               /\ Herd(j) \subseteq Herd(j)'
                               /\ \A l \in Herd(j)' : l \in Created => l \in Herd(j)
         /\ \A j \in Created' \ Created :
              Status(j)' = "Planned" /\ j \notin queue \cup start \cup stop \cup finish
<1>1. \A j : Status(j)' = Status(j)
  BY DEF PlanMoves, Status
<1>2. \A j \in Created : info'[j] = info[j] /\ j \in Created'
  BY DEF PlanMoves, Advances
<1>3. \A j \in Created : /\ IsHerder(j)' <=> IsHerder(j)
                         /\ TaskOf(j)' = TaskOf(j)
                         /\ NoWait(j)' <=> NoWait(j)
  BY <1>2 DEF PlanMoves, IsHerder, TaskOf, Task, NoWait
<1>4. \A j \in Created : /\ Herd(j) \subseteq Herd(j)'
                         /\ \A l \in Herd(j)' : l \in Created => l \in Herd(j)
  BY <1>2 DEF Herd
<1>5. \A j \in Created' \ Created :
        Status(j)' = "Planned" /\ j \notin queue \cup start \cup stop \cup finish
  <2>1. /\ queue \subseteq Created /\ start \subseteq Created
        /\ stop \subseteq Created /\ finish \subseteq Created
    BY StepFacts DEF TypeOK, InstanceTypeOK
  <2>2. ASSUME NEW j \in Created' \ Created
        PROVE  j \notin queue \cup start \cup stop \cup finish
    BY <2>1
  <2> QED BY <1>1, <2>2 DEF Status
<1> QED BY <1>1, <1>3, <1>4, <1>5

\* A herd that is planned in stays guarded, and what is planned in it is too.
LEMMA PlanInTime ==
  ASSUME IndInv, CallsInv, IndexInv, NEW frames \in Seq(CallFrame), PlanMoves(frames),
         NEW n \in DOMAIN stack, NEW p, InTime(n, p), NEW k, k = n - 1 + Len(frames)
  PROVE  InTime(k, p)'
<1>1. PICK h : h = info[p].herdid
  OBVIOUS
<1>2. /\ p \in Created /\ h \in Created /\ h \notin finish
      /\ Guarded(n, p) /\ Guarded(n, h)
      /\ p # h => p \in unfinishedHerdedTasks[h]
      /\ p = h => \A j \in Herd(h) : Guarded(n, j)
  BY <1>1 DEF InTime, Sheltered, Guarded
<1>3. /\ Pushes(frames) /\ Created \subseteq Created' /\ finish' = finish
      /\ \A j \in Created : info'[j] = info[j]
      /\ \A m \in DOMAIN frames :
           /\ frames[m].op \notin EventOps \cup {"herded", "forget"}
           /\ Touches(frames[m]) \cap Created = {}
  BY DEF PlanMoves, Advances, EventOps
<1>4. \A j : Guarded(n, j) => Guarded(k, j)'
  BY <1>3, PlanGuards, PlanKeeps
<1>5. ASSUME NEW j \in Created' \ Created, info'[j].herdid = h
      PROVE  Guarded(k, j)'
  <2>1. /\ Len(frames) \in Nat /\ DOMAIN frames = 1..Len(frames)
        /\ DOMAIN stack = 1..Len(stack) /\ Len(stack) \in Nat /\ n \in Nat /\ n > 0
        /\ DOMAIN stack' = 1..Len(stack') /\ Len(stack') \in Nat
        /\ n - 1 + Len(frames) <= Len(stack')
           \/ k = Len(frames) \/ n > 1
    BY <1>3, NewStack
  <2>2. \A m \in DOMAIN frames : m \in DOMAIN stack' /\ stack'[m] = frames[m]
    BY <1>3, NewStack
  <2>3. \A l \in DOMAIN stack : l > 1 =>
           stack'[l - 1 + Len(frames)] = stack[l]
    BY <1>3, NewStack
  <2>4. \A m \in DOMAIN frames : j \notin Touches(frames[m])
    BY <1>2, <1>5 DEF PlanMoves
  <2>5. ASSUME NEW m \in 1..(k - 1), NEW g, g = stack'[m]
        PROVE  /\ g.op \notin EventOps /\ j \notin Touches(g)
               /\ g.op \in {"herded", "forget"} => g.id # j
    <3>1. CASE m <= Len(frames)
      <4>1. m \in DOMAIN frames /\ g = frames[m]
        BY <2>1, <2>2, <2>5, <3>1
      <4> QED BY <1>3, <2>4, <4>1
    <3>2. CASE ~(m <= Len(frames))
      <4>1. PICK l : l = m + 1 - Len(frames)
        OBVIOUS
      <4>2. l \in 1..(n - 1) /\ l > 1 /\ l \in DOMAIN stack /\ m = l - 1 + Len(frames)
        BY <2>1, <2>5, <3>2, <4>1
      <4>3. g = stack[l]
        BY <2>3, <2>5, <4>2
      <4>4. g.op \notin EventOps
        BY <1>2, <4>2, <4>3 DEF Guarded
      <4> QED BY <1>5, <4>2, <4>3, <4>4, TouchesCreated
    <3> QED BY <3>1, <3>2
  <2>6. Status(j)' # "Queued"
    BY PlanKeeps
  <2> QED BY <2>5, <2>6 DEF Guarded, Touches, EventOps
<1>6. h \in Ids
  BY <1>2, StepFacts
<1>7. info'[p].herdid = h /\ info'[h] = info[h]
  BY <1>1, <1>2, <1>3
<1>8. Sheltered(k, p)'
  BY <1>2, <1>4, <1>7 DEF Sheltered
<1>9. ASSUME p = h, NEW j \in Herd(h)' PROVE Sheltered(k, j)'
  <2>1. j \in Created' /\ info'[j].herdid = h
    BY <1>9 DEF Herd
  <2>2. j \in Created => Guarded(n, j)
    BY <1>2, <1>9, PlanKeeps
  <2> QED BY <1>2, <1>4, <1>5, <2>1, <2>2 DEF Sheltered
<1>10. p # h => p \in unfinishedHerdedTasks'[h]
  BY <1>2, <1>6 DEF PlanMoves
<1> QED BY <1>2, <1>3, <1>7, <1>8, <1>9, <1>10 DEF InTime

\* The calls of a step that plans, and the instance that it plans.
PlannedCalls(frames) ==
  /\ PlanMoves(frames)
  /\ \A m \in DOMAIN frames : frames[m].op = "trigger" =>
       \/ m = Len(frames) /\ frames[m].id = Top.id /\ frames[m].acts = Tail(Top.acts)
       \/ /\ m = 1 /\ frames[m].id \in Created' \ Created
          /\ \E t \in Tasks : frames[m].acts = Task[t].onplan
  /\ \A j \in Created' \ Created :
       LET herdid == HerdOf(Top.id, Head(Top.acts))
       IN  /\ Created' = Created \cup {j}
           /\ info'[j].task = Head(Top.acts).task
           /\ \/ herdid = 0 /\ info'[j].herdid = j
              \/ /\ herdid \in Created /\ info'[j].herdid = herdid
                 /\ herdid \notin finish => j \in unfinishedHerdedTasks'[herdid]

\* The request of a task that is disabled plans nothing.
LEMMA PlanNothing ==
  ASSUME IndInv, CallsInv, PlanTask, Head(Top.acts).task \notin enabled
  PROVE  \E frames \in Seq(CallFrame) : PlannedCalls(frames)
<1>1. PICK acts, frames : acts = Tail(Top.acts) /\ frames = Trigger(Top.id, acts)
  OBVIOUS
<1>2. /\ stack # <<>> /\ Top.id \in Nat /\ acts \in Seq(Action)
      /\ Return(frames) /\ UNCHANGED <<instanceVars, indexVars, stopped, config>>
  <2>1. stack # <<>> /\ Top.op = "trigger"
    BY DEF PlanTask, On, Top
  <2>2. Top.id \in Nat /\ acts \in Seq(Action)
    BY <1>1, <2>1, NumberFacts, HeadTailProperties
  <2> QED BY <1>1, <2>1, <2>2 DEF PlanTask, executionVars, settingVars
<1>3. /\ frames \in Seq(CallFrame) /\ DOMAIN frames \subseteq {1}
      /\ \A k \in DOMAIN frames :
           /\ frames[k].op = "trigger" /\ frames[k].id = Top.id /\ frames[k].acts = acts
           /\ ~frames[k].mark /\ Touches(frames[k]) = {} /\ frames[k].op \notin EventOps
  <2>1. Top.id \in Nat /\ acts \in Seq(Action)
    BY <1>2
  <2>2. frames = Trigger(Top.id, acts)
    BY <1>1
  <2>3. TriggerAt(frames, Top.id, acts)
    BY <2>1, <2>2, TriggerFields
  <2> QED BY <2>3 DEF TriggerAt
<1>4. Created' = Created /\ Advances
  BY <1>2 DEF Created, Advances, instanceVars
<1>5. PlanMoves(frames)
  BY <1>2, <1>3, <1>4, ReturnPushes DEF PlanMoves, instanceVars, indexVars
<1>6. \A m \in DOMAIN frames : m = Len(frames)
  <2>1. DOMAIN frames = 1..Len(frames) /\ Len(frames) \in Nat
    BY <1>3
  <2> QED BY <1>3, <2>1
<1> QED BY <1>1, <1>3, <1>4, <1>5, <1>6 DEF PlannedCalls

\* The request of a task that is enabled plans one instance.
LEMMA PlanOne ==
  ASSUME IndInv, CallsInv, PlanTask, Head(Top.acts).task \in enabled
  PROVE  \E frames \in Seq(CallFrame) : PlannedCalls(frames)
<1>1. PICK a, i, herdid, parent, acts, onplan, last :
        /\ a = Head(Top.acts) /\ i = Len(info) + 1 /\ herdid = HerdOf(Top.id, a)
        /\ parent = Top.id /\ acts = Tail(Top.acts) /\ onplan = Task[a.task].onplan
        /\ last = Call(IF herdid \in unfinishedTasks THEN "planned"
                       ELSE "enqueue", i)
  OBVIOUS
<1>2. PICK s1, s2 : s1 = Trigger(i, onplan) /\ s2 = Trigger(parent, acts)
  OBVIOUS
<1> DEFINE s == s1 \o << last >> \o s2
<1>3. /\ stack # <<>> /\ Top.op = "trigger"
      /\ acts \in Seq(Action) /\ onplan \in Seq(Action)
      /\ i \in Ids /\ i \in Nat /\ i \notin Created
      /\ parent \in {0} \cup Created
      /\ herdid \in {0} \cup Created
      /\ Created' = Created \cup {i}
      /\ \A j \in Created : info'[j] = info[j]
      /\ info'[i].herdid = IF herdid = 0 THEN i ELSE herdid
      /\ info'[i].task = a.task /\ a.task \in Tasks
      /\ IF herdid \in unfinishedTasks THEN AppendToHerd(herdid, i)
         ELSE UNCHANGED <<unfinishedHerds, unfinishedHerdedTasks>>
      /\ UNCHANGED <<queue, start, stop, finish, success, stopped, config>>
      /\ Pushes(s)
      /\ last = Call(IF herdid \in unfinishedTasks THEN "planned" ELSE "enqueue", i)
  BY <1>1, <1>2, NewlyPlanned DEF PlanTask, executionVars, settingVars, Action
<1>4. /\ parent \in Nat /\ 0 \notin Created
      /\ herdid \in unfinishedTasks => herdid \in Ids
  BY <1>3, StepFacts, NumberFacts DEF Created
<1>5. /\ s1 \in Seq(CallFrame) /\ DOMAIN s1 \subseteq {1}
      /\ \A k \in DOMAIN s1 :
           /\ s1[k].op = "trigger" /\ s1[k].id = i /\ s1[k].acts = onplan
           /\ ~s1[k].mark /\ Touches(s1[k]) = {} /\ s1[k].op \notin EventOps
  <2>1. i \in Nat /\ onplan \in Seq(Action)
    BY <1>3
  <2>2. s1 = Trigger(i, onplan)
    BY <1>2
  <2>3. TriggerAt(s1, i, onplan)
    BY <2>1, <2>2, TriggerFields
  <2> QED BY <2>3 DEF TriggerAt
<1>6. /\ s2 \in Seq(CallFrame) /\ DOMAIN s2 \subseteq {1}
      /\ \A k \in DOMAIN s2 :
           /\ s2[k].op = "trigger" /\ s2[k].id = parent /\ s2[k].acts = acts
           /\ ~s2[k].mark /\ Touches(s2[k]) = {} /\ s2[k].op \notin EventOps
  <2>1. parent \in Nat /\ acts \in Seq(Action)
    BY <1>3, <1>4
  <2>2. s2 = Trigger(parent, acts)
    BY <1>2
  <2>3. TriggerAt(s2, parent, acts)
    BY <2>1, <2>2, TriggerFields
  <2> QED BY <2>3 DEF TriggerAt
<1>7. /\ last \in CallFrame /\ last.id = i /\ last.mark = FALSE
      /\ last.op = IF herdid \in unfinishedTasks THEN "planned" ELSE "enqueue"
  BY <1>3, SeqClosed DEF Call, CallMark, CallFrame, FrameOp
<1>8. Touches(last) = IF herdid \in unfinishedTasks THEN {} ELSE {i}
  BY <1>7 DEF Touches
<1>9. PICK frames : frames = s
  OBVIOUS
<1>10. a = Head(Top.acts) /\ herdid = HerdOf(Top.id, a) /\ acts = Tail(Top.acts)
       /\ parent = Top.id /\ onplan = Task[a.task].onplan
  BY <1>1
<1> HIDE <1>1, <1>2
<1>11. /\ frames \in Seq(CallFrame) /\ Pushes(frames)
       /\ Len(s1) \in Nat /\ DOMAIN frames = 1..Len(frames) /\ Len(frames) \in Nat
       /\ Len(frames) = Len(s1) + 1 + Len(s2)
       /\ \A k \in DOMAIN frames :
            \/ k \in DOMAIN s1 /\ k < Len(s1) + 1 /\ frames[k] = s1[k]
            \/ k = Len(s1) + 1 /\ frames[k] = last
            \/ k - Len(s1) - 1 \in DOMAIN s2 /\ k > Len(s1) + 1
               /\ frames[k] = s2[k - Len(s1) - 1]
  <2> HIDE DEF s
  <2>1. s \in Seq(CallFrame) /\ Len(s1) \in Nat /\ DOMAIN s = 1..Len(s)
        /\ Len(s) = Len(s1) + 1 + Len(s2)
        /\ \A k \in DOMAIN s :
             \/ k \in DOMAIN s1 /\ k < Len(s1) + 1 /\ s[k] = s1[k]
             \/ k = Len(s1) + 1 /\ s[k] = last
             \/ k - Len(s1) - 1 \in DOMAIN s2 /\ k > Len(s1) + 1
                /\ s[k] = s2[k - Len(s1) - 1]
    BY <1>5, <1>6, <1>7, Sandwich DEF s
  <2> QED BY <1>3, <1>9, <2>1
<1> HIDE DEF s
<1>12. ASSUME NEW k \in DOMAIN frames
       PROVE  \/ k = 1 /\ frames[k] = s1[k] /\ k \in DOMAIN s1
              \/ frames[k] = last
              \/ k = Len(frames) /\ frames[k] = s2[1] /\ 1 \in DOMAIN s2
  <2>1. DOMAIN s2 = 1..Len(s2) /\ Len(s2) \in Nat /\ Len(s2) <= 1
    <3>1. DOMAIN s2 = 1..Len(s2) /\ Len(s2) \in Nat
      BY <1>6
    <3>2. Len(s2) > 1 => 2 \in DOMAIN s2
      BY <3>1
    <3> QED BY <1>6, <3>1, <3>2
  <2>2. k - Len(s1) - 1 \in DOMAIN s2 => k - Len(s1) - 1 = 1 /\ k = Len(frames)
    BY <1>6, <1>11, <1>12, <2>1
  <2> QED BY <1>5, <1>11, <1>12, <2>2
<1>13. Advances
  BY <1>3 DEF Advances
<1>14. \A h \in Ids : unfinishedHerdedTasks[h] \subseteq unfinishedHerdedTasks'[h]
  BY <1>3, StepFacts DEF AppendToHerd
<1>15. herdid \in unfinishedTasks => i \in unfinishedHerdedTasks'[herdid]
  BY <1>3, <1>4, StepFacts DEF AppendToHerd
<1>16. herdid \in Created /\ herdid \notin finish => herdid \in unfinishedTasks
  BY DEF CallsInv, Remembered
<1>17. \A m \in DOMAIN frames :
         /\ frames[m].op \in {"trigger", "planned", "enqueue"} /\ ~frames[m].mark
         /\ Touches(frames[m]) \subseteq {i}
         /\ herdid \in unfinishedTasks => Touches(frames[m]) = {}
  BY <1>5, <1>6, <1>7, <1>8, <1>12
<1>18. \A j \in Created' \ Created : info'[j].herdid \in Created \ finish =>
         \A m \in DOMAIN frames : j \notin Touches(frames[m])
  <2> SUFFICES ASSUME info'[i].herdid \in Created \ finish
               PROVE  \A m \in DOMAIN frames : i \notin Touches(frames[m])
    BY <1>3
  <2>1. herdid \in Created /\ herdid \notin finish
    BY <1>3
  <2> QED BY <1>16, <1>17, <2>1
<1>19. PlanMoves(frames)
  BY <1>3, <1>11, <1>13, <1>14, <1>17, <1>18 DEF PlanMoves
<1>20. \A m \in DOMAIN frames : frames[m].op = "trigger" =>
         \/ m = Len(frames) /\ frames[m].id = Top.id /\ frames[m].acts = Tail(Top.acts)
         \/ /\ m = 1 /\ frames[m].id \in Created' \ Created
            /\ \E t \in Tasks : frames[m].acts = Task[t].onplan
  BY <1>3, <1>5, <1>6, <1>7, <1>10, <1>12
<1>21. \A j \in Created' \ Created :
         /\ Created' = Created \cup {j}
         /\ info'[j].task = a.task
         /\ \/ herdid = 0 /\ info'[j].herdid = j
            \/ /\ herdid \in Created /\ info'[j].herdid = herdid
               /\ herdid \notin finish => j \in unfinishedHerdedTasks'[herdid]
  BY <1>3, <1>4, <1>15, <1>16
<1> QED BY <1>10, <1>11, <1>19, <1>20, <1>21 DEF PlannedCalls

\* The promise is kept by the steps that plan.
LEMMA PromisePlan ==
  ASSUME IndInv, CallsInv, IndexInv, PromiseInv, PlanTask
  PROVE  PromiseInv'
<1>1. PICK frames \in Seq(CallFrame) : PlannedCalls(frames)
  BY PlanNothing, PlanOne
<1>2. PICK a, acts : a = Head(Top.acts) /\ acts = Top.acts
  OBVIOUS
<1>3. /\ stack # <<>> /\ Top = stack[1] /\ 1 \in DOMAIN stack /\ Top.op = "trigger"
      /\ acts \in Seq(Action) /\ 1 \in DOMAIN acts /\ a = acts[1]
      /\ \A n \in DOMAIN Tail(acts) : /\ n + 1 \in DOMAIN acts
                                      /\ Tail(acts)[n] = acts[n + 1]
      /\ Top.id # 0 => Top.id \in Created /\ info[Top.id].herdid \in Created
      /\ 0 \notin Created
  <2>1. stack # <<>> /\ Top.op = "trigger"
    BY DEF PlanTask, On, Top
  <2>2. Top = stack[1] /\ 1 \in DOMAIN stack
    BY <2>1, TopCall
  <2>3. acts \in Seq(Action) /\ acts # <<>>
    BY <1>2, <2>1, NumberFacts
  <2>4. Len(acts) \in Nat /\ Len(acts) # 0 /\ DOMAIN acts = 1..Len(acts)
    BY <2>3, EmptySeq
  <2>5. 1 \in DOMAIN acts /\ a = acts[1]
    BY <1>2, <2>3, <2>4
  <2>6. /\ Tail(acts) \in Seq(Action) /\ Len(Tail(acts)) = Len(acts) - 1
        /\ \A n \in 1..Len(Tail(acts)) : Tail(acts)[n] = acts[n + 1]
    BY <2>3, HeadTailProperties
  <2>7. \A n \in DOMAIN Tail(acts) : n + 1 \in DOMAIN acts /\ Tail(acts)[n] = acts[n + 1]
    BY <2>4, <2>6
  <2>8. Top.id # 0 => Top.id \in Created /\ info[Top.id].herdid \in Created
    BY <2>2, StackFrames, StepFacts
  <2> QED BY <2>1, <2>2, <2>3, <2>5, <2>7, <2>8, StepFacts
<1>4. /\ PlanMoves(frames) /\ Pushes(frames) /\ Created \subseteq Created'
      /\ \A j \in Created : info'[j] = info[j]
      /\ UNCHANGED <<queue, start, stop, finish, success, stopped, config>>
      /\ \A m \in DOMAIN frames :
           frames[m].op \in {"trigger", "planned", "enqueue"} /\ ~frames[m].mark
  BY <1>1 DEF PlannedCalls, PlanMoves, Advances
<1>5. ASSUME NEW j \in Created' \ Created
      PROVE  /\ Created' = Created \cup {j} /\ info'[j].task = a.task
             /\ Status(j)' = "Planned" /\ j \notin queue \cup start \cup stop \cup finish
             /\ \/ /\ a.lone \/ Top.id = 0
                   /\ info'[j].herdid = j
                \/ /\ ~a.lone /\ Top.id # 0
                   /\ info'[j].herdid = info[Top.id].herdid
                   /\ info'[j].herdid \in Created
                   /\ info'[j].herdid \notin finish =>
                        j \in unfinishedHerdedTasks'[info'[j].herdid]
  <2>1. PICK herdid : herdid = HerdOf(Top.id, a)
    OBVIOUS
  <2>2. /\ Created' = Created \cup {j} /\ info'[j].task = a.task
        /\ \/ herdid = 0 /\ info'[j].herdid = j
           \/ /\ herdid \in Created /\ info'[j].herdid = herdid
              /\ herdid \notin finish => j \in unfinishedHerdedTasks'[herdid]
    BY <1>1, <1>2, <2>1 DEF PlannedCalls
  <2>3. /\ Status(j)' = "Planned" /\ j \notin queue \cup start \cup stop \cup finish
    BY <1>4, PlanKeeps
  <2>4. \/ herdid = 0 /\ (a.lone \/ Top.id = 0)
        \/ herdid # 0 /\ ~a.lone /\ Top.id # 0 /\ herdid = info[Top.id].herdid
    BY <1>3, <2>1 DEF HerdOf
  <2> QED BY <1>3, <2>2, <2>3, <2>4
<1>6. /\ \A j : Status(j)' = Status(j)
      /\ \A j \in Created : /\ IsHerder(j)' <=> IsHerder(j)
                            /\ TaskOf(j)' = TaskOf(j)
                            /\ NoWait(j)' <=> NoWait(j)
                            /\ Herd(j) \subseteq Herd(j)'
                            /\ \A l \in Herd(j)' : l \in Created => l \in Herd(j)
  BY <1>4, PlanKeeps
<1>7. finish \subseteq Created /\ start \subseteq Created /\ queue \subseteq Created
  BY StepFacts DEF TypeOK, InstanceTypeOK
<1>8. ~LoneActions(acts) /\ Top.id # 0 =>
        NoWait(info[Top.id].herdid) \/ InTime(1, Top.id)
  BY <1>2, <1>3 DEF PromiseInv, PlansInTime
<1>9. ASSUME NEW h \in finish, ~NoWait(h) PROVE Herd(h)' = Herd(h)
  <2>1. ASSUME NEW j \in Herd(h)', j \notin Created PROVE FALSE
    <3>1. j \in Created' \ Created /\ info'[j].herdid = h /\ j # h
      BY <2>1 DEF Herd
    <3>2. ~a.lone /\ Top.id # 0 /\ h = info[Top.id].herdid
      BY <1>5, <3>1
    <3>3. InTime(1, Top.id)
      BY <1>3, <1>8, <1>9, <3>2 DEF LoneActions
    <3> QED BY <3>2, <3>3 DEF InTime
  <2> QED BY <1>6, <1>7, <2>1
<1>10. HeadsHerd'
  <2>1. ASSUME NEW h \in Created', IsHerder(h)' PROVE info'[h].task \in Heads
    <3>1. CASE h \in Created
      BY <1>4, <1>6, <2>1, <3>1 DEF PromiseInv, HeadsHerd
    <3>2. CASE h \notin Created
      <4>1. info'[h].herdid = h
        BY <2>1 DEF IsHerder
      <4>2. a.lone \/ Top.id = 0
        BY <1>5, <3>2, <4>1
      <4>3. a.task \in Heads
        BY <1>2, <1>3, <4>2 DEF PromiseInv, HeadsHerd
      <4> QED BY <1>5, <3>2, <4>3
    <3> QED BY <3>1, <3>2
  <2>2. ASSUME NEW k \in DOMAIN stack', NEW g, g = stack'[k], g.op = "trigger",
               NEW n \in DOMAIN g.acts, g.acts[n].lone \/ g.id = 0
        PROVE  g.acts[n].task \in Heads
    <3>1. CASE \E m \in DOMAIN stack : g = stack[m]
      BY <2>2, <3>1 DEF PromiseInv, HeadsHerd
    <3>2. CASE g.id = Top.id /\ g.acts = Tail(Top.acts)
      <4>1. n + 1 \in DOMAIN acts /\ g.acts[n] = acts[n + 1]
        BY <1>2, <1>3, <2>2, <3>2
      <4> QED BY <1>2, <1>3, <2>2, <3>2, <4>1 DEF PromiseInv, HeadsHerd
    <3>3. CASE g.id \in Created' \ Created /\ \E t \in Tasks : g.acts = Task[t].onplan
      <4>1. PICK t \in Tasks : g.acts = Task[t].onplan
        BY <3>3
      <4>2. g.acts \in AllActions(config, t)
        BY <4>1 DEF AllActions, Task
      <4>3. g.id # 0
        <5>1. Created' \subseteq Nat /\ 0 \notin Created'
          BY DEF Created
        <5> QED BY <3>3, <5>1
      <4> QED BY <2>2, <4>2, <4>3, LoneHeads
    <3>4. CASE k \in DOMAIN frames /\ g = frames[k]
      BY <1>1, <2>2, <3>2, <3>3, <3>4 DEF PlannedCalls
    <3> QED BY <1>4, <2>2, <3>1, <3>4, CallsAfter
  <2> QED BY <2>1, <2>2 DEF HeadsHerd
<1>11. HerdFollows'
  <2> SUFFICES ASSUME NEW j \in Created', ~IsHerder(j)', j \in queue \cup start
               PROVE  ~Unstarted(info'[j].herdid)
    BY <1>4 DEF HerdFollows, Unstarted
  <2>1. j \in Created
    BY <1>7
  <2> QED BY <1>4, <1>6, <2>1 DEF PromiseInv, HerdFollows
<1>12. MarkedQueued' /\ HerdedEndOnce' /\ HerdersFinish'
  <2>1. \A k \in DOMAIN frames :
          ~frames[k].mark /\ frames[k].op \notin {"stopped", "finish"}
    BY <1>4
  <2> QED BY <1>4, <2>1, QuietEnds DEF PromiseInv, PlanMoves
<1>13. HerdNeverStarts' /\ HerderOutlivesHerd'
  <2>1. ASSUME NEW h \in finish, IsHerder(h)', ~NoWait(h)'
        PROVE  /\ h \in Created /\ IsHerder(h) /\ ~NoWait(h) /\ Herd(h)' = Herd(h)
    BY <1>6, <1>7, <1>9, <2>1
  <2>2. HerdNeverStarts'
    BY <1>4, <2>1 DEF PromiseInv, HerdNeverStarts
  <2>3. \A h \in finish : IsHerder(h)' /\ ~NoWait(h)' => Herd(h)' \subseteq finish
    BY <2>1 DEF PromiseInv, HerderKeepsPromise, HerderOutlivesHerd, NoWait
  <2> QED BY <1>4, <2>2, <2>3 DEF HerderOutlivesHerd, NoWait
<1>14. PolicyHonoured'
  <2> SUFFICES ASSUME NEW h \in finish \cap start, IsHerder(h)', Herd(h)' # {},
                      ~NoWait(h)'
               PROVE  Honoured(h)'
    BY <1>4, HonouredPolicies
  <2>1. h \in Created /\ IsHerder(h) /\ ~NoWait(h) /\ Herd(h)' = Herd(h)
    BY <1>6, <1>7, <1>9
  <2>2. Honoured(h)
    BY <2>1, HonouredPolicies DEF PromiseInv, HerderKeepsPromise
  <2> QED BY <1>6, <2>1, <2>2, HonouredStill
<1>15. PlansInTime'
  <2> SUFFICES ASSUME NEW k \in DOMAIN stack', NEW g, g = stack'[k],
                      g.op = "trigger", g.id # 0, ~LoneActions(g.acts),
                      NEW h, h = info'[g.id].herdid
               PROVE  NoWait(h)' \/ InTime(k, g.id)'
    BY DEF PlansInTime, NoWait, TaskOf
  <2>1. ASSUME NEW n \in DOMAIN stack, k = n - 1 + Len(frames), NEW p \in Created,
               NoWait(info[p].herdid) \/ InTime(n, p), p = g.id
        PROVE  NoWait(h)' \/ InTime(k, g.id)'
    <3>1. info'[p].herdid = info[p].herdid /\ info[p].herdid \in Created
      BY <1>4, <2>1, StepFacts
    <3>2. InTime(n, p) => InTime(k, p)'
      BY <1>4, <2>1, PlanInTime
    <3> QED BY <1>6, <2>1, <3>1, <3>2
  <2>2. ASSUME NEW n \in DOMAIN stack, n > 1, k = n - 1 + Len(frames), g = stack[n]
        PROVE  NoWait(h)' \/ InTime(k, g.id)'
    <3>1. NoWait(info[g.id].herdid) \/ InTime(n, g.id)
      BY <2>2 DEF PromiseInv, PlansInTime
    <3>2. g.id \in Created
      BY <2>2, StackFrames
    <3> QED BY <2>1, <2>2, <3>1, <3>2
  <2>3. CASE k \in DOMAIN frames /\ g = frames[k] /\ k = Len(frames)
             /\ g.id = Top.id /\ g.acts = Tail(Top.acts)
    <3>1. PICK n \in DOMAIN g.acts : ~g.acts[n].lone
      BY DEF LoneActions
    <3>2. n + 1 \in DOMAIN acts /\ ~acts[n + 1].lone
      BY <1>2, <1>3, <2>3, <3>1
    <3>3. NoWait(info[g.id].herdid) \/ InTime(1, g.id)
      BY <1>8, <2>3, <3>2 DEF LoneActions
    <3>4. k = 1 - 1 + Len(frames) /\ g.id \in Created
      <4>1. Len(frames) \in Nat
        OBVIOUS
      <4> QED BY <1>3, <2>3, <4>1
    <3> QED BY <1>3, <2>1, <3>3, <3>4
  <2>4. CASE k = 1 /\ g.id \in Created' \ Created
    <3>1. PICK i : i = g.id
      OBVIOUS
    <3>2. \A j \in Created' : Status(j)' # "Queued" => Guarded(k, j)'
      BY <2>4 DEF Guarded
    <3>3. Guarded(k, i)' /\ i \notin finish'
      BY <1>4, <1>5, <2>4, <3>1, <3>2
    <3>4. CASE info'[i].herdid = i
      <4>1. Herd(i)' = {}
        <5>1. ASSUME NEW j \in Herd(i)' PROVE FALSE
          <6>1. j \in Created' /\ j # i /\ info'[j].herdid = i
            BY DEF Herd
          <6>2. j \in Created /\ i \notin Created
            BY <1>5, <2>4, <3>1, <6>1
          <6>3. info[j].herdid \in Created /\ info'[j] = info[j]
            BY <1>4, <6>2, StepFacts
          <6> QED BY <6>1, <6>2, <6>3
        <5> QED BY <5>1
      <4> QED BY <3>1, <3>3, <3>4, <4>1 DEF InTime, Sheltered
    <3>5. CASE info'[i].herdid # i
      <4>1. h = info[Top.id].herdid
        BY <1>5, <2>4, <3>1, <3>5
      <4>2. /\ ~a.lone /\ Top.id # 0 /\ info'[i].herdid = h /\ h \in Created
            /\ h \notin finish => i \in unfinishedHerdedTasks'[h]
        BY <1>5, <2>4, <3>1, <3>5, <4>1
      <4>3. NoWait(h) \/ InTime(1, Top.id)
        BY <1>3, <1>8, <4>1, <4>2 DEF LoneActions
      <4>4. CASE NoWait(h)
        BY <1>6, <3>1, <4>2, <4>4
      <4>5. CASE InTime(1, Top.id)
        <5>1. h \notin finish /\ Guarded(1, h)
          BY <4>1, <4>5 DEF InTime, Sheltered
        <5>2. Status(h)' # "Queued" /\ h \in Created'
          BY <1>4, <1>6, <4>2, <5>1 DEF Guarded
        <5>3. Guarded(k, h)'
          BY <3>2, <5>2
        <5>4. h \notin finish'
          BY <1>4, <5>1
        <5> QED BY <3>1, <3>3, <3>5, <4>2, <5>1, <5>3, <5>4 DEF InTime, Sheltered
      <4> QED BY <4>3, <4>4, <4>5
    <3> QED BY <3>4, <3>5
  <2>5. CASE k \in DOMAIN frames /\ g = frames[k]
    BY <1>1, <2>3, <2>4, <2>5 DEF PlannedCalls
  <2> QED BY <1>4, <2>2, <2>5, CallsAfter
<1> QED BY <1>10, <1>11, <1>12, <1>13, <1>14, <1>15 DEF PromiseInv, HerderKeepsPromise

\* The calls of an event that ends no instance.
EventFrame ==
  {f \in CallFrame :
     /\ ~f.mark /\ f.op \notin {"stopped", "finish"}
     /\ f.op = "trigger" =>
          f.id = 0 /\ \A n \in DOMAIN f.acts : f.acts[n].task \in Heads}

\* Loops, commands, and the requests of lone instances are such calls.
LEMMA EventFrames ==
  /\ \A op \in Loops, S \in SUBSET Nat : Loop(op, 0, S) \in Seq(EventFrame)
  /\ \A i \in Nat : /\ << Call("cancel", i) >> \in Seq(EventFrame)
                    /\ << Call("abort", i) >> \in Seq(EventFrame)
  /\ \A acts \in Seq(Action) : (\A n \in DOMAIN acts : acts[n].task \in Heads) =>
       Trigger(0, acts) \in Seq(EventFrame)
<1>1. ASSUME NEW op \in Loops, NEW S \in SUBSET Nat
      PROVE  Loop(op, 0, S) \in Seq(EventFrame)
  <2>1. PICK f : f = [op |-> op, id |-> 0, ids |-> S, acts |-> <<>>, mark |-> FALSE]
    OBVIOUS
  <2>2. op \in FrameOp /\ op \notin {"trigger", "stopped", "finish"}
    BY DEF FrameOp, Loops
  <2>3. f \in CallFrame /\ f.op = op /\ f.mark = FALSE
    BY <2>1, <2>2, SeqClosed DEF CallFrame
  <2>4. f \in EventFrame
    BY <2>2, <2>3 DEF EventFrame
  <2> QED BY <2>1, <2>4, LoopIn
<1>2. ASSUME NEW i \in Nat, NEW op \in {"cancel", "abort"}
      PROVE  << Call(op, i) >> \in Seq(EventFrame)
  <2>1. PICK f : f = Call(op, i)
    OBVIOUS
  <2>2. f \in CallFrame /\ f.op = op /\ f.mark = FALSE
    BY <2>1, SeqClosed DEF Call, CallMark, CallFrame, FrameOp
  <2>3. f \in EventFrame
    BY <2>2 DEF EventFrame
  <2> QED BY <2>1, <2>3, SeqClosed
<1>3. ASSUME NEW acts \in Seq(Action), \A n \in DOMAIN acts : acts[n].task \in Heads
      PROVE  Trigger(0, acts) \in Seq(EventFrame)
  <2>1. PICK f : f = [op |-> "trigger", id |-> 0, ids |-> {}, acts |-> acts,
                      mark |-> FALSE]
    OBVIOUS
  <2>2. /\ f \in CallFrame /\ f.op = "trigger" /\ f.id = 0 /\ f.acts = acts
        /\ f.mark = FALSE
    BY <2>1 DEF CallFrame, FrameOp
  <2>3. f \in EventFrame
    BY <1>3, <2>2 DEF EventFrame
  <2> QED BY <2>1, <2>3, TriggerIn
<1> QED BY <1>1, <1>2, <1>3

\* What a step of the event loop calls, when it may activate a configuration.
LEMMA PromiseIdle ==
  ASSUME IndInv, CallsInv, PromiseInv, SteadyPolicies, stack = <<>>,
         NEW frames \in Seq(CallFrame), stack' = frames,
         UNCHANGED <<info, queue, start, stop, finish, success>>,
         stopped' \subseteq stopped, config' \in Configs,
         \A k \in DOMAIN frames :
           /\ frames[k] \in EventFrame
              \/ /\ frames[k].op = "stopped" /\ ~frames[k].mark
                 /\ \/ IsHerder(frames[k].id)
                    \/ k = 1 /\ frames[k].id \notin finish \cup stopped'
  PROVE  PromiseInv'
<1>1. ASSUME NEW k \in DOMAIN stack', NEW g, g = stack'[k]
      PROVE  /\ ~g.mark /\ g.op # "finish"
             /\ g.op = "trigger" =>
                  g.id = 0 /\ \A n \in DOMAIN g.acts : g.acts[n].task \in Heads
             /\ g.op = "stopped" => \/ IsHerder(g.id)
                                    \/ k = 1 /\ g.id \notin finish \cup stopped'
  BY <1>1 DEF EventFrame
<1>2. /\ Created' = Created
      /\ \A j : /\ IsHerder(j)' <=> IsHerder(j)
                /\ Herd(j)' = Herd(j)
                /\ Status(j)' = Status(j)
                /\ Unstarted(j)' <=> Unstarted(j)
  BY DEF Created, IsHerder, Herd, Status, Unstarted
<1>3. \A h \in Created : IsHerder(h) =>
        /\ TaskOf(h)'.herdingPolicy = TaskOf(h).herdingPolicy
        /\ NoWait(h)' <=> NoWait(h)
  <2> SUFFICES ASSUME NEW h \in Created, IsHerder(h)
               PROVE  TaskOf(h)'.herdingPolicy = TaskOf(h).herdingPolicy
    BY DEF NoWait
  <2>1. info[h].task \in Heads /\ config \in Configs
    BY StepFacts DEF PromiseInv, HeadsHerd, TypeOK
  <2> QED BY <2>1 DEF SteadyPolicies, TaskOf, Task
<1>4. finish \subseteq Created
  BY StepFacts DEF TypeOK, InstanceTypeOK
<1>5. HeadsHerd'
  <2>1. \A h \in Created' : IsHerder(h)' => info'[h].task \in Heads
    BY <1>2 DEF PromiseInv, HeadsHerd
  <2>2. ASSUME NEW k \in DOMAIN stack', NEW g, g = stack'[k], g.op = "trigger",
               NEW n \in DOMAIN g.acts
        PROVE  g.acts[n].task \in Heads
    BY <1>1, <2>2
  <2> QED BY <2>1, <2>2 DEF HeadsHerd
<1>6. HerdFollows'
  BY <1>2 DEF PromiseInv, HerdFollows
<1>7. MarkedQueued' /\ HerdersFinish'
  <2>1. \A k \in DOMAIN stack' : ~stack'[k].mark /\ stack'[k].op # "finish"
    BY <1>1
  <2> QED BY <2>1 DEF MarkedQueued, HerdersFinish
<1>8. HerdedEndOnce'
  <2>1. ASSUME NEW k \in DOMAIN stack', NEW g, g = stack'[k],
               g.op \in {"stopped", "finish"}, ~IsHerder(g.id)
        PROVE  k = 1 /\ g.id \notin finish' \cup stopped'
    BY <1>1, <2>1
  <2>2. \A i \in stopped' : ~IsHerder(i) => i \notin finish'
    BY DEF PromiseInv, HerdedEndOnce
  <2> QED BY <1>2, <2>1, <2>2 DEF HerdedEndOnce
<1>9. PlansInTime'
  <2> SUFFICES ASSUME NEW k \in DOMAIN stack', NEW g, g = stack'[k],
                      g.op = "trigger", g.id # 0
               PROVE  FALSE
    BY DEF PlansInTime
  <2> QED BY <1>1
<1>10. HerdNeverStarts'
  <2> SUFFICES ASSUME NEW h \in finish \ start, IsHerder(h)', ~NoWait(h)'
               PROVE  (Herd(h)' \cap start) = {}
    BY DEF HerdNeverStarts
  <2> QED BY <1>2, <1>3, <1>4 DEF PromiseInv, HerdNeverStarts
<1>11. HerderOutlivesHerd'
  <2> SUFFICES ASSUME NEW h \in finish, IsHerder(h)', ~NoWait(h)'
               PROVE  Herd(h)' \subseteq finish
    BY DEF HerderOutlivesHerd, NoWait
  <2> QED BY <1>2, <1>3, <1>4
          DEF PromiseInv, HerderKeepsPromise, HerderOutlivesHerd, NoWait
<1>12. PolicyHonoured'
  <2> SUFFICES ASSUME NEW h \in finish \cap start, IsHerder(h)', Herd(h)' # {}
               PROVE  Honoured(h)'
    BY HonouredPolicies
  <2>1. Honoured(h)
    BY <1>2, HonouredPolicies DEF PromiseInv, HerderKeepsPromise
  <2>2. TaskOf(h)'.herdingPolicy = TaskOf(h).herdingPolicy
    BY <1>2, <1>3, <1>4
  <2> QED BY <1>2, <2>1, <2>2, HonouredStill
<1> QED BY <1>5, <1>6, <1>7, <1>8, <1>9, <1>10, <1>11, <1>12
        DEF PromiseInv, HerderKeepsPromise

\* A step of another thread, which may end an execution and post its signal.
LEMMA PromiseOther ==
  ASSUME IndInv, CallsInv, PromiseInv,
         UNCHANGED <<info, queue, start, finish, config, unfinishedHerdedTasks, stack>>,
         stop \subseteq stop', stop' \subseteq stop \cup start,
         stopped \subseteq stopped', stopped' \ stopped \subseteq start \ stop,
         \A i \in stop : i \in success' <=> i \in success
  PROVE  PromiseInv'
<1>1. /\ Created' = Created
      /\ \A j : /\ IsHerder(j)' <=> IsHerder(j)
                /\ Herd(j)' = Herd(j) /\ TaskOf(j)' = TaskOf(j)
                /\ (NoWait(j)' <=> NoWait(j))
                /\ (Unstarted(j)' <=> Unstarted(j))
                /\ Status(j)' = "Queued" => Status(j) = "Queued"
  BY DEF Created, IsHerder, Herd, TaskOf, Task, NoWait, Unstarted, Status
<1>2. finish \subseteq stop
  BY DEF CallsInv, Timestamps
<1>3. \A j \in finish : Status(j)' = Status(j)
  BY <1>2 DEF Status
<1>4. HeadsHerd' /\ HerdFollows' /\ MarkedQueued' /\ HerdersFinish'
  BY <1>1 DEF PromiseInv, HeadsHerd, HerdFollows, MarkedQueued, HerdersFinish,
              AwaitsNone
<1>5. HerdedEndOnce'
  <2>1. ASSUME NEW k \in DOMAIN stack, stack[k].op \in {"stopped", "finish"},
               ~IsHerder(stack[k].id)
        PROVE  k = 1 /\ stack[k].id \notin finish \cup stopped'
    <3>1. stack[k].id \in start => stack[k].id \in stop
      BY <2>1, StackFrames DEF KnownFrame, Ends
    <3> QED BY <2>1, <3>1 DEF PromiseInv, HerdedEndOnce
  <2>2. \A i \in stopped' : ~IsHerder(i) => i \notin finish
    BY <1>2 DEF PromiseInv, HerdedEndOnce
  <2> QED BY <1>1, <2>1, <2>2 DEF HerdedEndOnce
<1>6. \A k, j : Guarded(k, j) => Guarded(k, j)'
  BY <1>1 DEF Guarded, Touches, EventOps
<1>7. \A k, j : Sheltered(k, j) => Sheltered(k, j)'
  BY <1>6 DEF Sheltered
<1>8. \A k, p : InTime(k, p) => InTime(k, p)'
  BY <1>1, <1>7 DEF InTime
<1>9. PlansInTime'
  BY <1>1, <1>8 DEF PromiseInv, PlansInTime
<1>10. HerdNeverStarts' /\ HerderOutlivesHerd'
  BY <1>1 DEF PromiseInv, HerdNeverStarts, HerderKeepsPromise, HerderOutlivesHerd
<1>11. PolicyHonoured'
  <2> SUFFICES ASSUME NEW h \in finish \cap start, IsHerder(h), Herd(h) # {}, ~NoWait(h)
               PROVE  Honoured(h)'
    BY <1>1, HonouredPolicies
  <2>1. Honoured(h) /\ Herd(h) \subseteq finish
    BY HonouredPolicies DEF PromiseInv, HerderKeepsPromise, HerderOutlivesHerd, NoWait
  <2> QED BY <1>1, <1>3, <2>1, HonouredStill
<1> QED BY <1>4, <1>5, <1>9, <1>10, <1>11 DEF PromiseInv, HerderKeepsPromise

\* A step of the event loop, or of a user, that calls what ends no instance.
LEMMA PromiseCalls ==
  ASSUME IndInv, CallsInv, PromiseInv, SteadyPolicies, stack = <<>>,
         \E frames \in Seq(EventFrame) : stack' = frames,
         UNCHANGED <<info, queue, start, stop, finish, success, stopped>>,
         config' \in Configs
  PROVE  PromiseInv'
<1>1. PICK frames \in Seq(EventFrame) : stack' = frames
  OBVIOUS
<1>2. frames \in Seq(CallFrame)
  BY <1>1, SeqMonotonic DEF EventFrame
<1>3. \A k \in DOMAIN frames : frames[k] \in EventFrame
  BY <1>1
<1> QED BY <1>1, <1>2, <1>3, PromiseIdle

\* Handling an event: an instance of a herd whose end is signalled is not finished.
LEMMA PromiseEvent ==
  ASSUME IndInv, CallsInv, PromiseInv, SteadyPolicies, HandleEvent
  PROVE  PromiseInv'
<1>1. config \in Configs
  BY StepFacts DEF TypeOK
<1>2. CASE HandleQueuedEvent
  <2>1. stack = <<>>
    BY <1>2 DEF HandleQueuedEvent, Idle
  <2>2. Loop("start", 0, unfinishedTasks) \in Seq(EventFrame)
    BY NumberFacts, EventFrames DEF Loops
  <2>3. \E frames \in Seq(EventFrame) : stack' = frames
    BY <1>2, <2>2, SeqClosed DEF HandleQueuedEvent
  <2>4. UNCHANGED <<info, queue, start, stop, finish, success, stopped, config>>
    BY <1>2 DEF HandleQueuedEvent, instanceVars, executionVars, settingVars
  <2> QED BY <1>1, <2>1, <2>3, <2>4, PromiseCalls
<1>3. CASE HandlePlannedEvent
  <2>1. stack = <<>>
    BY <1>3 DEF HandlePlannedEvent, Idle
  <2>2. Loop("enqueueEach", 0,
             {i \in unfinishedTasks : info[i].herdid \in dirtyHerds})
          \in Seq(EventFrame)
    BY NumberFacts, EventFrames DEF Loops
  <2>3. \E frames \in Seq(EventFrame) : stack' = frames
    BY <1>3, <2>1, <2>2, SeqClosed DEF HandlePlannedEvent
  <2>4. UNCHANGED <<info, queue, start, stop, finish, success, stopped, config>>
    BY <1>3 DEF HandlePlannedEvent, instanceVars, executionVars, settingVars
  <2> QED BY <1>1, <2>1, <2>3, <2>4, PromiseCalls
<1>4. ASSUME NEW i \in Ids, HandleTaskInstanceStopped(i) PROVE PromiseInv'
  <2>1. PICK f, frames : f = Call("stopped", i) /\ frames = << f >>
    OBVIOUS
  <2>2. /\ stack = <<>> /\ i \in Nat /\ i \in stopped /\ stopped' = stopped \ {i}
        /\ UNCHANGED <<info, queue, start, stop, finish, success, config>>
        /\ stack' = frames
    BY <1>4, <2>1
       DEF HandleTaskInstanceStopped, Idle, instanceVars, settingVars, Ids
  <2>3. f \in CallFrame /\ f.op = "stopped" /\ f.id = i /\ f.mark = FALSE
    BY <2>1, <2>2, SeqClosed DEF Call, CallMark, CallFrame, FrameOp
  <2>4. frames \in Seq(CallFrame) /\ DOMAIN frames = {1} /\ frames[1] = f
    BY <2>1, <2>3, SeqClosed, Concats
  <2>5. ~IsHerder(i) => i \notin finish \cup stopped'
    BY <2>2 DEF PromiseInv, HerdedEndOnce
  <2>6. stopped' \subseteq stopped /\ config' \in Configs
    BY <1>1, <2>2
  <2>7. \A k \in DOMAIN frames :
          /\ frames[k].op = "stopped" /\ ~frames[k].mark
          /\ \/ IsHerder(frames[k].id)
             \/ k = 1 /\ frames[k].id \notin finish \cup stopped'
    BY <2>3, <2>4, <2>5
  <2> QED BY <2>2, <2>4, <2>6, <2>7, PromiseIdle
<1> QED BY <1>2, <1>3, <1>4 DEF HandleEvent

\* What happens outside the event loop.
LEMMA PromiseEnvironment ==
  ASSUME IndInv, CallsInv, PromiseInv, SteadyPolicies, Environment
  PROVE  PromiseInv'
<1>0. config \in Configs
  BY StepFacts DEF TypeOK
<1>1. CASE \/ \E tasks \in Switches, b \in BOOLEAN : EnableTasks(tasks, b)
           \/ \E h \in Hosts : HostChanged(h)
           \/ Shutdown
  <2>1. UNCHANGED <<info, queue, start, stop, finish, success, stopped, config,
                    unfinishedHerdedTasks, stack>>
    BY <1>1 DEF EnableTasks, HostChanged, Shutdown, instanceVars, indexVars,
                executionVars
  <2> QED BY <2>1, PromiseOther
<1>2. ASSUME stack = <<>>,
             UNCHANGED <<instanceVars, executionVars>>, config' \in Configs,
             \E frames \in Seq(EventFrame) : stack' = frames
      PROVE  PromiseInv'
  BY <1>2, PromiseCalls DEF instanceVars, executionVars
<1>3. ASSUME NEW a \in Requests, RequestTask(a) PROVE PromiseInv'
  <2>1. a \in Action /\ a.task \in Heads
    BY ConfigAssumption DEF Heads, Action
  <2>2. PICK acts : acts = << a >>
    OBVIOUS
  <2>3. acts \in Seq(Action) /\ \A n \in DOMAIN acts : acts[n].task \in Heads
    BY <2>1, <2>2, SeqClosed, Concats
  <2>4. Trigger(0, acts) \in Seq(EventFrame)
    BY <2>3, EventFrames
  <2>5. stack = <<>> /\ stack' = Trigger(0, acts)
        /\ UNCHANGED <<instanceVars, executionVars, config>>
    BY <1>3, <2>2 DEF RequestTask, Idle
  <2> QED BY <1>0, <1>2, <2>4, <2>5
<1>4. ASSUME NEW i \in unfinishedTasks,
             CancelTaskInstance(i) \/ AbortTaskInstance(i)
      PROVE  PromiseInv'
  <2>1. i \in Nat
    BY NumberFacts
  <2>2. << Call("cancel", i) >> \in Seq(EventFrame)
        /\ << Call("abort", i) >> \in Seq(EventFrame)
    BY <2>1, EventFrames
  <2>3. /\ stack = <<>> /\ UNCHANGED <<instanceVars, executionVars, config>>
        /\ stack' = << Call("cancel", i) >> \/ stack' = << Call("abort", i) >>
    BY <1>4 DEF CancelTaskInstance, AbortTaskInstance, Command, Idle, settingVars
  <2> QED BY <1>0, <1>2, <2>2, <2>3
<1>5. ASSUME NEW t \in Tasks, \/ CancelTaskInstancesByTaskId(t)
                              \/ AbortTaskInstanceByTaskId(t)
      PROVE  PromiseInv'
  <2>1. stack = <<>> /\ UNCHANGED <<instanceVars, executionVars, config>>
    BY <1>5 DEF CancelTaskInstancesByTaskId, AbortTaskInstanceByTaskId,
                Command, Idle, settingVars
  <2>2. ASSUME NEW S \in SUBSET unfinishedTasks
        PROVE  /\ Loop("cancelEach", 0, S) \in Seq(EventFrame)
               /\ Loop("abortEach", 0, S) \in Seq(EventFrame)
    BY NumberFacts, EventFrames DEF Loops
  <2>3. \E frames \in Seq(EventFrame) : stack' = frames
    BY <1>5, <2>2
       DEF CancelTaskInstancesByTaskId, AbortTaskInstanceByTaskId, Command
  <2> QED BY <1>0, <1>2, <2>1, <2>3
<1>6. ASSUME NEW c \in Configs, ActivateConfig(c) PROVE PromiseInv'
  <2>1. /\ stack = <<>> /\ UNCHANGED <<instanceVars, executionVars>> /\ config' = c
        /\ stack' = Loop("reload", 0, unfinishedTasks) \o Trigger(0, OnConfigLoad[c])
    BY <1>6 DEF ActivateConfig, Idle
  <2>2. Loop("reload", 0, unfinishedTasks) \in Seq(EventFrame)
    BY NumberFacts, EventFrames DEF Loops
  <2>3. PICK acts : acts = OnConfigLoad[c]
    OBVIOUS
  <2>4. acts \in Seq(Action)
    BY <2>3, ConfigAssumption
  <2>5. \A n \in DOMAIN acts : acts[n].task \in Heads
    <3>1. \A n \in DOMAIN acts : acts[n] \in Action
      BY <2>4
    <3>2. \A a \in Action : a.task \in Tasks
      BY DEF Action
    <3> QED BY <2>3, <3>1, <3>2 DEF Heads
  <2>6. Trigger(0, acts) \in Seq(EventFrame)
    BY <2>4, <2>5, EventFrames
  <2>7. \E frames \in Seq(EventFrame) : stack' = frames
    BY <2>1, <2>2, <2>3, <2>6, SeqClosed
  <2> QED BY <1>2, <2>1, <2>7
<1> QED BY <1>1, <1>3, <1>4, <1>5, <1>6 DEF Environment

\* No instance is in memory at first.
LEMMA PromiseInit == Init => PromiseInv
<1> SUFFICES ASSUME Init PROVE PromiseInv
  OBVIOUS
<1>1. stack = <<>> /\ Created = {} /\ finish = {} /\ stopped = {}
  BY DEF Init, InstanceInit, Created
<1>2. DOMAIN stack = {}
  BY <1>1, Concats
<1> QED BY <1>1, <1>2
        DEF PromiseInv, HeadsHerd, HerdFollows, MarkedQueued, HerdedEndOnce,
            HerdersFinish, PlansInTime, HerdNeverStarts, HerderKeepsPromise,
            HerderOutlivesHerd, PolicyHonoured

\* Every step keeps the invariant.
LEMMA PromiseNext ==
  ASSUME HerdersFinishLone, SteadyPolicies,
         IndInv, CallsInv, IndexInv, PromiseInv, [Next]_vars
  PROVE  PromiseInv'
<1>1. CASE UNCHANGED vars
  <2>1. UNCHANGED <<info, queue, start, stop, finish, success, stopped, config,
                    unfinishedHerdedTasks, stack>>
    BY <1>1 DEF vars, instanceVars, indexVars, executionVars, settingVars
  <2> QED BY <2>1, PromiseOther
<1>2. CASE Step
  BY <1>2, PromisePlan, PromiseStep
<1>3. ASSUME NEW i \in Ids, ExecutorStop(i) PROVE PromiseInv'
  <2>1. /\ i \in start /\ i \notin stop
        /\ stop' = stop \cup {i} /\ stopped' = stopped \cup {i}
        /\ UNCHANGED <<info, queue, start, finish, config, unfinishedHerdedTasks,
                       stack>>
    BY <1>3 DEF ExecutorStop, IndInv, ExecutorKnown, indexVars, settingVars
  <2>2. \A j \in stop : j \in success' <=> j \in success
    BY <1>3, <2>1 DEF ExecutorStop
  <2> QED BY <2>1, <2>2, PromiseOther
<1> QED BY <1>1, <1>2, <1>3, PromiseEvent, PromiseEnvironment DEF Next

\* A herder that waits outlives its herd, and its status is the one its policy
\* gives for the ends of its herd, however the calls nest and the two threads
\* interleave: when the end of a herder plans nothing in its own herd, and no
\* configuration changes the policy of a herder.
THEOREM HerdersKeepPromise ==
  ASSUME HerdersFinishLone, SteadyPolicies
  PROVE  Spec => []HerderKeepsPromise
<1>1. Init => PromiseInv
  BY PromiseInit
<1>2. IndInv /\ CallsInv /\ IndexInv /\ PromiseInv /\ [Next]_vars => PromiseInv'
  BY PromiseNext
<1>3. Init => IndexInv
  BY IndexInit
<1>4. IndInv /\ CallsInv /\ IndexInv /\ [Next]_vars => IndexInv'
  BY IndexNext
<1>5. PromiseInv => HerderKeepsPromise
  BY DEF PromiseInv
<1> QED BY <1>1, <1>2, <1>3, <1>4, <1>5, Invariant, CallsAreKnown, PTL DEF Spec
-----------------------------------------------------------------------------
(* The diagrams of herds.                                                  *)

\* The instances of a herd that is in memory wait for something, herders for
\* nothing, and an instance is planned in the herd of its parent.
Linked ==
  /\ \A h \in Ids : \A j \in unfinishedHerds[h] : info[j].queuewhen # ""
  /\ \A i \in Created :
       /\ IsHerder(i) => info[i].queuewhen = ""
       /\ ~IsHerder(i) => /\ info[i].parentid \in Created
                          /\ info[info[i].parentid].herdid = info[i].herdid

\* How an instance that is planned is linked to the others.
LEMMA PlannedLinks ==
  ASSUME IndInv, CallsInv, PlanTask, Head(Top.acts).task \in enabled
  PROVE  \E i, herdid :
           /\ i \in Ids /\ i \notin Created /\ Created' = Created \cup {i}
           /\ \A j \in Created : info'[j] = info[j]
           /\ info'[i].parentid = Top.id
           /\ \/ herdid = 0 /\ info'[i].herdid = i
              \/ /\ herdid \in Created /\ info'[i].herdid = herdid
                 /\ Top.id \in Created /\ info[Top.id].herdid = herdid
           /\ \/ /\ herdid \in unfinishedTasks /\ info'[i].queuewhen # ""
                 /\ unfinishedHerds' =
                      [unfinishedHerds EXCEPT ![herdid] = @ \cup {i}]
              \/ /\ herdid \notin unfinishedTasks /\ info'[i].queuewhen = ""
                 /\ unfinishedHerds' = unfinishedHerds
<1>1. PICK a, i, herdid : /\ a = Head(Top.acts) /\ i = Len(info) + 1
                          /\ herdid = HerdOf(Top.id, a)
  OBVIOUS
<1>2. /\ i \in Ids /\ i \notin Created /\ Created' = Created \cup {i}
      /\ \A j \in Created : info'[j] = info[j]
      /\ info'[i].herdid = IF herdid = 0 THEN i ELSE herdid
      /\ herdid \in {0} \cup Created /\ Top.id \in {0} \cup Created
      /\ IF herdid \in unfinishedTasks THEN AppendToHerd(herdid, i)
         ELSE UNCHANGED <<unfinishedHerds, unfinishedHerdedTasks>>
  BY <1>1, NewlyPlanned
<1>3. PICK x, y, z, f, t :
        /\ info' = Append(info,
             [task |-> t, force |-> f,
              herdid |-> IF herdid = 0 THEN i ELSE herdid, parentid |-> Top.id,
              queuewhen |-> x, cancelwhen |-> y, watch |-> z])
        /\ x = IF herdid \notin unfinishedTasks THEN ""
               ELSE IF a.queuewhen = "" THEN "AllStarted" ELSE a.queuewhen
  BY <1>1 DEF PlanTask, NewInstance
<1>4. PICK r : r = [task |-> t, force |-> f,
                    herdid |-> IF herdid = 0 THEN i ELSE herdid, parentid |-> Top.id,
                    queuewhen |-> x, cancelwhen |-> y, watch |-> z]
  OBVIOUS
<1>5. r.parentid = Top.id /\ r.queuewhen = x /\ info' = Append(info, r)
  BY <1>3, <1>4
<1>6. info'[i].parentid = Top.id /\ info'[i].queuewhen = x
  <2>1. info \in Seq(Info \cup {r}) /\ r \in Info \cup {r}
    <3>1. info \in Seq(Info)
      BY StepFacts DEF TypeOK, InstanceTypeOK
    <3> QED BY <3>1, SeqMonotonic
  <2>2. info'[i] = r
    BY <1>1, <1>5, <2>1, AppendProperties
  <2> QED BY <1>5, <2>2
<1>7. herdid # 0 => Top.id \in Created /\ info[Top.id].herdid = herdid
  BY <1>1, <1>2 DEF HerdOf
<1>8. IF herdid \in unfinishedTasks
      THEN x # "" /\ unfinishedHerds' = [unfinishedHerds EXCEPT ![herdid] = @ \cup {i}]
      ELSE x = "" /\ unfinishedHerds' = unfinishedHerds
  BY <1>2, <1>3 DEF AppendToHerd
<1> QED BY <1>2, <1>6, <1>7, <1>8

\* What else the scheduler does leaves the descriptions of instances as they
\* are, and adds no instance to a herd.
LEMMA LinksKept ==
  ASSUME IndInv, [Next]_vars
  PROVE  \/ PlanTask /\ Head(Top.acts).task \in enabled
         \/ /\ info' = info /\ Created' = Created
            /\ \A h \in Ids : unfinishedHerds'[h] \subseteq unfinishedHerds[h]
<1>1. ASSUME UNCHANGED <<info, unfinishedHerds>>
      PROVE  /\ info' = info /\ Created' = Created
             /\ \A h \in Ids : unfinishedHerds'[h] \subseteq unfinishedHerds[h]
  BY <1>1 DEF Created
<1>2. CASE \/ Planned \/ EnqueueTaskInstance \/ Deduplicate \/ Dropped \/ Queue
           \/ DoCancelTaskInstance \/ DoAbortTaskInstance \/ Aborted
           \/ CancelOrAbortEach \/ TaskInstanceStoppedOrCanceled \/ Settle \/ LoopEnds
           \/ TaskInstanceFinishedOrCanceled \/ Herded
           \/ \E i \in Created : \/ StartTaskInstance(i) \/ EnqueueOrCancelPlanned(i)
                                 \/ ReplaceTaskOrCancel(i)
  <2>1. UNCHANGED <<info, unfinishedHerds>>
    BY <1>2 DEF Planned, EnqueueTaskInstance, Deduplicate, Dropped, Queue,
                DoCancelTaskInstance, DoAbortTaskInstance, Aborted,
                CancelOrAbortEach, TaskInstanceStoppedOrCanceled, Settle, LoopEnds,
                TaskInstanceFinishedOrCanceled, Herded, StartTaskInstance, Launch,
                EnqueueOrCancelPlanned, ReplaceTaskOrCancel, indexVars, instanceVars
  <2> QED BY <1>1, <2>1
<1>3. CASE Forget
  <2>1. info' = info
    BY <1>3 DEF Forget, instanceVars
  <2>2. \/ unfinishedHerds' = unfinishedHerds
        \/ unfinishedHerds' = [unfinishedHerds EXCEPT ![Top.id] = {}]
    BY <1>3 DEF Forget
  <2>3. \A h \in Ids : unfinishedHerds'[h] \subseteq unfinishedHerds[h]
    BY <2>2, StepFacts
  <2> QED BY <2>1, <2>3 DEF Created
<1>4. CASE PlanTask /\ Head(Top.acts).task \notin enabled
  <2>1. UNCHANGED <<info, unfinishedHerds>>
    BY <1>4 DEF PlanTask, instanceVars, indexVars
  <2> QED BY <1>1, <2>1
<1>5. CASE UNCHANGED vars \/ HandleEvent \/ Environment \/ \E i \in Ids : ExecutorStop(i)
  <2>1. UNCHANGED <<info, unfinishedHerds>>
    BY <1>5 DEF vars, HandleEvent, HandleQueuedEvent, HandlePlannedEvent,
         HandleTaskInstanceStopped, Environment, RequestTask, CancelTaskInstance,
         AbortTaskInstance, CancelTaskInstancesByTaskId,
         AbortTaskInstanceByTaskId, Command, EnableTasks, HostChanged, Shutdown,
         ActivateConfig, ExecutorStop, instanceVars, indexVars
  <2> QED BY <1>1, <2>1
<1> QED BY <1>2, <1>3, <1>4, <1>5 DEF Next, Step

\* No instance is in memory at first.
LEMMA LinkInit == Init => Linked
<1> SUFFICES ASSUME Init PROVE Linked
  OBVIOUS
<1>1. Created = {} /\ \A h \in Ids : unfinishedHerds[h] = {}
  BY DEF Init, InstanceInit, Created
<1> QED BY <1>1 DEF Linked

\* Every step keeps the links.
LEMMA LinkNext == ASSUME IndInv, CallsInv, Linked, [Next]_vars PROVE Linked'
<1>1. \A h \in Ids : unfinishedHerds[h] \subseteq Created
  BY StepFacts
<1>2. CASE PlanTask /\ Head(Top.acts).task \in enabled
  <2>1. PICK i, herdid :
           /\ i \in Ids /\ i \notin Created /\ Created' = Created \cup {i}
           /\ \A j \in Created : info'[j] = info[j]
           /\ info'[i].parentid = Top.id
           /\ \/ herdid = 0 /\ info'[i].herdid = i
              \/ /\ herdid \in Created /\ info'[i].herdid = herdid
                 /\ Top.id \in Created /\ info[Top.id].herdid = herdid
           /\ \/ /\ herdid \in unfinishedTasks /\ info'[i].queuewhen # ""
                 /\ unfinishedHerds' =
                      [unfinishedHerds EXCEPT ![herdid] = @ \cup {i}]
              \/ /\ herdid \notin unfinishedTasks /\ info'[i].queuewhen = ""
                 /\ unfinishedHerds' = unfinishedHerds
    BY <1>2, PlannedLinks
  <2>2. ASSUME NEW h \in Ids, NEW j \in unfinishedHerds'[h]
        PROVE  info'[j].queuewhen # ""
    <3>1. j \in unfinishedHerds[h] \/ (j = i /\ info'[i].queuewhen # "")
      <4>1. unfinishedHerds \in [Ids -> SUBSET Created]
        BY StepFacts
      <4>2. CASE info'[i].queuewhen # ""
                 /\ unfinishedHerds' =
                      [unfinishedHerds EXCEPT ![herdid] = @ \cup {i}]
        <5>1. CASE h = herdid
          BY <2>2, <4>1, <4>2, <5>1
        <5>2. CASE h # herdid
          BY <2>2, <4>1, <4>2, <5>2
        <5> QED BY <5>1, <5>2
      <4>3. CASE unfinishedHerds' = unfinishedHerds
        BY <2>2, <4>3
      <4> QED BY <2>1, <4>2, <4>3
    <3>2. j \in unfinishedHerds[h] => j \in Created /\ info[j].queuewhen # ""
      BY <1>1 DEF Linked
    <3> QED BY <2>1, <3>1, <3>2
  <2>3. 0 \notin unfinishedTasks
    BY StepFacts DEF Created
  <2>4. ASSUME NEW j \in Created'
        PROVE  /\ IsHerder(j)' => info'[j].queuewhen = ""
               /\ ~IsHerder(j)' => /\ info'[j].parentid \in Created'
                                   /\ info'[info'[j].parentid].herdid = info'[j].herdid
    <3>1. CASE j = i
      BY <2>1, <2>3, <3>1 DEF IsHerder
    <3>2. CASE j \in Created
      BY <2>1, <3>2 DEF IsHerder, Linked
    <3> QED BY <2>1, <3>1, <3>2
  <2> QED BY <2>2, <2>4 DEF Linked
<1>3. CASE /\ info' = info /\ Created' = Created
           /\ \A h \in Ids : unfinishedHerds'[h] \subseteq unfinishedHerds[h]
  BY <1>3 DEF Linked, IsHerder
<1> QED BY <1>2, <1>3, LinksKept

-----------------------------------------------------------------------------
(* What the thread that draws the diagram of a herd has read.              *)

Sel == DOMAIN drawing.prerequisites

\* The instances that were planned before and those of the herd are still the same.
SelectedRight ==
  LET h == drawing.herder
      before == drawing.before
  IN  /\ IsHerder(h) /\ h \in Sel /\ Sel \subseteq before /\ before \subseteq Created
      /\ HerdList(h) \cap before \subseteq Sel
      /\ info[h].parentid \in Sel \cup {0}
      /\ \A i \in Sel : /\ info[i].herdid = h \/ i = info[h].parentid
                        /\ info[i].parentid \in before \cup {0}

\* The instances named so far: all that were named and planned before, once the
\* condition has been evaluated, and none that is not named.
Named(i) == {j \in HerdList(drawing.herder) : info[j].task \in info[i].watch}
Evaluated(i) == drawing.pass = "children" \/ i \notin drawing.todo

EvaluatedRight ==
  \A i \in Sel :
    /\ drawing.prerequisites[i] \subseteq Sel \cup (Created \ drawing.before)
    /\ info[i].watch # {} /\ info[i].herdid = drawing.herder =>
         drawing.prerequisites[i] \subseteq Named(i)
    /\ info[i].watch # {} /\ i \in HerdList(drawing.herder) /\ Evaluated(i) =>
         Named(i) \cap drawing.before \subseteq drawing.prerequisites[i]

\* Each instance is found under its own id, but one that is awaited and was not
\* selected.
InstancesRight ==
  LET instances == drawing.instances
  IN  /\ drawing.todo \subseteq DOMAIN instances
      /\ Sel \subseteq DOMAIN instances /\ DOMAIN instances \subseteq Created
      /\ \A i \in Sel : instances[i] = i
      /\ \A id \in drawing.todo : instances[id] \in Sel
      /\ \A id \in DOMAIN instances :
           \/ instances[id] = id /\ (id \in Sel \/ info[id].parentid \in Sel)
           \/ id \notin drawing.before /\ instances[id] \in Sel
      /\ drawing.pass = "prerequisites" => DOMAIN instances = Sel

DrawingShape ==
  /\ drawing = [pass |-> drawing.pass, herder |-> drawing.herder,
                before |-> drawing.before, instances |-> drawing.instances,
                prerequisites |-> drawing.prerequisites, todo |-> drawing.todo]
  /\ drawing.pass \in {"none", "prerequisites", "children"}

DrawingInv ==
  /\ DrawingShape
  /\ drawing.pass # "none" => SelectedRight /\ EvaluatedRight /\ InstancesRight

\* Some instances have a first one.
LEMMA Least == ASSUME NEW S \in SUBSET Nat, S # {} PROVE First(S) \in S
<1>1. PICK x \in S : \A y \in S : ~ (<<y, x>> \in OpToRel(<, Nat))
  <2>1. \E x \in S : \A y \in S : ~ (<<y, x>> \in OpToRel(<, Nat))
    BY NatLessThanWellFounded, WFMin
  <2> QED BY <2>1
<1>2. ASSUME NEW y \in S, y < x PROVE FALSE
  <2>1. x \in Nat /\ y \in Nat
    OBVIOUS
  <2>2. <<y, x>> \in OpToRel(<, Nat)
    BY <1>2, <2>1 DEF OpToRel
  <2> QED BY <1>1, <2>2
<1>3. \A y \in S : x <= y
  BY <1>2
<1> QED BY <1>3 DEF First

\* The instances that were planned do not change: only others join their herds.
LEMMA HerdsGrow ==
  ASSUME IndInv, CallsInv, [Next]_vars
  PROVE  /\ Created \subseteq Created' /\ \A j \in Created : info'[j] = info[j]
         /\ \A h, b : b \subseteq Created => /\ HerdList(h) \subseteq HerdList(h)'
                                             /\ HerdList(h)' \cap b \subseteq HerdList(h)
<1>1. Created \subseteq Created' /\ \A j \in Created : info'[j] = info[j]
  <2>1. CASE PlanTask /\ Head(Top.acts).task \in enabled
    BY <2>1, PlannedLinks
  <2>2. CASE info' = info /\ Created' = Created
    BY <2>2
  <2> QED BY <2>1, <2>2, LinksKept
<1>2. ASSUME NEW h, NEW b, b \subseteq Created
      PROVE  HerdList(h) \subseteq HerdList(h)' /\ HerdList(h)' \cap b \subseteq HerdList(h)
  BY <1>1, <1>2 DEF HerdList
<1> QED BY <1>1, <1>2

\* What has been read stays right while the scheduler goes on.
LEMMA DrawingKept ==
  ASSUME IndInv, CallsInv, DrawingInv, [Next]_vars, UNCHANGED drawing PROVE DrawingInv'
<1>1. DrawingShape'
  BY DEF DrawingInv, DrawingShape
<1> SUFFICES ASSUME drawing.pass # "none"
             PROVE  (SelectedRight /\ EvaluatedRight /\ InstancesRight)'
  BY <1>1 DEF DrawingInv
<1>2. PICK h, before, sel, prerequisites, instances :
        /\ h = drawing.herder /\ before = drawing.before /\ sel = Sel
        /\ prerequisites = drawing.prerequisites /\ instances = drawing.instances
  OBVIOUS
<1>3. SelectedRight /\ EvaluatedRight /\ InstancesRight /\ Sel' = sel
  BY <1>2 DEF DrawingInv, Sel
<1>4. /\ h \in sel /\ sel \subseteq before /\ before \subseteq Created
      /\ IsHerder(h)
  BY <1>2, <1>3 DEF SelectedRight
<1>5. /\ Created \subseteq Created' /\ \A j \in Created : info'[j] = info[j]
      /\ HerdList(h) \subseteq HerdList(h)' /\ HerdList(h)' \cap before \subseteq HerdList(h)
  BY <1>4, HerdsGrow
<1>6. SelectedRight'
  <2>1. IsHerder(h)' /\ info'[h].parentid = info[h].parentid
    BY <1>4, <1>5 DEF IsHerder
  <2>2. HerdList(h)' \cap before \subseteq sel
    BY <1>2, <1>3, <1>5 DEF SelectedRight
  <2>3. before \subseteq Created'
    BY <1>4, <1>5
  <2>4. \A i \in sel : /\ info'[i].herdid = h \/ i = info'[h].parentid
                       /\ info'[i].parentid \in before \cup {0}
    BY <1>2, <1>3, <1>4, <1>5 DEF SelectedRight
  <2>5. info'[h].parentid \in sel \cup {0}
    BY <1>2, <1>3, <2>1 DEF SelectedRight
  <2> QED BY <1>2, <1>3, <1>4, <2>1, <2>2, <2>3, <2>4, <2>5 DEF SelectedRight
<1>7. EvaluatedRight'
  <2> SUFFICES ASSUME NEW i \in sel
               PROVE  /\ prerequisites[i] \subseteq sel \cup (Created' \ before)
                      /\ info'[i].watch # {} /\ info'[i].herdid = h =>
                           prerequisites[i] \subseteq Named(i)'
                      /\ info'[i].watch # {} /\ i \in HerdList(h)' /\ Evaluated(i)' =>
                           Named(i)' \cap before \subseteq prerequisites[i]
    BY <1>2, <1>3 DEF EvaluatedRight
  <2>1. /\ prerequisites[i] \subseteq sel \cup (Created \ before)
        /\ info[i].watch # {} /\ info[i].herdid = h => prerequisites[i] \subseteq Named(i)
        /\ info[i].watch # {} /\ i \in HerdList(h) /\ Evaluated(i) =>
             Named(i) \cap before \subseteq prerequisites[i]
    BY <1>2, <1>3 DEF EvaluatedRight
  <2>2. i \in Created /\ info'[i] = info[i] /\ (i \in HerdList(h)' => i \in HerdList(h))
    BY <1>4, <1>5
  <2>3. Evaluated(i)' => Evaluated(i)
    BY DEF Evaluated
  <2>4. /\ Named(i) = {j \in HerdList(h) : info[j].task \in info[i].watch}
        /\ Named(i)' = {j \in HerdList(h)' : info'[j].task \in info'[i].watch}
    BY <1>2 DEF Named
  <2>5. HerdList(h) \subseteq Created
    BY DEF HerdList
  <2>6. Named(i) \subseteq Named(i)' /\ Named(i)' \cap before \subseteq Named(i)
    <3>1. ASSUME NEW j \in HerdList(h) PROVE j \in HerdList(h)' /\ info'[j] = info[j]
      BY <1>5, <2>5
    <3>2. ASSUME NEW j \in HerdList(h)' \cap before
          PROVE  j \in HerdList(h) /\ info'[j] = info[j]
      BY <1>4, <1>5
    <3> QED BY <2>2, <2>4, <3>1, <3>2
  <2> QED BY <1>5, <2>1, <2>2, <2>3, <2>6
<1>8. InstancesRight'
  <2>1. \A id \in DOMAIN instances : id \in Created /\ info'[id] = info[id]
    BY <1>2, <1>3, <1>5 DEF InstancesRight
  <2>2. DOMAIN instances \subseteq Created'
    BY <1>5, <2>1
  <2> QED BY <1>2, <1>3, <2>1, <2>2 DEF InstancesRight
<1> QED BY <1>6, <1>7, <1>8

\* The selection of a herd.
LEMMA HerdSelected ==
  ASSUME IndInv, Linked, NEW h \in Created, IsHerder(h), SelectHerd(h), UNCHANGED vars
  PROVE  DrawingInv'
<1>1. PICK sel : sel = Selected(h)
  OBVIOUS
<1>2. /\ h \in sel /\ HerdList(h) \subseteq sel
      /\ info[h].parentid \in sel \cup {0}
      /\ \A i \in sel : \/ i = h \/ i \in HerdList(h)
                        \/ i # 0 /\ i = info[h].parentid
                        \/ i # 0 /\ \E j \in HerdList(h) : i = info[j].parentid
  BY <1>1 DEF Selected
<1>3. \A j \in HerdList(h) : j \in Created /\ ~IsHerder(j) /\ info[j].herdid = h
  BY DEF HerdList, IsHerder
<1>4. \A i \in Created : info[i].parentid \in Created \cup {0}
  <2> SUFFICES ASSUME NEW i \in Created PROVE info[i].parentid \in Created \cup {0}
    OBVIOUS
  <2>1. info[i].parentid \in 0..MaxId /\ info[i].parentid < i
    BY StepFacts DEF TypeOK, InstanceTypeOK, Info
  <2> QED BY <2>1, StepFacts, MaxIdAssumption DEF Created
<1>5. \A i \in sel : i \in Created /\ (info[i].herdid = h \/ i = info[h].parentid)
  <2> SUFFICES ASSUME NEW i \in sel
               PROVE  i \in Created /\ (info[i].herdid = h \/ i = info[h].parentid)
    OBVIOUS
  <2>1. CASE i = h
    BY <2>1 DEF IsHerder
  <2>2. CASE i \in HerdList(h)
    BY <1>3, <2>2
  <2>3. CASE i # 0 /\ i = info[h].parentid
    BY <1>4, <2>3
  <2>4. ASSUME NEW j \in HerdList(h), i = info[j].parentid
        PROVE  i \in Created /\ info[i].herdid = h
    <3>1. j \in Created /\ ~IsHerder(j) /\ info[j].herdid = h
      BY <1>3
    <3> QED BY <2>4, <3>1 DEF Linked
  <2> QED BY <1>2, <2>1, <2>2, <2>3, <2>4
<1>6. /\ drawing'.pass = "prerequisites" /\ drawing'.herder = h
      /\ drawing'.before = Created /\ drawing'.instances = [id \in sel |-> id]
      /\ drawing'.prerequisites = [i \in sel |-> {}] /\ drawing'.todo = sel
      /\ DrawingShape'
  BY <1>1 DEF SelectHerd, DrawingShape
<1>7. /\ UNCHANGED <<info, Created>> /\ HerdList(h)' = HerdList(h)
      /\ (IsHerder(h)' <=> IsHerder(h))
  BY DEF vars, instanceVars, Created, HerdList, IsHerder
<1>8. Sel' = sel
  BY <1>6 DEF Sel
<1>9. SelectedRight'
  BY <1>2, <1>4, <1>5, <1>6, <1>7, <1>8 DEF SelectedRight
<1>10. EvaluatedRight'
  <2>1. \A i \in sel : drawing'.prerequisites[i] = {} /\ ~Evaluated(i)'
    BY <1>6 DEF Evaluated
  <2> QED BY <1>8, <2>1 DEF EvaluatedRight
<1>11. InstancesRight'
  BY <1>5, <1>6, <1>7, <1>8 DEF InstancesRight
<1> QED BY <1>6, <1>9, <1>10, <1>11 DEF DrawingInv

\* The evaluation of the condition of an instance.
LEMMA ConditionEvaluated ==
  ASSUME IndInv, CallsInv, Linked, DrawingInv, EvaluateCondition, UNCHANGED vars
  PROVE  DrawingInv'
<1>1. PICK h, before, sel, prerequisites, instances, i, theirs :
        /\ h = drawing.herder /\ before = drawing.before /\ sel = Sel
        /\ prerequisites = drawing.prerequisites /\ instances = drawing.instances
        /\ i = First(drawing.todo) /\ theirs = Prerequisites(i, DOMAIN instances)
  OBVIOUS
<1>2. /\ drawing.pass = "prerequisites" /\ drawing.todo # {}
      /\ SelectedRight /\ EvaluatedRight /\ InstancesRight
  BY DEF EvaluateCondition, DrawingInv
<1>3. DOMAIN instances = sel /\ drawing.todo \subseteq sel /\ sel \subseteq Created
      /\ h \in sel /\ sel \subseteq before /\ before \subseteq Created /\ IsHerder(h)
      /\ HerdList(h) \cap before \subseteq sel /\ DOMAIN prerequisites = sel
  BY <1>1, <1>2 DEF InstancesRight, SelectedRight, Sel
<1>4. i \in drawing.todo /\ i \in sel /\ i \in Created
  BY <1>1, <1>2, <1>3, NumberFacts, Least
<1>5. /\ drawing'.pass = "prerequisites" /\ drawing'.herder = h
      /\ drawing'.before = before /\ drawing'.instances = instances
      /\ drawing'.prerequisites = [prerequisites EXCEPT ![i] = theirs]
      /\ drawing'.todo = drawing.todo \ {i} /\ DrawingShape'
  BY <1>1, <1>2 DEF EvaluateCondition, DrawingInv, DrawingShape
<1>6. Sel' = sel
  BY <1>3, <1>5 DEF Sel
<1>7. /\ UNCHANGED <<info, Created>> /\ \A g : HerdList(g)' = HerdList(g)
      /\ \A g : IsHerder(g)' <=> IsHerder(g)
  BY DEF vars, instanceVars, Created, HerdList, IsHerder
<1>8. /\ theirs \subseteq sel \cup (Created \ before)
      /\ info[i].watch # {} /\ info[i].herdid = h => theirs \subseteq Named(i)
      /\ info[i].watch # {} /\ i \in HerdList(h) => theirs = Named(i)
  <2>1. CASE info[i].queuewhen = "" \/ info[i].herdid \notin sel
    <3>1. theirs = {}
      BY <1>1, <1>3, <2>1 DEF Prerequisites
    <3>2. i \notin HerdList(h)
      BY <1>3, <2>1 DEF HerdList
    <3> QED BY <3>1, <3>2
  <2>2. CASE info[i].queuewhen # "" /\ info[i].herdid \in sel
    <3>1. ~IsHerder(i) /\ IsHerder(info[i].herdid)
      BY <1>4, <2>2 DEF Linked, CallsInv, Herds
    <3>2. info[i].herdid = h
      <4>1. info[i].herdid # i /\ (info[i].herdid = h \/ i = info[h].parentid)
        BY <1>1, <1>2, <1>4, <3>1 DEF IsHerder, SelectedRight
      <4>2. \/ info[info[i].herdid].herdid = h
            \/ info[i].herdid = info[h].parentid
        BY <1>1, <1>2, <2>2 DEF SelectedRight
      <4> QED BY <3>1, <4>1, <4>2 DEF IsHerder
    <3>3. CASE info[i].watch = {}
      <4>1. theirs \subseteq sel
        BY <1>1, <1>2, <1>3, <2>2, <3>2, <3>3 DEF Prerequisites, SelectedRight
      <4> QED BY <3>3, <4>1
    <3>4. CASE info[i].watch # {}
      <4>1. theirs = {j \in HerdList(h) : info[j].task \in info[i].watch}
        BY <1>1, <1>3, <2>2, <3>2, <3>4 DEF Prerequisites
      <4>2. HerdList(h) \subseteq sel \cup (Created \ before)
        BY <1>3 DEF HerdList
      <4> QED BY <1>1, <4>1, <4>2 DEF Named
    <3> QED BY <3>3, <3>4
  <2> QED BY <2>1, <2>2
<1>9. SelectedRight'
  BY <1>1, <1>2, <1>5, <1>6, <1>7 DEF SelectedRight
<1>10. InstancesRight'
  BY <1>1, <1>2, <1>5, <1>6, <1>7 DEF InstancesRight
<1>11. EvaluatedRight'
  <2>1. ASSUME NEW k \in sel
        PROVE  LET now == drawing'.prerequisites[k]
               IN  /\ now \subseteq sel \cup (Created \ before)
                   /\ info[k].watch # {} /\ info[k].herdid = h => now \subseteq Named(k)
                   /\ info[k].watch # {} /\ k \in HerdList(h) /\ Evaluated(k)' =>
                        Named(k) \cap before \subseteq now
    <3>1. CASE k = i
      BY <1>3, <1>5, <1>8, <3>1
    <3>2. CASE k # i
      <4>1. drawing'.prerequisites[k] = prerequisites[k]
        BY <1>3, <1>5, <3>2
      <4>2. Evaluated(k)' => Evaluated(k)
        BY <1>5, <3>2 DEF Evaluated
      <4> QED BY <1>1, <1>2, <4>1, <4>2 DEF EvaluatedRight
    <3> QED BY <3>1, <3>2
  <2>2. \A k : Named(k)' = Named(k)
    BY <1>1, <1>5, <1>7 DEF Named
  <2> QED BY <1>5, <1>6, <1>7, <2>1, <2>2 DEF EvaluatedRight
<1> QED BY <1>5, <1>9, <1>10, <1>11 DEF DrawingInv

\* What was not selected and is awaited.
LEMMA PrerequisitesAdded ==
  ASSUME IndInv, DrawingInv, AddPrerequisites, UNCHANGED vars PROVE DrawingInv'
<1> DEFINE awaited(k) == drawing.prerequisites[k] \ DOMAIN drawing.instances
<1>1. PICK h, before, sel, known :
        /\ h = drawing.herder /\ before = drawing.before /\ sel = Sel
        /\ known = sel \cup UNION {awaited(k) : k \in sel}
  OBVIOUS
<1>2. /\ drawing.pass = "prerequisites" /\ drawing.todo = {}
      /\ SelectedRight /\ EvaluatedRight /\ InstancesRight
  BY DEF AddPrerequisites, DrawingInv
<1>3. DOMAIN drawing.instances = sel /\ sel \subseteq Created /\ sel \subseteq before
      /\ before \subseteq Created
  BY <1>1, <1>2 DEF InstancesRight, SelectedRight
<1>4. \A k \in sel : awaited(k) \subseteq Created \ before
  BY <1>1, <1>2, <1>3 DEF EvaluatedRight
<1> HIDE DEF awaited
<1>5. PICK instances :
        instances = [id \in known |-> IF id \in sel THEN id
                                      ELSE First({k \in sel : id \in awaited(k)})]
  OBVIOUS
<1>6. /\ drawing'.pass = "children" /\ drawing'.herder = h
      /\ drawing'.before = before /\ drawing'.instances = instances
      /\ drawing'.prerequisites = drawing.prerequisites
      /\ drawing'.todo = known /\ DrawingShape'
  BY <1>1, <1>2, <1>3, <1>5 DEF AddPrerequisites, DrawingInv, DrawingShape, awaited
<1>7. Sel' = sel
  BY <1>1, <1>6 DEF Sel
<1>8. /\ UNCHANGED <<info, Created>> /\ \A g : HerdList(g)' = HerdList(g)
      /\ \A g : IsHerder(g)' <=> IsHerder(g)
  BY DEF vars, instanceVars, Created, HerdList, IsHerder
<1>9. SelectedRight'
  BY <1>1, <1>2, <1>6, <1>7, <1>8 DEF SelectedRight
<1>10. EvaluatedRight'
  <2>1. \A k : Named(k)' = Named(k) /\ Evaluated(k)
    BY <1>1, <1>2, <1>6, <1>8 DEF Named, Evaluated
  <2> QED BY <1>1, <1>2, <1>6, <1>7, <1>8, <2>1 DEF EvaluatedRight
<1>11. InstancesRight'
  <2>1. ASSUME NEW id \in known
        PROVE  /\ id \in Created /\ instances[id] \in sel
               /\ id \in sel => instances[id] = id
               /\ id \notin sel => id \notin before
    <3>1. CASE id \in sel
      BY <1>3, <1>5, <3>1
    <3>2. CASE id \notin sel
      <4>1. PICK k \in sel : id \in awaited(k)
        BY <1>1, <3>2
      <4>2. PICK waiting : waiting = {j \in sel : id \in awaited(j)}
        OBVIOUS
      <4>3. waiting \in SUBSET Nat /\ waiting # {} /\ waiting \subseteq sel
        BY <1>3, <4>1, <4>2, NumberFacts
      <4>4. First(waiting) \in sel
        BY <4>3, Least
      <4>5. instances[id] = First(waiting)
        BY <1>5, <3>2, <4>2
      <4> QED BY <1>4, <3>2, <4>1, <4>4, <4>5
    <3> QED BY <3>1, <3>2
  <2>2. DOMAIN instances = known /\ sel \subseteq known
    BY <1>1, <1>5
  <2> QED BY <1>6, <1>7, <1>8, <2>1, <2>2 DEF InstancesRight
<1> QED BY <1>6, <1>9, <1>10, <1>11 DEF DrawingInv

\* The children of an instance.
LEMMA ChildrenAdded ==
  ASSUME IndInv, DrawingInv, AddChildren, UNCHANGED vars PROVE DrawingInv'
<1>1. PICK h, before, sel, instances, id, added :
        /\ h = drawing.herder /\ before = drawing.before /\ sel = Sel
        /\ instances = drawing.instances /\ id = First(drawing.todo)
        /\ added = Children(instances[id]) \ DOMAIN instances
  OBVIOUS
<1>2. /\ drawing.pass = "children" /\ drawing.todo # {}
      /\ SelectedRight /\ EvaluatedRight /\ InstancesRight
  BY DEF AddChildren, DrawingInv
<1>3. DOMAIN instances \subseteq Created /\ drawing.todo \subseteq DOMAIN instances
      /\ sel \subseteq DOMAIN instances
  BY <1>1, <1>2 DEF InstancesRight
<1>4. id \in drawing.todo /\ instances[id] \in sel
  <2>1. drawing.todo \in SUBSET Nat
    BY <1>3, NumberFacts
  <2>2. id \in drawing.todo
    BY <1>1, <1>2, <2>1, Least
  <2> QED BY <1>1, <1>2, <2>2 DEF InstancesRight
<1>5. \A j \in added : j \in Created /\ j \notin DOMAIN instances
                       /\ info[j].parentid \in sel
  BY <1>1, <1>4 DEF Children
<1>6. PICK all : all = [j \in DOMAIN instances \cup added |->
                          IF j \in added THEN j ELSE instances[j]]
  OBVIOUS
<1>7. /\ drawing'.pass = "children" /\ drawing'.herder = h
      /\ drawing'.before = before /\ drawing'.instances = all
      /\ drawing'.prerequisites = drawing.prerequisites
      /\ drawing'.todo = drawing.todo \ {id} /\ DrawingShape'
  BY <1>1, <1>2, <1>6 DEF AddChildren, DrawingInv, DrawingShape
<1>8. Sel' = sel
  BY <1>1, <1>7 DEF Sel
<1>9. /\ UNCHANGED <<info, Created>> /\ \A g : HerdList(g)' = HerdList(g)
      /\ \A g : IsHerder(g)' <=> IsHerder(g)
  BY DEF vars, instanceVars, Created, HerdList, IsHerder
<1>10. SelectedRight'
  BY <1>1, <1>2, <1>7, <1>8, <1>9 DEF SelectedRight
<1>11. EvaluatedRight'
  <2>1. \A k : Named(k)' = Named(k) /\ Evaluated(k)
    BY <1>1, <1>2, <1>7, <1>9 DEF Named, Evaluated
  <2> QED BY <1>1, <1>2, <1>7, <1>8, <1>9, <2>1 DEF EvaluatedRight
<1>12. InstancesRight'
  <2>1. DOMAIN all = DOMAIN instances \cup added
    BY <1>6
  <2>2. \A j \in DOMAIN instances : all[j] = instances[j]
    BY <1>5, <1>6
  <2>3. \A j \in added : all[j] = j /\ info[j].parentid \in sel
    BY <1>5, <1>6
  <2> QED BY <1>1, <1>2, <1>3, <1>5, <1>7, <1>8, <1>9, <2>1, <2>2, <2>3
          DEF InstancesRight
<1> QED BY <1>7, <1>10, <1>11, <1>12 DEF DrawingInv

\* A diagram, once it is drawn.
LEMMA DrawnRight ==
  ASSUME IndInv, CallsInv, IndexInv, Linked, DrawingInv PROVE HerdDiagramIsFaithful
<1> SUFFICES ASSUME Drawn
             PROVE  LET h == drawing.herder
                        before == drawing.before
                    IN  /\ HerdedTasks(h) \cap before \subseteq Shown
                        /\ Causes \subseteq Shown \X Shown
                        /\ \A edge \in Causes : edge[1] = info[edge[2]].parentid
                        /\ Conditions \subseteq (Shown \cup (Created \ before)) \X Shown
                        /\ h \notin finish =>
                             \A i \in Herd(h) \cap before : info[i].watch # {} =>
                               /\ WatchedIds(i) \cap before \subseteq AwaitedBy(i)
                               /\ AwaitedBy(i) \subseteq WatchedIds(i)
  BY DEF HerdDiagramIsFaithful
<1>1. PICK h, before, sel, prerequisites, instances :
        /\ h = drawing.herder /\ before = drawing.before /\ sel = Sel
        /\ prerequisites = drawing.prerequisites /\ instances = drawing.instances
  OBVIOUS
<1>2. /\ drawing.pass = "children" /\ drawing.todo = {}
      /\ SelectedRight /\ EvaluatedRight /\ InstancesRight
  BY DEF Drawn, DrawingInv
<1>3. /\ h \in sel /\ sel \subseteq before /\ before \subseteq Created /\ IsHerder(h)
      /\ HerdList(h) \cap before \subseteq sel /\ DOMAIN prerequisites = sel
      /\ sel \subseteq DOMAIN instances /\ DOMAIN instances \subseteq Created
      /\ \A i \in sel : instances[i] = i
  BY <1>1, <1>2 DEF SelectedRight, InstancesRight, Sel
<1>4. sel \subseteq Shown /\ \A id \in DOMAIN instances : instances[id] \in Shown
  BY <1>1, <1>3 DEF Shown, Range
<1>5. h \in Ids /\ unfinishedHerds[h] \subseteq HerdList(h)
  <2>1. h \in Ids
    BY <1>3, StepFacts
  <2>2. \A j \in unfinishedHerds[h] : j \in Created /\ j # h /\ info[j].herdid = h
                                      /\ info[j].queuewhen # ""
    BY <2>1 DEF CallsInv, Herds, Linked
  <2> QED BY <2>1, <2>2 DEF HerdList
<1>6. HerdedTasks(h) \cap before \subseteq Shown
  BY <1>3, <1>4, <1>5 DEF HerdedTasks
<1>7. ASSUME NEW i \in Shown, info[i].parentid \in DOMAIN instances
      PROVE  instances[info[i].parentid] = info[i].parentid
  <2>1. PICK p : p = info[i].parentid
    OBVIOUS
  <2>2. i \in sel \/ p \in sel
    <3>1. PICK id \in DOMAIN instances : i = instances[id]
      BY <1>1 DEF Shown, Range
    <3>2. \/ instances[id] = id /\ (id \in sel \/ info[id].parentid \in sel)
          \/ instances[id] \in sel
      BY <1>1, <1>2 DEF InstancesRight
    <3> QED BY <2>1, <3>1, <3>2
  <2>3. CASE p \in sel
    BY <1>3, <2>1, <2>3
  <2>4. CASE i \in sel
    <3>1. p \in before
      <4>1. p \in before \cup {0} /\ p \in Created
        BY <1>1, <1>2, <1>3, <1>7, <2>1, <2>4 DEF SelectedRight
      <4> QED BY <4>1, StepFacts
    <3> QED BY <1>1, <1>2, <1>7, <2>1, <3>1 DEF InstancesRight
  <2> QED BY <2>2, <2>3, <2>4
<1>8. /\ Causes \subseteq Shown \X Shown
      /\ \A edge \in Causes : edge[1] = info[edge[2]].parentid
  <2> SUFFICES ASSUME NEW edge \in Causes
               PROVE  edge \in Shown \X Shown /\ edge[1] = info[edge[2]].parentid
    OBVIOUS
  <2>1. PICK i \in Shown : /\ info[i].parentid \in DOMAIN instances
                           /\ edge = <<instances[info[i].parentid], i>>
    BY <1>1 DEF Causes
  <2> QED BY <1>4, <1>7, <2>1
<1>9. Conditions \subseteq (Shown \cup (Created \ before)) \X Shown
  <2> SUFFICES ASSUME NEW edge \in Conditions
               PROVE  edge \in (Shown \cup (Created \ before)) \X Shown
    OBVIOUS
  <2>1. PICK i \in sel : edge \in prerequisites[i] \X {i}
    BY <1>1, <1>3 DEF Conditions
  <2>2. prerequisites[i] \subseteq Shown \cup (Created \ before)
    BY <1>1, <1>2, <1>4 DEF EvaluatedRight
  <2> QED BY <1>4, <2>1, <2>2
<1>10. ASSUME NEW i \in sel PROVE AwaitedBy(i) = prerequisites[i]
  <2>1. ASSUME NEW j \in AwaitedBy(i) PROVE j \in prerequisites[i]
    <3>1. PICK edge \in Conditions : edge[2] = i /\ j = edge[1]
      BY <2>1 DEF AwaitedBy
    <3>2. PICK k \in sel : edge \in prerequisites[k] \X {k}
      BY <1>1, <1>3 DEF Conditions
    <3> QED BY <3>1, <3>2
  <2>2. ASSUME NEW j \in prerequisites[i] PROVE j \in AwaitedBy(i)
    <3>1. PICK edges : edges = prerequisites[i] \X {i}
      OBVIOUS
    <3>2. <<j, i>> \in edges
      BY <2>2, <3>1
    <3>3. <<j, i>> \in Conditions
      BY <1>1, <1>3, <3>1, <3>2 DEF Conditions
    <3>4. PICK edge : edge = <<j, i>>
      OBVIOUS
    <3> QED BY <3>3, <3>4 DEF AwaitedBy
  <2> QED BY <2>1, <2>2
<1>11. ASSUME h \notin finish, NEW i \in Herd(h) \cap before, info[i].watch # {}
       PROVE  /\ WatchedIds(i) \cap before \subseteq AwaitedBy(i)
              /\ AwaitedBy(i) \subseteq WatchedIds(i)
  <2>1. /\ i \in Created /\ info[i].herdid = h /\ ~IsHerder(i)
        /\ \A j \in Herd(h) : j \in Created /\ info[j].herdid = h /\ ~IsHerder(j)
    BY <1>11 DEF Herd, IsHerder
  <2>2. h \in unfinishedTasks
    BY <1>3, <1>11 DEF CallsInv, Remembered
  <2>3. Herd(h) \subseteq unfinishedHerds[h]
    BY <2>1, <2>2 DEF IndexInv, Shelved
  <2>4. HerdList(h) \subseteq Herd(h)
    BY DEF HerdList, Herd
  <2>5. HerdList(h) = unfinishedHerds[h] /\ i \in HerdList(h)
    BY <1>5, <1>11, <2>3, <2>4
  <2>6. i \in sel
    BY <1>3, <1>11, <2>5
  <2>7. WatchedIds(i) = Named(i)
    BY <1>1, <1>11, <2>1, <2>5 DEF WatchedIds, Named
  <2>8. /\ prerequisites[i] \subseteq Named(i)
        /\ Named(i) \cap before \subseteq prerequisites[i]
    BY <1>1, <1>2, <1>11, <2>1, <2>5, <2>6 DEF EvaluatedRight, Evaluated
  <2> QED BY <1>10, <2>6, <2>7, <2>8
<1> QED BY <1>1, <1>6, <1>8, <1>9, <1>11

\* Whatever the configuration and whatever becomes of its herd while it is drawn, the
\* diagram of a herder shows each instance of the herd that was planned before and is
\* not finished, each edge starts from the right instance, and, but for those planned
\* since, the diagram tells of each instance of the herd all that it waits for.
THEOREM DiagramsAreDrawnRight == DrawingSpec => []HerdDiagramIsFaithful
<1>1. Init /\ drawing = NotDrawn => Linked /\ IndexInv /\ DrawingInv
  <2>1. ASSUME drawing = NotDrawn PROVE DrawingShape /\ drawing.pass = "none"
    BY <2>1 DEF NotDrawn, DrawingShape
  <2> QED BY <2>1, LinkInit, IndexInit DEF DrawingInv
<1>2. [DrawingNext]_drawingVars => [Next]_vars
  BY DEF DrawingNext, drawingVars
<1>3. IndInv /\ CallsInv /\ Linked /\ [Next]_vars => Linked'
  BY LinkNext
<1>4. IndInv /\ CallsInv /\ IndexInv /\ [Next]_vars => IndexInv'
  BY IndexNext
<1>5. IndInv /\ CallsInv /\ Linked /\ DrawingInv /\ [DrawingNext]_drawingVars => DrawingInv'
  <2> SUFFICES ASSUME IndInv, CallsInv, Linked, DrawingInv, [DrawingNext]_drawingVars
               PROVE  DrawingInv'
    OBVIOUS
  <2>1. CASE [Next]_vars /\ UNCHANGED drawing
    BY <2>1, DrawingKept
  <2>2. CASE UNCHANGED vars /\ Draw
    <3>1. ASSUME NEW h \in Created, IsHerder(h), SelectHerd(h) PROVE DrawingInv'
      BY <2>2, <3>1, HerdSelected
    <3> QED BY <2>2, <3>1, ConditionEvaluated, PrerequisitesAdded, ChildrenAdded DEF Draw
  <2> QED BY <2>1, <2>2 DEF DrawingNext, drawingVars
<1>6. IndInv /\ CallsInv /\ IndexInv /\ Linked /\ DrawingInv => HerdDiagramIsFaithful
  BY DrawnRight
<1>7. DrawingSpec => Spec
  BY <1>2, PTL DEF DrawingSpec, Spec
<1> QED BY <1>1, <1>2, <1>3, <1>4, <1>5, <1>6, <1>7, Invariant, CallsAreKnown, PTL
        DEF DrawingSpec

-----------------------------------------------------------------------------
(* What a task of a herd waits for: task wait conditions, for any set of   *)
(* instances.  The counters are first related to what they count           *)
(* (CountersMean), which replaces the arithmetic by quantifiers: the rest  *)
(* is about statuses.                                                      *)

\* The instances counted are finitely many: a counter is a number, it is zero
\* when nothing is counted, and the unstarted ones are among the unfinished.
LEMMA CountersCount ==
  ASSUME NEW I, IsFiniteSet(I), NEW T,
         NEW st, \A i \in I \cap T : st[i] \in TaskInstanceStatus
  PROVE  LET c == Counters(I, T, st)
             W == I \cap T
         IN  /\ c \in [unstarted: Nat, unfinished: Nat, canceled: Nat,
                       failure: Nat, success: Nat]
             /\ c.unstarted = 0 <=> ~AnyIn(UnstartedStatus, W, st)
             /\ c.unfinished = 0 <=> ~AnyIn(UnfinishedStatus, W, st)
             /\ c.canceled = 0 <=> ~AnyIn({"Canceled"}, W, st)
             /\ c.failure = 0 <=> ~AnyIn({"Failure"}, W, st)
             /\ c.success = 0 <=> ~AnyIn({"Success"}, W, st)
             /\ c.unstarted <= c.unfinished
             /\ c.unstarted = c.unfinished
                  <=> ~AnyIn({"Running", "Waiting"}, W, st)
<1> DEFINE W == I \cap T
           count(S) == Cardinality(Counted(I, T, st, S))
<1>1. ASSUME NEW S
      PROVE  /\ IsFiniteSet(Counted(I, T, st, S))
             /\ count(S) \in Nat
             /\ count(S) = 0 <=> ~AnyIn(S, W, st)
  <2>1. Counted(I, T, st, S) \in SUBSET I
    BY DEF Counted
  <2>2. IsFiniteSet(Counted(I, T, st, S))
    BY <2>1, FS_Subset
  <2>3. count(S) = 0 <=> Counted(I, T, st, S) = {}
    BY <2>2, FS_EmptySet
  <2>4. Counted(I, T, st, S) = {} <=> ~AnyIn(S, W, st)
    BY DEF Counted, AnyIn
  <2> QED BY <2>2, <2>3, <2>4, FS_CardinalityType
<1>2. Counted(I, T, st, UnstartedStatus)
        \in SUBSET Counted(I, T, st, UnfinishedStatus)
  BY DEF Counted, UnfinishedStatus
<1>3. /\ count(UnstartedStatus) <= count(UnfinishedStatus)
      /\ count(UnstartedStatus) = count(UnfinishedStatus) =>
           Counted(I, T, st, UnstartedStatus)
             = Counted(I, T, st, UnfinishedStatus)
  BY <1>1, <1>2, FS_Subset
<1>4. Counted(I, T, st, UnstartedStatus) = Counted(I, T, st, UnfinishedStatus)
        <=> ~AnyIn({"Running", "Waiting"}, W, st)
  BY DEF Counted, AnyIn, UnstartedStatus, UnfinishedStatus
<1> HIDE DEF count
<1>5. Counters(I, T, st) =
        [unstarted |-> count(UnstartedStatus),
         unfinished |-> count(UnfinishedStatus),
         canceled |-> count({"Canceled"}), failure |-> count({"Failure"}),
         success |-> count({"Success"})]
  BY DEF Counters, count
<1>6. count(UnstartedStatus) = count(UnfinishedStatus)
        <=> ~AnyIn({"Running", "Waiting"}, W, st)
  BY <1>3, <1>4 DEF count
<1>7. /\ count(UnstartedStatus) \in Nat /\ count(UnfinishedStatus) \in Nat
      /\ count({"Canceled"}) \in Nat /\ count({"Failure"}) \in Nat
      /\ count({"Success"}) \in Nat
  BY <1>1 DEF count
<1>8. /\ count(UnstartedStatus) = 0 <=> ~AnyIn(UnstartedStatus, W, st)
      /\ count(UnfinishedStatus) = 0 <=> ~AnyIn(UnfinishedStatus, W, st)
      /\ count({"Canceled"}) = 0 <=> ~AnyIn({"Canceled"}, W, st)
      /\ count({"Failure"}) = 0 <=> ~AnyIn({"Failure"}, W, st)
      /\ count({"Success"}) = 0 <=> ~AnyIn({"Success"}, W, st)
  BY <1>1 DEF count
<1> QED BY <1>3, <1>5, <1>6, <1>7, <1>8

\* Whatever the statuses of the instances watched, an operator evaluated on
\* the counters (Counters::evaluate) says what its name says of them.
THEOREM CountersMean ==
  ASSUME NEW I, IsFiniteSet(I), NEW T,
         NEW st, \A i \in I \cap T : st[i] \in TaskInstanceStatus,
         NEW o \in TaskWaitOperator
  PROVE  Evaluate(o, I, T, st) <=> Meaning(o, I \cap T, st)
<1> DEFINE c == Counters(I, T, st)
           W == I \cap T
<1>1. /\ c \in [unstarted: Nat, unfinished: Nat, canceled: Nat, failure: Nat,
               success: Nat]
      /\ c.unstarted = 0 <=> ~AnyIn(UnstartedStatus, W, st)
      /\ c.unfinished = 0 <=> ~AnyIn(UnfinishedStatus, W, st)
      /\ c.canceled = 0 <=> ~AnyIn({"Canceled"}, W, st)
      /\ c.failure = 0 <=> ~AnyIn({"Failure"}, W, st)
      /\ c.success = 0 <=> ~AnyIn({"Success"}, W, st)
      /\ c.unstarted <= c.unfinished
      /\ c.unstarted = c.unfinished <=> ~AnyIn({"Running", "Waiting"}, W, st)
  BY CountersCount
<1> HIDE DEF c
<1>2. LET all(S) == AllIn(S, W, st)
          no(S) == ~AnyIn(S, W, st)
      IN  /\ all(FinishedStatus) <=> no(UnfinishedStatus)
          /\ all({"Success"}) <=>
               no(UnfinishedStatus) /\ no({"Canceled"}) /\ no({"Failure"})
          /\ all({"Failure"}) <=>
               no(UnfinishedStatus) /\ no({"Canceled"}) /\ no({"Success"})
          /\ all({"Canceled"}) <=>
               no(UnfinishedStatus) /\ no({"Failure"}) /\ no({"Success"})
          /\ W = {} <=> /\ no(UnfinishedStatus) /\ no({"Canceled"})
                        /\ no({"Failure"}) /\ no({"Success"})
  BY DEF AllIn, AnyIn, FinishedStatus, UnfinishedStatus, UnstartedStatus,
         TaskInstanceStatus
<1>3. \A s \in {"Success", "Failure", "Canceled"} :
        AllIn(FinishedStatus \ {s}, W, st)
          <=> ~AnyIn(UnfinishedStatus, W, st) /\ ~AnyIn({s}, W, st)
  BY DEF AllIn, AnyIn, FinishedStatus, UnfinishedStatus, UnstartedStatus,
         TaskInstanceStatus
<1>4. LET no(S) == ~AnyIn(S, W, st)
      IN  /\ no(FinishedStatus)
               <=> no({"Success"}) /\ no({"Failure"}) /\ no({"Canceled"})
          /\ no(FinishedStatus \ {"Success"})
               <=> no({"Failure"}) /\ no({"Canceled"})
          /\ no(FinishedStatus \ {"Failure"})
               <=> no({"Success"}) /\ no({"Canceled"})
          /\ no(FinishedStatus \ {"Canceled"})
               <=> no({"Success"}) /\ no({"Failure"})
          /\ AllIn(TaskInstanceStatus \ UnstartedStatus, W, st)
               <=> no(UnstartedStatus)
          /\ no(TaskInstanceStatus \ UnstartedStatus)
               <=> no({"Running", "Waiting"}) /\ no(FinishedStatus)
  BY DEF AllIn, AnyIn, FinishedStatus, UnfinishedStatus, UnstartedStatus,
         TaskInstanceStatus
<1> HIDE DEF W
<1> DEFINE u == c.unfinished
           x == c.canceled
           f == c.failure
           s == c.success
<1>5. /\ u + x + f = 0 <=> u = 0 /\ x = 0 /\ f = 0
      /\ u + x + s = 0 <=> u = 0 /\ x = 0 /\ s = 0
      /\ u + f + s = 0 <=> u = 0 /\ f = 0 /\ s = 0
      /\ u + x + f + s = 0 <=> u = 0 /\ x = 0 /\ f = 0 /\ s = 0
      /\ x + f + s = 0 <=> x = 0 /\ f = 0 /\ s = 0
      /\ u + x = 0 <=> u = 0 /\ x = 0
      /\ u + f = 0 <=> u = 0 /\ f = 0
      /\ u + s = 0 <=> u = 0 /\ s = 0
      /\ x + f = 0 <=> x = 0 /\ f = 0
      /\ x + s = 0 <=> x = 0 /\ s = 0
      /\ f + s = 0 <=> f = 0 /\ s = 0
      /\ x + f + s + u > c.unstarted
           <=> ~(x = 0 /\ f = 0 /\ s = 0 /\ c.unstarted = u)
  BY <1>1
<1>6. EvaluateCounters(o, c) <=> Meaning(o, W, st)
  <2> USE <1>1, <1>2, <1>3, <1>4, <1>5 DEF EvaluateCounters, Meaning
  <2>1. CASE o \in {"AllFinished", "AnyFinished"}
    BY <2>1
  <2>2. CASE o \in {"AllSuccess", "AllFailure", "AllCanceled"}
    BY <2>2
  <2>3. CASE o \in {"NoSuccess", "NoFailure", "NoCanceled"}
    BY <2>3
  <2>4. CASE o \in {"AnySuccess", "AnyFailure", "AnyCanceled"}
    BY <2>4
  <2>5. CASE o \in {"AnyNonSuccess", "AnyNonFailure", "AnyNonCanceled"}
    BY <2>5
  <2>6. CASE o \in {"AllFinishedAnySuccess", "AllFinishedAnyFailure",
                    "AllFinishedAnyCanceled"}
    BY <2>6
  <2>7. CASE o \in {"AllStarted", "AnyStarted"}
    BY <2>7
  <2>8. CASE o \in {"IsEmpty", "IsNotEmpty"}
    BY <2>8
  <2>9. CASE o \in {"True", "False"}
    BY <2>9
  <2> QED BY ONLY <2>1, <2>2, <2>3, <2>4, <2>5, <2>6, <2>7, <2>8, <2>9,
                  o \in TaskWaitOperator DEF TaskWaitOperator
<1> QED BY <1>6 DEF Evaluate, c, W

\* The operator guessed for the cancelwhen condition never holds together
\* with the operator of the queuewhen condition, whatever the statuses.
LEMMA ConjugatesExclude ==
  ASSUME NEW W, NEW st, NEW o \in TaskWaitOperator
  PROVE  /\ CancelOperatorFromQueueOperator(o) \in TaskWaitOperator
         /\ ~ /\ Meaning(o, W, st)
              /\ Meaning(CancelOperatorFromQueueOperator(o), W, st)
<1> USE DEF CancelOperatorFromQueueOperator, Meaning, TaskWaitOperator
<1>1. CASE o \in {"AllFinished", "AnyFinished"}
  BY <1>1 DEF AnyIn
<1>2. CASE o \in {"AllSuccess", "AllFailure", "AllCanceled", "NoSuccess",
                  "NoFailure", "NoCanceled"}
  BY <1>2 DEF AllIn, AnyIn, FinishedStatus
<1>3. CASE o \in {"AnySuccess", "AnyFailure", "AnyCanceled",
                  "AnyNonSuccess", "AnyNonFailure", "AnyNonCanceled"}
  BY <1>3 DEF AllIn, AnyIn, FinishedStatus
<1>4. CASE o \in {"AllFinishedAnySuccess", "AllFinishedAnyFailure",
                  "AllFinishedAnyCanceled"}
  BY <1>4 DEF AllIn, AnyIn, FinishedStatus
<1>5. CASE o \in {"AllStarted", "AnyStarted", "IsEmpty", "IsNotEmpty",
                  "True", "False"}
  BY <1>5 DEF AnyIn
<1> QED BY <1>1, <1>2, <1>3, <1>4, <1>5

\* An operator that holds goes on holding while the statuses go on, as long
\* as a finished instance keeps its status and a started one stays started.
LEMMA MeaningIsFinal ==
  ASSUME NEW W, NEW st, NEW st2, NEW o \in TaskWaitOperator,
         \A i \in W : /\ st2[i] \in TaskInstanceStatus
                      /\ st[i] \in FinishedStatus => st2[i] = st[i]
                      /\ st[i] \in TaskInstanceStatus \ UnstartedStatus =>
                           st2[i] \in TaskInstanceStatus \ UnstartedStatus,
         Meaning(o, W, st)
  PROVE  Meaning(o, W, st2)
<1>1. ASSUME NEW S \in SUBSET FinishedStatus
      PROVE  /\ AllIn(S, W, st) => AllIn(S, W, st2)
             /\ AnyIn(S, W, st) => AnyIn(S, W, st2)
  BY DEF AllIn, AnyIn
<1>2. LET S == TaskInstanceStatus \ UnstartedStatus
      IN  /\ AllIn(S, W, st) => AllIn(S, W, st2)
          /\ AnyIn(S, W, st) => AnyIn(S, W, st2)
  BY DEF AllIn, AnyIn
<1>3. \A s \in FinishedStatus : {s} \in SUBSET FinishedStatus
  OBVIOUS
<1>4. \A s \in FinishedStatus :
        FinishedStatus \ {s} \in SUBSET FinishedStatus
  OBVIOUS
<1>5. {"Success", "Failure", "Canceled"} \subseteq FinishedStatus
  BY DEF FinishedStatus
<1> QED BY <1>1, <1>2, <1>3, <1>4, <1>5 DEF Meaning, TaskWaitOperator

-----------------------------------------------------------------------------
(* The invariants and the verdict of TaskWait.                             *)

\* The variables keep their types: an instance only takes the statuses that
\* its timestamps can give it.
THEOREM WaitTypeCorrect == WaitSpec => []WaitTypeOK
<1>1. WaitInit => WaitTypeOK
  BY DEF WaitInit, WaitTypeOK, TaskInstanceStatus, UnfinishedStatus, UnstartedStatus
<1>2. WaitTypeOK /\ [WaitNext]_waitVars => WaitTypeOK'
  <2> SUFFICES ASSUME WaitTypeOK, [WaitNext]_waitVars PROVE WaitTypeOK'
    OBVIOUS
  <2>1. CASE EvaluateConditions
    BY <2>1 DEF EvaluateConditions, WaitTypeOK
  <2>2. ASSUME NEW i \in Instances, Advance(i) PROVE WaitTypeOK'
    <3>1. NextStatus(statuses[i]) \subseteq TaskInstanceStatus
      BY DEF NextStatus, TaskInstanceStatus, UnfinishedStatus,
             UnstartedStatus, FinishedStatus
    <3> QED BY <2>2, <3>1 DEF Advance, WaitTypeOK
  <2>3. CASE UNCHANGED waitVars
    BY <2>3 DEF waitVars, WaitTypeOK
  <2> QED BY <2>1, <2>2, <2>3 DEF WaitNext
<1> QED BY <1>1, <1>2, PTL DEF WaitSpec

\* The counters mean what the operators say in every reachable state.
THEOREM CountersFaithful == WaitSpec => []CountersAreFaithful
<1>1. WaitTypeOK => CountersAreFaithful
  <2> SUFFICES ASSUME WaitTypeOK, NEW o \in TaskWaitOperator
               PROVE  Evaluate(o, named, herdedTasks, statuses)
                        <=> Meaning(o, named \cap herdedTasks, statuses)
    BY DEF CountersAreFaithful
  <2>1. IsFiniteSet(named)
    BY InstancesAssumption, FS_Subset DEF WaitTypeOK
  <2>2. \A i \in named \cap herdedTasks : statuses[i] \in TaskInstanceStatus
    BY DEF WaitTypeOK
  <2> QED BY <2>1, <2>2, CountersMean
<1> QED BY <1>1, WaitTypeCorrect, PTL

\* The condition that queues a planned instance and the one that cancels it
\* are never met together, for every operator, instances and statuses.
THEOREM NeverBothHolds == WaitSpec => []NeverBoth
<1>1. WaitTypeOK /\ CountersAreFaithful => NeverBoth
  BY ConjugatesExclude
     DEF WaitTypeOK, CountersAreFaithful, NeverBoth, QueueWhen, CancelWhen
<1> QED BY <1>1, WaitTypeCorrect, CountersFaithful, PTL

\* A verdict, once reached, is never taken back: it does not matter how late
\* the reevaluation of a herd comes.
THEOREM VerdictFinal == WaitSpec => VerdictIsFinal
<1>1. ASSUME WaitTypeOK, CountersAreFaithful, WaitTypeOK', CountersAreFaithful',
             [WaitNext]_waitVars
      PROVE  [ /\ QueueWhen => QueueWhen'
               /\ CancelWhen => CancelWhen' ]_waitVars
  <2> DEFINE W == named \cap herdedTasks
  <2>1. UNCHANGED <<operator, named, herdedTasks>>
    BY <1>1 DEF WaitNext, Advance, EvaluateConditions, waitVars
  <2>2. /\ \A i \in W : statuses'[i] \in TaskInstanceStatus
        /\ \A i \in W : statuses[i] \in TaskInstanceStatus
    BY <1>1, <2>1 DEF WaitTypeOK
  <2>3. \A i \in W : statuses'[i] # statuses[i] =>
                       statuses'[i] \in NextStatus(statuses[i])
    BY <1>1 DEF WaitTypeOK, WaitNext, Advance, EvaluateConditions, waitVars
  <2>4. \A s \in TaskInstanceStatus :
          /\ s \in FinishedStatus => NextStatus(s) = {}
          /\ s \in TaskInstanceStatus \ UnstartedStatus =>
               NextStatus(s) \subseteq TaskInstanceStatus \ UnstartedStatus
    BY DEF NextStatus, TaskInstanceStatus, FinishedStatus, UnfinishedStatus,
           UnstartedStatus
  <2>5. \A o \in TaskWaitOperator :
          Meaning(o, W, statuses) => Meaning(o, W, statuses')
    BY <2>2, <2>3, <2>4, MeaningIsFinal
  <2>6. \A o \in TaskWaitOperator :
          /\ Evaluate(o, named, herdedTasks, statuses) <=> Meaning(o, W, statuses)
          /\ Evaluate(o, named', herdedTasks', statuses') <=> Meaning(o, W, statuses')
    BY <1>1, <2>1 DEF CountersAreFaithful
  <2>7. /\ operator \in TaskWaitOperator
        /\ CancelOperatorFromQueueOperator(operator) \in TaskWaitOperator
    BY <1>1, ConjugatesExclude DEF WaitTypeOK
  <2> QED BY <2>1, <2>5, <2>6, <2>7 DEF QueueWhen, CancelWhen
<1> QED BY <1>1, WaitTypeCorrect, CountersFaithful, PTL DEF WaitSpec, VerdictIsFinal

-----------------------------------------------------------------------------
(* Wakeups, when no task plans in a herd.                                  *)

\* A reevaluation will be posted by a call that ends an instance.
Pending == \E k \in DOMAIN stack : stack[k].op \in Ends \cup {"forget"}

\* The loop that starts instances has still to come to each that could start.
Covered ==
  \A i \in Queued : Startable(i) =>
    \E k \in DOMAIN stack : stack[k].op = "start" /\ i \in stack[k].ids

WakeInv == queuedEvent \/ shutingDown \/ Pending \/ Covered

\* A step that makes nothing startable and ends no instance.
LEMMA WakeKept ==
  ASSUME IndInv, WakeInv, Keeps,
         stack = <<>> \/ Top.op \notin Ends \cup {"forget", "start"},
         queuedEvent => queuedEvent', shutingDown => shutingDown',
         \A i \in Queued' : Startable(i)' => i \in Queued /\ Startable(i)
  PROVE  WakeInv'
<1>1. \A k \in DOMAIN stack : stack[k].op \in Ends \cup {"forget", "start"} =>
        \E m \in DOMAIN stack' : stack'[m] = stack[k]
  <2> TAKE k \in DOMAIN stack
  <2> HAVE stack[k].op \in Ends \cup {"forget", "start"}
  <2>1. k \in 1..Len(stack) /\ Len(stack) \in Nat /\ k \in Int
    BY FrameFacts
  <2>2. stack # <<>>
    BY <2>1, EmptySeq
  <2>3. k # 1
    BY <2>2, FrameFacts
  <2> QED BY <2>1, <2>3 DEF Keeps
<1>2. Pending => Pending'
  BY <1>1 DEF Pending
<1>3. Covered => Covered'
  BY <1>1 DEF Covered
<1> QED BY <1>2, <1>3 DEF WakeInv

\* Nothing becomes startable when nothing changes that a start depends on.
LEMMA WakeSame ==
  ASSUME IndInv, WakeInv, Keeps,
         stack = <<>> \/ Top.op \notin Ends \cup {"forget", "start"},
         queuedEvent => queuedEvent', shutingDown => shutingDown',
         UNCHANGED <<queue, start, stop, finish, success>>,
         UNCHANGED <<enabled, available, config, availableExecutors,
                     runningCount, executionsCount, consumedResources>>,
         \A j \in Created : info'[j] = info[j],
         \A i \in unfinishedTasks' : i \in queue => i \in unfinishedTasks
  PROVE  WakeInv'
<1>1. \A i : Status(i)' = Status(i)
  BY DEF Status
<1>2. \A i \in Queued' : i \in Queued /\ i \in Created
  <2>1. \A i : Status(i) = "Queued" => i \in queue
    BY DEF Status
  <2> QED BY <1>1, <2>1, StepFacts DEF Queued
<1>3. ASSUME NEW i \in Created PROVE Startable(i)' <=> Startable(i)
  <2>1. /\ TriedHosts(i)' = TriedHosts(i) /\ ChosenHosts(i)' = ChosenHosts(i)
        /\ Prevented(i)' <=> Prevented(i)
    BY <1>3, SameStart
  <2> QED BY <1>1, <2>1 DEF Startable
<1> QED BY <1>2, <1>3, WakeKept

\* The steps that change nothing that a start depends on.
LEMMA WakeSimple ==
  ASSUME IndInv, LoneInv, CallsInv, NoHerds, WakeInv,
         \/ PlanTask \/ Planned \/ Dropped \/ Aborted \/ Deduplicate \/ Queue
         \/ DoCancelTaskInstance \/ DoAbortTaskInstance \/ CancelOrAbortEach
         \/ EnqueueTaskInstance \/ Forget
         \/ \E i \in Created : EnqueueOrCancelPlanned(i) \/ ReplaceTaskOrCancel(i)
  PROVE  WakeInv'
<1>1. CASE Dropped \/ Forget
  BY <1>1 DEF Dropped, Forget, ReevaluateQueued, WakeInv
<1>2. CASE Queue
  <2>1. CASE queuedEvent'
    BY <2>1 DEF WakeInv
  <2>2. CASE UNCHANGED <<queue, unfinishedTasks, queuedEvent>>
    <3>1. Keeps
      BY <1>2, LoneSimple
    <3>2. Top.op \notin Ends \cup {"forget", "start"}
      BY <1>2 DEF Queue, On, Top, Ends
    <3> QED BY <1>2, <2>2, <3>1, <3>2, WakeSame
            DEF Queue, poolVars, countVars, settingVars
  <2> QED BY <1>2, <2>1, <2>2 DEF Queue, ReevaluateQueued
<1>3. CASE PlanTask
  <2>1. Keeps
    BY <1>3, LonePlan
  <2>2. /\ Top.op \notin Ends \cup {"forget", "start"}
        /\ UNCHANGED <<enabled, available, config, availableExecutors,
                       runningCount, executionsCount, consumedResources,
                       queuedEvent, shutingDown>>
    BY <1>3 DEF PlanTask, On, Top, Ends, poolVars, countVars, settingVars,
                eventVars
  <2>3. /\ UNCHANGED <<queue, start, stop, finish, success>>
        /\ \A j \in Created : info'[j] = info[j]
        /\ \A i \in unfinishedTasks' : i \in queue => i \in unfinishedTasks
    <3>1. CASE Head(Top.acts).task \notin enabled
      BY <1>3, <3>1 DEF PlanTask, instanceVars, indexVars
    <3>2. CASE Head(Top.acts).task \in enabled
      <4>1. queue \subseteq Created
        BY DEF IndInv, TypeOK, InstanceTypeOK
      <4> QED BY <1>3, <3>2, <4>1, NewlyPlanned
    <3> QED BY <3>1, <3>2
  <2> QED BY <2>1, <2>2, <2>3, WakeSame
<1>4. CASE Planned \/ Aborted \/ Deduplicate \/ DoCancelTaskInstance
           \/ DoAbortTaskInstance \/ CancelOrAbortEach \/ EnqueueTaskInstance
  <2>1. Keeps
    BY <1>4, LoneSimple, LoneEnds
  <2>2. /\ Top.op \notin Ends \cup {"forget", "start"}
    BY <1>4 DEF Planned, Aborted, Deduplicate, DoCancelTaskInstance,
                DoAbortTaskInstance, CancelOrAbortEach, EnqueueTaskInstance,
                On, Top, Ends
  <2>3. /\ UNCHANGED <<instanceVars, unfinishedTasks, poolVars, countVars,
                       settingVars, queuedEvent>>
    BY <1>4 DEF Planned, Aborted, Deduplicate, DoCancelTaskInstance,
                DoAbortTaskInstance, CancelOrAbortEach, EnqueueTaskInstance,
                indexVars, eventVars
  <2> QED BY <2>1, <2>2, <2>3, WakeSame
          DEF instanceVars, poolVars, countVars, settingVars
<1>5. ASSUME NEW i \in Created,
             EnqueueOrCancelPlanned(i) \/ ReplaceTaskOrCancel(i)
      PROVE  WakeInv'
  <2>1. Keeps
    BY <1>5, LoneEach
  <2>2. /\ Top.op \notin Ends \cup {"forget", "start"}
        /\ UNCHANGED <<instanceVars, poolVars, countVars, settingVars,
                       queuedEvent>>
    BY <1>5 DEF EnqueueOrCancelPlanned, ReplaceTaskOrCancel, On, Top, Ends,
                eventVars
  <2>3. unfinishedTasks' = unfinishedTasks
    <3>1. CASE EnqueueOrCancelPlanned(i)
      BY <3>1 DEF EnqueueOrCancelPlanned, indexVars
    <3>2. CASE ReplaceTaskOrCancel(i)
      <4>1. i \notin finish
        BY <3>2 DEF ReplaceTaskOrCancel, Lowest, UnstartedStatus, Status
      <4>2. i \in unfinishedTasks
        BY <4>1 DEF CallsInv, Remembered
      <4> QED BY <3>2, <4>2 DEF ReplaceTaskOrCancel
    <3> QED BY <1>5, <3>1, <3>2
  <2> QED BY <2>1, <2>2, <2>3, WakeSame
          DEF instanceVars, poolVars, countVars, settingVars
<1> QED BY <1>1, <1>2, <1>3, <1>4, <1>5

\* Whatever ends an instance leaves a call that posts a reevaluation.
LEMMA WakeEnds ==
  ASSUME IndInv, LoneInv, CallsInv, NoHerds,
         \/ TaskInstanceStoppedOrCanceled \/ Settle
         \/ TaskInstanceFinishedOrCanceled
  PROVE  WakeInv'
<1>1. \E k \in DOMAIN stack' : stack'[k].op \in Ends \cup {"forget"}
  BY LoneEnds, LoneFinished
<1> QED BY <1>1 DEF WakeInv, Pending

\* While it runs, the loop that starts instances is the only call.
LEMMA OnlyLoop ==
  ASSUME IndInv, CallsInv, WakeInv, On("start"), ~queuedEvent, ~shutingDown
  PROVE  /\ stack # <<>> /\ Rest = <<>>
         /\ \A i \in Queued : Startable(i) => i \in Top.ids
<1>1. stack # <<>> /\ Top.op = "start" /\ Rest = <<>>
  BY TopFacts DEF On, Top
<1>2. \A k \in DOMAIN stack : k = 1 /\ stack[k] = Top
  <2>1. Len(Rest) = Len(stack) - 1
    BY <1>1, RestIn DEF CallsInv
  <2>2. Len(Rest) = 0
    BY <1>1, EmptySeq
  <2> QED BY <1>1, <2>1, <2>2, FrameFacts
<1>3. ~Pending
  BY <1>1, <1>2 DEF Pending, Ends
<1> QED BY <1>1, <1>2, <1>3 DEF WakeInv, Covered

\* The loop that starts instances passes over those that cannot be started, or
\* posts a reevaluation.
LEMMA WakeStart ==
  ASSUME IndInv, CallsInv, WakeInv, NEW i \in Created, StartTaskInstance(i)
  PROVE  WakeInv'
<1> DEFINE rest == Above(i, {j \in Top.ids : Status(j) = "Queued"})
           g == [op |-> "start", id |-> 0, ids |-> rest, acts |-> <<>>,
                 mark |-> FALSE]
           next == Loop("start", 0, rest)
<1>1. /\ stack # <<>> /\ Rest = <<>> /\ Status(i) = "Queued" /\ i \in Nat
      /\ next = IF rest = {} THEN <<>> ELSE << g >>
      /\ On("start")
  BY StartLoop DEF StartTaskInstance
<1>2. UNCHANGED <<info, queue, stop, finish, success, unfinishedTasks,
                  shutingDown>>
  BY DEF StartTaskInstance, indexVars, settingVars
<1>3. CASE \E h : Launch(i, h, next)
  BY <1>3 DEF Launch, ReevaluateQueued, WakeInv
<1>4. CASE /\ Return(<< CallMark("stopped", i, TRUE) >> \o next)
  <2>1. PICK f, s : f = CallMark("stopped", i, TRUE) /\ s = next
    OBVIOUS
  <2>2. stack' = (<< f >> \o s) \o <<>>
    BY <1>1, <1>4, <2>1 DEF Return, Rest
  <2>3. << f >> \o s \in {<< f >>, << f, g >>}
    <3>1. << f >> \o << g >> = << f, g >> /\ << f >> \o <<>> = << f >>
      BY Concats
    <3> QED BY <1>1, <2>1, <3>1
  <2>4. << f >> \o s \in Seq({f, g})
    BY <2>3, SeqClosed
  <2>5. stack' \in {<< f >>, << f, g >>}
    BY <2>2, <2>3, <2>4, ConcatEmptySeq
  <2>6. 1 \in DOMAIN stack' /\ stack'[1] = f
    BY <2>5, Concats
  <2>7. f.op \in Ends
    BY <2>1 DEF CallMark, Ends
  <2> QED BY <2>6, <2>7 DEF WakeInv, Pending
<1>5. CASE /\ Prevented(i) \/ (TriedHosts(i) # <<>> /\ ChosenHosts(i) = {})
           /\ Return(next)
           /\ UNCHANGED <<start, target, poolVars, countVars, queuedEvent,
                          crashed>>
  <2>1. CASE queuedEvent \/ shutingDown
    BY <1>2, <1>5, <2>1 DEF WakeInv
  <2>2. CASE ~queuedEvent /\ ~shutingDown
    <3>1. \A j \in Queued : Startable(j) => j \in Top.ids
      BY <1>1, <2>2, OnlyLoop
    <3>2. ~Startable(i)
      BY <1>5 DEF Startable
    <3>3. \A j : Status(j)' = Status(j)
      BY <1>2, <1>5 DEF Status
    <3>4. Queued' = Queued /\ Queued \subseteq Nat
      <4>1. Queued \subseteq Created /\ Created \subseteq Nat
        BY StepFacts, NumberFacts
      <4> QED BY <1>2, <3>3, <4>1 DEF Queued
    <3>5. ASSUME NEW j \in Queued PROVE Startable(j)' <=> Startable(j)
      <4>1. /\ TriedHosts(j)' = TriedHosts(j) /\ ChosenHosts(j)' = ChosenHosts(j)
            /\ Prevented(j)' <=> Prevented(j)
        <5>1. UNCHANGED <<enabled, available, config, availableExecutors,
                          runningCount, executionsCount, consumedResources>>
          BY <1>5 DEF StartTaskInstance, settingVars, poolVars, countVars
        <5> QED BY <1>2, <5>1, SameStart
      <4> QED BY <3>3, <4>1 DEF Startable
    <3>6. ASSUME NEW j \in Queued, Startable(j) PROVE j \in rest
      <4>1. j \in {k \in Top.ids : Status(k) = "Queued"} /\ j # i
        BY <3>1, <3>2, <3>6 DEF Queued
      <4>2. i <= j
        BY <4>1 DEF StartTaskInstance, Lowest
      <4> QED BY <1>1, <3>4, <4>1, <4>2 DEF Above
    <3>7. stack' = next
      <4>1. next \in Seq({g})
        BY <1>1, SeqClosed
      <4> QED BY <1>1, <1>5, <4>1, ConcatEmptySeq DEF Return, Rest
    <3>8. ASSUME NEW j \in rest
          PROVE  \E k \in DOMAIN stack' : stack'[k].op = "start"
                                          /\ j \in stack'[k].ids
      <4>1. stack' = << g >>
        BY <1>1, <3>7, <3>8
      <4>2. 1 \in DOMAIN stack' /\ stack'[1] = g
        BY <4>1, Concats
      <4> QED BY <3>8, <4>2
    <3> QED BY <3>4, <3>5, <3>6, <3>8 DEF WakeInv, Covered
  <2> QED BY <2>1, <2>2
<1> HIDE DEF next, g
<1>6. \/ \E h : Launch(i, h, next)
      \/ Return(<< CallMark("stopped", i, TRUE) >> \o next)
      \/ /\ Prevented(i) \/ (TriedHosts(i) # <<>> /\ ChosenHosts(i) = {})
         /\ Return(next)
         /\ UNCHANGED <<start, target, poolVars, countVars, queuedEvent,
                        crashed>>
  BY DEF StartTaskInstance, next
<1> QED BY <1>3, <1>4, <1>5, <1>6

\* A loop that ends has passed over all of its instances.
LEMMA WakeLoopEnds ==
  ASSUME IndInv, LoneInv, CallsInv, WakeInv, LoopEnds PROVE WakeInv'
<1>1. UNCHANGED <<instanceVars, indexVars, poolVars, countVars, settingVars,
                  eventVars>>
  BY DEF LoopEnds
<1>2. CASE ~On("start")
  <2>1. Top.op \notin Ends \cup {"forget", "start"}
    BY <1>2 DEF LoopEnds, On, Top, Ends
  <2>2. Keeps
    BY LoneSimple
  <2> QED BY <1>1, <2>1, <2>2, WakeSame
          DEF instanceVars, indexVars, poolVars, countVars, settingVars, eventVars
<1>3. CASE On("start")
  <2>1. CASE queuedEvent \/ shutingDown
    BY <1>1, <2>1 DEF WakeInv, settingVars, eventVars
  <2>2. CASE ~queuedEvent /\ ~shutingDown
    <3>1. \A i \in Queued : Startable(i) => i \in Top.ids
      BY <1>3, <2>2, OnlyLoop
    <3>2. \A i \in Top.ids : Status(i) # "Queued"
      BY <1>3 DEF LoopEnds, On, Top
    <3>3. \A i \in Queued : ~Startable(i)
      BY <3>1, <3>2 DEF Startable
    <3>4. Queued' = Queued /\ Queued \subseteq Created
      BY <1>1, StepFacts DEF Queued, Status, instanceVars, indexVars
    <3>5. ASSUME NEW j \in Created PROVE Startable(j)' <=> Startable(j)
      <4>1. /\ TriedHosts(j)' = TriedHosts(j) /\ ChosenHosts(j)' = ChosenHosts(j)
            /\ Prevented(j)' <=> Prevented(j)
        BY <1>1, SameStart DEF instanceVars, poolVars, countVars, settingVars
      <4> QED BY <1>1, <4>1 DEF Startable, Status, instanceVars
    <3> QED BY <3>3, <3>4, <3>5 DEF WakeInv, Covered
  <2> QED BY <2>1, <2>2
<1> QED BY <1>2, <1>3

\* The handlers of events.
LEMMA WakeEvent ==
  ASSUME IndInv, LoneInv, CallsInv, NoHerds, WakeInv, HandleEvent
  PROVE  WakeInv'
<1>1. CASE HandleQueuedEvent
  <2>1. CASE shutingDown
    BY <1>1, <2>1 DEF HandleQueuedEvent, settingVars, WakeInv
  <2>2. CASE ~shutingDown
    <3> DEFINE g == [op |-> "start", id |-> 0, ids |-> unfinishedTasks,
                     acts |-> <<>>, mark |-> FALSE]
    <3>1. stack' = IF unfinishedTasks = {} THEN <<>> ELSE << g >>
      BY <1>1, <2>2 DEF HandleQueuedEvent, Loop
    <3>2. Queued' \subseteq unfinishedTasks
      BY <1>1 DEF HandleQueuedEvent, Queued, indexVars
    <3>3. ASSUME NEW i \in Queued'
          PROVE  \E k \in DOMAIN stack' : stack'[k].op = "start"
                                          /\ i \in stack'[k].ids
      <4>1. stack' = << g >> /\ i \in g.ids /\ g.op = "start"
        BY <3>1, <3>2, <3>3
      <4>2. 1 \in DOMAIN stack' /\ stack'[1] = g
        BY <4>1, Concats
      <4> QED BY <4>1, <4>2
    <3> QED BY <3>3 DEF WakeInv, Covered
  <2> QED BY <2>1, <2>2
<1>2. CASE HandlePlannedEvent
  <2>1. Keeps /\ stack = <<>>
    BY <1>2, LoneEvent DEF HandlePlannedEvent, Idle
  <2>2. UNCHANGED <<instanceVars, unfinishedTasks, poolVars, countVars,
                    settingVars, queuedEvent>>
    BY <1>2 DEF HandlePlannedEvent
  <2> QED BY <2>1, <2>2, WakeSame
          DEF instanceVars, poolVars, countVars, settingVars
<1>3. ASSUME NEW i \in Ids, HandleTaskInstanceStopped(i) PROVE WakeInv'
  <2>1. PICK f : f = Call("stopped", i)
    OBVIOUS
  <2>2. stack' = << f >> /\ f.op \in Ends
    BY <1>3, <2>1 DEF HandleTaskInstanceStopped, Call, CallMark, Ends
  <2>3. 1 \in DOMAIN stack' /\ stack'[1] = f
    BY <2>2, Concats
  <2> QED BY <2>2, <2>3 DEF WakeInv, Pending
<1> QED BY <1>1, <1>2, <1>3 DEF HandleEvent

\* The end of an execution, which makes nothing startable before it is handled.
LEMMA WakeStop ==
  ASSUME IndInv, LoneInv, CallsInv, WakeInv, NEW i \in Ids, ExecutorStop(i)
  PROVE  WakeInv'
<1>1. /\ i \in start /\ stop' = stop \cup {i}
      /\ UNCHANGED <<info, queue, start, finish, indexVars, poolVars, countVars,
                     settingVars, eventVars, stack>>
  BY DEF ExecutorStop, IndInv, ExecutorKnown
<1>2. \A j : Status(j)' = "Queued" <=> Status(j) = "Queued"
  BY <1>1 DEF Status
<1>3. Queued' = Queued /\ Queued \subseteq Created
  BY <1>1, <1>2, StepFacts DEF Queued, indexVars
<1>4. ASSUME NEW j PROVE Startable(j)' <=> Startable(j)
  <2>1. /\ TriedHosts(j)' = TriedHosts(j) /\ ChosenHosts(j)' = ChosenHosts(j)
        /\ Prevented(j)' <=> Prevented(j)
    BY <1>1, SameStart DEF poolVars, countVars, settingVars
  <2> QED BY <1>2, <2>1 DEF Startable
<1> QED BY <1>1, <1>3, <1>4
        DEF WakeInv, Pending, Covered, settingVars, eventVars

\* The requests of users, hosts and triggers.
LEMMA WakeEnvironment ==
  ASSUME IndInv, LoneInv, CallsInv, WakeInv, Environment
  PROVE  WakeInv'
<1>1. CASE \/ \E h \in Hosts : HostChanged(h)
           \/ \E c \in Configs : ActivateConfig(c)
  BY <1>1 DEF HostChanged, ActivateConfig, ReevaluateQueued, WakeInv
<1>2. CASE Shutdown
  BY <1>2 DEF Shutdown, WakeInv
<1>3. CASE \/ \E a \in Requests : RequestTask(a)
           \/ \E i \in unfinishedTasks : CancelTaskInstance(i) \/ AbortTaskInstance(i)
           \/ \E t \in Tasks : \/ CancelTaskInstancesByTaskId(t)
                               \/ AbortTaskInstanceByTaskId(t)
  <2>1. Keeps /\ stack = <<>>
    BY <1>3, LoneEnvironment
       DEF Environment, RequestTask, CancelTaskInstance, AbortTaskInstance,
           CancelTaskInstancesByTaskId, AbortTaskInstanceByTaskId, Command, Idle
  <2>2. /\ UNCHANGED <<instanceVars, indexVars, poolVars, countVars, eventVars>>
        /\ UNCHANGED <<config, enabled, available, shutingDown>>
    BY <1>3
       DEF RequestTask, CancelTaskInstance, AbortTaskInstance,
           CancelTaskInstancesByTaskId, AbortTaskInstanceByTaskId, Command,
           settingVars
  <2> QED BY <2>1, <2>2, WakeSame
          DEF instanceVars, indexVars, poolVars, countVars, eventVars
<1>4. ASSUME NEW tasks \in Switches, NEW b \in BOOLEAN, EnableTasks(tasks, b)
      PROVE  WakeInv'
  <2>1. CASE queuedEvent'
    BY <2>1 DEF WakeInv
  <2>2. CASE ~queuedEvent'
    <3>1. /\ ~queuedEvent /\ ~b /\ enabled' \subseteq enabled
          /\ UNCHANGED <<info, queue, start, stop, finish, success, stack,
                         available, config, shutingDown, unfinishedTasks,
                         poolVars, countVars>>
      BY <1>4, <2>2 DEF EnableTasks, instanceVars, indexVars
    <3>2. Queued' = Queued
      BY <3>1 DEF Queued, Status
    <3>3. ASSUME NEW i PROVE Startable(i)' => Startable(i)
      <4>1. TriedHosts(i)' = TriedHosts(i)
        BY <3>1 DEF TriedHosts, TaskOf, Task, countVars
      <4>2. ChosenHosts(i)' = ChosenHosts(i)
        BY <3>1, <4>1 DEF ChosenHosts, Eligible, Enough, TaskOf, Task, countVars
      <4>3. Prevented(i) => Prevented(i)'
        BY <3>1 DEF Prevented, TooMany, TaskOf, Task, poolVars, countVars
      <4> QED BY <3>1, <4>1, <4>2, <4>3 DEF Startable, Status
    <3> QED BY <3>1, <3>2, <3>3 DEF WakeInv, Pending, Covered
  <2> QED BY <2>1, <2>2
<1> QED BY <1>1, <1>2, <1>3, <1>4 DEF Environment

LEMMA WakeNext ==
  ASSUME NoHerds, IndInv, CallsInv, LoneInv, WakeInv, [Next]_vars PROVE WakeInv'
<1>1. CASE UNCHANGED vars
  <2>1. UNCHANGED <<instanceVars, indexVars, poolVars, countVars, settingVars,
                    eventVars, stack>>
    BY <1>1 DEF vars
  <2>2. \A i : TriedHosts(i)' = TriedHosts(i) /\ ChosenHosts(i)' = ChosenHosts(i)
               /\ (Prevented(i)' <=> Prevented(i)) /\ Status(i)' = Status(i)
    BY <2>1, SameStart
       DEF instanceVars, poolVars, countVars, settingVars, Status
  <2>3. Queued' = Queued
    BY <2>1, <2>2 DEF Queued, indexVars
  <2> QED BY <2>1, <2>2, <2>3
          DEF WakeInv, Pending, Covered, Startable, settingVars, eventVars
<1>2. CASE Step
  <2>1. ~Herded
    BY TopLone DEF Herded, On, Top
  <2> QED BY <1>2, <2>1, WakeSimple, WakeEnds, WakeStart, WakeLoopEnds DEF Step
<1> QED BY <1>1, <1>2, WakeEvent, WakeStop, WakeEnvironment DEF Next

\* When the scheduler thread has nothing to do, no queued instance could be
\* started: whatever makes one startable posts a reevaluation, if no task plans
\* in a herd.
THEOREM NoWakeupLost ==
  ASSUME NoHerds PROVE Spec => []NoStartableForgotten
<1>1. Init => WakeInv
  BY DEF Init, WakeInv, Covered, Queued
<1>2. IndInv /\ CallsInv /\ LoneInv /\ WakeInv /\ [Next]_vars => WakeInv'
  BY WakeNext
<1>3. WakeInv => NoStartableForgotten
  <2> SUFFICES ASSUME WakeInv, Idle, ~queuedEvent, ~shutingDown,
                      NEW i \in Queued
               PROVE  ~Startable(i)
    BY DEF NoStartableForgotten
  <2>1. DOMAIN stack = {}
    BY Concats DEF Idle
  <2> QED BY <2>1 DEF WakeInv, Pending, Covered
<1> QED BY <1>1, <1>2, <1>3, Invariant, CallsAreKnown, LoneInvariant, PTL
        DEF Spec

-----------------------------------------------------------------------------
(* Planned instances are attended.                                         *)

\* The loops that have still to visit an instance.
Visits(op, i) == \E k \in DOMAIN stack : stack[k].op = op /\ i \in stack[k].ids

\* An action of a task, in some configuration.
ActionOf(t, a) ==
  \E c \in Configs : \E acts \in AllActions(c, t) : \E n \in DOMAIN acts : acts[n] = a

\* What is planned in a herd is planned by an instance that has started.
Planners ==
  \A k \in DOMAIN stack : stack[k].op = "trigger" /\ stack[k].id # 0 =>
    \A n \in DOMAIN stack[k].acts :
      \/ stack[k].acts[n].lone
      \/ stack[k].id \in start /\ ActionOf(info[stack[k].id].task, stack[k].acts[n])
HerdStarted ==
  \A j \in Created : ~IsHerder(j) => info[j].herdid \in start /\ info[j].parentid \in start

\* The conditions of instances, S being the tasks of the herds that wait for nothing.
Eager(i) == info[i].queuewhen = "AllStarted"
WaitsForEnds(S) ==
  \A j \in Created :
    /\ info[j].queuewhen # "AnyStarted"
    /\ Eager(j) => info[j].watch = {}
    /\ info[info[j].herdid].task \in S =>
         info[j].task \in S /\ info[j].queuewhen \in {"", "AllStarted"}

\* An instance that has not started and whose task the configuration does not have
\* is about to be canceled.
Removing(i) ==
  Visits("reload", i) \/ \E op \in {"cancel", "stopped", "settle", "finish"} : Calls(op, i)
Removed == \A i \in Created : Unstarted(i) /\ info[i].task \notin Configured => Removing(i)

\* An instance whose condition is met is about to be evaluated, queued or
\* canceled, or the herd is: when the end of the instance on top is told to the herder.
Awaits(i) == Status(i) = "Planned" /\ ~IsHerder(i) /\ Met(info[i].queuewhen, i)
Deciding(i) ==
  \/ \E op \in {"enqueue", "queue", "cancel", "stopped", "finish"} : Calls(op, i)
  \/ Visits("enqueueEach", i) \/ Visits("deduplicate", i)
Joins(op, h) == \E j \in Created : info[j].herdid = h /\ Calls(op, j)
Reevaluated(i) ==
  \/ info[i].herdid \in dirtyHerds /\ plannedEvent
  \/ Deciding(i) \/ Joins("planned", info[i].herdid)
Noticed ==
  ~shutingDown => \A i \in Created : Awaits(i) =>
    Reevaluated(i) \/ (~Eager(i) /\ Joins("herded", info[i].herdid))

AttendedInv(S) ==
  /\ enabled \subseteq Configured
  /\ Planners /\ HerdStarted /\ WaitsForEnds(S) /\ Removed /\ Noticed

-----------------------------------------------------------------------------
(* What a step leaves of the calls, and who plans in herds.                *)

\* Loops stay on the stack until they are done.
LEMMA VisitsStay ==
  ASSUME IndInv, CallsInv, NEW frames \in Seq(CallFrame), Pushes(frames)
  PROVE  /\ \A op, i : Visits(op, i) =>
              Visits(op, i)' \/ (stack # <<>> /\ Top.op = op /\ i \in Top.ids)
         /\ \A k \in DOMAIN frames : \A i \in frames[k].ids : Visits(frames[k].op, i)'
<1>1. ASSUME NEW op, NEW i, Visits(op, i)
      PROVE  Visits(op, i)' \/ (stack # <<>> /\ Top.op = op /\ i \in Top.ids)
  <2>1. PICK k \in DOMAIN stack : stack[k].op = op /\ i \in stack[k].ids
    BY <1>1 DEF Visits
  <2>2. k = 1 \/ k > 1
    BY <2>1, NewStack
  <2>3. CASE k = 1
    <3>1. stack # <<>>
      BY <2>1, Concats
    <3> QED BY <2>1, <2>3, <3>1, FrameFacts
  <2>4. CASE k > 1
    <3>1. k - 1 + Len(frames) \in DOMAIN stack'
          /\ stack'[k - 1 + Len(frames)] = stack[k]
      BY <2>4, NewStack
    <3> QED BY <2>1, <3>1 DEF Visits
  <2> QED BY <2>2, <2>3, <2>4
<1>2. \A k \in DOMAIN frames : \A i \in frames[k].ids : Visits(frames[k].op, i)'
  BY NewStack DEF Visits
<1> QED BY <1>1, <1>2

\* A call that returns makes a call, before or after other ones.
LEMMA Returned ==
  ASSUME IndInv, CallsInv, stack # <<>>,
         NEW f \in CallFrame, NEW s \in Seq(CallFrame),
         Return(<< f >> \o s) \/ Return(s \o << f >>)
  PROVE  /\ Calls(f.op, f.id)'
         /\ \A k \in DOMAIN s : \A i \in s[k].ids : Visits(s[k].op, i)'
<1>1. PICK frames :
        /\ frames = << f >> \o s \/ frames = s \o << f >>
        /\ Return(frames)
  OBVIOUS
<1>2. /\ frames \in Seq(CallFrame)
      /\ \E k \in DOMAIN frames : frames[k] = f
      /\ \A k \in DOMAIN s : \E n \in DOMAIN frames : frames[n] = s[k]
  <2>1. PICK g : g = << f >>
    OBVIOUS
  <2>2. g \in Seq(CallFrame) /\ Len(g) = 1 /\ g[1] = f
    BY <2>1, SeqClosed, Concats
  <2>3. Len(s) \in Nat /\ DOMAIN s = 1..Len(s)
    OBVIOUS
  <2>4. CASE frames = g \o s
    <3>1. /\ frames \in Seq(CallFrame) /\ DOMAIN frames = 1..(Len(s) + 1)
          /\ 1 \in DOMAIN frames /\ frames[1] = f
          /\ \A k \in DOMAIN frames : k = 1 \/ frames[k] = s[k - 1]
      BY <2>1, <2>4, FirstCall
    <3>2. ASSUME NEW k \in DOMAIN s PROVE k + 1 \in DOMAIN frames /\ frames[k + 1] = s[k]
      <4>1. k + 1 \in 1..(Len(s) + 1) /\ k + 1 # 1 /\ k + 1 - 1 = k
        BY <2>3
      <4> QED BY <3>1, <4>1
    <3> QED BY <3>1, <3>2
  <2>5. CASE frames = s \o g
    <3>1. /\ frames \in Seq(CallFrame) /\ DOMAIN frames = 1..(Len(s) + 1)
          /\ \A k \in 1..(Len(s) + 1) :
               frames[k] = IF k <= Len(s) THEN s[k] ELSE g[k - Len(s)]
      <4>1. /\ s \o g \in Seq(CallFrame) /\ DOMAIN (s \o g) = 1..(Len(s) + Len(g))
            /\ \A k \in 1..(Len(s) + Len(g)) :
                 (s \o g)[k] = IF k <= Len(s) THEN s[k] ELSE g[k - Len(s)]
        BY <2>2, ConcatProperties
      <4> QED BY <2>2, <2>5, <4>1
    <3>2. Len(s) + 1 \in DOMAIN frames /\ frames[Len(s) + 1] = f
      <4>1. Len(s) + 1 \in 1..(Len(s) + 1) /\ ~(Len(s) + 1 <= Len(s))
            /\ Len(s) + 1 - Len(s) = 1
        BY <2>3
      <4> QED BY <2>2, <3>1, <4>1
    <3>3. ASSUME NEW k \in DOMAIN s PROVE k \in DOMAIN frames /\ frames[k] = s[k]
      BY <2>3, <3>1
    <3> QED BY <3>1, <3>2, <3>3
  <2> QED BY <1>1, <2>1, <2>4, <2>5
<1>3. Pushes(frames)
  BY <1>1, ReturnPushes
<1>4. \A k \in DOMAIN frames :
        Calls(frames[k].op, frames[k].id)' /\ \A i \in frames[k].ids : Visits(frames[k].op, i)'
  BY <1>2, <1>3, CallsStay, VisitsStay
<1>5. \A k \in DOMAIN s : \A i \in s[k].ids : Visits(s[k].op, i)'
  BY <1>2, <1>4
<1> QED BY <1>2, <1>4, <1>5

\* The loop on instances of which there are some.
LEMMA LoopVisits ==
  ASSUME NEW op \in FrameOp, NEW i \in Nat, NEW S \in SUBSET Nat
  PROVE  /\ Loop(op, i, S) \in Seq(CallFrame)
         /\ \A j \in S : \E k \in DOMAIN Loop(op, i, S) :
              Loop(op, i, S)[k].op = op /\ Loop(op, i, S)[k].ids = S
<1>1. PICK s : s = Loop(op, i, S)
  OBVIOUS
<1>2. /\ s \in Seq(CallFrame)
      /\ \A k \in DOMAIN s : s[k].op = op /\ s[k].ids = S
  BY <1>1, LoopFrames
<1>3. S # {} => DOMAIN s = {1}
  BY <1>1, Concats DEF Loop
<1> QED BY <1>1, <1>2, <1>3

\* A loop that goes on after a call, or before one, or alone.
LEMMA LoopReturned ==
  ASSUME IndInv, CallsInv, stack # <<>>,
         NEW op \in FrameOp, NEW i \in Nat, NEW S \in SUBSET Nat, NEW f \in CallFrame,
         \/ Return(<< f >> \o Loop(op, i, S)) \/ Return(Loop(op, i, S) \o << f >>)
         \/ Return(Loop(op, i, S))
  PROVE  /\ \A j \in S : Visits(op, j)'
         /\ Calls(f.op, f.id)' \/ Return(Loop(op, i, S))
<1>1. PICK s \in Seq(CallFrame) :
        /\ s = Loop(op, i, S)
        /\ \A j \in S : \E k \in DOMAIN s : s[k].op = op /\ s[k].ids = S
  BY LoopVisits
<1>2. \/ Return(<< f >> \o s) \/ Return(s \o << f >>) \/ Return(s)
  BY <1>1
<1>3. CASE Return(<< f >> \o s) \/ Return(s \o << f >>)
  BY <1>1, <1>3, Returned
<1>4. CASE Return(s)
  <2>1. Pushes(s)
    BY <1>4, ReturnPushes
  <2>2. \A k \in DOMAIN s : \A j \in s[k].ids : Visits(s[k].op, j)'
    BY <2>1, VisitsStay
  <2> QED BY <1>1, <1>4, <2>2
<1> QED BY <1>2, <1>3, <1>4

\* Calls of handlers, for short.
LEMMA CallFields ==
  /\ \A op \in FrameOp, i \in Nat :
       Call(op, i) \in CallFrame /\ Call(op, i).op = op /\ Call(op, i).id = i
  /\ \A op \in FrameOp, i \in Nat, mark \in BOOLEAN :
       /\ CallMark(op, i, mark) \in CallFrame
       /\ CallMark(op, i, mark).op = op /\ CallMark(op, i, mark).id = i
<1>1. ASSUME NEW op \in FrameOp, NEW i \in Nat, NEW mark \in BOOLEAN
      PROVE  /\ CallMark(op, i, mark) \in CallFrame
             /\ CallMark(op, i, mark).op = op /\ CallMark(op, i, mark).id = i
  <2>1. PICK f : f = CallMark(op, i, mark)
    OBVIOUS
  <2>2. f \in CallFrame /\ f.op = op /\ f.id = i
    BY <2>1, SeqClosed DEF CallMark, CallFrame
  <2> QED BY <2>1, <2>2
<1> QED BY <1>1 DEF Call

LEMMA UnstartedStatuses ==
  ASSUME NEW i
  PROVE  /\ Unstarted(i) <=> Status(i) \in UnstartedStatus
         /\ Status(i) = "Planned" <=> ~Begun(i)
         /\ Status(i) = "Queued" => i \in queue
BY DEF Unstarted, Status, UnstartedStatus, Begun

\* What becomes of the call on top of the stack when the handlers do it.
Succeeds ==
  \A op, i, h : op = Top.op /\ i = Top.id /\ h = info[i].herdid =>
    /\ op = "reload" => \A j \in Top.ids : Unstarted(j) =>
         \/ info[j].task \in Configured
         \/ Visits("reload", j)' \/ Calls("cancel", j)'
    /\ op = "cancel" /\ Unstarted(i) => Calls("stopped", i)'
    /\ op = "stopped" => Calls("settle", i)' \/ Calls("finish", i)'
    /\ op = "stopped" /\ ~IsHerder(i) => Calls("finish", i)'
    /\ op = "settle" /\ unfinishedHerdedTasks[i] = {} => Calls("finish", i)'
    /\ op = "finish" => i \in finish'
    /\ op = "enqueue" /\ ~shutingDown =>
         Calls("cancel", i)' \/ Calls("queue", i)' \/ Visits("deduplicate", i)'
    /\ op = "deduplicate" =>
         \A j \in Top.ids : Calls("cancel", j)' \/ Visits("deduplicate", j)'
    /\ op = "queue" => i \in queue' \/ Cardinality(Queued) >= MaxQueuedRequests
    /\ op = "enqueueEach" => \A j \in Top.ids :
         Status(j) = "Planned" /\ Met(info[j].queuewhen, j)
           /\ Status(info[j].herdid) \notin UnstartedStatus
         => Calls("enqueue", j)' \/ Visits("enqueueEach", j)'
    /\ op = "planned" => h \in dirtyHerds' /\ plannedEvent'
    /\ op = "herded" /\ h \in unfinishedTasks /\ unfinishedHerds[h] # {}
         /\ unfinishedHerdedTasks[h] \ {i} # {}
       => h \in dirtyHerds' /\ plannedEvent'

\* The handlers that make no call that matters here: their clause of Succeeds is
\* about other operations.
LEMMA SucceedsSimple ==
  ASSUME \/ Planned \/ Dropped \/ DoAbortTaskInstance \/ Aborted \/ CancelOrAbortEach
         \/ TaskInstanceFinishedOrCanceled \/ Forget \/ Queue \/ PlanTask
         \/ \E i \in Created : StartTaskInstance(i)
  PROVE  Succeeds
<1>1. CASE Planned
  BY <1>1 DEF Planned, On, Top, Succeeds, ReevaluatePlanned
<1>2. CASE TaskInstanceFinishedOrCanceled
  BY <1>2 DEF TaskInstanceFinishedOrCanceled, On, Top, Succeeds
<1>3. CASE Queue
  <2>1. \/ Cardinality(Queued) >= MaxQueuedRequests
        \/ Top.id \in queue'
    BY <1>3 DEF Queue
  <2>2. Top.op = "queue"
    BY <1>3 DEF Queue, On, Top
  <2> QED BY <2>1, <2>2 DEF Succeeds
<1>4. CASE \/ Dropped \/ DoAbortTaskInstance \/ Aborted \/ CancelOrAbortEach
           \/ Forget \/ PlanTask \/ \E i \in Created : StartTaskInstance(i)
  <2>1. Top.op \in {"dropped", "abort", "aborted", "cancelEach", "abortEach",
                    "abortHerd", "forget", "trigger", "start"}
    BY <1>4 DEF Dropped, DoAbortTaskInstance, Aborted, CancelOrAbortEach, Forget,
                PlanTask, StartTaskInstance, On, Top
  <2> QED BY <2>1 DEF Succeeds
<1> QED BY <1>1, <1>2, <1>3, <1>4

\* The handlers that end an instance.
LEMMA SucceedsEnd ==
  ASSUME IndInv, CallsInv,
         DoCancelTaskInstance \/ TaskInstanceStoppedOrCanceled \/ Settle \/ Herded
  PROVE  Succeeds
<1>1. /\ stack # <<>> /\ Top.id \in Created /\ Top.id \in Nat /\ Top.mark \in BOOLEAN
      /\ Top.op \in {"cancel", "stopped", "settle", "herded"}
  <2>1. stack # <<>> /\ Top.op \in {"cancel", "stopped", "settle", "herded"}
    BY DEF DoCancelTaskInstance, TaskInstanceStoppedOrCanceled, Settle, Herded, On, Top
  <2> QED BY <2>1, TopFacts DEF Loops
<1>2. PICK i, f, g, s : /\ i = Top.id /\ f = Call("stopped", i)
                        /\ g = CallMark("finish", i, Top.mark)
                        /\ s = CallMark("settle", i, Top.mark)
  OBVIOUS
<1>3. /\ f \in CallFrame /\ f.op = "stopped" /\ f.id = i
      /\ g \in CallFrame /\ g.op = "finish" /\ g.id = i
      /\ s \in CallFrame /\ s.op = "settle" /\ s.id = i
  BY <1>1, <1>2, CallFields DEF FrameOp
<1>4. CASE DoCancelTaskInstance
  <2>1. PICK t : t = Loop("cancelEach", i, HerdedTasks(i))
    OBVIOUS
  <2>2. t \in Seq(CallFrame)
    BY <1>1, <1>2, <2>1, LoopVisits, StepFacts, NumberFacts DEF FrameOp
  <2>3. Unstarted(i) => Return(t \o << f >>)
    BY <1>2, <1>4, <2>1, UnstartedStatuses DEF DoCancelTaskInstance
  <2>4. Unstarted(i) => Calls("stopped", i)'
    BY <1>1, <1>3, <2>2, <2>3, Returned
  <2>5. Top.op = "cancel"
    BY <1>4 DEF DoCancelTaskInstance, On, Top
  <2> QED BY <1>2, <2>4, <2>5 DEF Succeeds
<1>5. CASE TaskInstanceStoppedOrCanceled
  <2>1. PICK t \in Seq(CallFrame) :
          t = IF Status(i) = "Canceled" THEN <<>> ELSE Trigger(i, FinishActions(i))
    <3>1. PICK acts : acts = FinishActions(i)
      OBVIOUS
    <3>2. acts \in Seq(Action)
      BY <1>1, <1>2, <3>1, FinishPlain
    <3>3. Trigger(i, acts) \in Seq(CallFrame)
      BY <1>1, <1>2, <3>2, TriggerFields DEF TriggerAt
    <3> QED BY <3>1, <3>3, SeqClosed
  <2>2. PICK u \in Seq(CallFrame) : u = << Call("herded", i) >>
    BY <1>1, <1>2, CallFields, SeqClosed DEF FrameOp
  <2>6. << g >> \o u = << g, Call("herded", i) >>
    BY <2>2, Concats
  <2>3. \/ IsHerder(i) /\ Return(t \o << s >>)
        \/ ~IsHerder(i) /\ Return(<< g >> \o u)
    BY <1>2, <1>5, <2>1, <2>6 DEF TaskInstanceStoppedOrCanceled
  <2>4. \/ IsHerder(i) /\ Calls("settle", i)'
        \/ ~IsHerder(i) /\ Calls("finish", i)'
    BY <1>1, <1>3, <2>3, Returned
  <2>5. Top.op = "stopped"
    BY <1>5 DEF TaskInstanceStoppedOrCanceled, On, Top
  <2> QED BY <1>2, <2>4, <2>5 DEF Succeeds
<1>6. CASE Settle
  <2>1. unfinishedHerdedTasks[i] = {} => Return(<< g >> \o <<>>)
    BY <1>2, <1>6, Concats DEF Settle
  <2>2. unfinishedHerdedTasks[i] = {} => Calls("finish", i)'
    BY <1>1, <1>3, <2>1, Returned, SeqClosed
  <2>3. Top.op = "settle"
    BY <1>6 DEF Settle, On, Top
  <2> QED BY <1>2, <2>2, <2>3 DEF Succeeds
<1>7. CASE Herded
  <2>1. Top.op = "herded"
    BY <1>7 DEF Herded, On, Top
  <2>2. LET h == info[i].herdid
        IN  h \in unfinishedTasks /\ unfinishedHerds[h] # {}
              /\ unfinishedHerdedTasks[h] \ {i} # {}
            => h \in dirtyHerds' /\ plannedEvent'
    BY <1>2, <1>7 DEF Herded, HerderFinishes, ReevaluatePlanned
  <2> QED BY <1>2, <2>1, <2>2 DEF Succeeds
<1> QED BY <1>4, <1>5, <1>6, <1>7

\* The handlers that queue an instance.
LEMMA SucceedsQueuing ==
  ASSUME IndInv, CallsInv, EnqueueTaskInstance \/ Deduplicate
  PROVE  Succeeds
<1>1. /\ stack # <<>> /\ Top.id \in Created /\ Top.id \in Nat /\ Top.ids \in SUBSET Nat
      /\ Top.op \in {"enqueue", "deduplicate"}
  <2>1. stack # <<>> /\ Top.op \in {"enqueue", "deduplicate"}
    BY DEF EnqueueTaskInstance, Deduplicate, On, Top
  <2> QED BY <2>1, TopFacts DEF Loops
<1>2. CASE EnqueueTaskInstance
  <2>1. PICK i, victims, last :
          /\ i = Top.id
          /\ victims = IF info[i].force THEN {} ELSE Deduplicated(i)
          /\ last = Call(IF i \in victims THEN "dropped" ELSE "queue", i)
    OBVIOUS
  <2>2. \/ shutingDown \/ Return(<< Call("cancel", i) >>)
        \/ Return(Loop("deduplicate", i, victims) \o << last >>)
    BY <1>2, <2>1 DEF EnqueueTaskInstance
  <2>3. /\ last \in CallFrame /\ last.id = i
        /\ last.op = IF i \in victims THEN "dropped" ELSE "queue"
        /\ Call("cancel", i) \in CallFrame
        /\ Call("cancel", i).op = "cancel" /\ Call("cancel", i).id = i
    BY <1>1, <2>1, CallFields DEF FrameOp
  <2>4. victims \in SUBSET Nat
    <3>1. Duplicates(i) \subseteq Nat
      BY StepFacts, NumberFacts DEF Duplicates
    <3> QED BY <1>1, <2>1, <3>1 DEF Deduplicated
  <2>5. CASE Return(<< Call("cancel", i) >>)
    <3>1. Return(<< Call("cancel", i) >> \o <<>>)
      BY <2>5, Concats
    <3>2. Calls("cancel", i)'
      BY <1>1, <2>3, <3>1, Returned, SeqClosed
    <3>3. Top.op = "enqueue"
      BY <1>2 DEF EnqueueTaskInstance, On, Top
    <3> QED BY <2>1, <3>2, <3>3 DEF Succeeds
  <2>6. CASE Return(Loop("deduplicate", i, victims) \o << last >>)
    <3>1. \A j \in victims : Visits("deduplicate", j)'
      BY <1>1, <2>1, <2>3, <2>4, <2>6, LoopReturned DEF FrameOp
    <3>2. Loop("deduplicate", i, victims) \in Seq(CallFrame)
      BY <1>1, <2>1, <2>4, LoopVisits DEF FrameOp
    <3>3. Calls(last.op, last.id)'
      BY <1>1, <2>3, <2>6, <3>2, Returned
    <3>4. Top.op = "enqueue"
      BY <1>2 DEF EnqueueTaskInstance, On, Top
    <3> QED BY <2>1, <2>3, <3>1, <3>3, <3>4 DEF Succeeds
  <2>7. CASE shutingDown
    <3>1. Top.op = "enqueue"
      BY <1>2 DEF EnqueueTaskInstance, On, Top
    <3> QED BY <2>7, <3>1 DEF Succeeds
  <2> QED BY <2>2, <2>5, <2>6, <2>7
<1>3. CASE Deduplicate
  <2>1. PICK j \in Top.ids :
          Return(<< Call("cancel", j) >>
                 \o Loop("deduplicate", Top.id, Top.ids \ {j}))
    BY <1>3 DEF Deduplicate
  <2>2. /\ Call("cancel", j) \in CallFrame
        /\ Call("cancel", j).op = "cancel" /\ Call("cancel", j).id = j
    BY <1>1, CallFields DEF FrameOp
  <2>3. PICK S : S = Top.ids \ {j}
    OBVIOUS
  <2>4. S \in SUBSET Nat /\ "deduplicate" \in FrameOp
    BY <1>1, <2>3 DEF FrameOp
  <2>5. \A k \in S : Visits("deduplicate", k)'
    BY <1>1, <2>1, <2>2, <2>3, <2>4, LoopReturned
  <2>6. Calls("cancel", j)'
    <3>1. Loop("deduplicate", Top.id, S) \in Seq(CallFrame)
      BY <1>1, <2>4, LoopVisits
    <3> QED BY <1>1, <2>1, <2>2, <2>3, <3>1, Returned
  <2>7. \A k \in Top.ids : Calls("cancel", k)' \/ Visits("deduplicate", k)'
    BY <2>3, <2>5, <2>6
  <2>8. Top.op = "deduplicate"
    BY <1>3 DEF Deduplicate, On, Top
  <2> QED BY <2>7, <2>8 DEF Succeeds
<1> QED BY <1>2, <1>3

\* The loops over planned and over unstarted instances.
LEMMA SucceedsEach ==
  ASSUME IndInv, CallsInv, NEW i \in Created,
         EnqueueOrCancelPlanned(i) \/ ReplaceTaskOrCancel(i)
  PROVE  Succeeds
<1>1. /\ stack # <<>> /\ i \in Nat /\ Top.ids \in SUBSET Nat
      /\ Top.op \in {"enqueueEach", "reload"}
  <2>1. stack # <<>> /\ Top.op \in {"enqueueEach", "reload"}
    BY DEF EnqueueOrCancelPlanned, ReplaceTaskOrCancel, On, Top
  <2> QED BY <2>1, TopFacts, NumberFacts
<1>2. \A op \in {"enqueue", "cancel"} :
        Call(op, i) \in CallFrame /\ Call(op, i).op = op /\ Call(op, i).id = i
  BY <1>1, CallFields DEF FrameOp
<1>3. CASE EnqueueOrCancelPlanned(i)
  <2>1. PICK waiting, S :
          /\ waiting = {j \in Top.ids : Status(j) = "Planned"}
          /\ S = Above(i, waiting)
    OBVIOUS
  <2>2. i \in waiting /\ (\A j \in waiting : j = i \/ j \in S) /\ S \in SUBSET Nat
    BY <1>1, <1>3, <2>1 DEF EnqueueOrCancelPlanned, Lowest, Above
  <2>3. PICK met, notYet :
          /\ notYet = (/\ info[i].herdid \in unfinishedTasks
                       /\ Status(info[i].herdid) \in UnstartedStatus)
          /\ met = Met(info[i].queuewhen, i)
    OBVIOUS
  <2>4. \/ Return(<< Call("enqueue", i) >> \o Loop("enqueueEach", 0, S))
        \/ /\ ~(~notYet /\ met)
           /\ \/ Return(<< Call("cancel", i) >> \o Loop("enqueueEach", 0, S))
              \/ Return(Loop("enqueueEach", 0, S))
    BY <1>3, <2>1, <2>3 DEF EnqueueOrCancelPlanned
  <2>5. "enqueueEach" \in FrameOp /\ 0 \in Nat
    BY DEF FrameOp
  <2>6. \A j \in S : Visits("enqueueEach", j)'
    BY <1>1, <1>2, <2>2, <2>4, <2>5, LoopReturned
  <2>7. (~notYet /\ met) => Calls("enqueue", i)'
    <3>1. Loop("enqueueEach", 0, S) \in Seq(CallFrame)
      BY <2>2, <2>5, LoopVisits
    <3> QED BY <1>1, <1>2, <2>4, <3>1, Returned
  <2>8. \A j \in Top.ids :
          Status(j) = "Planned" /\ Met(info[j].queuewhen, j)
            /\ Status(info[j].herdid) \notin UnstartedStatus
          => Calls("enqueue", j)' \/ Visits("enqueueEach", j)'
    BY <2>1, <2>2, <2>3, <2>6, <2>7
  <2>9. Top.op = "enqueueEach"
    BY <1>3 DEF EnqueueOrCancelPlanned, On, Top
  <2> QED BY <2>8, <2>9 DEF Succeeds
<1>4. CASE ReplaceTaskOrCancel(i)
  <2>1. PICK waiting, S :
          /\ waiting = {j \in Top.ids : Status(j) \in UnstartedStatus}
          /\ S = Above(i, waiting)
    OBVIOUS
  <2>2. i \in waiting /\ (\A j \in waiting : j = i \/ j \in S) /\ S \in SUBSET Nat
    BY <1>1, <1>4, <2>1 DEF ReplaceTaskOrCancel, Lowest, Above
  <2>3. \/ Return(<< Call("cancel", i) >> \o Loop("reload", 0, S))
        \/ info[i].task \in Configured /\ Return(Loop("reload", 0, S))
    BY <1>4, <2>1 DEF ReplaceTaskOrCancel
  <2>4. "reload" \in FrameOp /\ 0 \in Nat
    BY DEF FrameOp
  <2>5. \A j \in S : Visits("reload", j)'
    BY <1>1, <1>2, <2>2, <2>3, <2>4, LoopReturned
  <2>6. info[i].task \in Configured \/ Calls("cancel", i)'
    <3>1. Loop("reload", 0, S) \in Seq(CallFrame)
      BY <2>2, <2>4, LoopVisits
    <3> QED BY <1>1, <1>2, <2>3, <3>1, Returned
  <2>7. \A j \in Top.ids : Unstarted(j) =>
          info[j].task \in Configured \/ Visits("reload", j)' \/ Calls("cancel", j)'
    BY <2>1, <2>2, <2>5, <2>6, UnstartedStatuses
  <2>8. Top.op = "reload"
    BY <1>4 DEF ReplaceTaskOrCancel, On, Top
  <2> QED BY <2>7, <2>8 DEF Succeeds
<1> QED BY <1>3, <1>4

LEMMA SucceedsStep == ASSUME IndInv, CallsInv, Step PROVE Succeeds
<1>1. CASE LoopEnds
  <2>1. \/ Top.op = "start"
        \/ Top.op = "reload" /\ \A j \in Top.ids : ~Unstarted(j)
        \/ Top.op = "enqueueEach" /\ \A j \in Top.ids : Status(j) # "Planned"
    BY <1>1, UnstartedStatuses DEF LoopEnds, On, Top
  <2> QED BY <2>1 DEF Succeeds
<1>2. CASE \E i \in Created : \/ StartTaskInstance(i)
                              \/ EnqueueOrCancelPlanned(i)
                              \/ ReplaceTaskOrCancel(i)
  BY <1>2, SucceedsSimple, SucceedsEach
<1> QED BY <1>1, <1>2, SucceedsSimple, SucceedsEnd, SucceedsQueuing DEF Step

\* What a step of the scheduler thread leaves to be done, and what it may change.
LEMMA Lasts ==
  ASSUME IndInv, CallsInv, IndexInv, Step
  PROVE  /\ stack # <<>>
         /\ \A op, i : Calls(op, i) => Calls(op, i)' \/ (Top.op = op /\ Top.id = i)
         /\ \A op, i : Visits(op, i) => Visits(op, i)' \/ (Top.op = op /\ i \in Top.ids)
         /\ dirtyHerds \subseteq dirtyHerds' /\ (plannedEvent => plannedEvent')
         /\ UNCHANGED <<config, enabled, shutingDown>>
<1>1. stack # <<>>
  BY DEF Step, PlanTask, Planned, EnqueueTaskInstance, Deduplicate, Dropped, Queue,
         DoCancelTaskInstance, DoAbortTaskInstance, Aborted, CancelOrAbortEach,
         TaskInstanceStoppedOrCanceled, Settle, TaskInstanceFinishedOrCanceled,
         Forget, Herded, StartTaskInstance, EnqueueOrCancelPlanned,
         ReplaceTaskOrCancel, LoopEnds, On
<1>2. UNCHANGED settingVars
  BY DEF Step, PlanTask, Planned, EnqueueTaskInstance, Deduplicate, Dropped, Queue,
         DoCancelTaskInstance, DoAbortTaskInstance, Aborted, CancelOrAbortEach,
         TaskInstanceStoppedOrCanceled, Settle, TaskInstanceFinishedOrCanceled,
         Forget, Herded, StartTaskInstance, EnqueueOrCancelPlanned,
         ReplaceTaskOrCancel, LoopEnds
<1>3. dirtyHerds \subseteq dirtyHerds' /\ (plannedEvent => plannedEvent')
  <2>1. CASE Planned \/ Settle \/ Herded
    BY <2>1 DEF Planned, Settle, Herded, ReevaluatePlanned
  <2>2. CASE PlanTask
    BY <2>2 DEF PlanTask, indexVars, eventVars
  <2>3. ASSUME ~Planned, ~Settle, ~Herded, ~PlanTask
        PROVE  UNCHANGED <<dirtyHerds, plannedEvent>>
    BY <2>3 DEF Step, EnqueueTaskInstance, Deduplicate, Dropped, Queue,
         DoCancelTaskInstance, DoAbortTaskInstance, Aborted, CancelOrAbortEach,
         TaskInstanceStoppedOrCanceled, TaskInstanceFinishedOrCanceled,
         Forget, StartTaskInstance, EnqueueOrCancelPlanned,
         ReplaceTaskOrCancel, LoopEnds, indexVars, eventVars
  <2> QED BY <2>1, <2>2, <2>3
<1>4. PICK frames \in Seq(CallFrame) : Pushes(frames)
  BY CallsOfStep, PlanNothing, PlanOne DEF NextCalls, PlannedCalls, PlanMoves
<1> QED BY <1>1, <1>2, <1>3, <1>4, CallsStay, VisitsStay DEF settingVars

\* How an instance that is planned is described, and what it waits for.
LEMMA PlannedInfo ==
  ASSUME IndInv, CallsInv, PlanTask, Head(Top.acts).task \in enabled
  PROVE  \E i, herdid, a :
           /\ a = Head(Top.acts) /\ a \in Action
           /\ i \in Ids /\ i \notin Created /\ Created' = Created \cup {i}
           /\ \A j \in Created : info'[j] = info[j]
           /\ info'[i].parentid = Top.id /\ info'[i].task = a.task
           /\ UNCHANGED <<queue, start, stop, finish, success>>
           /\ \/ herdid = 0 /\ info'[i].herdid = i
              \/ /\ herdid \in Created /\ info'[i].herdid = herdid
                 /\ Top.id \in Created /\ info[Top.id].herdid = herdid /\ ~a.lone
           /\ \/ herdid \notin unfinishedTasks /\ info'[i].queuewhen = ""
              \/ /\ herdid \in unfinishedTasks /\ Calls("planned", i)'
                 /\ \/ /\ a.queuewhen = "" /\ info'[i].queuewhen = "AllStarted"
                       /\ info'[i].watch = {}
                    \/ /\ a.queuewhen # "" /\ info'[i].queuewhen = a.queuewhen
                       /\ info'[i].watch = a.watch
<1>1. PICK a, i, herdid, onplan : /\ a = Head(Top.acts) /\ i = Len(info) + 1
                                  /\ herdid = HerdOf(Top.id, a)
                                  /\ onplan = Task[a.task].onplan
  OBVIOUS
<1>2. /\ i \in Ids /\ i \in Nat /\ i \notin Created /\ Created' = Created \cup {i}
      /\ \A j \in Created : info'[j] = info[j]
      /\ info'[i].herdid = IF herdid = 0 THEN i ELSE herdid
      /\ info'[i].task = a.task /\ a \in Action /\ onplan \in Seq(Action)
      /\ herdid \in {0} \cup Created /\ Top.id \in {0} \cup Created
      /\ Tail(Top.acts) \in Seq(Action) /\ Top.id \in Nat
      /\ UNCHANGED <<queue, start, stop, finish, success>>
      /\ Pushes(Trigger(i, onplan)
                \o << Call(IF herdid \in unfinishedTasks THEN "planned"
                           ELSE "enqueue", i) >>
                \o Trigger(Top.id, Tail(Top.acts)))
  BY <1>1, NewlyPlanned, NumberFacts
<1>3. PICK x, y, z, f, t :
        /\ info' = Append(info,
             [task |-> t, force |-> f,
              herdid |-> IF herdid = 0 THEN i ELSE herdid, parentid |-> Top.id,
              queuewhen |-> x, cancelwhen |-> y, watch |-> z])
        /\ x = IF herdid \notin unfinishedTasks THEN ""
               ELSE IF a.queuewhen = "" THEN "AllStarted" ELSE a.queuewhen
        /\ z = IF a.queuewhen = "" THEN {} ELSE a.watch
  BY <1>1 DEF PlanTask, NewInstance
<1>4. PICK r : r = [task |-> t, force |-> f,
                    herdid |-> IF herdid = 0 THEN i ELSE herdid, parentid |-> Top.id,
                    queuewhen |-> x, cancelwhen |-> y, watch |-> z]
  OBVIOUS
<1>5. r.parentid = Top.id /\ r.queuewhen = x /\ r.watch = z /\ info' = Append(info, r)
  BY <1>3, <1>4
<1>6. info'[i].parentid = Top.id /\ info'[i].queuewhen = x /\ info'[i].watch = z
  <2>1. info \in Seq(Info \cup {r}) /\ r \in Info \cup {r}
    <3>1. info \in Seq(Info)
      BY StepFacts DEF TypeOK, InstanceTypeOK
    <3> QED BY <3>1, SeqMonotonic
  <2>2. info'[i] = r
    BY <1>1, <1>5, <2>1, AppendProperties
  <2> QED BY <1>5, <2>2
<1>7. herdid # 0 => Top.id \in Created /\ info[Top.id].herdid = herdid /\ ~a.lone
  BY <1>1, <1>2 DEF HerdOf
<1>8. herdid \in unfinishedTasks => Calls("planned", i)'
  <2> SUFFICES ASSUME herdid \in unfinishedTasks PROVE Calls("planned", i)'
    OBVIOUS
  <2>1. PICK c : c = Call("planned", i)
    OBVIOUS
  <2>2. c \in CallFrame /\ c.op = "planned" /\ c.id = i
    BY <1>2, <2>1, CallFields DEF FrameOp
  <2>3. PICK s1 \in Seq(CallFrame) : s1 = Trigger(i, onplan)
    BY <1>2, TriggerFields DEF TriggerAt
  <2>4. PICK s2 \in Seq(CallFrame) : s2 = Trigger(Top.id, Tail(Top.acts))
    BY <1>2, TriggerFields DEF TriggerAt
  <2>5. PICK s : s = s1 \o << c >> \o s2
    OBVIOUS
  <2>6. Pushes(s)
    BY <1>2, <2>1, <2>3, <2>4, <2>5
  <2>7. /\ s \in Seq(CallFrame) /\ Len(s1) \in Nat /\ DOMAIN s = 1..Len(s)
        /\ Len(s) = Len(s1) + 1 + Len(s2)
        /\ \A k \in DOMAIN s :
             \/ k \in DOMAIN s1 /\ k < Len(s1) + 1 /\ s[k] = s1[k]
             \/ k = Len(s1) + 1 /\ s[k] = c
             \/ k - Len(s1) - 1 \in DOMAIN s2 /\ k > Len(s1) + 1
                /\ s[k] = s2[k - Len(s1) - 1]
    BY <2>2, <2>5, Sandwich
  <2>8. Len(s1) + 1 \in DOMAIN s /\ s[Len(s1) + 1] = c
    BY <2>7
  <2> QED BY <2>2, <2>6, <2>7, <2>8, CallsStay
<1>9. /\ a = Head(Top.acts)
      /\ info'[i].parentid = Top.id
      /\ \/ herdid = 0 /\ info'[i].herdid = i
         \/ /\ herdid \in Created /\ info'[i].herdid = herdid
            /\ Top.id \in Created /\ info[Top.id].herdid = herdid /\ ~a.lone
  BY <1>1, <1>2, <1>6, <1>7
<1>10. \/ herdid \notin unfinishedTasks /\ info'[i].queuewhen = ""
       \/ /\ herdid \in unfinishedTasks /\ Calls("planned", i)'
          /\ \/ /\ a.queuewhen = "" /\ info'[i].queuewhen = "AllStarted"
                /\ info'[i].watch = {}
             \/ /\ a.queuewhen # "" /\ info'[i].queuewhen = a.queuewhen
                /\ info'[i].watch = a.watch
  BY <1>3, <1>6, <1>8
<1> HIDE <1>1, <1>3
<1> QED BY <1>2, <1>9, <1>10

\* The actions of triggerFinishActions() are actions of the task.
LEMMA FinishOfTask ==
  ASSUME IndInv, NEW i \in Created, NEW n \in DOMAIN FinishActions(i)
  PROVE  ActionOf(info[i].task, FinishActions(i)[n])
<1>1. PICK a, b :
        /\ a = IF i \in success THEN TaskOf(i).onsuccess ELSE TaskOf(i).onfailure
        /\ b = IF i \in stderr THEN <<>> ELSE TaskOf(i).onnostderr
  OBVIOUS
<1>2. config \in Configs /\ TaskOf(i) \in TaskConfig
  BY StepFacts DEF TypeOK
<1>3. a \in Seq(Action) /\ b \in Seq(Action)
  BY <1>1, <1>2, SeqClosed DEF TaskConfig
<1>4. /\ a \in AllActions(config, info[i].task)
      /\ b = <<>> \/ b \in AllActions(config, info[i].task)
  BY <1>1 DEF AllActions, EndActions, TaskOf, Task
<1>5. PICK s : s = a \o b
  OBVIOUS
<1>6. FinishActions(i) = s
  BY <1>1, <1>5 DEF FinishActions
<1>7. /\ Len(s) = Len(a) + Len(b) /\ DOMAIN s = 1..Len(s)
      /\ Len(a) \in Nat /\ Len(b) \in Nat
      /\ DOMAIN a = 1..Len(a) /\ DOMAIN b = 1..Len(b)
      /\ \A m \in 1..(Len(a) + Len(b)) :
           s[m] = IF m <= Len(a) THEN a[m] ELSE b[m - Len(a)]
  BY <1>3, <1>5, ConcatProperties
<1>8. CASE n <= Len(a)
  <2>1. n \in DOMAIN a /\ s[n] = a[n]
    BY <1>6, <1>7, <1>8
  <2> QED BY <1>2, <1>4, <1>6, <2>1 DEF ActionOf
<1>9. CASE ~(n <= Len(a))
  <2>1. n - Len(a) \in DOMAIN b /\ s[n] = b[n - Len(a)]
    BY <1>6, <1>7, <1>9
  <2>2. b # <<>>
    BY <2>1, Concats
  <2> QED BY <1>2, <1>4, <1>6, <2>1, <2>2 DEF ActionOf
<1> QED BY <1>8, <1>9

\* What an instance plans in its herd it plans once it has started.
PlansWell(f) ==
  f.op = "trigger" /\ f.id # 0 =>
    \A n \in DOMAIN f.acts :
      f.acts[n].lone \/ (f.id \in start /\ ActionOf(info[f.id].task, f.acts[n]))

LEMMA PlannersStep ==
  ASSUME HerdersFinishLone, PlansOnceStarted,
         IndInv, CallsInv, IndexInv, PromiseInv, Planners, Step
  PROVE  Planners'
<1>1. \A k \in DOMAIN stack : PlansWell(stack[k])
  BY DEF Planners, PlansWell
<1>2. /\ \A j \in Created : info'[j] = info[j]
      /\ start \subseteq start' /\ config' = config
  <2>1. CASE PlanTask
    <3>1. CASE Head(Top.acts).task \in enabled
      BY <2>1, <3>1, PlannedInfo DEF PlanTask, settingVars
    <3>2. CASE Head(Top.acts).task \notin enabled
      BY <2>1, <3>2 DEF PlanTask, settingVars, instanceVars
    <3> QED BY <3>1, <3>2
  <2>2. CASE ~PlanTask
    BY <2>2, MovesOfStep, MovesKeep
  <2> QED BY <2>1, <2>2
<1>3. ASSUME NEW f, PlansWell(f), f.id # 0 => f.id \in Created PROVE PlansWell(f)'
  BY <1>2, <1>3 DEF PlansWell, ActionOf
<1>4. ASSUME NEW k \in DOMAIN stack, NEW f, f = stack[k] PROVE PlansWell(f)'
  <2>1. PlansWell(f) /\ (f.id # 0 => f.id \in Created)
    BY <1>1, <1>4, StackFrames
  <2> QED BY <1>3, <2>1
<1>5. PICK frames \in Seq(CallFrame) :
        Pushes(frames) /\ \A k \in DOMAIN frames : PlansWell(frames[k])'
  <2>1. CASE ~PlanTask
    <3>1. PICK frames \in Seq(CallFrame) :
            Pushes(frames) /\ \A k \in DOMAIN frames : NextCall(k, frames[k])
      BY <2>1, CallsOfStep DEF NextCalls
    <3>2. ASSUME NEW k \in DOMAIN frames, NEW f, f = frames[k], f.op = "trigger"
          PROVE  PlansWell(f)'
      <4>1. Begins(k, f)
        BY <3>1, <3>2 DEF NextCall
      <4>2. StepMoves
        BY <2>1, MovesOfStep
      <4>3. CASE /\ Top.op = "stopped" /\ IsHerder(Top.id) /\ f.id = Top.id
                 /\ f.acts = FinishActions(Top.id)
        <5>1. f.id \in Created /\ IsHerder(f.id)
          BY <4>2, <4>3 DEF StepMoves, Loops
        <5>2. info[f.id].task \in Heads
          BY <5>1 DEF PromiseInv, HeadsHerd
        <5>3. LoneActions(FinishActions(f.id))
          BY <5>1, <5>2, HeadsFinishLone
        <5> QED BY <4>3, <5>3 DEF LoneActions, PlansWell
      <4>4. CASE /\ Top.op = "finish" /\ f.id = Top.id
                 /\ Top.id \in start /\ f.acts = FinishActions(Top.id)
        <5>1. f.id \in Created
          BY <4>2, <4>4 DEF StepMoves, Loops
        <5>2. \A n \in DOMAIN f.acts : ActionOf(info[f.id].task, f.acts[n])
          BY <4>4, <5>1, FinishOfTask
        <5> QED BY <1>3, <4>4, <5>1, <5>2 DEF PlansWell
      <4>5. CASE /\ f.id \in Created /\ f.id \in start'
                 /\ f.acts = TaskOf(f.id).onstart
        <5>1. config \in Configs
          BY StepFacts DEF TypeOK
        <5>2. \A n \in DOMAIN f.acts : ActionOf(info[f.id].task, f.acts[n])
          BY <4>5, <5>1 DEF ActionOf, AllActions, TaskOf, Task
        <5>3. info'[f.id] = info[f.id]
          BY <1>2, <4>5
        <5> QED BY <4>5, <5>2, <5>3 DEF PlansWell, ActionOf
      <4> QED BY <3>2, <4>1, <4>3, <4>4, <4>5 DEF Begins
    <3>3. \A k \in DOMAIN frames : PlansWell(frames[k])'
      BY <3>2 DEF PlansWell
    <3> QED BY <3>1, <3>3
  <2>2. CASE PlanTask
    <3>1. PICK frames \in Seq(CallFrame) : PlannedCalls(frames)
      BY <2>2, PlanNothing, PlanOne
    <3>2. PICK acts : acts = Top.acts
      OBVIOUS
    <3>3. /\ stack # <<>> /\ Top.op = "trigger" /\ 1 \in DOMAIN stack /\ Top = stack[1]
          /\ acts \in Seq(Action) /\ acts # <<>>
          /\ Top.id # 0 => Top.id \in Created
      <4>1. stack # <<>> /\ Top.op = "trigger"
        BY <2>2 DEF PlanTask, On, Top
      <4> QED BY <3>2, <4>1, TopCall, NumberFacts, StackFrames
    <3>4. \A n \in DOMAIN Tail(acts) : n + 1 \in DOMAIN acts /\ Tail(acts)[n] = acts[n + 1]
      <4>1. Len(acts) \in Nat /\ DOMAIN acts = 1..Len(acts)
        BY <3>3
      <4>2. /\ Tail(acts) \in Seq(Action) /\ Len(Tail(acts)) = Len(acts) - 1
            /\ \A n \in 1..Len(Tail(acts)) : Tail(acts)[n] = acts[n + 1]
        BY <3>3, HeadTailProperties
      <4> QED BY <4>1, <4>2
    <3>5. ASSUME NEW m \in DOMAIN frames, NEW f, f = frames[m], f.op = "trigger",
                 f.id # 0
          PROVE  PlansWell(f)'
      <4>1. CASE f.id = Top.id /\ f.acts = Tail(acts)
        <5>1. PlansWell(Top)
          BY <1>1, <3>3
        <5>2. PlansWell(f)
          BY <3>2, <3>3, <3>4, <4>1, <5>1 DEF PlansWell
        <5> QED BY <1>3, <3>3, <4>1, <5>2
      <4>2. CASE \E t \in Tasks : f.acts = Task[t].onplan
        <5>1. config \in Configs
          BY StepFacts DEF TypeOK
        <5>2. LoneActions(f.acts)
          BY <4>2, <5>1 DEF PlansOnceStarted, Task
        <5> QED BY <5>2 DEF LoneActions, PlansWell
      <4> QED BY <3>1, <3>2, <3>5, <4>1, <4>2 DEF PlannedCalls
    <3>6. \A k \in DOMAIN frames : PlansWell(frames[k])'
      BY <3>5 DEF PlansWell
    <3> QED BY <3>1, <3>6 DEF PlannedCalls, PlanMoves
  <2> QED BY <2>1, <2>2
<1>6. ASSUME NEW k \in DOMAIN stack', NEW g, g = stack'[k] PROVE PlansWell(g)'
  <2>1. (\E n \in DOMAIN frames : g = frames[n]) \/ (\E n \in DOMAIN stack : g = stack[n])
    BY <1>5, <1>6, CallsAfter
  <2> QED BY <1>4, <1>5, <2>1
<1> QED BY <1>6 DEF Planners, PlansWell

\* What an operator says only depends on how instances finish, but for the two
\* operators about starts.
LEMMA SameMeaning ==
  ASSUME NEW W, NEW s, NEW t,
         \A j \in W : s[j] = t[j] \/ (s[j] \notin FinishedStatus /\ t[j] \notin FinishedStatus),
         NEW op, op \notin {"AllStarted", "AnyStarted"}
  PROVE  Meaning(op, W, s) <=> Meaning(op, W, t)
<1>1. ASSUME NEW S \in SUBSET FinishedStatus
      PROVE  /\ AllIn(S, W, s) <=> AllIn(S, W, t)
             /\ AnyIn(S, W, s) <=> AnyIn(S, W, t)
  BY DEF AllIn, AnyIn
<1>2. /\ {"Success"} \in SUBSET FinishedStatus /\ {"Failure"} \in SUBSET FinishedStatus
      /\ {"Canceled"} \in SUBSET FinishedStatus
      /\ FinishedStatus \in SUBSET FinishedStatus
      /\ \A S : FinishedStatus \ S \in SUBSET FinishedStatus
  BY DEF FinishedStatus
<1> QED BY <1>1, <1>2 DEF Meaning

\* The instances that the condition of an instance is about, those of its herd.
Watched(i) ==
  Herd(info[i].herdid)
    \cap (IF info[i].watch = {} THEN {info[i].parentid}
          ELSE {j \in Created : info[j].task \in info[i].watch})

\* Its condition is met by the ends of others.
Heard(i) ==
  /\ info[i].queuewhen \notin {"", "AllStarted", "AnyStarted"}
  /\ Meaning(info[i].queuewhen, Watched(i), StatusOf)

LEMMA Statuses ==
  ASSUME NEW i
  PROVE  Status(i) \in TaskInstanceStatus
BY DEF Status, TaskInstanceStatus, UnfinishedStatus, UnstartedStatus, FinishedStatus

\* The condition of an instance whose herder is not finished.
LEMMA MetByHerd ==
  ASSUME IndInv, CallsInv, IndexInv, NEW i \in Created,
         info[i].queuewhen \notin {"AllStarted", "AnyStarted"},
         info[i].herdid \notin finish
  PROVE  Met(info[i].queuewhen, i) <=> Heard(i)
<1>1. PICK h, W, H, op : /\ h = info[i].herdid /\ op = info[i].queuewhen
                         /\ W = WatchedIds(i) /\ H = HerdedTasks(h)
  OBVIOUS
<1>2. h \in Created /\ op \in TaskWaitOperator \cup {""} /\ op \notin {"AllStarted", "AnyStarted"}
  BY <1>1, StepFacts DEF Info, Operator
<1>3. H = Herd(h) /\ unfinishedHerds[h] = Herd(h) /\ Herd(h) \subseteq Created
  BY <1>1, <1>2, HerdAwaits DEF Herd
<1>4. Met(info[i].queuewhen, i) <=> Evaluate(op, W, H, StatusOf)
  BY <1>1 DEF Met
<1>5. CASE op = ""
  <2>1. ~Evaluate("", W, H, StatusOf)
    BY DEF Evaluate, EvaluateCounters
  <2> QED BY <1>1, <1>4, <1>5, <2>1 DEF Heard
<1>6. CASE op # ""
  <2>1. W \cap H = Watched(i)
    BY <1>1, <1>3 DEF WatchedIds, Watched
  <2>2. \A j \in W \cap H : StatusOf[j] \in TaskInstanceStatus
    BY <1>3, Statuses DEF StatusOf
  <2>3. IsFiniteSet(W)
    <3>1. IsFiniteSet({info[i].parentid})
      BY FS_Singleton
    <3>2. IsFiniteSet(Created)
      <4>1. PICK a \in Int, b \in Int : a = 1 /\ b = Len(info)
        BY StepFacts
      <4>2. IsFiniteSet(a..b)
        BY FS_Interval
      <4> QED BY <4>1, <4>2 DEF Created
    <3>3. W = {info[i].parentid} \/ W \in SUBSET Created
      BY <1>1, <1>3 DEF WatchedIds
    <3> QED BY <3>1, <3>2, <3>3, FS_Subset
  <2>4. Evaluate(op, W, H, StatusOf) <=> Meaning(op, W \cap H, StatusOf)
    BY <1>2, <1>6, <2>2, <2>3, CountersMean
  <2> QED BY <1>1, <1>2, <1>4, <1>6, <2>1, <2>4 DEF Heard
<1> QED BY <1>5, <1>6

\* The default condition: the parent has started.
LEMMA MetByParent ==
  ASSUME IndInv, NEW i \in Created, Eager(i), info[i].watch = {},
         info[i].parentid \in start
  PROVE  Met(info[i].queuewhen, i)
<1>1. PICK p, H : p = info[i].parentid /\ H = HerdedTasks(info[i].herdid)
  OBVIOUS
<1>2. p \in Created /\ Status(p) \notin UnstartedStatus
  <2>1. start \subseteq Created
    BY StepFacts DEF TypeOK, InstanceTypeOK
  <2> QED BY <1>1, <2>1 DEF Status, UnstartedStatus
<1>3. \A j \in {p} \cap H : StatusOf[j] \in TaskInstanceStatus \ UnstartedStatus
  BY <1>2, Statuses DEF StatusOf
<1>4. Meaning("AllStarted", {p} \cap H, StatusOf)
  BY <1>3 DEF Meaning, AllIn
<1>5. IsFiniteSet({p})
  BY FS_Singleton
<1>6. Evaluate("AllStarted", {p}, H, StatusOf) <=> Meaning("AllStarted", {p} \cap H, StatusOf)
  BY <1>3, <1>5, CountersMean DEF TaskWaitOperator
<1> QED BY <1>1, <1>4, <1>6 DEF Met, WatchedIds, Eager

\* A planned instance of a herd: its condition is met by its parent, or by the
\* ends of others while its herder is not finished.
MetMeans ==
  \A S : Unwatched(S) /\ WaitsForEnds(S) =>
    \A i \in Created : Status(i) = "Planned" /\ ~IsHerder(i) =>
      /\ Eager(i) => Met(info[i].queuewhen, i)
      /\ ~Eager(i) => (Met(info[i].queuewhen, i) <=> Heard(i))
      /\ Heard(i) => info[i].herdid \in Created \ finish

LEMMA MeetsWell ==
  IndInv /\ CallsInv /\ IndexInv /\ PromiseInv /\ HerdStarted => MetMeans
<1> SUFFICES ASSUME IndInv, CallsInv, IndexInv, PromiseInv, HerdStarted,
                    NEW S, Unwatched(S), WaitsForEnds(S),
                    NEW i \in Created, Status(i) = "Planned", ~IsHerder(i)
             PROVE  /\ Eager(i) => Met(info[i].queuewhen, i)
                    /\ ~Eager(i) => (Met(info[i].queuewhen, i) <=> Heard(i))
                    /\ Heard(i) => info[i].herdid \in Created \ finish
  BY DEF MetMeans
<1>1. PICK h, q : h = info[i].herdid /\ q = info[i].queuewhen
  OBVIOUS
<1>2. h \in Created /\ IsHerder(h) /\ i \in Herd(h) /\ i \notin finish
  <2>1. h \in Created /\ i # h
    BY <1>1, StepFacts DEF IsHerder
  <2>2. IsHerder(h)
    BY <1>1 DEF CallsInv, Herds
  <2>3. i \notin finish
    BY UnstartedStatuses DEF Begun
  <2> QED BY <1>1, <2>1, <2>2, <2>3 DEF Herd
<1>3. Eager(i) => Met(info[i].queuewhen, i)
  BY MetByParent DEF HerdStarted, WaitsForEnds
<1>4. ~Eager(i) => q \notin {"AllStarted", "AnyStarted"}
  BY <1>1 DEF WaitsForEnds, Eager
<1>5. q \notin {"", "AllStarted"} => h \notin finish
  <2> SUFFICES ASSUME q \notin {"", "AllStarted"}, h \in finish PROVE FALSE
    OBVIOUS
  <2>1. NoWait(h)
    BY <1>2 DEF PromiseInv, HerderKeepsPromise, HerderOutlivesHerd, NoWait
  <2>2. info[h].task \in Heads /\ config \in Configs
    BY <1>2, StepFacts DEF PromiseInv, HeadsHerd, TypeOK
  <2>3. info[h].task \in S
    BY <2>1, <2>2 DEF Unwatched, NoWait, TaskOf, Task
  <2> QED BY <1>1, <2>3 DEF WaitsForEnds
<1>6. ~Eager(i) => (Met(info[i].queuewhen, i) <=> Heard(i))
  <2>1. CASE q = ""
    <3>1. ~Heard(i)
      BY <1>1, <2>1 DEF Heard
    <3>2. ~Met("", i)
      BY DEF Met, Evaluate, EvaluateCounters
    <3> QED BY <1>1, <2>1, <3>1, <3>2
  <2>2. CASE q # ""
    BY <1>1, <1>4, <1>5, <2>2, MetByHerd DEF Eager
  <2> QED BY <2>1, <2>2
<1>7. Heard(i) => h \in Created \ finish
  BY <1>1, <1>2, <1>5 DEF Heard
<1> QED BY <1>1, <1>3, <1>6, <1>7

LEMMA MeetsWellAfter ==
  IndInv' /\ CallsInv' /\ IndexInv' /\ PromiseInv' /\ HerdStarted' => MetMeans'
BY MeetsWell, PTL

\* What is heard only depends on the ends of the instances of the herd.
LEMMA HeardSame ==
  ASSUME NEW i, info'[i] = info[i], Watched(i)' = Watched(i),
         \A j \in Watched(i) : /\ j \in Created /\ j \in Created'
                              /\ \/ Status(j)' = Status(j)
                                 \/ /\ Status(j) \notin FinishedStatus
                                    /\ Status(j)' \notin FinishedStatus
  PROVE  Heard(i)' <=> Heard(i)
<1>1. PICK W, s, t, q : /\ W = Watched(i) /\ s = StatusOf /\ t = StatusOf'
                        /\ q = info[i].queuewhen
  OBVIOUS
<1>2. \A j \in W : s[j] = t[j] \/ (s[j] \notin FinishedStatus /\ t[j] \notin FinishedStatus)
  BY <1>1 DEF StatusOf
<1>3. q \notin {"AllStarted", "AnyStarted"} => (Meaning(q, W, s) <=> Meaning(q, W, t))
  BY <1>2, SameMeaning
<1> QED BY <1>1, <1>3 DEF Heard

\* What a step of the scheduler thread leaves of the instances.
LEMMA Older ==
  ASSUME IndInv, CallsInv, IndexInv, Step
  PROVE  /\ Created \subseteq Created' /\ start \subseteq start' /\ finish \subseteq finish'
         /\ \A j \in Created : /\ info'[j] = info[j] /\ IsHerder(j)' = IsHerder(j)
                               /\ Unstarted(j)' => Unstarted(j)
                               /\ Begun(j) => Begun(j)'
         /\ ~PlanTask => Created' = Created
<1>1. CASE PlanTask
  <2>1. /\ Created \subseteq Created' /\ UNCHANGED <<queue, start, stop, finish>>
        /\ \A j \in Created : info'[j] = info[j]
    <3>1. CASE Head(Top.acts).task \in enabled
      BY <1>1, <3>1, PlannedInfo
    <3>2. CASE Head(Top.acts).task \notin enabled
      BY <1>1, <3>2 DEF PlanTask, instanceVars, Created
    <3> QED BY <3>1, <3>2
  <2> QED BY <1>1, <2>1 DEF IsHerder, Unstarted, Begun
<1>2. CASE ~PlanTask
  <2>1. StepMoves
    BY <1>2, MovesOfStep
  <2>2. /\ queue \subseteq queue' /\ start \subseteq start'
        /\ stop \subseteq stop' /\ finish \subseteq finish'
        /\ info' = info /\ Created' = Created
    BY <2>1, MovesKeep
  <2> QED BY <2>2 DEF IsHerder, Unstarted, Begun
<1> QED BY <1>1, <1>2

\* What is planned: in a herd, by an instance that has started, with the condition
\* of an action of its task.
LEMMA Newer ==
  ASSUME IndInv, CallsInv, IndexInv, Planners, HerdStarted, PlanTask,
         NEW j \in Created', j \notin Created
  PROVE  /\ info'[j].task \in enabled
         /\ Created' = Created \cup {j}
         /\ info'[j].queuewhen = "" \/ Calls("planned", j)'
         /\ \/ info'[j].herdid = j /\ info'[j].queuewhen = ""
            \/ \E a \in Action, p \in Created \cap start :
                 /\ info'[j].parentid = p /\ info'[j].herdid = info[p].herdid
                 /\ info[p].herdid \in Created \cap start
                 /\ ~a.lone /\ a.task = info'[j].task /\ ActionOf(info[p].task, a)
                 /\ \/ info'[j].queuewhen = ""
                    \/ info'[j].queuewhen = "AllStarted" /\ info'[j].watch = {}
                    \/ info'[j].queuewhen = a.queuewhen /\ info'[j].watch = a.watch
<1>1. Head(Top.acts).task \in enabled
  BY DEF PlanTask, instanceVars, Created
<1>2. PICK i, herdid, a :
           /\ a = Head(Top.acts) /\ a \in Action
           /\ i \in Ids /\ i \notin Created /\ Created' = Created \cup {i}
           /\ info'[i].parentid = Top.id /\ info'[i].task = a.task
           /\ \/ herdid = 0 /\ info'[i].herdid = i
              \/ /\ herdid \in Created /\ info'[i].herdid = herdid
                 /\ Top.id \in Created /\ info[Top.id].herdid = herdid /\ ~a.lone
           /\ \/ herdid \notin unfinishedTasks /\ info'[i].queuewhen = ""
              \/ /\ herdid \in unfinishedTasks /\ Calls("planned", i)'
                 /\ \/ /\ a.queuewhen = "" /\ info'[i].queuewhen = "AllStarted"
                       /\ info'[i].watch = {}
                    \/ /\ a.queuewhen # "" /\ info'[i].queuewhen = a.queuewhen
                       /\ info'[i].watch = a.watch
  BY <1>1, PlannedInfo
<1>3. i = j
  BY <1>2
<1>4. /\ info'[j].task \in enabled /\ Created' = Created \cup {j}
      /\ info'[j].queuewhen = "" \/ Calls("planned", j)'
  BY <1>1, <1>2, <1>3
<1>5. CASE herdid = 0 /\ info'[i].herdid = i
  <2>1. 0 \notin unfinishedTasks
    BY StepFacts
  <2> QED BY <1>2, <1>3, <1>4, <1>5, <2>1
<1>6. CASE /\ herdid \in Created /\ info'[i].herdid = herdid
           /\ Top.id \in Created /\ info[Top.id].herdid = herdid /\ ~a.lone
  <2>1. PICK p : p = Top.id
    OBVIOUS
  <2>2. p \in start /\ ActionOf(info[p].task, a)
    <3>1. stack # <<>> /\ Top.op = "trigger"
      BY DEF PlanTask, On, Top
    <3>2. Top = stack[1] /\ 1 \in DOMAIN stack
      BY <3>1, TopCall
    <3>3. PICK acts : acts = Top.acts
      OBVIOUS
    <3>4. acts \in Seq(Action) /\ acts # <<>>
      BY <3>1, <3>3, NumberFacts
    <3>5. 1 \in DOMAIN acts /\ acts[1] = a
      <4>1. a = Head(acts)
        BY <1>2, <3>3
      <4>2. Len(acts) \in Nat /\ Len(acts) # 0 /\ DOMAIN acts = 1..Len(acts)
        BY <3>4, EmptySeq
      <4> QED BY <3>4, <4>1, <4>2
    <3>6. p # 0
      BY <1>6, <2>1, StepFacts
    <3> QED BY <1>6, <2>1, <3>1, <3>2, <3>3, <3>5, <3>6 DEF Planners
  <2>3. herdid \in start
    BY <1>6, <2>1, <2>2 DEF HerdStarted, IsHerder
  <2> QED BY <1>2, <1>3, <1>4, <1>6, <2>1, <2>2, <2>3
<1> QED BY <1>2, <1>5, <1>6

\* The herder and the parent of what is planned have started.
LEMMA HerdStartedStep ==
  ASSUME IndInv, CallsInv, IndexInv, Planners, HerdStarted, Step
  PROVE  HerdStarted'
<1> SUFFICES ASSUME NEW j \in Created', ~IsHerder(j)'
             PROVE  info'[j].herdid \in start' /\ info'[j].parentid \in start'
  BY DEF HerdStarted
<1>1. CASE j \in Created
  BY <1>1, Older DEF HerdStarted
<1>2. CASE j \notin Created
  <2>1. PlanTask
    BY <1>2, Older
  <2>2. info'[j].herdid # j
    BY DEF IsHerder
  <2> QED BY <1>2, <2>1, <2>2, Newer, Older
<1> QED BY <1>1, <1>2

\* The conditions of what is planned are those of the actions.
LEMMA ConditionsStep ==
  ASSUME StartsUnwatched, NEW S, Unwatched(S),
         IndInv, CallsInv, IndexInv, Planners, HerdStarted, WaitsForEnds(S), Step
  PROVE  WaitsForEnds(S)'
<1> SUFFICES ASSUME NEW j \in Created'
             PROVE  /\ info'[j].queuewhen # "AnyStarted"
                    /\ info'[j].queuewhen = "AllStarted" => info'[j].watch = {}
                    /\ info'[info'[j].herdid].task \in S =>
                         info'[j].task \in S /\ info'[j].queuewhen \in {"", "AllStarted"}
  BY DEF WaitsForEnds, Eager
<1>1. CASE j \in Created
  <2>1. info[j].herdid \in Created
    BY <1>1, StepFacts
  <2> QED BY <1>1, <2>1, Older DEF WaitsForEnds, Eager
<1>2. CASE j \notin Created
  <2>1. PlanTask
    BY <1>2, Older
  <2>2. CASE info'[j].herdid = j /\ info'[j].queuewhen = ""
    BY <2>2
  <2>3. ASSUME NEW a \in Action, NEW p \in Created \cap start,
               info'[j].herdid = info[p].herdid, info[p].herdid \in Created,
               ~a.lone, a.task = info'[j].task, ActionOf(info[p].task, a),
               \/ info'[j].queuewhen = ""
               \/ info'[j].queuewhen = "AllStarted" /\ info'[j].watch = {}
               \/ info'[j].queuewhen = a.queuewhen /\ info'[j].watch = a.watch
        PROVE  /\ info'[j].queuewhen # "AnyStarted"
               /\ info'[j].queuewhen = "AllStarted" => info'[j].watch = {}
               /\ info'[info'[j].herdid].task \in S =>
                    info'[j].task \in S /\ info'[j].queuewhen \in {"", "AllStarted"}
    <3>1. PICK c \in Configs : \E acts \in AllActions(c, info[p].task) :
            \E n \in DOMAIN acts : acts[n] = a
      BY <2>3 DEF ActionOf
    <3>2. info[p].task \in Tasks
      BY StepFacts
    <3>3. a.queuewhen # "AnyStarted" /\ (a.queuewhen = "AllStarted" => a.watch = {})
      <4>1. PICK acts \in AllActions(c, info[p].task) : \E n \in DOMAIN acts : acts[n] = a
        BY <3>1
      <4>2. \A n \in DOMAIN acts :
              \/ acts[n].lone
              \/ /\ acts[n].queuewhen # "AnyStarted"
                 /\ acts[n].queuewhen = "AllStarted" => acts[n].watch = {}
        BY <3>2 DEF StartsUnwatched
      <4> QED BY <2>3, <4>1, <4>2
    <3>4. info[info[p].herdid].task \in S =>
            a.task \in S /\ a.queuewhen \in {"", "AllStarted"}
      BY <2>3, <3>1 DEF WaitsForEnds, Unwatched
    <3>5. info'[info'[j].herdid].task = info[info[p].herdid].task
      BY <2>3, Older
    <3> QED BY <2>3, <3>3, <3>4, <3>5
  <2>4. \/ info'[j].herdid = j /\ info'[j].queuewhen = ""
        \/ \E a \in Action, p \in Created \cap start :
             /\ info'[j].herdid = info[p].herdid /\ info[p].herdid \in Created
             /\ ~a.lone /\ a.task = info'[j].task /\ ActionOf(info[p].task, a)
             /\ \/ info'[j].queuewhen = ""
                \/ info'[j].queuewhen = "AllStarted" /\ info'[j].watch = {}
                \/ info'[j].queuewhen = a.queuewhen /\ info'[j].watch = a.watch
    BY <1>2, <2>1, Newer
  <2> QED BY <2>2, <2>3, <2>4
<1> QED BY <1>1, <1>2

\* An instance that is not started is canceled step by step.
LEMMA RemovedStep ==
  ASSUME IndInv, CallsInv, IndexInv, Planners, HerdStarted, enabled \subseteq Configured,
         Removed, Step
  PROVE  Removed'
<1> SUFFICES ASSUME NEW i \in Created', Unstarted(i)', info'[i].task \notin Configured'
             PROVE  Removing(i)'
  BY DEF Removed
<1>1. Configured' = Configured
  BY Lasts DEF Configured
<1>2. i \in Created
  BY <1>1, Older, Newer
<1>3. Unstarted(i) /\ info[i].task \notin Configured
  BY <1>1, <1>2, Older
<1>4. Removing(i)
  BY <1>2, <1>3 DEF Removed
<1>5. Visits("reload", i) =>
        Visits("reload", i)' \/ (Top.op = "reload" /\ i \in Top.ids)
  BY Lasts
<1>6. \A op \in {"cancel", "stopped", "settle", "finish"} :
        Calls(op, i) => Calls(op, i)' \/ (Top.op = op /\ Top.id = i)
  BY Lasts
<1>7. CASE Top.op = "reload" /\ i \in Top.ids
  <2>1. \A j \in Top.ids : Unstarted(j) =>
          \/ info[j].task \in Configured
          \/ Visits("reload", j)' \/ Calls("cancel", j)'
    BY <1>7, SucceedsStep DEF Succeeds
  <2> QED BY <1>3, <1>7, <2>1 DEF Removing
<1>8. ASSUME NEW op \in {"cancel", "stopped", "settle", "finish"}, Top.op = op, Top.id = i
      PROVE  Removing(i)'
  <2>1. /\ op = "cancel" => Calls("stopped", i)'
        /\ op = "stopped" => Calls("settle", i)' \/ Calls("finish", i)'
        /\ op = "settle" /\ unfinishedHerdedTasks[i] = {} => Calls("finish", i)'
        /\ op = "finish" => i \in finish'
    BY <1>3, <1>8, SucceedsStep DEF Succeeds
  <2>2. unfinishedHerdedTasks[i] = {}
    <3> SUFFICES ASSUME NEW j \in unfinishedHerdedTasks[i] PROVE FALSE
      OBVIOUS
    <3>1. i \in Ids
      BY <1>2, StepFacts
    <3>2. j \in Created /\ ~IsHerder(j) /\ info[j].herdid = i
      BY <3>1 DEF CallsInv, Herds, IsHerder
    <3>3. i \notin start
      BY <1>3 DEF Unstarted
    <3> QED BY <3>2, <3>3 DEF HerdStarted
  <2>3. i \notin finish'
    BY DEF Unstarted
  <2> QED BY <2>1, <2>2, <2>3 DEF Removing
<1> QED BY <1>4, <1>5, <1>6, <1>7, <1>8 DEF Removing

\* The condition of an instance stays as it is as long as the instances it is about
\* do not finish.
LEMMA AwaitsKept ==
  ASSUME NEW S, Unwatched(S), WaitsForEnds(S), WaitsForEnds(S)', MetMeans, MetMeans',
         NEW i \in Created, i \in Created', info'[i] = info[i],
         Begun(i) => Begun(i)', Watched(i)' = Watched(i),
         \A j \in Watched(i) : /\ j \in Created /\ j \in Created'
                              /\ \/ Status(j)' = Status(j)
                                 \/ /\ Status(j) \notin FinishedStatus
                                    /\ Status(j)' \notin FinishedStatus,
         Awaits(i)'
  PROVE  Awaits(i)
<1>1. Status(i)' = "Planned" /\ ~IsHerder(i)' /\ Met(info[i].queuewhen, i)'
  BY DEF Awaits
<1>2. Status(i) = "Planned" /\ ~IsHerder(i) /\ (Eager(i)' <=> Eager(i))
  <2>1. Status(i)' = "Planned" <=> ~Begun(i)'
    BY DEF Status, Begun
  <2> QED BY <1>1, <2>1, UnstartedStatuses DEF IsHerder, Eager
<1>3. /\ Eager(i) => Met(info[i].queuewhen, i)
      /\ ~Eager(i) => (Met(info[i].queuewhen, i) <=> Heard(i))
  BY <1>2 DEF MetMeans
<1>4. ~Eager(i)' => (Met(info[i].queuewhen, i)' <=> Heard(i)')
  BY <1>1 DEF MetMeans
<1>5. Heard(i)' <=> Heard(i)
  BY HeardSame
<1> QED BY <1>1, <1>2, <1>3, <1>4, <1>5 DEF Awaits

\* Only the end of an instance changes its final status.
LEMMA FinalKept ==
  ASSUME IndInv, CallsInv, IndexInv, CallsInv', Step, NEW j \in Created,
         ~(Top.op = "finish" /\ Top.id = j)
  PROVE  \/ Status(j)' = Status(j)
         \/ Status(j) \notin FinishedStatus /\ Status(j)' \notin FinishedStatus
<1>1. \A k : Status(k) \in FinishedStatus => k \in finish
  BY DEF CallsInv, Timestamps, Status, FinishedStatus
<1>2. Status(j)' \in FinishedStatus => j \in finish'
  BY DEF CallsInv, Timestamps, Status, FinishedStatus
<1>3. CASE j \notin finish
  <2>1. j \notin finish'
    <3>1. CASE PlanTask
      <4>1. finish' = finish
        BY <3>1, PlannedInfo DEF PlanTask, instanceVars
      <4> QED BY <1>3, <4>1
    <3>2. CASE ~PlanTask
      BY <1>3, <3>2, MovesOfStep DEF StepMoves
    <3> QED BY <3>1, <3>2
  <2> QED BY <1>1, <1>2, <1>3, <2>1
<1>4. CASE j \in finish
  <2>1. j \in finish'
    BY <1>4, Older
  <2>2. j \in start' <=> j \in start
    <3>1. CASE PlanTask
      BY <3>1, PlannedInfo DEF PlanTask, instanceVars
    <3>2. CASE ~PlanTask
      <4>1. \A i : Status(i) = "Queued" => i \notin finish
        BY DEF Status
      <4> QED BY <1>4, <3>2, <4>1, MovesOfStep DEF StepMoves
    <3> QED BY <3>1, <3>2
  <2>3. j \in success' <=> j \in success
    <3>1. CASE PlanTask
      BY <3>1, PlannedInfo DEF PlanTask, instanceVars
    <3>2. CASE ~PlanTask /\ Top.op # "finish"
      BY <3>2, MovesOfStep DEF StepMoves
    <3>3. CASE ~PlanTask /\ Top.op = "finish"
      <4>1. TaskInstanceFinishedOrCanceled
        BY <3>3 DEF Step, PlanTask, Planned, EnqueueTaskInstance, Deduplicate, Dropped,
             Queue, DoCancelTaskInstance, DoAbortTaskInstance, Aborted,
             CancelOrAbortEach, TaskInstanceStoppedOrCanceled, Settle, Forget, Herded,
             StartTaskInstance, EnqueueOrCancelPlanned, ReplaceTaskOrCancel, LoopEnds,
             On, Top
      <4>2. success' = success \cup {Top.id} \/ success' = success \ {Top.id}
        BY <4>1 DEF TaskInstanceFinishedOrCanceled
      <4> QED BY <3>3, <4>2
    <3> QED BY <3>1, <3>2, <3>3
  <2> QED BY <1>4, <2>1, <2>2, <2>3 DEF Status
<1> QED BY <1>3, <1>4

\* An instance whose evaluation is still to be made, in a step that leaves it planned.
LEMMA NoticedStays ==
  ASSUME RoomInQueue, NEW S, Unwatched(S), WaitsForEnds(S), MetMeans, HerdStarted,
         IndInv, CallsInv, IndexInv, Noticed, Step, ~shutingDown,
         NEW i \in Created, Awaits(i), Status(i)' = "Planned"
  PROVE  Reevaluated(i)' \/ (~Eager(i)' /\ Joins("herded", info[i].herdid)')
<1>1. PICK h : h = info[i].herdid
  OBVIOUS
<1>2. /\ info'[i] = info[i] /\ (Eager(i)' <=> Eager(i))
      /\ Status(i) = "Planned" /\ ~IsHerder(i) /\ Met(info[i].queuewhen, i)
      /\ h \in Created /\ h \in start /\ i \in Herd(h) /\ i \notin finish
  <2>1. info'[i] = info[i]
    BY Older
  <2>2. Status(i) = "Planned" /\ ~IsHerder(i) /\ Met(info[i].queuewhen, i)
    BY DEF Awaits
  <2>3. h \in Created /\ h \in start /\ i # h
    BY <1>1, <2>2, StepFacts DEF HerdStarted, IsHerder
  <2>4. i \notin finish
    BY <2>2, UnstartedStatuses DEF Begun
  <2> QED BY <1>1, <2>1, <2>2, <2>3, <2>4 DEF Eager, Herd
<1>3. /\ \A op, j : Calls(op, j) => Calls(op, j)' \/ (Top.op = op /\ Top.id = j)
      /\ \A op, j : Visits(op, j) => Visits(op, j)' \/ (Top.op = op /\ j \in Top.ids)
      /\ dirtyHerds \subseteq dirtyHerds' /\ (plannedEvent => plannedEvent')
  BY Lasts
<1>4. \A j \in Created : info'[j] = info[j] /\ j \in Created'
  BY Older
<1>5. Reevaluated(i) \/ (~Eager(i) /\ Joins("herded", h))
  BY <1>1 DEF Noticed
<1>6. CASE h \in dirtyHerds /\ plannedEvent
  BY <1>1, <1>2, <1>3, <1>6 DEF Reevaluated
<1>7. ASSUME Deciding(i) PROVE Deciding(i)'
  <2>1. CASE \/ \E op \in {"enqueue", "queue", "cancel", "stopped", "finish"} : Calls(op, i)'
             \/ Visits("enqueueEach", i)' \/ Visits("deduplicate", i)'
    BY <2>1 DEF Deciding
  <2>2. CASE Top.op = "enqueueEach" /\ i \in Top.ids
    <3>1. \A j \in Top.ids :
            Status(j) = "Planned" /\ Met(info[j].queuewhen, j)
              /\ Status(info[j].herdid) \notin UnstartedStatus
            => Calls("enqueue", j)' \/ Visits("enqueueEach", j)'
      BY <2>2, SucceedsStep DEF Succeeds
    <3>2. Status(h) \notin UnstartedStatus
      BY <1>2 DEF Status, UnstartedStatus
    <3> QED BY <1>1, <1>2, <2>2, <3>1, <3>2, <2>1
  <2>3. CASE Top.op = "deduplicate" /\ i \in Top.ids
    <3>1. \A j \in Top.ids : Calls("cancel", j)' \/ Visits("deduplicate", j)'
      BY <2>3, SucceedsStep DEF Succeeds
    <3> QED BY <2>1, <2>3, <3>1
  <2>4. ASSUME NEW op \in {"enqueue", "queue", "cancel", "stopped", "finish"},
               Top.op = op, Top.id = i
        PROVE  Deciding(i)'
    <3>1. /\ op = "cancel" /\ Unstarted(i) => Calls("stopped", i)'
          /\ op = "stopped" /\ ~IsHerder(i) => Calls("finish", i)'
          /\ op = "finish" => i \in finish'
          /\ op = "enqueue" /\ ~shutingDown =>
               Calls("cancel", i)' \/ Calls("queue", i)' \/ Visits("deduplicate", i)'
          /\ op = "queue" => i \in queue' \/ Cardinality(Queued) >= MaxQueuedRequests
      BY <2>4, SucceedsStep DEF Succeeds
    <3>2. Unstarted(i)
      BY <1>2, UnstartedStatuses DEF UnstartedStatus
    <3>3. i \notin finish' /\ i \notin queue'
      BY DEF Status
    <3>4. op = "queue" => ~(Cardinality(Queued) >= MaxQueuedRequests)
      <4>1. stack # <<>>
        BY Lasts
      <4>2. IsFiniteSet(Queued) /\ Cardinality(Queued) \in Nat
        <5>1. Queued \in SUBSET Ids
          BY StepFacts DEF Queued
        <5>2. PICK a \in Int, b \in Int : a = 1 /\ b = MaxId
          BY MaxIdAssumption
        <5>3. IsFiniteSet(a..b)
          BY FS_Interval
        <5>4. IsFiniteSet(Queued)
          BY <5>1, <5>2, <5>3, FS_Subset DEF Ids
        <5> QED BY <5>4, FS_CardinalityType
      <4>3. op = "queue" => On("queue")
        BY <2>4, <4>1 DEF On, Top
      <4>4. MaxQueuedRequests \in Nat
        BY ConfigAssumption
      <4>5. Cardinality(Queued) < MaxQueuedRequests
              => ~(Cardinality(Queued) >= MaxQueuedRequests)
        BY <4>2, <4>4
      <4> QED BY <4>3, <4>5 DEF RoomInQueue
    <3> QED BY <1>2, <2>1, <2>4, <3>1, <3>2, <3>3, <3>4
  <2> QED BY <1>3, <1>7, <2>1, <2>2, <2>3, <2>4 DEF Deciding
<1>8. ASSUME Joins("planned", h) PROVE Reevaluated(i)'
  <2>1. PICK j \in Created : info[j].herdid = h /\ Calls("planned", j)
    BY <1>8 DEF Joins
  <2>2. CASE Calls("planned", j)'
    BY <1>1, <1>2, <1>4, <2>1, <2>2 DEF Joins, Reevaluated
  <2>3. CASE Top.op = "planned" /\ Top.id = j
    <3>1. h \in dirtyHerds' /\ plannedEvent'
      BY <2>1, <2>3, SucceedsStep DEF Succeeds
    <3> QED BY <1>1, <1>2, <3>1 DEF Reevaluated
  <2> QED BY <1>3, <2>1, <2>2, <2>3
<1>9. ASSUME ~Eager(i), Joins("herded", h)
      PROVE  Reevaluated(i)' \/ (~Eager(i)' /\ Joins("herded", h)')
  <2>1. PICK j \in Created : info[j].herdid = h /\ Calls("herded", j)
    BY <1>9 DEF Joins
  <2>2. CASE Calls("herded", j)'
    BY <1>1, <1>2, <1>4, <1>9, <2>1, <2>2 DEF Joins
  <2>3. CASE Top.op = "herded" /\ Top.id = j
    <3>1. h \notin finish
      BY <1>1, <1>2, <1>9 DEF MetMeans
    <3>2. h \in unfinishedTasks /\ i \in unfinishedHerds[h] /\ i \in unfinishedHerdedTasks[h]
      BY <1>2, <3>1, HerdAwaits
    <3>3. j \in finish
      <4>1. stack # <<>>
        BY Lasts
      <4>2. Top = stack[1] /\ 1 \in DOMAIN stack
        BY <4>1, TopCall
      <4> QED BY <2>3, <4>2 DEF IndexInv, Told
    <3>4. unfinishedHerdedTasks[h] \ {j} # {} /\ unfinishedHerds[h] # {}
      BY <1>2, <3>2, <3>3
    <3>5. h \in dirtyHerds' /\ plannedEvent'
      BY <2>1, <2>3, <3>2, <3>4, SucceedsStep DEF Succeeds
    <3> QED BY <1>1, <1>2, <3>5 DEF Reevaluated
  <2> QED BY <1>3, <2>1, <2>2, <2>3
<1> QED BY <1>1, <1>2, <1>5, <1>6, <1>7, <1>8, <1>9 DEF Reevaluated

\* An instance whose condition comes to be met.
LEMMA NoticedStep ==
  ASSUME RoomInQueue, NEW S, Unwatched(S), WaitsForEnds(S), WaitsForEnds(S)',
         MetMeans, MetMeans', HerdStarted, Planners,
         IndInv, CallsInv, IndexInv, CallsInv', Noticed, Step
  PROVE  Noticed'
<1> SUFFICES ASSUME ~shutingDown', NEW i \in Created', Awaits(i)'
             PROVE  Reevaluated(i)' \/ (~Eager(i)' /\ Joins("herded", info[i].herdid)')
  BY DEF Noticed
<1>1. /\ Status(i)' = "Planned" /\ ~IsHerder(i)' /\ Met(info[i].queuewhen, i)'
      /\ ~shutingDown
  BY Lasts DEF Awaits
<1>2. CASE i \notin Created
  <2>1. PlanTask
    BY <1>2, Older
  <2>2. info'[i].queuewhen = "" \/ Calls("planned", i)'
    BY <1>2, <2>1, Newer
  <2>3. info'[i].queuewhen # ""
    <3>1. ~Eager(i)' => Heard(i)'
      BY <1>1 DEF MetMeans
    <3> QED BY <3>1 DEF Heard, Eager
  <2> QED BY <2>2, <2>3 DEF Joins, Reevaluated
<1>3. CASE i \in Created /\ Awaits(i)
  BY <1>1, <1>3, NoticedStays
<1>4. CASE i \in Created /\ ~Awaits(i)
  <2>1. PICK h : h = info[i].herdid
    OBVIOUS
  <2>2. info'[i] = info[i] /\ h \in Created /\ (Begun(i) => Begun(i)')
    BY <1>4, <2>1, Older, StepFacts
  <2>3. \/ Watched(i)' # Watched(i)
        \/ \E j \in Watched(i) : Top.op = "finish" /\ Top.id = j
    <3> SUFFICES ASSUME Watched(i)' = Watched(i),
                        \A j \in Watched(i) : ~(Top.op = "finish" /\ Top.id = j)
                 PROVE  FALSE
      OBVIOUS
    <3>1. \A j \in Watched(i) : j \in Created /\ j \in Created'
      BY Older DEF Watched, Herd
    <3> QED BY <1>4, <2>2, <3>1, FinalKept, AwaitsKept
  <2>4. ~Eager(i)' /\ h \notin finish
    <3>1. ~Eager(i)
      <4> SUFFICES ASSUME Eager(i) PROVE FALSE
        OBVIOUS
      <4>1. Status(i) = "Planned" /\ ~IsHerder(i)
        BY <1>1, <1>4, <2>2, Older, UnstartedStatuses DEF Status, Begun
      <4> QED BY <1>4, <4>1 DEF MetMeans, Awaits
    <3>2. ~Eager(i)'
      BY <2>2, <3>1 DEF Eager
    <3>3. Heard(i)'
      BY <1>1, <3>2 DEF MetMeans
    <3>4. h \notin finish'
      BY <1>1, <2>1, <2>2, <3>3 DEF MetMeans
    <3> QED BY <3>2, <3>4, Older
  <2>5. CASE PlanTask
    <3>1. Top.op # "finish"
      BY <2>5 DEF PlanTask, On, Top
    <3>2. Watched(i)' # Watched(i)
      BY <2>3, <3>1
    <3>3. PICK j \in Created' \ Created : info'[j].herdid = h
      <4> SUFFICES ASSUME \A j \in Created' \ Created : info'[j].herdid # h
                   PROVE  FALSE
        OBVIOUS
      <4>1. \A j \in Created : info'[j] = info[j] /\ j \in Created'
        BY Older
      <4>2. Herd(h)' = Herd(h)
        BY <4>1 DEF Herd
      <4>3. Watched(i)' = Watched(i)
        BY <2>1, <2>2, <4>1, <4>2 DEF Watched, Herd
      <4> QED BY <3>2, <4>3
    <3>4. Calls("planned", j)'
      <4>1. Head(Top.acts).task \in enabled
        BY <2>5, <3>3 DEF PlanTask, instanceVars, Created
      <4>2. h \in unfinishedTasks /\ h # j
        BY <2>2, <2>4, <3>3, HerdAwaits
      <4> QED BY <2>5, <3>3, <4>1, <4>2, PlannedInfo
    <3> QED BY <2>1, <2>2, <3>3, <3>4 DEF Joins, Reevaluated
  <2>6. CASE ~PlanTask
    <3>1. StepMoves /\ info' = info /\ Created' = Created
      BY <2>6, MovesOfStep, MovesKeep
    <3>2. Watched(i)' = Watched(i)
      BY <3>1 DEF Watched, Herd
    <3>3. PICK j \in Watched(i) : Top.op = "finish" /\ Top.id = j
      BY <2>3, <3>2
    <3>4. j \in Created /\ ~IsHerder(j) /\ info[j].herdid = h
      BY <2>1, <3>3 DEF Watched, Herd, IsHerder
    <3>5. Calls("herded", j)
      <4>1. Top = stack[1] /\ 1 \in DOMAIN stack
        BY <3>1, TopCall DEF StepMoves
      <4> QED BY <3>3, <3>4, <4>1 DEF IndexInv, Told, Calls
    <3>6. Calls("herded", j)'
      BY <3>3, <3>5, Lasts
    <3> QED BY <2>1, <2>4, <3>1, <3>4, <3>6 DEF Joins
  <2> QED BY <2>5, <2>6
<1> QED BY <1>2, <1>3, <1>4

\* What is planned from outside is planned by no instance.
LEMMA EventTriggers ==
  ASSUME IndInv, CallsInv, HandleEvent \/ Environment
  PROVE  \/ stack' = stack
         \/ \A k \in DOMAIN stack' : stack'[k].op = "trigger" => stack'[k].id = 0
<1> DEFINE Outside == {f \in CallFrame : f.op = "trigger" => f.id = 0}
<1>1. ASSUME \E frames \in Seq(Outside) : stack' = frames
      PROVE  \A k \in DOMAIN stack' : stack'[k].op = "trigger" => stack'[k].id = 0
  <2>1. \A k \in DOMAIN stack' : stack'[k] \in Outside
    BY <1>1
  <2> QED BY <2>1
<1>2. ASSUME NEW op \in Loops, NEW T \in SUBSET Nat
      PROVE  Loop(op, 0, T) \in Seq(Outside)
  <2>1. op \in FrameOp /\ op # "trigger" /\ 0 \in Nat
    BY DEF Loops, FrameOp
  <2>2. PICK s : s = Loop(op, 0, T)
    OBVIOUS
  <2>3. s \in Seq(CallFrame) /\ \A k \in DOMAIN s : s[k].op = op
    <3>1. PICK o \in FrameOp, i \in Nat : o = op /\ i = 0
      BY <2>1
    <3>2. Loop(o, i, T) \in Seq(CallFrame)
      BY ONLY LoopFrames, o \in FrameOp, i \in Nat, T \in SUBSET Nat
    <3>3. \A k \in DOMAIN Loop(o, i, T) : Loop(o, i, T)[k].op = o
      BY ONLY LoopFrames, o \in FrameOp, i \in Nat, T \in SUBSET Nat
    <3>4. s = Loop(o, i, T)
      BY <2>2, <3>1
    <3> QED BY <3>1, <3>2, <3>3, <3>4
  <2>4. \A k \in DOMAIN s : s[k] \in Outside
    BY <2>1, <2>3
  <2>5. s = [k \in 1..Len(s) |-> s[k]] /\ DOMAIN s = 1..Len(s) /\ Len(s) \in Nat
    BY <2>3
  <2>6. s \in [1..Len(s) -> Outside]
    BY <2>4, <2>5
  <2>7. s \in Seq(Outside)
    BY <2>5, <2>6
  <2> QED BY <2>2, <2>7
<1>3. ASSUME NEW op \in {"cancel", "abort", "stopped"}, NEW i \in Nat
      PROVE  << Call(op, i) >> \in Seq(Outside)
  <2>1. Call(op, i) \in CallFrame /\ Call(op, i).op # "trigger"
    BY CallFields DEF FrameOp
  <2>2. Call(op, i) \in Outside
    BY <2>1
  <2> QED BY <2>2, SeqClosed
<1>4. ASSUME NEW acts \in Seq(Action)
      PROVE  Trigger(0, acts) \in Seq(Outside)
  <2>1. PICK f : f = [op |-> "trigger", id |-> 0, ids |-> {}, acts |-> acts, mark |-> FALSE]
    OBVIOUS
  <2>2. f \in CallFrame /\ f.id = 0
    BY <2>1 DEF CallFrame, FrameOp
  <2>3. f \in Outside
    BY <2>2
  <2> QED BY <2>1, <2>3, TriggerIn
<1> HIDE DEF Outside
<1>5. unfinishedTasks \subseteq Nat /\ <<>> \in Seq(Outside)
  BY NumberFacts, SeqClosed
<1>6. CASE HandleEvent
  <2>1. CASE HandleQueuedEvent
    <3>1. Loop("start", 0, unfinishedTasks) \in Seq(Outside)
      BY <1>2, <1>5 DEF Loops
    <3> QED BY <1>1, <1>5, <2>1, <3>1 DEF HandleQueuedEvent
  <2>2. CASE HandlePlannedEvent
    <3>1. Loop("enqueueEach", 0, {i \in unfinishedTasks : info[i].herdid \in dirtyHerds})
            \in Seq(Outside)
      BY <1>2, <1>5 DEF Loops
    <3> QED BY <1>1, <2>2, <3>1 DEF HandlePlannedEvent
  <2>3. ASSUME NEW i \in Ids, HandleTaskInstanceStopped(i)
        PROVE  \E frames \in Seq(Outside) : stack' = frames
    <3>1. i \in Nat
      BY DEF Ids
    <3>2. << Call("stopped", i) >> \in Seq(Outside)
      BY <1>3, <3>1
    <3> QED BY <2>3, <3>2 DEF HandleTaskInstanceStopped
  <2> QED BY <1>1, <1>6, <2>1, <2>2, <2>3 DEF HandleEvent
<1>7. CASE Environment
  <2>1. ASSUME NEW a \in Requests, RequestTask(a)
        PROVE  \E frames \in Seq(Outside) : stack' = frames
    <3>1. << a >> \in Seq(Action)
      BY ConfigAssumption, SeqClosed
    <3> QED BY <1>4, <2>1, <3>1 DEF RequestTask
  <2>2. ASSUME NEW i \in unfinishedTasks, CancelTaskInstance(i) \/ AbortTaskInstance(i)
        PROVE  \E frames \in Seq(Outside) : stack' = frames
    BY <1>3, <1>5, <2>2 DEF CancelTaskInstance, AbortTaskInstance, Command
  <2>3. ASSUME NEW t \in Tasks, \/ CancelTaskInstancesByTaskId(t)
                                \/ AbortTaskInstanceByTaskId(t)
        PROVE  \E frames \in Seq(Outside) : stack' = frames
    <3>1. ASSUME NEW T \in SUBSET unfinishedTasks
          PROVE  /\ Loop("cancelEach", 0, T) \in Seq(Outside)
                 /\ Loop("abortEach", 0, T) \in Seq(Outside)
      BY <1>2, <1>5 DEF Loops
    <3>2. \E T \in SUBSET unfinishedTasks :
            stack' = Loop("cancelEach", 0, T) \/ stack' = Loop("abortEach", 0, T)
      BY <2>3 DEF CancelTaskInstancesByTaskId, AbortTaskInstanceByTaskId, Command
    <3> QED BY <3>1, <3>2
  <2>4. ASSUME NEW c \in Configs, ActivateConfig(c)
        PROVE  \E frames \in Seq(Outside) : stack' = frames
    <3>1. Loop("reload", 0, unfinishedTasks) \in Seq(Outside)
      BY <1>2, <1>5 DEF Loops
    <3>2. OnConfigLoad[c] \in Seq(Action)
      BY ConfigAssumption
    <3>3. Trigger(0, OnConfigLoad[c]) \in Seq(Outside)
      BY <1>4, <3>2
    <3> QED BY <2>4, <3>1, <3>3, SeqClosed DEF ActivateConfig
  <2>5. CASE \/ \E tasks \in Switches, b \in BOOLEAN : EnableTasks(tasks, b)
             \/ \E g \in Hosts : HostChanged(g)
             \/ Shutdown
    BY <2>5 DEF EnableTasks, HostChanged, Shutdown
  <2> QED BY <1>1, <1>7, <2>1, <2>2, <2>3, <2>4, <2>5 DEF Environment
<1> QED BY <1>6, <1>7

\* What a step that is not one of the scheduler thread's calls leaves alone.
Aside ==
  /\ UNCHANGED <<info, queue, start, finish>>
  /\ \A j : j \in finish => Status(j)' = Status(j)
  /\ \/ /\ UNCHANGED <<stack, config, dirtyHerds, plannedEvent>>
        /\ shutingDown => shutingDown'
        /\ enabled' \subseteq enabled \cup Configured
     \/ /\ stack = <<>>
        /\ UNCHANGED <<config, enabled, shutingDown>>
        /\ \/ UNCHANGED <<dirtyHerds, plannedEvent>>
           \/ HandlePlannedEvent
     \/ /\ stack = <<>>
        /\ UNCHANGED <<dirtyHerds, plannedEvent, shutingDown>>
        /\ \E c \in Configs : ActivateConfig(c)

LEMMA Asides ==
  ASSUME IndInv, CallsInv,
         \/ HandleEvent \/ Environment \/ UNCHANGED vars
         \/ \E i \in Ids : ExecutorStop(i)
  PROVE  Aside
<1>1. CASE UNCHANGED vars
  BY <1>1 DEF vars, instanceVars, indexVars, eventVars, settingVars, Aside, Status
<1>2. ASSUME NEW i \in Ids, ExecutorStop(i) PROVE Aside
  <2>1. /\ UNCHANGED <<info, queue, start, finish, stack, config, dirtyHerds,
                       plannedEvent, shutingDown, enabled>>
        /\ i \notin stop /\ stop' = stop \cup {i}
        /\ success' = success \cup {i} \/ success' = success \ {i}
    BY <1>2 DEF ExecutorStop, indexVars, eventVars, settingVars
  <2>2. \A j : j \in finish => Status(j)' = Status(j)
    BY <2>1 DEF Status, CallsInv, Timestamps
  <2> QED BY <2>1, <2>2 DEF Aside
<1>3. CASE HandleEvent
  <2>1. /\ UNCHANGED <<instanceVars, settingVars>> /\ stack = <<>>
        /\ UNCHANGED <<dirtyHerds, plannedEvent>> \/ HandlePlannedEvent
    BY <1>3 DEF HandleEvent, HandleQueuedEvent, HandlePlannedEvent,
                HandleTaskInstanceStopped, Idle, indexVars, eventVars
  <2> QED BY <2>1 DEF Aside, instanceVars, settingVars, Status
<1>4. CASE Environment
  <2>1. ASSUME UNCHANGED <<instanceVars, indexVars, config, enabled, shutingDown,
                           plannedEvent>>, stack = <<>>
        PROVE  Aside
    BY <2>1 DEF Aside, instanceVars, indexVars, Status
  <2>2. ASSUME NEW a \in Requests, RequestTask(a) PROVE Aside
    BY <2>1, <2>2 DEF RequestTask, Idle, eventVars
  <2>3. ASSUME NEW i, CancelTaskInstance(i) \/ AbortTaskInstance(i) PROVE Aside
    BY <2>1, <2>3 DEF CancelTaskInstance, AbortTaskInstance, Command, Idle,
                      eventVars, settingVars
  <2>4. ASSUME NEW t, CancelTaskInstancesByTaskId(t) \/ AbortTaskInstanceByTaskId(t)
        PROVE  Aside
    BY <2>1, <2>4 DEF CancelTaskInstancesByTaskId, AbortTaskInstanceByTaskId, Command,
                      Idle, eventVars, settingVars
  <2>5. ASSUME NEW c \in Configs, ActivateConfig(c) PROVE Aside
    BY <2>5 DEF ActivateConfig, Idle, Aside, instanceVars, indexVars, Status
  <2>6. ASSUME NEW tasks, NEW b, EnableTasks(tasks, b) PROVE Aside
    BY <2>6 DEF EnableTasks, Aside, instanceVars, indexVars, Status
  <2>7. ASSUME NEW g, HostChanged(g) PROVE Aside
    BY <2>7 DEF HostChanged, Aside, instanceVars, indexVars, Status, settingVars
  <2>8. CASE Shutdown
    BY <2>8 DEF Shutdown, Aside, instanceVars, indexVars, Status, eventVars
  <2> QED BY <1>4, <2>2, <2>3, <2>4, <2>5, <2>6, <2>7, <2>8 DEF Environment
<1> QED BY <1>1, <1>2, <1>3, <1>4

\* Such a step meets no condition, and an event that is handled visits what it is
\* about.
LEMMA AttendedAside ==
  ASSUME NEW S, Unwatched(S), AttendedInv(S), MetMeans, MetMeans',
         IndInv, CallsInv, CallsInv', Aside, Planners'
  PROVE  AttendedInv(S)'
<1>1. /\ UNCHANGED <<info, queue, start, finish>> /\ Created' = Created
  BY DEF Aside, Created
<1>2. HerdStarted'
  BY <1>1 DEF AttendedInv, HerdStarted, IsHerder
<1>3. WaitsForEnds(S)'
  BY <1>1 DEF AttendedInv, WaitsForEnds, Eager
<1>4. enabled' \subseteq Configured'
  <2>1. CASE config' = config /\ enabled' \subseteq enabled \cup Configured
    BY <2>1 DEF AttendedInv, Configured
  <2>2. ASSUME NEW c \in Configs, ActivateConfig(c) PROVE enabled' \subseteq Configured'
    BY <2>2 DEF ActivateConfig, CopyLiveAttributes, Configured
  <2> QED BY <2>1, <2>2 DEF Aside
<1>6. stop \subseteq start \cup finish
  BY DEF CallsInv, Timestamps
<1>7. \A i : Unstarted(i)' => Unstarted(i)
  BY <1>1, <1>6 DEF Unstarted
<1>8. Removed'
  <2> SUFFICES ASSUME NEW i \in Created, Unstarted(i)', info[i].task \notin Configured'
               PROVE  Removing(i)'
    BY <1>1 DEF Removed
  <2>1. CASE stack' = stack /\ config' = config
    <3>1. Removing(i)
      BY <1>7, <2>1 DEF AttendedInv, Removed, Configured
    <3> QED BY <2>1, <3>1 DEF Removing, Calls, Visits
  <2>2. CASE stack = <<>>
    <3>1. ~Removing(i)
      BY <2>2, Concats DEF Removing, Calls, Visits
    <3>2. info[i].task \in Configured
      BY <1>7, <3>1 DEF AttendedInv, Removed
    <3>3. config' # config
      BY <3>2 DEF Configured
    <3>4. PICK c \in Configs : ActivateConfig(c)
      BY <3>3 DEF Aside
    <3>5. PICK s1, s2 : s1 = Loop("reload", 0, unfinishedTasks) /\ s2 = Trigger(0, OnConfigLoad[c])
      OBVIOUS
    <3>6. stack' = s1 \o s2
      BY <3>4, <3>5 DEF ActivateConfig
    <3>7. /\ s1 \in Seq(CallFrame)
          /\ \A j \in unfinishedTasks : \E k \in DOMAIN s1 :
               s1[k].op = "reload" /\ s1[k].ids = unfinishedTasks
      BY <3>5, NumberFacts, LoopVisits DEF FrameOp
    <3>8. s2 \in Seq(CallFrame)
      <4>1. OnConfigLoad[c] \in Seq(Action) /\ 0 \in Nat
        BY ConfigAssumption
      <4> QED BY <3>5, <4>1, TriggerFields DEF TriggerAt
    <3>9. i \in unfinishedTasks
      BY <1>7 DEF CallsInv, Remembered, Unstarted
    <3>10. PICK k \in DOMAIN s1 : s1[k].op = "reload" /\ i \in s1[k].ids
      BY <3>7, <3>9
    <3>11. k \in DOMAIN stack' /\ stack'[k] = s1[k]
      <4>1. /\ Len(s1 \o s2) = Len(s1) + Len(s2)
            /\ \A n \in 1..(Len(s1) + Len(s2)) :
                 (s1 \o s2)[n] = IF n <= Len(s1) THEN s1[n] ELSE s2[n - Len(s1)]
            /\ s1 \o s2 \in Seq(CallFrame)
        BY <3>7, <3>8, ConcatProperties
      <4>2. /\ DOMAIN s1 = 1..Len(s1) /\ Len(s1) \in Nat /\ Len(s2) \in Nat
            /\ DOMAIN (s1 \o s2) = 1..Len(s1 \o s2)
        BY <3>7, <3>8, <4>1
      <4>3. k \in 1..(Len(s1) + Len(s2)) /\ k <= Len(s1)
        BY <3>10, <4>2
      <4> QED BY <3>6, <4>1, <4>2, <4>3
    <3> QED BY <3>10, <3>11 DEF Removing, Visits
  <2> QED BY <2>1, <2>2 DEF Aside
<1>9. Noticed'
  <2> SUFFICES ASSUME ~shutingDown', NEW i \in Created, Awaits(i)'
               PROVE  Reevaluated(i)' \/ (~Eager(i)' /\ Joins("herded", info[i].herdid)')
    BY <1>1 DEF Noticed
  <2>1. ~shutingDown
    BY DEF Aside
  <2>2. Awaits(i)
    <3>1. Begun(i) => Begun(i)'
      <4>1. i \in stop => i \in start \cup finish
        BY <1>6
      <4> QED BY <1>1, <4>1 DEF Begun
    <3>2. Watched(i)' = Watched(i)
      BY <1>1 DEF Watched, Herd
    <3>3. \A j \in Watched(i) : /\ j \in Created /\ j \in Created'
                               /\ \/ Status(j)' = Status(j)
                                  \/ /\ Status(j) \notin FinishedStatus
                                     /\ Status(j)' \notin FinishedStatus
      <4>1. \A j : Status(j) \in FinishedStatus => j \in finish
        BY DEF CallsInv, Timestamps, Status, FinishedStatus
      <4>2. \A j : Status(j)' \in FinishedStatus => j \in finish'
        BY DEF CallsInv, Timestamps, Status, FinishedStatus
      <4>3. Watched(i) \subseteq Created
        BY DEF Watched, Herd
      <4> QED BY <1>1, <4>1, <4>2, <4>3 DEF Aside
    <3> QED BY <1>1, <1>3, <3>1, <3>2, <3>3, AwaitsKept DEF AttendedInv
  <2>3. Reevaluated(i) \/ (~Eager(i) /\ Joins("herded", info[i].herdid))
    BY <2>1, <2>2 DEF AttendedInv, Noticed
  <2>4. CASE UNCHANGED <<stack, dirtyHerds, plannedEvent>>
    BY <1>1, <2>3, <2>4 DEF Reevaluated, Deciding, Joins, Calls, Visits, Eager
  <2>5. CASE stack = <<>>
    <3>1. info[i].herdid \in dirtyHerds /\ plannedEvent
      BY <2>3, <2>5, Concats DEF Reevaluated, Deciding, Joins, Calls, Visits
    <3>2. CASE UNCHANGED <<dirtyHerds, plannedEvent>>
      BY <1>1, <3>1, <3>2 DEF Reevaluated
    <3>3. CASE HandlePlannedEvent
      <4>1. PICK T : T = {j \in unfinishedTasks : info[j].herdid \in dirtyHerds}
        OBVIOUS
      <4>2. stack' = Loop("enqueueEach", 0, T) /\ T \in SUBSET Nat
        BY <2>1, <3>3, <4>1, NumberFacts DEF HandlePlannedEvent
      <4>3. i \notin finish
        BY <2>2, UnstartedStatuses DEF Awaits, Begun
      <4>4. i \in T
        BY <3>1, <4>1, <4>3 DEF CallsInv, Remembered
      <4>5. Visits("enqueueEach", i)'
        <5>1. "enqueueEach" \in FrameOp /\ 0 \in Nat
          BY DEF FrameOp
        <5>2. \E k \in DOMAIN stack' : stack'[k].op = "enqueueEach" /\ stack'[k].ids = T
          BY <4>2, <4>4, <5>1, LoopVisits
        <5> QED BY <4>4, <5>2 DEF Visits
      <4> QED BY <4>5 DEF Reevaluated, Deciding
    <3> QED BY <3>2, <3>3 DEF Aside
  <2> QED BY <2>4, <2>5 DEF Aside
<1> QED BY <1>2, <1>3, <1>4, <1>8, <1>9 DEF AttendedInv

LEMMA AttendedInit == ASSUME NEW S, Init PROVE AttendedInv(S)
<1>1. stack = <<>> /\ Created = {} /\ enabled = Configured
  BY DEF Init, InstanceInit, Created
<1>2. DOMAIN stack = {}
  BY <1>1, Concats
<1> QED BY <1>1, <1>2
        DEF AttendedInv, Planners, HerdStarted, WaitsForEnds, Removed, Noticed

LEMMA AttendedNext ==
  ASSUME HerdersFinishLone, PlansOnceStarted, StartsUnwatched, RoomInQueue,
         NEW S, Unwatched(S), AttendedInv(S),
         IndInv, CallsInv, IndexInv, PromiseInv,
         IndInv', CallsInv', IndexInv', PromiseInv', [Next]_vars
  PROVE  AttendedInv(S)'
<1>1. MetMeans
  BY MeetsWell DEF AttendedInv
<1>2. CASE Step
  <2>1. Planners'
    BY <1>2, PlannersStep DEF AttendedInv
  <2>2. HerdStarted'
    BY <1>2, HerdStartedStep DEF AttendedInv
  <2>3. WaitsForEnds(S)'
    BY <1>2, ConditionsStep DEF AttendedInv
  <2>4. enabled' \subseteq Configured'
    BY <1>2, Lasts DEF AttendedInv, Configured
  <2>5. Removed'
    BY <1>2, RemovedStep DEF AttendedInv
  <2>6. MetMeans'
    BY <2>2, MeetsWellAfter
  <2>7. Noticed'
    BY <1>1, <1>2, <2>3, <2>6, NoticedStep DEF AttendedInv
  <2> QED BY <2>1, <2>2, <2>3, <2>4, <2>5, <2>7 DEF AttendedInv
<1>3. CASE \/ HandleEvent \/ Environment \/ UNCHANGED vars
           \/ \E i \in Ids : ExecutorStop(i)
  <2>1. Aside
    BY <1>3, Asides
  <2>2. Planners'
    <3>1. \/ stack' = stack
          \/ \A k \in DOMAIN stack' : stack'[k].op = "trigger" => stack'[k].id = 0
      BY <1>3, EventTriggers DEF vars, ExecutorStop
    <3>2. UNCHANGED <<info, start>>
      BY <2>1 DEF Aside
    <3> QED BY <3>1, <3>2 DEF AttendedInv, Planners, ActionOf
  <2>3. HerdStarted'
    BY <2>1 DEF Aside, AttendedInv, HerdStarted, Created, IsHerder
  <2>4. MetMeans'
    BY <2>3, MeetsWellAfter
  <2> QED BY <1>1, <2>1, <2>2, <2>4, AttendedAside
<1> QED BY <1>2, <1>3 DEF Next

\* Between events, nothing is to be done of what the invariant speaks of.
LEMMA AttendedPlanned ==
  ASSUME NEW S, AttendedInv(S), IndInv, CallsInv PROVE PlannedAttended
<1>1. ASSUME Idle
      PROVE  /\ \A op, i : ~Calls(op, i) /\ ~Visits(op, i)
  BY <1>1, Concats DEF Idle, Calls, Visits
<1>2. \A i \in unfinishedTasks : i \in Created
  BY StepFacts
<1>3. NoPlannedForgotten
  BY <1>1, <1>2 DEF NoPlannedForgotten, Quiet, AttendedInv, Noticed, Awaits,
                    Reevaluated, Deciding, Joins
<1>4. NoOrphan
  BY <1>1, <1>2, UnstartedStatuses DEF NoOrphan, AttendedInv, Removed, Removing
<1> QED BY <1>3, <1>4 DEF PlannedAttended

\* Between two events no planned instance whose condition is met is forgotten, nor
\* one whose task was removed, however the calls nest and the threads interleave.
THEOREM PlannedAreAttended ==
  ASSUME HerdersFinishLone, SteadyPolicies, PlansOnceStarted, StartsUnwatched,
         NoWaitUnwatched
  PROVE  Spec /\ []RoomInQueue => []PlannedAttended
<1>1. PICK S : Unwatched(S)
  BY DEF NoWaitUnwatched
<1>2. Init => IndexInv /\ PromiseInv /\ AttendedInv(S)
  BY IndexInit, PromiseInit, AttendedInit
<1>3. IndInv /\ CallsInv /\ IndexInv /\ [Next]_vars => IndexInv'
  BY IndexNext
<1>4. IndInv /\ CallsInv /\ IndexInv /\ PromiseInv /\ [Next]_vars => PromiseInv'
  BY PromiseNext
<1>5. /\ IndInv /\ CallsInv /\ IndexInv /\ PromiseInv /\ AttendedInv(S) /\ [Next]_vars
      /\ IndInv' /\ CallsInv' /\ IndexInv' /\ PromiseInv' /\ RoomInQueue
      => AttendedInv(S)'
  BY <1>1, AttendedNext
<1>6. IndInv /\ CallsInv /\ AttendedInv(S) => PlannedAttended
  BY AttendedPlanned
<1> QED BY <1>2, <1>3, <1>4, <1>5, <1>6, Invariant, CallsAreKnown, PTL DEF Spec
=============================================================================
