---------------------------- MODULE ExecutorProofs ----------------------------
(***************************************************************************)
(* Proofs about an executor, for any number of instances, configurations   *)
(* and bounds, when no task is a background task.                          *)
(*                                                                         *)
(* The inductive invariant says what the call stack may hold, that a       *)
(* command or a request is pending only while it is the one of the current *)
(* try, and in which phase the executor and its scheduler are.             *)
(***************************************************************************)
EXTENDS ExecutorProperties, FiniteSetTheorems, SequenceTheorems, NaturalsInduction,
        WellFoundedInduction, TLAPS

\* A task that runs in background is not valid.
NoBackground == \A i \in Instances : Config[i].mean = "Background" => ~Config[i].valid

\* The exit code of a crash means no success.
CrashIsNoSuccess == \A i \in Instances : "other" \notin Config[i].successes

-----------------------------------------------------------------------------
(* The call stack.                                                         *)

Frames(stack) == {stack[k] : k \in DOMAIN stack}

Pauses(stack) == \E f \in Frames(stack) : f.call = "pause"

\* What may wait for the end of a call, or of an event.
Resting(stack) ==
  /\ stack \in Seq(Frame)
  /\ \A f \in Frames(stack) :
       f.call \in {"processFinished", "replyHasFinished", "pause"}
  /\ \A j, k \in DOMAIN stack :
       stack[j].call = "pause" /\ stack[k].call = "pause" => j = k

Stacked(stack) ==
  /\ stack \in Seq(Frame)
  /\ stack # <<>> => /\ Resting(Tail(stack))
                     /\ Head(stack).call = "pause" => ~Pauses(Tail(stack))

\* The executor is between two tries, or before the first.
Deciding == Calling("executeOneTry") \/ Calling("stopOrRetry")
Between == Deciding \/ Pauses(calls)

-----------------------------------------------------------------------------
(* The inductive invariant.                                                *)

Types ==
  /\ posted \in Seq(PostedEvent)
  /\ instance \in Instances \cup {NoInstance}
  /\ remainingTries \in Nat
  /\ abortable \in BOOLEAN /\ aborting \in BOOLEAN /\ earned \in BOOLEAN
  /\ abortTimer \in BOOLEAN
  /\ process \in Process /\ reply \in Reply
  /\ running \subseteq Process \ {None} /\ IsFiniteSet(running)
  /\ looked \subseteq running
  /\ requested \subseteq Reply \ {None} /\ IsFiniteSet(requested)
  /\ given \in Nat /\ aborts \in Nat /\ tries \in Nat /\ stops \in Nat

\* Nothing polls a status.
NoPolling ==
  /\ backgroundStatus = "Starting" /\ statusPollingTimer = FALSE /\ retrying = FALSE
  /\ \A k \in DOMAIN posted : posted[k].event # "pollStatus"

\* No command and no request is pending between two tries.
OneTryAtATime ==
  /\ Between => instance # NoInstance
  /\ Deciding => ~Pauses(calls)
  /\ Between \/ instance = NoInstance => process = None /\ reply = None

TriesLeft ==
  /\ Calling("executeOneTry") => ~aborting /\ (tries = 0 \/ remainingTries > 0)
  /\ Pauses(calls) => remainingTries > 0
  /\ TriesBounded

\* What is pending belongs to the current instance, and what still runs is it
\* or is going to be deleted.
Owned ==
  /\ process # None => Mean = "Local" /\ process.instance = instance
  /\ reply # None => Mean = "Http" /\ reply.instance = instance
  /\ \A p \in running :
       \/ p = process
       \/ \E k \in DOMAIN posted : posted[k].event = "delete" /\ posted[k].process = p
  /\ instance # NoInstance =>
       \A p \in running : p.instance = instance /\ p.kind = "try"

NoExecute == \A k \in DOMAIN posted : posted[k].event # "execute"

Idle ==
  /\ available = 1 /\ instance = NoInstance /\ stopSignals = <<>>
  /\ runningExecutors = {} /\ told = 1..given /\ given <= InstanceCount /\ NoExecute

\* The scheduler has given an instance, that waits for the events before it.
Starting ==
  /\ available = 0 /\ instance = NoInstance /\ stopSignals = <<>>
  /\ runningExecutors = {given} /\ told = 1..(given - 1)
  /\ \E k \in DOMAIN posted :
       /\ posted[k] = Event("execute", given)
       /\ \A j \in DOMAIN posted \ {k} :
            /\ posted[j].event # "execute"
            /\ j > k => posted[j] = Event("abort", given)

Executing ==
  /\ available = 0 /\ instance = given /\ stopSignals = <<>>
  /\ runningExecutors = {given} /\ told = 1..(given - 1)
  /\ \A k \in DOMAIN posted :
       /\ posted[k].event # "execute"
       /\ posted[k].event = "abort" => posted[k] = Event("abort", given)

Stopped ==
  /\ available = 0 /\ instance = NoInstance
  /\ \E success \in BOOLEAN :
       stopSignals = <<[instance |-> given, success |-> success]>>
  /\ runningExecutors = {given} /\ told = 1..given /\ NoExecute

Phase == Idle \/ (given \in Instances /\ (Starting \/ Executing \/ Stopped))

Deadline == abortTimer => instance # NoInstance /\ Config[instance].deadline

Inv ==
  /\ Stacked(calls) /\ Types /\ NoPolling /\ OneTryAtATime /\ TriesLeft /\ Owned
  /\ Phase /\ Deadline

\* A call that says that a command, or a request, of the current instance has
\* succeeded.
SaysSuccess(f) ==
  \/ /\ f.call = "processFinished" /\ Mean = "Local"
     /\ f.code \in Config[instance].successes
  \/ /\ f.call = "replyHasFinished" /\ instance # NoInstance
     /\ f.success /\ f.reply.instance = instance

\* Any success that is about to be signaled was earned.
Earned ==
  /\ \A f \in Frames(calls) : SaysSuccess(f) => earned
  /\ Calling("stopOrRetry") /\ Head(calls).success => earned \/ Mean = "Nothing"

-----------------------------------------------------------------------------
(* Frames and stacks.                                                      *)

LEMMA FrameForms ==
  /\ \A name \in {"executeOneTry", "processError", "pause"} :
       Call(name) \in Frame /\ Call(name).call = name
  /\ \A success \in BOOLEAN :
       /\ Stopping(success) \in Frame
       /\ Stopping(success).call = "stopOrRetry" /\ Stopping(success).success = success
  /\ \A code \in ExitCodes :
       /\ Finished(code) \in Frame
       /\ Finished(code).call = "processFinished" /\ Finished(code).code = code
  /\ \A r \in Reply \ {None}, success \in BOOLEAN :
       /\ Replied(r, success) \in Frame
       /\ Replied(r, success).call = "replyHasFinished"
       /\ Replied(r, success).reply = r /\ Replied(r, success).success = success
<1>1. \A name \in {"executeOneTry", "processError", "pause"} :
        Call(name) \in Frame /\ Call(name).call = name
  BY DEF Call, Frame
<1>2. \A success \in BOOLEAN :
        /\ Stopping(success) \in Frame
        /\ Stopping(success).call = "stopOrRetry" /\ Stopping(success).success = success
  BY DEF Stopping, Frame
<1>3. \A code \in ExitCodes :
        /\ Finished(code) \in Frame
        /\ Finished(code).call = "processFinished" /\ Finished(code).code = code
  BY DEF Finished, Frame
<1>4. \A r \in Reply \ {None}, success \in BOOLEAN :
        /\ Replied(r, success) \in Frame
        /\ Replied(r, success).call = "replyHasFinished"
        /\ Replied(r, success).reply = r /\ Replied(r, success).success = success
  BY DEF Replied, Frame
<1> QED BY <1>1, <1>2, <1>3, <1>4

LEMMA FrameFields ==
  ASSUME NEW f \in Frame
  PROVE  /\ f.call \in {"executeOneTry", "processError", "pause", "stopOrRetry",
                        "processFinished", "replyHasFinished"}
         /\ f.call = "stopOrRetry" => f.success \in BOOLEAN
         /\ f.call = "processFinished" => f.code \in ExitCodes
         /\ f.call = "replyHasFinished" =>
              f.reply \in Reply \ {None} /\ f.success \in BOOLEAN
BY DEF Frame

LEMMA EmptyStack == Resting(<<>>) /\ Stacked(<<>>) /\ Frames(<<>>) = {} /\ ~Pauses(<<>>)
BY DEF Resting, Stacked, Frames, Pauses

\* A stack that may wait may have any call pushed on it.
LEMMA RestingIsStacked ==
  ASSUME NEW s, Resting(s)
  PROVE  Stacked(s)
<1> SUFFICES ASSUME s # <<>> PROVE Resting(Tail(s)) /\ (Head(s).call = "pause" => ~Pauses(Tail(s)))
  BY DEF Stacked, Resting
<1> DEFINE t == Tail(s)
<1>1. s \in Seq(Frame)
  BY DEF Resting
<1>2. /\ t \in Seq(Frame) /\ Len(t) = Len(s) - 1 /\ \A i \in 1..Len(t) : t[i] = s[i + 1]
  BY <1>1, HeadTailProperties
<1>3. Len(s) \in Nat \ {0} /\ Head(s) = s[1] /\ DOMAIN s = 1..Len(s)
  BY <1>1
<1> HIDE DEF t
<1>4. DOMAIN t = 1..Len(t) /\ \A i \in DOMAIN t : t[i] = s[i + 1] /\ i + 1 \in DOMAIN s /\ i \in Nat
  BY <1>2, <1>3
<1>5. Frames(t) \subseteq Frames(s)
  BY <1>4 DEF Frames
<1>6. ASSUME NEW j \in DOMAIN t, NEW k \in DOMAIN t,
             t[j].call = "pause" /\ t[k].call = "pause"
      PROVE  j = k
  <2>1. j + 1 = k + 1
    BY <1>4, <1>6 DEF Resting
  <2> QED BY <1>4, <2>1
<1>7. Resting(t)
  <2>1. \A g \in Frames(t) : g.call \in {"processFinished", "replyHasFinished", "pause"}
    BY <1>5 DEF Resting
  <2> QED BY <1>2, <1>6, <2>1 DEF Resting
<1>8. ASSUME Head(s).call = "pause", Pauses(t) PROVE FALSE
  <2>1. PICK j \in DOMAIN t : t[j].call = "pause"
    BY <1>8 DEF Pauses, Frames
  <2>2. j + 1 = 1
    BY <1>3, <1>4, <1>8, <2>1 DEF Resting
  <2> QED BY <1>4, <2>2
<1> QED BY <1>7, <1>8 DEF t

\* A stack with one more call.
LEMMA Pushed ==
  ASSUME NEW f \in Frame, NEW rest, Resting(rest),
         f.call = "pause" => ~Pauses(rest)
  PROVE  LET s == <<f>> \o rest
         IN /\ Stacked(s) /\ s # <<>> /\ Head(s) = f /\ Tail(s) = rest
            /\ Frames(s) = {f} \cup Frames(rest)
            /\ Pauses(s) <=> f.call = "pause" \/ Pauses(rest)
            /\ f.call \in {"processFinished", "replyHasFinished", "pause"} => Resting(s)
<1> DEFINE s == <<f>> \o rest
<1>1. rest \in Seq(Frame) /\ <<f>> \in Seq(Frame) /\ Len(<<f>>) = 1 /\ <<f>>[1] = f
  BY DEF Resting
<1>2. /\ s \in Seq(Frame) /\ Len(s) = 1 + Len(rest)
      /\ \A i \in 1..(1 + Len(rest)) : s[i] = IF i <= 1 THEN <<f>>[i] ELSE rest[i - 1]
  BY <1>1, ConcatProperties
<1> HIDE DEF s
<1>3. Len(rest) \in Nat /\ DOMAIN rest = 1..Len(rest)
  BY <1>1
<1>4. /\ s # <<>> /\ DOMAIN s = 1..(Len(rest) + 1) /\ s[1] = f
      /\ \A i \in DOMAIN rest : s[i + 1] = rest[i] /\ i + 1 \in DOMAIN s
      /\ \A i \in DOMAIN s : i # 1 => i - 1 \in DOMAIN rest /\ s[i] = rest[i - 1]
  BY <1>1, <1>2, <1>3
<1>5. Head(s) = f
  BY <1>2, <1>4
<1>6. Tail(s) = rest
  <2>1. /\ Tail(s) \in Seq(Frame) /\ Len(Tail(s)) = Len(s) - 1
        /\ \A i \in 1..Len(Tail(s)) : Tail(s)[i] = s[i + 1]
    BY <1>2, <1>4, HeadTailProperties
  <2>2. Len(Tail(s)) = Len(rest)
    BY <1>2, <1>3, <2>1
  <2>3. \A i \in 1..Len(Tail(s)) : Tail(s)[i] = rest[i]
    BY <1>3, <1>4, <2>1, <2>2
  <2> QED BY <1>1, <2>1, <2>2, <2>3, SeqEqual
<1>7. Frames(s) = {f} \cup Frames(rest)
  BY <1>4 DEF Frames
<1>8. Pauses(s) <=> f.call = "pause" \/ Pauses(rest)
  BY <1>7 DEF Pauses
<1>9. Stacked(s)
  BY <1>2, <1>5, <1>6 DEF Stacked
<1>10. ASSUME f.call \in {"processFinished", "replyHasFinished", "pause"}
       PROVE  Resting(s)
  <2>1. \A g \in Frames(s) : g.call \in {"processFinished", "replyHasFinished", "pause"}
    BY <1>7, <1>10 DEF Resting
  <2>2. ASSUME NEW j \in DOMAIN s, NEW k \in DOMAIN s,
               s[j].call = "pause" /\ s[k].call = "pause"
        PROVE  j = k
    <3>1. CASE j = 1 /\ k = 1
      BY <3>1
    <3>2. CASE j # 1 /\ k # 1
      <4>1. j - 1 \in DOMAIN rest /\ k - 1 \in DOMAIN rest
        BY <1>4, <3>2
      <4>2. j - 1 = k - 1
        BY <1>4, <2>2, <3>2, <4>1 DEF Resting
      <4> QED BY <1>3, <1>4, <4>2
    <3>3. CASE j = 1 /\ k # 1
      <4>1. f.call = "pause" /\ rest[k - 1] \in Frames(rest) /\ rest[k - 1].call = "pause"
        BY <1>4, <2>2, <3>3 DEF Frames
      <4> QED BY <4>1 DEF Pauses
    <3>4. CASE j # 1 /\ k = 1
      <4>1. f.call = "pause" /\ rest[j - 1] \in Frames(rest) /\ rest[j - 1].call = "pause"
        BY <1>4, <2>2, <3>4 DEF Frames
      <4> QED BY <4>1 DEF Pauses
    <3> QED BY <3>1, <3>2, <3>3, <3>4
  <2> QED BY <1>2, <2>1, <2>2 DEF Resting
<1> QED BY <1>4, <1>5, <1>6, <1>7, <1>8, <1>9, <1>10 DEF s

\* A stack with two more calls.
LEMMA PushedTwo ==
  ASSUME NEW f \in Frame, NEW g \in Frame, NEW rest, Resting(rest),
         f.call # "pause", g.call \in {"processFinished", "replyHasFinished"}
  PROVE  LET s == <<f, g>> \o rest
         IN /\ Stacked(s) /\ s # <<>> /\ Head(s) = f
            /\ Frames(s) = {f, g} \cup Frames(rest)
            /\ Pauses(s) <=> Pauses(rest)
<1> DEFINE s == <<g>> \o rest
<1>1. Resting(s) /\ Frames(s) = {g} \cup Frames(rest) /\ (Pauses(s) <=> Pauses(rest))
  BY Pushed
<1>2. <<f>> \o s = <<f, g>> \o rest
  <2>1. <<f>> \in Seq(Frame) /\ <<g>> \in Seq(Frame) /\ rest \in Seq(Frame)
    BY DEF Resting
  <2>2. (<<f>> \o <<g>>) \o rest = <<f>> \o (<<g>> \o rest)
    BY <2>1, ConcatAssociative
  <2>3. <<f>> \o <<g>> = <<f, g>>
    <3>1. Len(<<f>>) = 1 /\ Len(<<g>>) = 1 /\ <<f, g>> \in Seq(Frame) /\ Len(<<f, g>>) = 2
      OBVIOUS
    <3>2. /\ <<f>> \o <<g>> \in Seq(Frame) /\ Len(<<f>> \o <<g>>) = 2
          /\ \A i \in 1..2 : (<<f>> \o <<g>>)[i] = IF i <= 1 THEN <<f>>[i] ELSE <<g>>[i - 1]
      BY <2>1, <3>1, ConcatProperties
    <3>3. \A i \in 1..2 : (<<f>> \o <<g>>)[i] = <<f, g>>[i]
      BY <3>2
    <3> QED BY <3>1, <3>2, <3>3, SeqEqual
  <2> QED BY <2>2, <2>3
<1> HIDE DEF s
<1>3. /\ Stacked(<<f>> \o s) /\ <<f>> \o s # <<>> /\ Head(<<f>> \o s) = f
      /\ Frames(<<f>> \o s) = {f} \cup Frames(s)
      /\ Pauses(<<f>> \o s) <=> f.call = "pause" \/ Pauses(s)
  BY <1>1, Pushed
<1> QED BY <1>1, <1>2, <1>3

LEMMA Rebuilt ==
  ASSUME NEW s, Stacked(s), s # <<>>
  PROVE  <<Head(s)>> \o Tail(s) = s
<1>1. s \in Seq(Frame)
  BY DEF Stacked
<1>2. /\ Tail(s) \in Seq(Frame) /\ Len(Tail(s)) = Len(s) - 1
      /\ \A i \in 1..Len(Tail(s)) : Tail(s)[i] = s[i + 1]
  BY <1>1, HeadTailProperties
<1>3. Len(s) \in Nat \ {0} /\ Head(s) = s[1] /\ <<Head(s)>> \in Seq(Frame)
      /\ Len(<<Head(s)>>) = 1 /\ <<Head(s)>>[1] = Head(s)
  BY <1>1
<1> DEFINE h == <<Head(s)>>
           t == h \o Tail(s)
<1>4. /\ t \in Seq(Frame) /\ Len(t) = 1 + Len(Tail(s))
      /\ \A i \in 1..(1 + Len(Tail(s))) : t[i] = IF i <= 1 THEN h[i] ELSE Tail(s)[i - 1]
  BY <1>2, <1>3, ConcatProperties
<1>5. Len(t) = Len(s)
  BY <1>2, <1>3, <1>4
<1>6. \A i \in 1..Len(t) : t[i] = s[i]
  BY <1>2, <1>3, <1>4, <1>5
<1> QED BY <1>1, <1>4, <1>5, <1>6, SeqEqual

\* A stack without its top.
LEMMA Popped ==
  ASSUME NEW s, Stacked(s), s # <<>>
  PROVE  /\ Resting(Tail(s)) /\ Stacked(Tail(s)) /\ Head(s) \in Frame
         /\ Head(s).call = "pause" => ~Pauses(Tail(s))
         /\ Frames(s) = {Head(s)} \cup Frames(Tail(s))
         /\ Pauses(s) <=> Head(s).call = "pause" \/ Pauses(Tail(s))
<1>1. s \in Seq(Frame) /\ Resting(Tail(s)) /\ Head(s) \in Frame
      /\ (Head(s).call = "pause" => ~Pauses(Tail(s)))
  BY HeadTailProperties DEF Stacked
<1>2. <<Head(s)>> \o Tail(s) = s
  BY Rebuilt
<1>3. /\ Frames(s) = {Head(s)} \cup Frames(Tail(s))
      /\ Pauses(s) <=> Head(s).call = "pause" \/ Pauses(Tail(s))
  BY <1>1, <1>2, Pushed
<1>4. Stacked(Tail(s))
  <2>1. CASE Tail(s) = <<>>
    BY <2>1, EmptyStack
  <2>2. CASE Tail(s) # <<>>
    BY <1>1, <2>2, RestingIsStacked
  <2> QED BY <2>1, <2>2
<1> QED BY <1>1, <1>3, <1>4

\* When the loop takes an event, any call may be pushed.
LEMMA LoopingRests ==
  ASSUME Stacked(calls), Looping
  PROVE  Resting(calls) /\ ~Deciding
<1>1. CASE calls = <<>>
  BY <1>1, EmptyStack DEF Deciding, Calling
<1>2. CASE Calling("pause")
  <2>1. calls # <<>> /\ Head(calls).call = "pause"
    BY <1>2 DEF Calling
  <2>2. /\ Resting(Tail(calls)) /\ Head(calls) \in Frame /\ ~Pauses(Tail(calls))
    BY <2>1, Popped
  <2>3. <<Head(calls)>> \o Tail(calls) = calls
    BY <2>1, Rebuilt
  <2>4. Resting(calls)
    BY <2>1, <2>2, <2>3, Pushed
  <2> QED BY <2>1, <2>4 DEF Deciding, Calling
<1> QED BY <1>1, <1>2 DEF Looping

-----------------------------------------------------------------------------
(* Posted events.                                                          *)

LEMMA EventForms ==
  /\ \A i \in Instances : Event("execute", i) \in PostedEvent
                         /\ Event("abort", i) \in PostedEvent
  /\ \A name, i : Event(name, i).event = name /\ Event(name, i).instance = i
  /\ \A e \in PostedEvent :
       /\ e.event \in {"execute", "abort", "pollStatus", "delete"}
       /\ e.event = "delete" => e.process \in Process \ {None} /\ e.depth \in Nat
       /\ e.event \in {"execute", "abort"} =>
            e.instance \in Instances /\ e = Event(e.event, e.instance)
<1>1. \A i \in Instances : Event("execute", i) \in PostedEvent
                         /\ Event("abort", i) \in PostedEvent
  BY DEF Event, PostedEvent
<1>2. \A name, i : Event(name, i).event = name /\ Event(name, i).instance = i
  BY DEF Event
<1>3. \A e \in PostedEvent :
       /\ e.event \in {"execute", "abort", "pollStatus", "delete"}
       /\ e.event = "delete" => e.process \in Process \ {None} /\ e.depth \in Nat
       /\ e.event \in {"execute", "abort"} =>
            e.instance \in Instances /\ e = Event(e.event, e.instance)
  BY DEF Event, PostedEvent
<1> QED BY <1>1, <1>2, <1>3

\* A sequence without one of its elements.
LEMMA Without ==
  ASSUME NEW S, NEW s \in Seq(S), NEW k \in DOMAIN s
  PROVE  LET t == SubSeq(s, 1, k - 1) \o SubSeq(s, k + 1, Len(s))
         IN /\ t \in Seq(S)
            /\ \A j \in DOMAIN t :
                 /\ j < k => j \in DOMAIN s /\ t[j] = s[j]
                 /\ j >= k => j + 1 \in DOMAIN s /\ t[j] = s[j + 1]
            /\ \A i \in DOMAIN s :
                 /\ i < k => i \in DOMAIN t /\ t[i] = s[i]
                 /\ i > k => i - 1 \in DOMAIN t /\ t[i - 1] = s[i]
<1> DEFINE a == SubSeq(s, 1, k - 1)
           b == SubSeq(s, k + 1, Len(s))
           t == a \o b
<1>1. Len(s) \in Nat /\ DOMAIN s = 1..Len(s) /\ k \in 1..Len(s)
  OBVIOUS
<1>2. /\ a \in Seq(S) /\ Len(a) = k - 1 /\ \A i \in 1..(k - 1) : a[i] = s[i]
  <2>1. \A i \in 1..(k - 1) : s[i] \in S
    BY <1>1
  <2>2. /\ a \in Seq(S) /\ Len(a) = IF 1 <= k - 1 THEN (k - 1) - 1 + 1 ELSE 0
        /\ \A i \in 1..((k - 1) - 1 + 1) : a[i] = s[1 + i - 1]
    BY <1>1, <2>1, SubSeqProperties
  <2> HIDE DEF a
  <2> QED BY <1>1, <2>2
<1>3. /\ b \in Seq(S) /\ Len(b) = Len(s) - k /\ \A i \in 1..(Len(s) - k) : b[i] = s[i + k]
  <2>1. \A i \in (k + 1)..Len(s) : s[i] \in S
    BY <1>1
  <2>2. /\ b \in Seq(S) /\ Len(b) = IF k + 1 <= Len(s) THEN Len(s) - (k + 1) + 1 ELSE 0
        /\ \A i \in 1..(Len(s) - (k + 1) + 1) : b[i] = s[(k + 1) + i - 1]
    BY <1>1, <2>1, SubSeqProperties
  <2> HIDE DEF b
  <2>3. Len(b) = Len(s) - k
    BY <1>1, <2>2
  <2>4. \A i \in 1..(Len(s) - k) : i \in 1..(Len(s) - (k + 1) + 1) /\ (k + 1) + i - 1 = i + k
    BY <1>1
  <2>5. \A i \in 1..(Len(s) - k) : b[i] = s[i + k]
    BY <2>2, <2>4
  <2> QED BY <2>2, <2>3, <2>5
<1> HIDE DEF a, b
<1>4. /\ t \in Seq(S) /\ Len(t) = Len(a) + Len(b)
      /\ \A i \in 1..(Len(a) + Len(b)) : t[i] = IF i <= Len(a) THEN a[i] ELSE b[i - Len(a)]
  BY <1>2, <1>3, ConcatProperties
<1> HIDE DEF t
<1>5. Len(t) = Len(s) - 1 /\ DOMAIN t = 1..(Len(s) - 1)
  BY <1>1, <1>2, <1>3, <1>4
<1>6. \A i \in 1..(k - 1) : t[i] = s[i]
  BY <1>1, <1>2, <1>3, <1>4
<1>7. \A i \in k..(Len(s) - 1) : t[i] = s[i + 1]
  <2> TAKE i \in k..(Len(s) - 1)
  <2>1. i \in 1..(Len(a) + Len(b)) /\ ~(i <= Len(a)) /\ i - Len(a) \in 1..(Len(s) - k)
    BY <1>1, <1>2, <1>3
  <2>2. t[i] = b[i - Len(a)]
    BY <1>4, <2>1
  <2>3. b[i - Len(a)] = s[(i - Len(a)) + k] /\ (i - Len(a)) + k = i + 1
    BY <1>1, <1>2, <1>3, <2>1
  <2> QED BY <2>2, <2>3
<1>8. \A j \in DOMAIN t :
        /\ j < k => j \in DOMAIN s /\ t[j] = s[j]
        /\ j >= k => j + 1 \in DOMAIN s /\ t[j] = s[j + 1]
  BY <1>1, <1>5, <1>6, <1>7
<1>9. \A i \in DOMAIN s :
        /\ i < k => i \in DOMAIN t /\ t[i] = s[i]
        /\ i > k => i - 1 \in DOMAIN t /\ t[i - 1] = s[i]
  BY <1>1, <1>5, <1>6, <1>7
<1> QED BY <1>4, <1>8, <1>9 DEF t, a, b

\* What the loop leaves when it has taken an event.
LEMMA Handled ==
  ASSUME posted \in Seq(PostedEvent), NEW k \in DOMAIN posted, NEW name, Handling(k, name)
  PROVE  /\ posted' \in Seq(PostedEvent)
         /\ posted[k].event = name /\ posted[k] \in PostedEvent
         /\ looked' = {} /\ Looping
         /\ \A i \in DOMAIN posted : posted[i].event # "delete" => k <= i
         /\ \A j \in DOMAIN posted' :
              /\ j < k => j \in DOMAIN posted /\ posted'[j] = posted[j]
              /\ j >= k => j + 1 \in DOMAIN posted /\ posted'[j] = posted[j + 1]
         /\ \A i \in DOMAIN posted :
              /\ i < k => i \in DOMAIN posted' /\ posted'[i] = posted[i]
              /\ i > k => i - 1 \in DOMAIN posted' /\ posted'[i - 1] = posted[i]
<1>1. posted' = SubSeq(posted, 1, k - 1) \o SubSeq(posted, k + 1, Len(posted))
  BY DEF Handling
<1>2. \A i \in DOMAIN posted : posted[i].event # "delete" => k <= i
  BY DEF Handling, RipeEvents, Ripe
<1>3. posted[k] \in PostedEvent
  OBVIOUS
<1>4. posted[k].event = name /\ looked' = {} /\ Looping
  BY DEF Handling
<1>5. LET t == SubSeq(posted, 1, k - 1) \o SubSeq(posted, k + 1, Len(posted))
      IN /\ t \in Seq(PostedEvent)
         /\ \A j \in DOMAIN t :
              /\ j < k => j \in DOMAIN posted /\ t[j] = posted[j]
              /\ j >= k => j + 1 \in DOMAIN posted /\ t[j] = posted[j + 1]
         /\ \A i \in DOMAIN posted :
              /\ i < k => i \in DOMAIN t /\ t[i] = posted[i]
              /\ i > k => i - 1 \in DOMAIN t /\ t[i - 1] = posted[i]
  <2> HIDE DEF PostedEvent
  <2> QED BY Without
<1> QED
  <2> DEFINE t == SubSeq(posted, 1, k - 1) \o SubSeq(posted, k + 1, Len(posted))
  <2>1. posted' = t
    BY <1>1
  <2>2. /\ t \in Seq(PostedEvent)
        /\ \A j \in DOMAIN t :
             /\ j < k => j \in DOMAIN posted /\ t[j] = posted[j]
             /\ j >= k => j + 1 \in DOMAIN posted /\ t[j] = posted[j + 1]
        /\ \A i \in DOMAIN posted :
             /\ i < k => i \in DOMAIN t /\ t[i] = posted[i]
             /\ i > k => i - 1 \in DOMAIN t /\ t[i - 1] = posted[i]
    BY <1>5
  <2> HIDE DEF t
  <2> QED BY <1>2, <1>3, <1>4, <2>1, <2>2

\* Posting an event.
LEMMA Posted ==
  ASSUME NEW s \in Seq(PostedEvent), NEW e \in PostedEvent
  PROVE  /\ Append(s, e) \in Seq(PostedEvent) /\ s \o <<e>> = Append(s, e)
         /\ DOMAIN Append(s, e) = DOMAIN s \cup {Len(s) + 1}
         /\ \A k \in DOMAIN s : Append(s, e)[k] = s[k] /\ k < Len(s) + 1
         /\ Append(s, e)[Len(s) + 1] = e /\ Len(s) + 1 \in Nat /\ Len(s) + 1 \notin DOMAIN s
<1> DEFINE t == Append(s, e)
<1>1. /\ t \in Seq(PostedEvent) /\ Len(t) = Len(s) + 1
      /\ \A i \in 1..Len(s) : t[i] = s[i]
      /\ t[Len(s) + 1] = e
  BY AppendProperties
<1>2. Len(s) \in Nat /\ DOMAIN s = 1..Len(s) /\ DOMAIN t = 1..(Len(s) + 1)
  BY <1>1
<1>3. s \o <<e>> = t
  BY AppendIsConcat
<1> HIDE DEF t
<1> QED BY <1>1, <1>2, <1>3 DEF t

-----------------------------------------------------------------------------
(* Processes and requests.                                                 *)

LEMMA Image ==
  ASSUME NEW S, IsFiniteSet(S), NEW f, DOMAIN f = S, f = [x \in S |-> f[x]]
  PROVE  IsFiniteSet({f[x] : x \in S})
<1> DEFINE T == {f[x] : x \in S}
<1>1. f \in [S -> T]
  OBVIOUS
<1>2. \A t \in T : \E x \in S : f[x] = t
  OBVIOUS
<1>3. f \in Surjection(S, T)
  BY <1>1, <1>2 DEF Surjection
<1> QED BY <1>3, FS_Surjection

\* There is a least number that a finite set does not hold.
LEMMA LeastUnused ==
  ASSUME NEW U, IsFiniteSet(U)
  PROVE  \E n \in 1..(Cardinality(U) + 1) : n \notin U /\ \A m \in 1..(n - 1) : m \in U
<1> DEFINE c == Cardinality(U) + 1
           N == 1..c
           Free == N \ U
<1>1. c \in Nat /\ Cardinality(U) < c
  BY FS_CardinalityType
<1>2. Free # {}
  <2> SUFFICES ASSUME N \subseteq U PROVE FALSE
    OBVIOUS
  <2>1. IsFiniteSet(N) /\ Cardinality(N) = IF 1 > c THEN 0 ELSE c - 1 + 1
    BY <1>1, FS_Interval
  <2>2. Cardinality(N) <= Cardinality(U)
    BY FS_Subset
  <2>3. Cardinality(U) \in Nat
    BY FS_CardinalityType
  <2> HIDE DEF N
  <2> QED BY <2>1, <2>2, <2>3
<1>3. PICK n \in Free : \A m \in Free : n <= m
  <2>1. Free \subseteq Nat
    BY <1>1
  <2>2. \E x \in Free : \A y \in Free : ~ (<<y, x>> \in OpToRel(<, Nat))
    BY <1>2, <2>1, NatLessThanWellFounded, WFMin
  <2>3. PICK x \in Free : \A y \in Free : ~ (<<y, x>> \in OpToRel(<, Nat))
    BY <2>2
  <2>4. \A y \in Free : x <= y
    <3> TAKE y \in Free
    <3>1. ~(y < x)
      BY <2>1, <2>3 DEF OpToRel
    <3> QED BY <2>1, <3>1
  <2> QED BY <2>4
<1>4. \A m \in 1..(n - 1) : m \in U
  <2> TAKE m \in 1..(n - 1)
  <2>1. m \in N /\ ~(n <= m)
    BY <1>1
  <2> QED BY <1>3, <2>1
<1> QED BY <1>4

LEMMA NewIdIsId ==
  ASSUME Stacked(calls), Types
  PROVE  NewId \in Nat \ {0}
<1> DEFINE D == {j \in DOMAIN posted : posted[j].event = "delete"}
           R == {j \in DOMAIN calls : calls[j].call = "replyHasFinished"}
           X == running \cup requested \cup {process, reply}
           d == [k \in D |-> posted[k].process.id]
           r == [k \in R |-> calls[k].reply.id]
           i == [x \in X |-> x.id]
           used == {x.id : x \in X} \cup {posted[k].process.id : k \in D}
                   \cup {calls[k].reply.id : k \in R}
<1>1. IsFiniteSet(D) /\ IsFiniteSet(R)
  <2>1. DOMAIN posted = 1..Len(posted) /\ Len(posted) \in Nat
    BY DEF Types
  <2>2. DOMAIN calls = 1..Len(calls) /\ Len(calls) \in Nat
    BY DEF Stacked
  <2>3. IsFiniteSet(DOMAIN posted) /\ IsFiniteSet(DOMAIN calls)
    BY <2>1, <2>2, FS_Interval
  <2> QED BY <2>3, FS_Subset
<1>2. IsFiniteSet(X)
  <2>1. IsFiniteSet(running) /\ IsFiniteSet(requested)
    BY DEF Types
  <2>2. IsFiniteSet(running \cup requested)
    BY <2>1, FS_Union
  <2>3. IsFiniteSet((running \cup requested) \cup {process})
    BY <2>2, FS_AddElement
  <2>4. IsFiniteSet(((running \cup requested) \cup {process}) \cup {reply})
    BY <2>3, FS_AddElement
  <2>5. ((running \cup requested) \cup {process}) \cup {reply} = X
    OBVIOUS
  <2> QED BY <2>4, <2>5
<1> HIDE DEF D, R, X
<1>3. IsFiniteSet({d[k] : k \in D}) /\ {d[k] : k \in D} = {posted[k].process.id : k \in D}
  <2>1. DOMAIN d = D /\ d = [k \in D |-> d[k]]
    OBVIOUS
  <2>2. {d[k] : k \in D} = {posted[k].process.id : k \in D}
    OBVIOUS
  <2> HIDE DEF d
  <2>3. IsFiniteSet({d[k] : k \in D})
    BY <1>1, <2>1, Image
  <2> QED BY <2>2, <2>3
<1>4. IsFiniteSet({r[k] : k \in R}) /\ {r[k] : k \in R} = {calls[k].reply.id : k \in R}
  <2>1. DOMAIN r = R /\ r = [k \in R |-> r[k]]
    OBVIOUS
  <2>2. {r[k] : k \in R} = {calls[k].reply.id : k \in R}
    OBVIOUS
  <2> HIDE DEF r
  <2>3. IsFiniteSet({r[k] : k \in R})
    BY <1>1, <2>1, Image
  <2> QED BY <2>2, <2>3
<1>5. IsFiniteSet({i[x] : x \in X}) /\ {i[x] : x \in X} = {x.id : x \in X}
  <2>1. DOMAIN i = X /\ i = [x \in X |-> i[x]]
    OBVIOUS
  <2>2. {i[x] : x \in X} = {x.id : x \in X}
    OBVIOUS
  <2> HIDE DEF i
  <2>3. IsFiniteSet({i[x] : x \in X})
    BY <1>2, <2>1, Image
  <2> QED BY <2>2, <2>3
<1>6. IsFiniteSet(used)
  BY <1>3, <1>4, <1>5, FS_Union
<1>7. NewId = CHOOSE n \in 1..(Cardinality(used) + 1) :
                n \notin used /\ \A m \in 1..(n - 1) : m \in used
  BY DEF NewId, D, R, X
<1> HIDE DEF used
<1>8. \E n \in 1..(Cardinality(used) + 1) : n \notin used /\ \A m \in 1..(n - 1) : m \in used
  BY <1>6, LeastUnused
<1>9. NewId \in 1..(Cardinality(used) + 1)
  BY <1>7, <1>8
<1>10. Cardinality(used) \in Nat
  BY <1>6, FS_CardinalityType
<1> QED BY <1>9, <1>10

LEMMA ProcessForms ==
  /\ None \in Process /\ None \in Reply
  /\ \A n \in Nat \ {0}, i \in Instances, kind \in {"try", "status", "abort"} :
       [id |-> n, instance |-> i, kind |-> kind] \in Process \ {None}
  /\ \A n \in Nat \ {0}, i \in Instances :
       [id |-> n, instance |-> i] \in Reply \ {None}
  /\ \A r \in Reply \ {None} : r.instance \in Instances
<1>1. None \in Process /\ None \in Reply
  BY DEF Process, Reply
<1>2. ASSUME NEW n \in Nat \ {0}, NEW i \in Instances, NEW kind \in {"try", "status", "abort"}
      PROVE  [id |-> n, instance |-> i, kind |-> kind] \in Process \ {None}
  <2> DEFINE p == [id |-> n, instance |-> i, kind |-> kind]
  <2>1. p \in Process /\ p.id = n /\ None.id = 0
    BY DEF Process, None
  <2> QED BY <2>1
<1>3. ASSUME NEW n \in Nat \ {0}, NEW i \in Instances
      PROVE  [id |-> n, instance |-> i] \in Reply \ {None}
  <2> DEFINE r == [id |-> n, instance |-> i]
  <2>1. r \in Reply /\ r.id = n /\ None.id = 0
    BY DEF Reply, None
  <2> QED BY <2>1
<1>4. \A r \in Reply \ {None} : r.instance \in Instances
  BY DEF Reply
<1> QED BY <1>1, <1>2, <1>3, <1>4

LEMMA DeletionForm ==
  ASSUME Stacked(calls), NEW p \in Process \ {None}
  PROVE  /\ Deletion(p) \in PostedEvent
         /\ Deletion(p).event = "delete" /\ Deletion(p).process = p
<1> DEFINE P == {k \in DOMAIN calls : calls[k].call = "pause"}
<1>1. IsFiniteSet(P)
  <2>1. DOMAIN calls = 1..Len(calls) /\ Len(calls) \in Nat
    BY DEF Stacked
  <2>2. IsFiniteSet(DOMAIN calls)
    BY <2>1, FS_Interval
  <2> QED BY <2>2, FS_Subset
<1> HIDE DEF P
<1>2. Cardinality(P) \in Nat
  BY <1>1, FS_CardinalityType
<1>3. Depth(calls) \in Nat
  BY <1>2 DEF Depth, P
<1>4. \A depth \in Nat :
        [event |-> "delete", process |-> p, depth |-> depth] \in PostedEvent
  BY DEF PostedEvent
<1>5. Deletion(p) = [event |-> "delete", process |-> p, depth |-> Depth(calls)]
  BY DEF Deletion
<1> QED BY <1>3, <1>4, <1>5

LEMMA InstancesProperties ==
  /\ InstanceCount \in Nat /\ Instances \subseteq Nat \ {0} /\ NoInstance \notin Instances
  /\ \A i \in Instances : /\ Config[i] \in TaskConfig /\ Config[i].maxTries \in Nat
                          /\ Config[i].deadline \in BOOLEAN
                          /\ Config[i].abortable \in BOOLEAN
                          /\ Config[i].valid \in BOOLEAN
                          /\ Config[i].mean \in {"Local", "Background", "Http", "Nothing"}
<1>1. InstanceCount \in Nat /\ Config \in [Instances -> TaskConfig]
  BY ConfigAssumption
<1>2. Instances \subseteq Nat \ {0} /\ NoInstance \notin Instances
  BY <1>1 DEF Instances, NoInstance
<1>3. \A c \in TaskConfig : /\ c.maxTries \in Nat /\ c.deadline \in BOOLEAN
                            /\ c.abortable \in BOOLEAN /\ c.valid \in BOOLEAN
                            /\ c.mean \in {"Local", "Background", "Http", "Nothing"}
  BY DEF TaskConfig
<1> QED BY <1>1, <1>2, <1>3

-----------------------------------------------------------------------------
(* The parts of the invariant that a step leaves alone.                    *)

\* The stack after a call has returned, or after the loop took an event, when no
\* decision is to be taken.
Quiet ==
  /\ Stacked(calls')
  /\ Pauses(calls') => Pauses(calls)
  /\ ~Calling("executeOneTry")' /\ ~Calling("stopOrRetry")'

LEMMA Returned ==
  ASSUME Stacked(calls), calls # <<>>, calls' = Tail(calls)
  PROVE  Quiet /\ Frames(calls') \subseteq Frames(calls)
<1>1. /\ Resting(calls') /\ Stacked(calls') /\ Frames(calls') \subseteq Frames(calls)
      /\ Pauses(calls') => Pauses(calls)
  BY Popped
<1>2. calls' # <<>> => Head(calls') \in Frames(calls')
  <2> SUFFICES ASSUME calls' # <<>> PROVE Head(calls') \in Frames(calls')
    OBVIOUS
  <2>1. calls' \in Seq(Frame)
    BY <1>1 DEF Resting
  <2>2. 1 \in DOMAIN calls' /\ Head(calls') = calls'[1]
    BY <2>1
  <2> QED BY <2>2 DEF Frames
<1>3. calls' # <<>> => Head(calls').call \in {"processFinished", "replyHasFinished", "pause"}
  BY <1>1, <1>2 DEF Resting
<1> QED BY <1>1, <1>3 DEF Quiet, Calling

\* A call returns and makes another one.
LEMMA Replaced ==
  ASSUME Stacked(calls), calls # <<>>, NEW f \in Frame, calls' = <<f>> \o Tail(calls),
         f.call = "pause" => ~Pauses(Tail(calls))
  PROVE  /\ Stacked(calls') /\ calls' # <<>> /\ Head(calls') = f
         /\ Frames(calls') \subseteq {f} \cup Frames(calls)
         /\ Pauses(calls') <=> f.call = "pause" \/ Pauses(Tail(calls))
         /\ Pauses(Tail(calls)) => Pauses(calls)
         /\ f.call \in {"processError", "processFinished", "replyHasFinished"} => Quiet
<1>1. Resting(Tail(calls)) /\ Frames(Tail(calls)) \subseteq Frames(calls)
      /\ (Pauses(Tail(calls)) => Pauses(calls))
  BY Popped
<1>2. /\ Stacked(calls') /\ calls' # <<>> /\ Head(calls') = f
      /\ Frames(calls') = {f} \cup Frames(Tail(calls))
      /\ Pauses(calls') <=> f.call = "pause" \/ Pauses(Tail(calls))
  BY <1>1, Pushed
<1> QED BY <1>1, <1>2 DEF Quiet, Calling

\* The loop took an event that makes a call or two, or none.
LEMMA Took ==
  ASSUME Stacked(calls), Looping, NEW f \in Frame, NEW g \in Frame,
         f.call \in {"processError", "processFinished", "replyHasFinished"},
         g.call \in {"processFinished", "replyHasFinished"},
         calls' \in {calls, <<f>> \o calls, <<f, g>> \o calls}
  PROVE  Quiet /\ Frames(calls') \subseteq {f, g} \cup Frames(calls)
<1>1. Resting(calls) /\ ~Deciding
  BY LoopingRests
<1>2. CASE calls' = calls
  BY <1>1, <1>2 DEF Quiet, Deciding, Calling
<1>3. CASE calls' = <<f>> \o calls
  <2>1. /\ Stacked(calls') /\ calls' # <<>> /\ Head(calls') = f
        /\ Frames(calls') = {f} \cup Frames(calls)
        /\ Pauses(calls') <=> f.call = "pause" \/ Pauses(calls)
    BY <1>1, <1>3, Pushed
  <2> QED BY <2>1 DEF Quiet, Calling
<1>4. CASE calls' = <<f, g>> \o calls
  <2>1. /\ Stacked(calls') /\ calls' # <<>> /\ Head(calls') = f
        /\ Frames(calls') = {f, g} \cup Frames(calls)
        /\ Pauses(calls') <=> Pauses(calls)
    BY <1>1, <1>4, PushedTwo
  <2> QED BY <2>1 DEF Quiet, Calling
<1> QED BY <1>2, <1>3, <1>4

LEMMA QuietKeepsTries ==
  ASSUME OneTryAtATime, TriesLeft, Quiet, process' \in {process, None}, reply' \in {reply, None},
         UNCHANGED <<instance, remainingTries, tries>>
  PROVE  OneTryAtATime' /\ TriesLeft'
<1>1. Pauses(calls)' = Pauses(calls')
  BY DEF Pauses, Frames
<1>2. ~Deciding' /\ (Pauses(calls)' => Pauses(calls))
  BY <1>1 DEF Quiet, Deciding, Calling
<1>3. Between' => Between
  BY <1>2 DEF Between
<1>4. OneTryAtATime'
  BY <1>2, <1>3 DEF OneTryAtATime
<1>5. TriesLeft'
  BY <1>2 DEF TriesLeft, Quiet, TriesBounded
<1> QED BY <1>4, <1>5

LEMMA PhaseProperties ==
  ASSUME Phase
  PROVE  /\ instance # NoInstance => Executing /\ given \in Instances
         /\ \A k \in DOMAIN posted : posted[k].event = "execute" =>
              Starting /\ given \in Instances
BY InstancesProperties DEF Phase, Idle, Starting, Executing, Stopped, NoExecute

LEMMA PhaseKept ==
  ASSUME Phase,
         UNCHANGED <<posted, instance, given, available, runningExecutors, stopSignals, told>>
  PROVE  Phase'
BY DEF Phase, Idle, Starting, Executing, Stopped, NoExecute

\* The loop takes an event that is not an instance to execute.
LEMMA PhaseHandled ==
  ASSUME Phase, posted \in Seq(PostedEvent), NEW k \in DOMAIN posted, NEW name,
         Handling(k, name), name # "execute",
         UNCHANGED <<instance, given, available, runningExecutors, stopSignals, told>>
  PROVE  Phase'
<1>1. /\ posted[k].event = name
      /\ \A i \in DOMAIN posted : posted[i].event # "delete" => k <= i
      /\ \A j \in DOMAIN posted' :
           /\ j < k => j \in DOMAIN posted /\ posted'[j] = posted[j]
           /\ j >= k => j + 1 \in DOMAIN posted /\ posted'[j] = posted[j + 1]
      /\ \A i \in DOMAIN posted :
           /\ i < k => i \in DOMAIN posted' /\ posted'[i] = posted[i]
           /\ i > k => i - 1 \in DOMAIN posted' /\ posted'[i - 1] = posted[i]
      /\ posted' \in Seq(PostedEvent)
  BY Handled
<1>2. DOMAIN posted \subseteq Nat /\ DOMAIN posted' \subseteq Nat
  BY <1>1
<1>3. \A j \in DOMAIN posted' : \E i \in DOMAIN posted : posted'[j] = posted[i]
  <2> TAKE j \in DOMAIN posted'
  <2>1. j < k \/ j >= k
    BY <1>2
  <2> QED BY <1>1, <2>1
<1>4. NoExecute => NoExecute'
  BY <1>3 DEF NoExecute
<1>5. Executing => Executing'
  <2> SUFFICES ASSUME Executing PROVE Executing'
    OBVIOUS
  <2>1. \A j \in DOMAIN posted' :
          /\ posted'[j].event # "execute"
          /\ posted'[j].event = "abort" => posted'[j] = Event("abort", given)
    BY <1>3 DEF Executing
  <2> QED BY <2>1 DEF Executing
<1>6. Starting => Starting'
  <2> SUFFICES ASSUME Starting PROVE Starting'
    OBVIOUS
  <2>1. PICK m \in DOMAIN posted :
          /\ posted[m] = Event("execute", given)
          /\ \A j \in DOMAIN posted \ {m} :
               /\ posted[j].event # "execute"
               /\ j > m => posted[j] = Event("abort", given)
    BY DEF Starting
  <2>2. posted[m].event = "execute"
    BY <2>1, EventForms
  <2>3. m > k /\ m - 1 \in DOMAIN posted' /\ posted'[m - 1] = posted[m]
    <3>1. m # k /\ k <= m
      BY <1>1, <2>2
    <3>2. m > k
      BY <1>2, <3>1
    <3> QED BY <1>1, <3>2
  <2>4. ASSUME NEW j \in DOMAIN posted' \ {m - 1}
        PROVE  /\ posted'[j].event # "execute"
               /\ j > m - 1 => posted'[j] = Event("abort", given)
    <3>1. CASE j < k
      <4>1. j \in DOMAIN posted \ {m} /\ ~(j > m - 1) /\ posted'[j] = posted[j]
        BY <1>1, <1>2, <2>3, <3>1
      <4> QED BY <2>1, <4>1
    <3>2. CASE j >= k
      <4>1. j + 1 \in DOMAIN posted \ {m} /\ (j > m - 1 => j + 1 > m) /\ posted'[j] = posted[j + 1]
        BY <1>1, <1>2, <2>3, <3>2
      <4> QED BY <2>1, <4>1
    <3> QED BY <1>2, <3>1, <3>2
  <2> QED BY <2>1, <2>3, <2>4 DEF Starting
<1> QED BY <1>4, <1>5, <1>6 DEF Phase, Idle, Stopped

\* A process is to be deleted while its instance is executed.
LEMMA PhaseDeleting ==
  ASSUME Phase, posted \in Seq(PostedEvent), instance # NoInstance,
         NEW e \in PostedEvent, e.event = "delete", posted' = Append(posted, e),
         UNCHANGED <<instance, given, available, runningExecutors, stopSignals, told>>
  PROVE  Phase'
<1>1. Executing /\ given \in Instances
  BY PhaseProperties
<1>2. /\ DOMAIN posted' = DOMAIN posted \cup {Len(posted) + 1}
      /\ \A k \in DOMAIN posted : posted'[k] = posted[k]
      /\ posted'[Len(posted) + 1] = e
  BY Posted
<1>3. \A k \in DOMAIN posted' :
        /\ posted'[k].event # "execute"
        /\ posted'[k].event = "abort" => posted'[k] = Event("abort", given)
  BY <1>1, <1>2 DEF Executing
<1> QED BY <1>1, <1>3 DEF Phase, Executing

-----------------------------------------------------------------------------
(* The initial states, and the calls that return.                          *)

LEMMA InitInv == Init => Inv
<1> SUFFICES ASSUME Init PROVE Inv
  OBVIOUS
<1>1. calls = <<>> /\ posted = <<>> /\ instance = NoInstance /\ process = None /\ reply = None
      /\ running = {} /\ requested = {}
  BY DEF Init
<1>2. Stacked(calls) /\ ~Pauses(calls) /\ ~Deciding /\ ~Calling("executeOneTry")
  BY <1>1, EmptyStack DEF Deciding, Calling
<1>3. Types
  <2>1. IsFiniteSet(running) /\ IsFiniteSet(requested)
    BY <1>1, FS_EmptySet
  <2>2. process \in Process /\ reply \in Reply
    BY <1>1, ProcessForms
  <2>3. posted \in Seq(PostedEvent)
    BY <1>1
  <2> QED BY <1>1, <2>1, <2>2, <2>3 DEF Init, Types
<1>4. NoPolling
  BY <1>1 DEF Init, NoPolling
<1>5. OneTryAtATime /\ TriesLeft
  BY <1>1, <1>2 DEF OneTryAtATime, Between, TriesLeft, TriesBounded
<1>6. Owned
  BY <1>1 DEF Owned
<1>7. Idle
  BY <1>1, InstancesProperties DEF Init, Idle, NoExecute
<1> QED BY <1>2, <1>3, <1>4, <1>5, <1>6, <1>7 DEF Inv, Phase, Deadline, Init

LEMMA ProcessErrorInv == Inv /\ ProcessError => Inv'
<1> SUFFICES ASSUME Inv, ProcessError PROVE Inv'
  OBVIOUS
<1> USE DEF flagVars, taskVars, timerVars, worldVars, schedulerVars, toldVars
<1>1. /\ Calling("processError") /\ calls # <<>>
      /\ calls' = (IF process = None THEN <<>> ELSE <<Finished("other")>>) \o Tail(calls)
      /\ UNCHANGED <<posted, looked, taskVars, flagVars, timerVars,
                     backgroundStatus, process, reply, worldVars, schedulerVars,
                     tries, earned, toldVars>>
  BY DEF ProcessError, Calling
<1>2. Stacked(calls) /\ Tail(calls) \in Seq(Frame)
  BY <1>1, Popped DEF Inv, Resting
<1>3. Quiet
  <2>1. CASE process = None
    <3>1. calls' = Tail(calls)
      BY <1>1, <1>2, <2>1, ConcatEmptySeq
    <3> QED BY <1>1, <1>2, <3>1, Returned
  <2>2. CASE process # None
    <3>1. Finished("other") \in Frame /\ Finished("other").call = "processFinished"
      BY FrameForms DEF ExitCodes
    <3>2. calls' = <<Finished("other")>> \o Tail(calls)
      BY <1>1, <2>2
    <3> QED BY <1>1, <1>2, <3>1, <3>2, Replaced
  <2> QED BY <2>1, <2>2
<1>4. OneTryAtATime' /\ TriesLeft'
  BY <1>1, <1>3, QuietKeepsTries DEF Inv
<1>5. Phase'
  BY <1>1, PhaseKept DEF Inv
<1>6. Types' /\ NoPolling' /\ Owned' /\ Deadline'
  BY <1>1 DEF Inv, Types, NoPolling, Owned, Deadline, Mean
<1>7. Stacked(calls)'
  BY <1>3 DEF Quiet, Stacked
<1> QED BY <1>4, <1>5, <1>6, <1>7 DEF Inv

\* What is pending excludes any decision.
LEMMA PendingProperties ==
  ASSUME Inv
  PROVE  /\ process # None => /\ instance \in Instances /\ Mean = "Local" /\ reply = None
                              /\ ~Between /\ ~Pauses(calls) /\ process \in Process \ {None}
         /\ reply # None => /\ instance \in Instances /\ Mean = "Http" /\ process = None
                            /\ ~Between /\ ~Pauses(calls)
<1>1. instance \in Instances \cup {NoInstance}
  BY DEF Inv, Types
<1>2. process # None => Mean = "Local" /\ ~Between /\ instance # NoInstance
  BY DEF Inv, OneTryAtATime, Owned
<1>3. reply # None => Mean = "Http" /\ ~Between /\ instance # NoInstance
  BY DEF Inv, OneTryAtATime, Owned
<1>4. process # None => reply = None
  BY <1>2, <1>3
<1>5. process \in Process
  BY DEF Inv, Types
<1> QED BY <1>1, <1>2, <1>3, <1>4, <1>5 DEF Between

\* A command or a request has ended: its instance stops or is tried again.
LEMMA DecisionInv ==
  ASSUME Inv, instance # NoInstance, ~Pauses(calls), calls # <<>>, NEW success \in BOOLEAN,
         calls' = <<Stopping(success)>> \o Tail(calls),
         process' = None, reply' = None, instance' = instance, TriesBounded'
  PROVE  /\ Stacked(calls)' /\ OneTryAtATime' /\ TriesLeft'
         /\ Frames(calls') \subseteq {Stopping(success)} \cup Frames(calls)
         /\ calls' # <<>> /\ Head(calls') = Stopping(success)
<1>1. Stacked(calls)
  BY DEF Inv
<1>2. Stopping(success) \in Frame /\ Stopping(success).call = "stopOrRetry"
  BY FrameForms
<1>3. /\ Stacked(calls') /\ calls' # <<>> /\ Head(calls') = Stopping(success)
      /\ Frames(calls') \subseteq {Stopping(success)} \cup Frames(calls)
      /\ Pauses(calls') <=> Pauses(Tail(calls))
      /\ Pauses(Tail(calls)) => Pauses(calls)
  BY <1>1, <1>2, Replaced
<1>4. ~Pauses(calls)'
  <2>1. Pauses(calls)' = Pauses(calls')
    BY DEF Pauses, Frames
  <2> QED BY <1>3, <2>1
<1>5. OneTryAtATime'
  BY <1>4 DEF OneTryAtATime
<1>6. ~Calling("executeOneTry")'
  BY <1>2, <1>3 DEF Calling
<1>7. TriesLeft'
  BY <1>4, <1>6 DEF TriesLeft
<1>8. Stacked(calls)'
  BY <1>3 DEF Stacked
<1> QED BY <1>3, <1>5, <1>7, <1>8

\* The end of _process, for a task that is not a background task.
LEMMA ProcessFinishedIs ==
  ASSUME Inv, ProcessFinished, process # None
  PROVE  /\ posted' = Append(posted, Deletion(process))
         /\ process' = None /\ backgroundStatus' = backgroundStatus
         /\ calls' = <<Stopping(Head(calls).code \in Config[instance].successes)>> \o Tail(calls)
         /\ UNCHANGED <<looked, taskVars, flagVars, timerVars, reply, worldVars,
                        schedulerVars, tries, earned, toldVars>>
<1> DEFINE polled == Mean = "Background" /\ backgroundStatus = "Aborting"
           verdict == Verdict(Head(calls).code)
<1>1. /\ backgroundStatus' = IF Mean = "Background" THEN "Started" ELSE backgroundStatus
      /\ posted' = posted \o (IF polled THEN <<Event("pollStatus", instance)>> ELSE <<>>)
                          \o Deleted(process)
      /\ process' = None
      /\ calls' = (IF verdict.stopping THEN <<Stopping(verdict.success)>> ELSE <<>>)
                  \o Tail(calls)
      /\ UNCHANGED <<looked, taskVars, flagVars, timerVars, reply, worldVars,
                     schedulerVars, tries, earned, toldVars>>
  BY DEF ProcessFinished
<1>2. Mean = "Local" /\ process \in Process \ {None}
  BY PendingProperties
<1>3. verdict = [stopping |-> TRUE, success |-> Head(calls).code \in Config[instance].successes]
  BY <1>2 DEF Verdict
<1>4. ~polled /\ backgroundStatus' = backgroundStatus
  BY <1>1, <1>2
<1>5. posted' = Append(posted, Deletion(process))
  <2>1. posted \in Seq(PostedEvent) /\ Stacked(calls)
    BY DEF Inv, Types
  <2>2. Deletion(process) \in PostedEvent
    BY <1>2, <2>1, DeletionForm
  <2>3. posted \o <<>> = posted
    BY <2>1, ConcatEmptySeq
  <2>4. posted \o <<Deletion(process)>> = Append(posted, Deletion(process))
    BY <2>1, <2>2, Posted
  <2>5. posted' = posted \o <<>> \o <<Deletion(process)>>
    BY <1>1, <1>4 DEF Deleted
  <2> QED BY <2>3, <2>4, <2>5
<1>6. calls' = <<Stopping(Head(calls).code \in Config[instance].successes)>> \o Tail(calls)
  <2>1. verdict.stopping /\ verdict.success = (Head(calls).code \in Config[instance].successes)
    BY <1>3
  <2> QED BY <1>1, <2>1
<1> QED BY <1>1, <1>4, <1>5, <1>6

LEMMA ProcessFinishedInv == Inv /\ ProcessFinished => Inv'
<1> SUFFICES ASSUME Inv, ProcessFinished PROVE Inv'
  OBVIOUS
<1> USE DEF flagVars, taskVars, timerVars, worldVars, schedulerVars, toldVars
<1>1. Calling("processFinished") /\ calls # <<>> /\ Stacked(calls)
  BY DEF ProcessFinished, Calling, Inv
<1>2. CASE process = None
  <2>1. /\ calls' = Tail(calls)
        /\ UNCHANGED <<posted, looked, taskVars, flagVars, timerVars,
                       backgroundStatus, process, reply, worldVars, schedulerVars,
                       tries, earned, toldVars>>
    BY <1>2 DEF ProcessFinished
  <2>2. Quiet
    BY <1>1, <2>1, Returned
  <2>3. OneTryAtATime' /\ TriesLeft'
    BY <2>1, <2>2, QuietKeepsTries DEF Inv
  <2>4. Phase'
    BY <2>1, PhaseKept DEF Inv
  <2>5. Types' /\ NoPolling' /\ Owned' /\ Deadline'
    BY <2>1 DEF Inv, Types, NoPolling, Owned, Deadline, Mean
  <2>6. Stacked(calls)'
    BY <2>2 DEF Quiet, Stacked
  <2> QED BY <2>3, <2>4, <2>5, <2>6 DEF Inv
<1>3. CASE process # None
  <2> DEFINE e == Deletion(process)
             success == Head(calls).code \in Config[instance].successes
  <2>1. /\ posted' = Append(posted, e) /\ process' = None /\ backgroundStatus' = backgroundStatus
        /\ calls' = <<Stopping(success)>> \o Tail(calls)
        /\ UNCHANGED <<looked, taskVars, flagVars, timerVars, reply, worldVars,
                       schedulerVars, tries, earned, toldVars>>
    BY <1>3, ProcessFinishedIs
  <2>2. /\ instance # NoInstance /\ instance \in Instances /\ reply = None /\ ~Pauses(calls)
        /\ process \in Process \ {None}
    BY <1>3, PendingProperties, InstancesProperties
  <2>3. success \in BOOLEAN
    OBVIOUS
  <2>4. e \in PostedEvent /\ e.event = "delete" /\ e.process = process
    BY <1>1, <2>2, DeletionForm
  <2> HIDE DEF e, success
  <2>5. Stacked(calls)' /\ OneTryAtATime' /\ TriesLeft'
    <3>1. TriesBounded'
      BY <2>1 DEF Inv, TriesLeft, TriesBounded
    <3> QED BY <1>1, <2>1, <2>2, <2>3, <3>1, DecisionInv
  <2>6. posted \in Seq(PostedEvent)
    BY DEF Inv, Types
  <2>7. /\ posted' \in Seq(PostedEvent) /\ DOMAIN posted' = DOMAIN posted \cup {Len(posted) + 1}
        /\ \A k \in DOMAIN posted : posted'[k] = posted[k]
        /\ posted'[Len(posted) + 1] = e
    BY <2>1, <2>4, <2>6, Posted
  <2>8. Phase'
    BY <2>1, <2>2, <2>4, <2>6, PhaseDeleting DEF Inv
  <2>9. Types'
    BY <2>1, <2>7, ProcessForms DEF Inv, Types
  <2>10. NoPolling'
    BY <2>1, <2>4, <2>7 DEF Inv, NoPolling
  <2>11. Owned'
    <3>1. ASSUME NEW p \in running'
          PROVE  \E k \in DOMAIN posted' : posted'[k].event = "delete" /\ posted'[k].process = p
      <4>1. CASE p = process
        BY <2>4, <2>7, <4>1
      <4>2. CASE p # process
        <5>1. PICK k \in DOMAIN posted : posted[k].event = "delete" /\ posted[k].process = p
          BY <2>1, <3>1, <4>2 DEF Inv, Owned
        <5> QED BY <2>7, <5>1
      <4> QED BY <4>1, <4>2
    <3> QED BY <2>1, <2>2, <3>1 DEF Inv, Owned
  <2>12. Deadline'
    BY <2>1 DEF Inv, Deadline
  <2> QED BY <2>5, <2>8, <2>9, <2>10, <2>11, <2>12 DEF Inv
<1> QED BY <1>2, <1>3

LEMMA ReplyHasFinishedInv == Inv /\ ReplyHasFinished => Inv'
<1> SUFFICES ASSUME Inv, ReplyHasFinished PROVE Inv'
  OBVIOUS
<1> USE DEF flagVars, taskVars, timerVars, worldVars, schedulerVars, toldVars
<1>1. /\ Calling("replyHasFinished") /\ calls # <<>> /\ Stacked(calls)
      /\ Head(calls).call = "replyHasFinished"
      /\ UNCHANGED <<posted, looked, taskVars, flagVars, timerVars,
                     backgroundStatus, process, worldVars, schedulerVars,
                     tries, earned, toldVars>>
  BY DEF ReplyHasFinished, Calling, Inv
<1>2. CASE reply = None \/ Head(calls).reply # reply
  <2>1. calls' = Tail(calls) /\ reply' = reply
    BY <1>2 DEF ReplyHasFinished
  <2>2. Quiet
    BY <1>1, <2>1, Returned
  <2>3. OneTryAtATime' /\ TriesLeft'
    BY <1>1, <2>1, <2>2, QuietKeepsTries DEF Inv
  <2>4. Phase'
    BY <1>1, PhaseKept DEF Inv
  <2>5. Types' /\ NoPolling' /\ Owned' /\ Deadline'
    BY <1>1, <2>1 DEF Inv, Types, NoPolling, Owned, Deadline, Mean
  <2>6. Stacked(calls)'
    BY <2>2 DEF Quiet, Stacked
  <2> QED BY <2>3, <2>4, <2>5, <2>6 DEF Inv
<1>3. CASE ~(reply = None \/ Head(calls).reply # reply)
  <2>1. calls' = <<Stopping(Head(calls).success)>> \o Tail(calls) /\ reply' = None
    BY <1>3 DEF ReplyHasFinished
  <2>2. Head(calls).success \in BOOLEAN
    BY <1>1, Popped, FrameFields
  <2>3. instance # NoInstance /\ ~Pauses(calls) /\ process = None
    BY <1>3, PendingProperties, InstancesProperties
  <2>4. Stacked(calls)' /\ OneTryAtATime' /\ TriesLeft'
    <3>1. TriesBounded'
      BY <1>1 DEF Inv, TriesLeft, TriesBounded
    <3> QED BY <1>1, <2>1, <2>2, <2>3, <3>1, DecisionInv
  <2>5. Phase'
    BY <1>1, PhaseKept DEF Inv
  <2>6. Types' /\ NoPolling' /\ Owned' /\ Deadline'
    BY <1>1, <2>1, ProcessForms DEF Inv, Types, NoPolling, Owned, Deadline, Mean
  <2> QED BY <2>4, <2>5, <2>6 DEF Inv
<1> QED BY <1>2, <1>3

-----------------------------------------------------------------------------
(* Stopping, or trying again.                                              *)

\* The steps that stop the current instance.
LEMMA StopInv ==
  ASSUME Inv, instance # NoInstance, calls # <<>>, ~Pauses(Tail(calls)),
         process = None, reply = None, NEW success \in BOOLEAN, Stop(success, Tail(calls)),
         UNCHANGED <<posted, process, reply, looked, flagVars, backgroundStatus,
                     worldVars, tries, earned>>
  PROVE  /\ Inv' /\ Frames(calls') \subseteq Frames(calls) /\ ~Calling("stopOrRetry")'
         /\ instance' = NoInstance /\ told' = told \cup {instance} /\ stops' = stops + 1
         /\ stopSignals' = <<[instance |-> instance, success |-> success]>>
<1> USE DEF flagVars, taskVars, timerVars, worldVars, schedulerVars, toldVars
<1>1. /\ calls' = Tail(calls) /\ instance' = NoInstance /\ remainingTries' = 0
      /\ ~abortable' /\ ~abortTimer' /\ ~statusPollingTimer'
      /\ abortable' \in BOOLEAN /\ abortTimer' \in BOOLEAN
      /\ told' = told \cup ({instance} \ {NoInstance}) /\ stops' = stops + 1
      /\ stopSignals' = Append(stopSignals, [instance |-> instance, success |-> success])
      /\ UNCHANGED <<given, available, runningExecutors, aborts>>
  BY DEF Stop, EmitStopped
<1>2. Stacked(calls) /\ instance \in Instances /\ Executing /\ given \in Instances
  BY PhaseProperties DEF Inv, Types
<1>3. Quiet /\ Frames(calls') \subseteq Frames(calls)
  BY <1>1, <1>2, Returned
<1>4. ~Pauses(calls)' /\ ~Deciding' /\ ~Calling("stopOrRetry")' /\ ~Calling("executeOneTry")'
  <2>1. Pauses(calls)' = Pauses(calls')
    BY DEF Pauses, Frames
  <2> QED BY <1>1, <1>3, <2>1 DEF Quiet, Deciding
<1>5. OneTryAtATime' /\ TriesLeft'
  BY <1>1, <1>4 DEF OneTryAtATime, Between, TriesLeft, TriesBounded
<1>6. /\ told' = told \cup {instance}
      /\ stopSignals' = <<[instance |-> instance, success |-> success]>>
  BY <1>1, <1>2 DEF Executing
<1>7. Stopped'
  <2>1. given \in Nat \ {0} /\ told = 1..(given - 1) /\ instance = given
    BY <1>2, InstancesProperties DEF Executing
  <2>2. told' = 1..given
    BY <1>6, <2>1
  <2>3. NoExecute'
    BY <1>2 DEF Executing, NoExecute
  <2> QED BY <1>1, <1>2, <1>6, <2>1, <2>2, <2>3 DEF Executing, Stopped
<1>8. Types'
  BY <1>1 DEF Inv, Types
<1>9. NoPolling' /\ Owned' /\ Deadline'
  BY <1>1 DEF Inv, NoPolling, Owned, Deadline
<1>10. Stacked(calls)'
  BY <1>3 DEF Quiet, Stacked
<1>11. Phase'
  BY <1>1, <1>2, <1>7 DEF Phase
<1> QED BY <1>1, <1>3, <1>4, <1>5, <1>6, <1>8, <1>9, <1>10, <1>11 DEF Inv

\* The steps that prepare another try.
LEMMA AgainInv ==
  ASSUME Inv, instance # NoInstance, calls # <<>>, ~Pauses(Tail(calls)),
         process = None, reply = None, remainingTries > 0, ~aborting,
         NEW name \in {"pause", "executeOneTry"}, calls' = <<Call(name)>> \o Tail(calls),
         UNCHANGED <<posted, looked, taskVars, flagVars, timerVars, backgroundStatus,
                     process, reply, worldVars, schedulerVars, tries, earned, toldVars>>
  PROVE  Inv' /\ Frames(calls') \subseteq {Call(name)} \cup Frames(calls)
         /\ ~Calling("stopOrRetry")'
<1> USE DEF flagVars, taskVars, timerVars, worldVars, schedulerVars, toldVars
<1>1. Call(name) \in Frame /\ Call(name).call = name /\ Stacked(calls)
  BY FrameForms DEF Inv
<1>2. /\ Stacked(calls') /\ calls' # <<>> /\ Head(calls') = Call(name)
      /\ Frames(calls') \subseteq {Call(name)} \cup Frames(calls)
      /\ Pauses(calls') <=> name = "pause"
  BY <1>1, Replaced
<1>3. (Pauses(calls)' <=> name = "pause") /\ Stacked(calls)'
  <2>1. Pauses(calls)' = Pauses(calls')
    BY DEF Pauses, Frames
  <2> QED BY <1>2, <2>1 DEF Stacked
<1>4. (Calling("executeOneTry")' <=> name = "executeOneTry") /\ ~Calling("stopOrRetry")'
  BY <1>1, <1>2 DEF Calling
<1>5. OneTryAtATime' /\ TriesLeft'
  BY <1>3, <1>4 DEF Inv, OneTryAtATime, Between, Deciding, TriesLeft, TriesBounded
<1>6. Phase'
  BY PhaseKept DEF Inv
<1>7. Types' /\ NoPolling' /\ Owned' /\ Deadline'
  BY DEF Inv, Types, NoPolling, Owned, Deadline, Mean
<1> QED BY <1>2, <1>3, <1>4, <1>5, <1>6, <1>7 DEF Inv

LEMMA StopOrRetryIs ==
  ASSUME Inv, StopOrRetry
  PROVE  /\ instance # NoInstance /\ calls # <<>> /\ ~Pauses(Tail(calls))
         /\ Calling("stopOrRetry") /\ Head(calls).success \in BOOLEAN
         /\ process = None /\ reply = None
         /\ UNCHANGED <<posted, process, reply, looked, flagVars, backgroundStatus,
                        worldVars, tries, earned>>
         /\ \/ /\ Again(Head(calls).success)
               /\ Retry(Tail(calls))
            \/ Stop(Head(calls).success, Tail(calls))
<1>1. Calling("stopOrRetry") /\ calls # <<>> /\ Stacked(calls)
      /\ Head(calls).call = "stopOrRetry"
  BY DEF StopOrRetry, Calling, Inv
<1>2. ~Pauses(calls) /\ instance # NoInstance /\ process = None /\ reply = None
  BY <1>1 DEF Inv, OneTryAtATime, Between, Deciding
<1>3. ~Pauses(Tail(calls)) /\ Head(calls).success \in BOOLEAN
  BY <1>1, <1>2, Popped, FrameFields
<1>4. posted \o <<>> = posted
  BY ConcatEmptySeq DEF Inv, Types
<1>5. ~retrying
  BY DEF Inv, NoPolling
<1> QED BY <1>1, <1>2, <1>3, <1>4, <1>5 DEF StopOrRetry

LEMMA StopOrRetryInv == Inv /\ StopOrRetry => Inv'
<1> SUFFICES ASSUME Inv, StopOrRetry PROVE Inv'
  OBVIOUS
<1> DEFINE success == Head(calls).success
<1>1. /\ instance # NoInstance /\ calls # <<>> /\ ~Pauses(Tail(calls))
      /\ success \in BOOLEAN /\ process = None /\ reply = None
      /\ UNCHANGED <<posted, process, reply, looked, flagVars, backgroundStatus,
                     worldVars, tries, earned>>
      /\ (Again(success) /\ Retry(Tail(calls))) \/ Stop(success, Tail(calls))
  BY StopOrRetryIs
<1> HIDE DEF success
<1>2. CASE Stop(success, Tail(calls))
  BY <1>1, <1>2, StopInv
<1>3. CASE Again(success) /\ Retry(Tail(calls))
  <2> DEFINE name == IF Pause THEN "pause" ELSE "executeOneTry"
  <2>1. /\ calls' = <<Call(name)>> \o Tail(calls)
        /\ UNCHANGED <<taskVars, timerVars, schedulerVars, toldVars>>
    BY <1>3 DEF Retry
  <2>2. name \in {"pause", "executeOneTry"} /\ remainingTries > 0 /\ ~aborting
    BY <1>3 DEF Again
  <2> HIDE DEF name
  <2>3. UNCHANGED <<posted, looked, taskVars, flagVars, timerVars, backgroundStatus,
                    process, reply, worldVars, schedulerVars, tries, earned, toldVars>>
    BY <1>1, <2>1
  <2> QED BY <1>1, <2>1, <2>2, <2>3, AgainInv
<1> QED BY <1>1, <1>2, <1>3

LEMMA PauseEndsIs ==
  ASSUME Inv, PauseEnds
  PROVE  /\ instance # NoInstance /\ calls # <<>> /\ ~Pauses(Tail(calls))
         /\ process = None /\ reply = None /\ remainingTries > 0
         /\ UNCHANGED <<posted, looked, flagVars, backgroundStatus, process,
                        reply, worldVars, tries, earned>>
         /\ \/ Stop(FALSE, Tail(calls))
            \/ /\ ~aborting /\ calls' = <<Call("executeOneTry")>> \o Tail(calls)
               /\ UNCHANGED <<taskVars, timerVars, schedulerVars, toldVars>>
<1>1. calls # <<>> /\ Stacked(calls) /\ Head(calls).call = "pause"
  BY DEF PauseEnds, Calling, Inv
<1>2. Pauses(calls) /\ ~Pauses(Tail(calls))
  BY <1>1, Popped
<1>3. instance # NoInstance /\ process = None /\ reply = None /\ remainingTries > 0
  BY <1>2 DEF Inv, OneTryAtATime, Between, TriesLeft
<1> QED BY <1>1, <1>2, <1>3 DEF PauseEnds

LEMMA PauseEndsInv == Inv /\ PauseEnds => Inv'
<1> SUFFICES ASSUME Inv, PauseEnds PROVE Inv'
  OBVIOUS
<1>1. /\ instance # NoInstance /\ calls # <<>> /\ ~Pauses(Tail(calls))
      /\ process = None /\ reply = None /\ remainingTries > 0
      /\ UNCHANGED <<posted, looked, flagVars, backgroundStatus, process,
                     reply, worldVars, tries, earned>>
      /\ \/ Stop(FALSE, Tail(calls))
         \/ /\ ~aborting /\ calls' = <<Call("executeOneTry")>> \o Tail(calls)
            /\ UNCHANGED <<taskVars, timerVars, schedulerVars, toldVars>>
  BY PauseEndsIs
<1>2. CASE Stop(FALSE, Tail(calls))
  BY <1>1, <1>2, StopInv
<1>3. CASE /\ ~aborting /\ calls' = <<Call("executeOneTry")>> \o Tail(calls)
           /\ UNCHANGED <<taskVars, timerVars, schedulerVars, toldVars>>
  <2>1. UNCHANGED <<posted, looked, taskVars, flagVars, timerVars, backgroundStatus,
                    process, reply, worldVars, schedulerVars, tries, earned, toldVars>>
    BY <1>1, <1>3
  <2> QED BY <1>1, <1>3, <2>1, AgainInv
<1> QED BY <1>1, <1>2, <1>3

-----------------------------------------------------------------------------
(* Trying.                                                                 *)

LEMMA ExecuteOneTryIs ==
  ASSUME NoBackground, Inv, ExecuteOneTry
  PROVE  /\ Calling("executeOneTry") /\ calls # <<>> /\ Stacked(calls)
         /\ instance # NoInstance /\ instance \in Instances /\ process = None /\ reply = None
         /\ ~Pauses(calls) /\ ~aborting
         /\ tries' = tries + 1
         /\ UNCHANGED <<posted, looked, instance, flagVars, abortTimer,
                        schedulerVars, earned, toldVars>>
         /\ remainingTries' \in Nat /\ TriesBounded'
         /\ \/ /\ \E success \in BOOLEAN :
                    /\ calls' = <<Stopping(success)>> \o Tail(calls)
                    /\ success => Mean = "Nothing"
               /\ abortable' = abortable
               /\ UNCHANGED <<statusPollingTimer, backgroundStatus, process, reply, worldVars>>
            \/ /\ LocalMean
            \/ /\ Mean = "Http" /\ abortable' = TRUE /\ PerformRequest(Tail(calls))
               /\ UNCHANGED <<statusPollingTimer, backgroundStatus, process>>
<1>1. /\ Calling("executeOneTry") /\ calls # <<>> /\ Stacked(calls)
      /\ tries' = tries + 1
      /\ UNCHANGED <<posted, looked, instance, flagVars, abortTimer,
                     schedulerVars, earned, toldVars>>
  BY DEF ExecuteOneTry, Calling, Inv
<1>2. /\ ~Pauses(calls) /\ instance # NoInstance /\ process = None /\ reply = None
      /\ ~aborting /\ (tries = 0 \/ remainingTries > 0)
  BY <1>1 DEF Inv, OneTryAtATime, Between, Deciding, TriesLeft
<1>3. instance \in Instances /\ remainingTries \in Nat /\ tries \in Nat /\ TriesBounded
      /\ Config[instance].maxTries \in Nat
  BY <1>2, InstancesProperties DEF Inv, Types, TriesLeft
<1>4. Mean # "Unknown" /\ ~(Mean = "Background" /\ Config[instance].valid)
  BY <1>2, <1>3, InstancesProperties DEF Mean, NoBackground
<1>5. \/ DoNothing \/ CannotExecute \/ LocalMean \/ HttpMean
  BY <1>4 DEF ExecuteOneTry, BackgroundStart
<1>6. remainingTries' = 0 \/ ConsumeOneTry
  BY <1>5 DEF DoNothing, CannotExecute, LocalMean, HttpMean, ConsumeAllTries
<1>7. remainingTries' \in Nat /\ (remainingTries' = 0 \/ remainingTries' = remainingTries - 1)
  BY <1>3, <1>6 DEF ConsumeOneTry
<1>8. TriesBounded'
  <2> DEFINE most == IF Config[instance].maxTries = 0 THEN 1 ELSE Config[instance].maxTries
  <2>1. most \in Nat \ {0} /\ tries + remainingTries <= most
    BY <1>2, <1>3 DEF TriesBounded
  <2> HIDE DEF most
  <2>2. tries' + remainingTries' <= most
    <3>1. CASE remainingTries > 0
      BY <1>1, <1>3, <1>7, <2>1, <3>1
    <3>2. CASE remainingTries = 0
      BY <1>1, <1>2, <1>3, <1>6, <2>1, <3>2 DEF ConsumeOneTry
    <3> QED BY <1>3, <3>1, <3>2
  <2> QED BY <1>1, <2>2 DEF TriesBounded, most
<1>9. \/ /\ \E success \in BOOLEAN :
              /\ calls' = <<Stopping(success)>> \o Tail(calls)
              /\ success => Mean = "Nothing"
         /\ abortable' = abortable
         /\ UNCHANGED <<statusPollingTimer, backgroundStatus, process, reply, worldVars>>
      \/ LocalMean
      \/ /\ Mean = "Http" /\ abortable' = TRUE /\ PerformRequest(Tail(calls))
         /\ UNCHANGED <<statusPollingTimer, backgroundStatus, process>>
  <2>1. CASE DoNothing
    BY <2>1 DEF DoNothing
  <2>2. CASE CannotExecute
    BY <2>2 DEF CannotExecute
  <2>3. CASE HttpMean
    BY <2>3 DEF HttpMean
  <2> QED BY <1>5, <2>1, <2>2, <2>3
<1> QED BY <1>1, <1>2, <1>3, <1>7, <1>8, <1>9

\* The instance has nothing to execute, or cannot be, or its request has failed
\* during the call.
LEMMA DoneAtOnceInv ==
  ASSUME NoBackground, Inv, ExecuteOneTry, NEW success \in BOOLEAN,
         calls' = <<Stopping(success)>> \o Tail(calls), abortable' \in BOOLEAN,
         process' = None, reply' = None,
         UNCHANGED <<statusPollingTimer, backgroundStatus, worldVars>>
  PROVE  Inv'
<1> USE DEF flagVars, taskVars, timerVars, worldVars, schedulerVars, toldVars
<1>1. /\ calls # <<>> /\ instance # NoInstance /\ process = None /\ reply = None
      /\ ~Pauses(calls) /\ tries' = tries + 1
      /\ UNCHANGED <<posted, looked, instance, flagVars, abortTimer,
                     schedulerVars, earned, toldVars>>
      /\ remainingTries' \in Nat /\ TriesBounded'
  BY ExecuteOneTryIs
<1>2. Stacked(calls)' /\ OneTryAtATime' /\ TriesLeft'
  BY <1>1, DecisionInv
<1>3. Phase'
  BY <1>1, PhaseKept DEF Inv
<1>4. Types' /\ NoPolling' /\ Owned' /\ Deadline'
  BY <1>1 DEF Inv, Types, NoPolling, Owned, Deadline, Mean
<1> QED BY <1>2, <1>3, <1>4 DEF Inv

\* A command starts, or the error that it cannot is signaled during the call.
LEMMA LocalMeanInv ==
  ASSUME NoBackground, Inv, ExecuteOneTry, LocalMean
  PROVE  Inv' /\ Frames(calls') \subseteq {Call("processError")} \cup Frames(calls)
         /\ ~Calling("stopOrRetry")'
<1> USE DEF flagVars, taskVars, timerVars, worldVars, schedulerVars, toldVars
<1> DEFINE p == [id |-> NewId, instance |-> instance, kind |-> "try"]
<1>1. /\ calls # <<>> /\ instance # NoInstance /\ process = None /\ reply = None
      /\ ~Pauses(calls) /\ tries' = tries + 1 /\ Stacked(calls) /\ instance \in Instances
      /\ UNCHANGED <<posted, looked, instance, flagVars, abortTimer,
                     schedulerVars, earned, toldVars>>
      /\ remainingTries' \in Nat /\ TriesBounded'
  BY ExecuteOneTryIs
<1>2. /\ Mean = "Local" /\ abortable' \in BOOLEAN
      /\ process' = p
      /\ \/ running' = running \cup {p} /\ calls' = Tail(calls)
         \/ running' = running /\ calls' = <<Call("processError")>> \o Tail(calls)
      /\ UNCHANGED <<requested, statusPollingTimer, backgroundStatus, reply>>
  BY <1>1, InstancesProperties DEF LocalMean, ExecProcess
<1>3. p \in Process \ {None} /\ p.instance = instance /\ p.kind = "try"
  <2>1. NewId \in Nat \ {0}
    BY NewIdIsId DEF Inv
  <2> HIDE DEF NewId
  <2> QED BY <1>1, <2>1, ProcessForms
<1> HIDE DEF p
<1>4. Call("processError") \in Frame /\ Call("processError").call = "processError"
  BY FrameForms
<1>5. Quiet /\ Frames(calls') \subseteq {Call("processError")} \cup Frames(calls)
  <2>1. CASE calls' = Tail(calls)
    BY <1>1, <2>1, Returned
  <2>2. CASE calls' = <<Call("processError")>> \o Tail(calls)
    BY <1>1, <1>4, <2>2, Replaced
  <2> QED BY <1>2, <2>1, <2>2
<1>6. ~Pauses(calls)' /\ ~Deciding' /\ ~Calling("executeOneTry")' /\ ~Calling("stopOrRetry")'
  <2>1. Pauses(calls)' = Pauses(calls')
    BY DEF Pauses, Frames
  <2> QED BY <1>1, <1>5, <2>1 DEF Quiet, Deciding
<1>7. OneTryAtATime' /\ TriesLeft'
  BY <1>1, <1>6 DEF OneTryAtATime, Between, TriesLeft
<1>8. Types'
  <2>1. running' \subseteq Process \ {None} /\ IsFiniteSet(running') /\ looked' \subseteq running'
    <3>1. IsFiniteSet(running) /\ IsFiniteSet(running \cup {p})
      BY FS_AddElement DEF Inv, Types
    <3> QED BY <1>1, <1>2, <1>3, <3>1 DEF Inv, Types
  <2> QED BY <1>1, <1>2, <1>3, <2>1 DEF Inv, Types
<1>9. Owned'
  <2>1. Mean' = "Local"
    BY <1>1, <1>2 DEF Mean
  <2>2. ASSUME NEW x \in running'
        PROVE  /\ x = process' \/ \E k \in DOMAIN posted' :
                                     posted'[k].event = "delete" /\ posted'[k].process = x
               /\ x.instance = instance /\ x.kind = "try"
    <3>1. CASE x = p
      BY <1>2, <1>3, <3>1
    <3>2. CASE x # p
      <4>1. x \in running /\ x # None
        BY <1>2, <3>2 DEF Inv, Types
      <4> QED BY <1>1, <4>1 DEF Inv, Owned
    <3> QED BY <3>1, <3>2
  <2> QED BY <1>1, <1>2, <1>3, <2>1, <2>2 DEF Owned
<1>10. Phase'
  BY <1>1, PhaseKept DEF Inv
<1>11. NoPolling' /\ Deadline'
  BY <1>1, <1>2 DEF Inv, NoPolling, Deadline
<1>12. Stacked(calls)'
  BY <1>5 DEF Quiet, Stacked
<1> QED BY <1>5, <1>6, <1>7, <1>8, <1>9, <1>10, <1>11, <1>12 DEF Inv

LEMMA HttpMeanInv ==
  ASSUME NoBackground, Inv, ExecuteOneTry, Mean = "Http", abortable' = TRUE,
         PerformRequest(Tail(calls)),
         UNCHANGED <<statusPollingTimer, backgroundStatus, process>>
  PROVE  /\ Inv'
         /\ \/ calls' = <<Stopping(FALSE)>> \o Tail(calls)
            \/ Frames(calls') \subseteq Frames(calls) /\ ~Calling("stopOrRetry")'
<1> USE DEF flagVars, taskVars, timerVars, worldVars, schedulerVars, toldVars
<1> DEFINE r == [id |-> NewId, instance |-> instance]
<1>1. /\ calls # <<>> /\ instance # NoInstance /\ process = None /\ reply = None
      /\ ~Pauses(calls) /\ tries' = tries + 1 /\ Stacked(calls) /\ instance \in Instances
      /\ UNCHANGED <<posted, looked, instance, flagVars, abortTimer,
                     schedulerVars, earned, toldVars>>
      /\ remainingTries' \in Nat /\ TriesBounded'
  BY ExecuteOneTryIs
<1>2. \/ /\ reply' = r /\ requested' = requested \cup {r} /\ calls' = Tail(calls)
         /\ UNCHANGED running
      \/ /\ reply' = None /\ calls' = <<Stopping(FALSE)>> \o Tail(calls)
         /\ UNCHANGED worldVars
  BY DEF PerformRequest
<1>3. CASE /\ reply' = None /\ calls' = <<Stopping(FALSE)>> \o Tail(calls)
           /\ UNCHANGED worldVars
  <2>1. Inv'
    BY <1>1, <1>3, DoneAtOnceInv
  <2> QED BY <1>3, <2>1
<1>4. CASE /\ reply' = r /\ requested' = requested \cup {r} /\ calls' = Tail(calls)
           /\ UNCHANGED running
  <2>1. r \in Reply \ {None} /\ r.instance = instance
    <3>1. NewId \in Nat \ {0}
      BY NewIdIsId DEF Inv
    <3> HIDE DEF NewId
    <3> QED BY <1>1, <3>1, ProcessForms
  <2> HIDE DEF r
  <2>2. Quiet /\ Frames(calls') \subseteq Frames(calls)
    BY <1>1, <1>4, Returned
  <2>3. ~Pauses(calls)' /\ ~Deciding' /\ ~Calling("executeOneTry")' /\ ~Calling("stopOrRetry")'
    <3>1. Pauses(calls)' = Pauses(calls')
      BY DEF Pauses, Frames
    <3> QED BY <1>1, <2>2, <3>1 DEF Quiet, Deciding
  <2>4. OneTryAtATime' /\ TriesLeft'
    BY <1>1, <2>3 DEF OneTryAtATime, Between, TriesLeft
  <2>5. Types'
    <3>1. IsFiniteSet(requested) /\ IsFiniteSet(requested \cup {r})
      BY FS_AddElement DEF Inv, Types
    <3> QED BY <1>1, <1>4, <2>1, <3>1 DEF Inv, Types
  <2>6. Owned'
    <3>1. Mean' = "Http"
      BY <1>1 DEF Mean
    <3> QED BY <1>1, <1>4, <2>1, <3>1 DEF Inv, Owned
  <2>7. Phase'
    BY <1>1, PhaseKept DEF Inv
  <2>8. NoPolling' /\ Deadline'
    BY <1>1, <1>4 DEF Inv, NoPolling, Deadline
  <2>9. Stacked(calls)'
    BY <2>2 DEF Quiet, Stacked
  <2> QED BY <2>2, <2>3, <2>4, <2>5, <2>6, <2>7, <2>8, <2>9 DEF Inv
<1> QED BY <1>2, <1>3, <1>4

LEMMA ExecuteOneTryInv == NoBackground /\ Inv /\ ExecuteOneTry => Inv'
<1> SUFFICES ASSUME NoBackground, Inv, ExecuteOneTry PROVE Inv'
  OBVIOUS
<1>1. /\ process = None /\ reply = None /\ abortable \in BOOLEAN
      /\ \/ /\ \E success \in BOOLEAN : calls' = <<Stopping(success)>> \o Tail(calls)
            /\ abortable' = abortable
            /\ UNCHANGED <<statusPollingTimer, backgroundStatus, process, reply, worldVars>>
         \/ LocalMean
         \/ /\ Mean = "Http" /\ abortable' = TRUE /\ PerformRequest(Tail(calls))
            /\ UNCHANGED <<statusPollingTimer, backgroundStatus, process>>
  BY ExecuteOneTryIs DEF Inv, Types
<1>2. CASE LocalMean
  BY <1>2, LocalMeanInv
<1>3. CASE /\ Mean = "Http" /\ abortable' = TRUE /\ PerformRequest(Tail(calls))
           /\ UNCHANGED <<statusPollingTimer, backgroundStatus, process>>
  BY <1>3, HttpMeanInv
<1>4. CASE /\ \E success \in BOOLEAN : calls' = <<Stopping(success)>> \o Tail(calls)
           /\ abortable' = abortable
           /\ UNCHANGED <<statusPollingTimer, backgroundStatus, process, reply, worldVars>>
  <2>1. PICK success \in BOOLEAN : calls' = <<Stopping(success)>> \o Tail(calls)
    BY <1>4
  <2>2. process' = None /\ reply' = None /\ abortable' \in BOOLEAN
    BY <1>1, <1>4
  <2> QED BY <1>4, <2>1, <2>2, DoneAtOnceInv
<1> QED BY <1>1, <1>2, <1>3, <1>4

-----------------------------------------------------------------------------
(* The event loop.                                                         *)

\* When an instance begins, nothing of a former one is left.
LEMMA ExecuteIs ==
  ASSUME Inv, Execute
  PROVE  /\ calls = <<>> /\ running = {} /\ process = None /\ reply = None
         /\ instance = NoInstance /\ instance' = given /\ given \in Instances /\ Starting
         /\ calls' = <<Call("executeOneTry")>> \o calls /\ looked' = {}
         /\ remainingTries' = Config[given].maxTries
         /\ abortTimer' = Config[given].deadline
         /\ abortable' = FALSE /\ aborting' = FALSE /\ retrying' = FALSE
         /\ tries' = 0 /\ earned' = FALSE
         /\ UNCHANGED <<statusPollingTimer, backgroundStatus, process,
                        reply, worldVars, schedulerVars, toldVars>>
         /\ posted' \in Seq(PostedEvent)
         /\ \A j \in DOMAIN posted' : posted'[j] = Event("abort", given)
<1>1. PICK k \in DOMAIN posted :
        /\ Handling(k, "execute")
        /\ instance' = posted[k].instance
        /\ remainingTries' = Config[posted[k].instance].maxTries
        /\ abortTimer' = (Config[posted[k].instance].deadline \/ abortTimer)
  BY DEF Execute
<1>2. /\ calls' = <<Call("executeOneTry")>> \o calls
      /\ abortable' = FALSE /\ aborting' = FALSE /\ retrying' = FALSE
      /\ tries' = 0 /\ earned' = FALSE
      /\ UNCHANGED <<statusPollingTimer, backgroundStatus, process,
                     reply, worldVars, schedulerVars, toldVars>>
  BY DEF Execute
<1>3. posted \in Seq(PostedEvent) /\ DOMAIN posted \subseteq Nat
  BY DEF Inv, Types
<1>4. /\ posted' \in Seq(PostedEvent)
      /\ posted[k].event = "execute"
      /\ looked' = {} /\ Looping
      /\ \A j \in DOMAIN posted' :
           /\ j < k => j \in DOMAIN posted /\ posted'[j] = posted[j]
           /\ j >= k => j + 1 \in DOMAIN posted /\ posted'[j] = posted[j + 1]
  BY <1>1, <1>3, Handled
<1>5. Starting /\ given \in Instances
  BY <1>4, PhaseProperties DEF Inv
<1>6. /\ instance = NoInstance /\ process = None /\ reply = None /\ ~Between
      /\ abortTimer = FALSE
  BY <1>5 DEF Starting, Inv, OneTryAtATime, Deadline, Types
<1>7. calls = <<>>
  <2>1. calls # <<>> => Head(calls).call # "pause"
    <3> SUFFICES ASSUME calls # <<>>, Head(calls).call = "pause" PROVE FALSE
      OBVIOUS
    <3>1. Pauses(calls)
      BY Popped DEF Inv
    <3> QED BY <1>6, <3>1 DEF Between
  <2> QED BY <1>4, <2>1 DEF Looping, Calling
<1>8. PICK m \in DOMAIN posted :
        /\ posted[m] = Event("execute", given)
        /\ \A j \in DOMAIN posted \ {m} :
             /\ posted[j].event # "execute"
             /\ j > m => posted[j] = Event("abort", given)
  BY <1>5 DEF Starting
<1>9. k = m /\ posted[k].instance = given
  BY <1>4, <1>8, EventForms
<1>10. \A j \in DOMAIN posted : k <= j
  <2>1. Depth(calls) = 0
    <3>1. {j \in DOMAIN calls : calls[j].call = "pause"} = {}
      BY <1>7
    <3> QED BY <3>1, FS_EmptySet DEF Depth
  <2>2. \A j \in DOMAIN posted : Ripe(posted[j])
    <3> TAKE j \in DOMAIN posted
    <3>1. posted[j] \in PostedEvent
      BY <1>3
    <3>2. posted[j].event = "delete" => posted[j].depth \in Nat
      BY <3>1, EventForms
    <3> QED BY <2>1, <3>2 DEF Ripe
  <2> QED BY <1>1, <2>2 DEF Handling, RipeEvents
<1>11. \A j \in DOMAIN posted \ {k} : posted[j] = Event("abort", given)
  BY <1>3, <1>8, <1>9, <1>10
<1>12. \A j \in DOMAIN posted' : posted'[j] = Event("abort", given)
  <2> TAKE j \in DOMAIN posted'
  <2>1. j \in Nat
    BY <1>4
  <2>2. j >= k
    BY <1>3, <1>4, <1>10, <2>1
  <2>3. j + 1 \in DOMAIN posted \ {k} /\ posted'[j] = posted[j + 1]
    BY <1>3, <1>4, <2>1, <2>2
  <2> QED BY <1>11, <2>3
<1>13. running = {}
  <2> SUFFICES ASSUME NEW p \in running PROVE FALSE
    OBVIOUS
  <2>1. p # None
    BY DEF Inv, Types
  <2>2. PICK j \in DOMAIN posted : posted[j].event = "delete"
    BY <1>6, <2>1 DEF Inv, Owned
  <2>3. j # k
    BY <1>4, <2>2
  <2>4. posted[j].event = "abort"
    BY <1>11, <2>3, EventForms
  <2> QED BY <2>2, <2>4
<1>14. instance' = given /\ remainingTries' = Config[given].maxTries
       /\ abortTimer' = (Config[given].deadline \/ FALSE)
  BY <1>1, <1>6, <1>9
<1>15. abortTimer' = Config[given].deadline
  <2>1. Config[given].deadline \in BOOLEAN
    BY <1>5, InstancesProperties
  <2> QED BY <1>14, <2>1
<1> QED BY <1>2, <1>4, <1>5, <1>6, <1>7, <1>12, <1>13, <1>14, <1>15

LEMMA ExecuteInv == Inv /\ Execute => Inv' /\ ~Calling("stopOrRetry")'
<1> SUFFICES ASSUME Inv, Execute PROVE Inv' /\ ~Calling("stopOrRetry")'
  OBVIOUS
<1> USE DEF flagVars, taskVars, timerVars, worldVars, schedulerVars, toldVars
<1>1. /\ calls = <<>> /\ running = {} /\ process = None /\ reply = None
      /\ instance' = given /\ given \in Instances /\ Starting
      /\ calls' = <<Call("executeOneTry")>> \o calls /\ looked' = {}
      /\ remainingTries' = Config[given].maxTries
      /\ abortTimer' = Config[given].deadline
      /\ abortable' = FALSE /\ aborting' = FALSE /\ retrying' = FALSE
      /\ tries' = 0 /\ earned' = FALSE
      /\ UNCHANGED <<statusPollingTimer, backgroundStatus, process,
                     reply, worldVars, schedulerVars, toldVars>>
      /\ posted' \in Seq(PostedEvent)
      /\ \A j \in DOMAIN posted' : posted'[j] = Event("abort", given)
  BY ExecuteIs
<1>2. Call("executeOneTry") \in Frame /\ Call("executeOneTry").call = "executeOneTry"
  BY FrameForms
<1>3. /\ Stacked(calls') /\ calls' # <<>> /\ Head(calls') = Call("executeOneTry")
      /\ Pauses(calls') <=> FALSE \/ Pauses(<<>>)
  BY <1>1, <1>2, Pushed, EmptyStack
<1>4. ~Pauses(calls)' /\ Stacked(calls)'
  <2>1. Pauses(calls)' = Pauses(calls')
    BY DEF Pauses, Frames
  <2> QED BY <1>3, <2>1, EmptyStack DEF Stacked
<1>5. ~Calling("stopOrRetry")'
  BY <1>2, <1>3 DEF Calling
<1>6. given # NoInstance /\ Config[given].maxTries \in Nat /\ Config[given].deadline \in BOOLEAN
  BY <1>1, InstancesProperties
<1>7. OneTryAtATime' /\ TriesLeft'
  BY <1>1, <1>4, <1>6 DEF OneTryAtATime, TriesLeft, TriesBounded
<1>8. Types'
  BY <1>1, <1>6 DEF Inv, Types
<1>9. \A j \in DOMAIN posted' : posted'[j].event = "abort"
  BY <1>1, EventForms
<1>10. NoPolling' /\ Owned' /\ Deadline'
  BY <1>1, <1>6, <1>9 DEF Inv, NoPolling, Owned, Deadline
<1>11. Phase'
  <2>1. Executing'
    BY <1>1, <1>9 DEF Starting, Executing
  <2> QED BY <1>1, <2>1 DEF Phase
<1> QED BY <1>4, <1>5, <1>7, <1>8, <1>10, <1>11 DEF Inv

\* What an abort does, besides the event or the timer that causes it.
LEMMA AbortIs ==
  ASSUME Inv, Looping, Abort
  PROVE  /\ Quiet /\ aborting' \in BOOLEAN /\ earned' \in BOOLEAN
         /\ requested' \subseteq requested
         /\ UNCHANGED <<taskVars, retrying, statusPollingTimer, reply, schedulerVars,
                        tries, toldVars, backgroundStatus, process, running>>
         /\ \/ calls' = calls /\ earned' = earned
            \/ \E success \in BOOLEAN :
                 /\ calls' = <<Replied(reply, success), Replied(reply, success)>> \o calls
                 /\ earned' = (earned \/ success) /\ reply \in Reply \ {None}
<1> USE DEF worldVars
<1>1. Stacked(calls) /\ aborting \in BOOLEAN /\ earned \in BOOLEAN /\ reply \in Reply
      /\ Resting(calls) /\ ~Deciding
  BY LoopingRests DEF Inv, Types
<1>2. UNCHANGED <<taskVars, retrying, statusPollingTimer, reply, schedulerVars, tries, toldVars>>
  BY DEF Abort
<1>3. calls' = calls => Quiet
  BY <1>1 DEF Quiet, Deciding, Calling
<1>4. CASE /\ instance = NoInstance \/ ~abortable
           /\ UNCHANGED <<calls, aborting, backgroundStatus, process, worldVars, earned>>
  BY <1>1, <1>2, <1>3, <1>4
<1>5. CASE AbortProcess /\ aborting' = TRUE
  BY <1>1, <1>2, <1>3, <1>5 DEF AbortProcess
<1>6. CASE BackgroundAbort /\ aborting' = TRUE
  <2>1. backgroundStatus = "Starting"
    BY DEF Inv, NoPolling
  <2> QED BY <1>1, <1>2, <1>3, <1>6, <2>1 DEF BackgroundAbort
<1>7. CASE AbortRequest /\ aborting' = TRUE
  <2>1. CASE reply = None /\ UNCHANGED <<calls, requested, earned>>
    BY <1>1, <1>2, <1>3, <1>7, <2>1 DEF AbortRequest
  <2>2. CASE reply # None /\ requested' = requested \ {reply}
             /\ \E success \in BOOLEAN :
                  /\ calls' = <<Replied(reply, success), Replied(reply, success)>> \o calls
                  /\ earned' = (earned \/ success)
    <3>1. PICK success \in BOOLEAN :
            /\ calls' = <<Replied(reply, success), Replied(reply, success)>> \o calls
            /\ earned' = (earned \/ success)
      BY <2>2
    <3> DEFINE f == Replied(reply, success)
    <3>2. f \in Frame /\ f.call = "replyHasFinished" /\ reply \in Reply \ {None}
      BY <1>1, <2>2, FrameForms
    <3>3. calls' = <<f, f>> \o calls
      BY <3>1
    <3> HIDE DEF f
    <3>4. Quiet
      BY <1>1, <3>2, <3>3, Took
    <3>5. UNCHANGED <<backgroundStatus, process, running>>
      BY <1>7 DEF AbortRequest
    <3>6. earned' \in BOOLEAN /\ requested' \subseteq requested
      BY <1>1, <2>2, <3>1
    <3> QED BY <1>1, <1>2, <1>7, <2>2, <3>1, <3>2, <3>4, <3>5, <3>6
  <2> QED BY <1>7, <2>1, <2>2 DEF AbortRequest
<1> QED BY <1>4, <1>5, <1>6, <1>7 DEF Abort

\* What the loop takes leaves the invariant, if it begins no instance.
LEMMA LoopInv ==
  ASSUME Inv, Quiet, Phase', posted' \in Seq(PostedEvent),
         \A j \in DOMAIN posted' : \E k \in DOMAIN posted : posted'[j] = posted[k],
         \A k \in DOMAIN posted :
           posted[k].event = "delete" /\ posted[k].process \in running' =>
             \E j \in DOMAIN posted' : posted'[j] = posted[k],
         running' \subseteq running, looked' \subseteq running', requested' \subseteq requested,
         abortTimer' \in {abortTimer, FALSE}, aborting' \in BOOLEAN, earned' \in BOOLEAN,
         UNCHANGED <<instance, remainingTries, abortable, retrying, statusPollingTimer,
                     backgroundStatus, process, reply, given, aborts, tries, stops>>
  PROVE  Inv'
<1>1. OneTryAtATime' /\ TriesLeft'
  BY QuietKeepsTries DEF Inv
<1>2. Types'
  <2>1. IsFiniteSet(running') /\ IsFiniteSet(requested')
    BY FS_Subset DEF Inv, Types
  <2> QED BY <2>1 DEF Inv, Types
<1>3. NoPolling'
  BY DEF Inv, NoPolling
<1>4. Owned'
  <2>1. Mean' = Mean
    BY DEF Mean
  <2>2. ASSUME NEW p \in running'
        PROVE  p = process \/ \E j \in DOMAIN posted' :
                                posted'[j].event = "delete" /\ posted'[j].process = p
    <3>1. CASE p = process
      BY <3>1
    <3>2. CASE p # process
      <4>1. PICK k \in DOMAIN posted : posted[k].event = "delete" /\ posted[k].process = p
        BY <2>2, <3>2 DEF Inv, Owned
      <4>2. PICK j \in DOMAIN posted' : posted'[j] = posted[k]
        BY <4>1
      <4> QED BY <4>1, <4>2
    <3> QED BY <3>1, <3>2
  <2> QED BY <2>1, <2>2 DEF Inv, Owned
<1>5. Deadline'
  BY DEF Inv, Deadline, Types
<1>6. Stacked(calls)'
  BY DEF Quiet, Stacked
<1> QED BY <1>1, <1>2, <1>3, <1>4, <1>5, <1>6 DEF Inv

LEMMA PostedAbortInv == Inv /\ PostedAbort => Inv'
<1> SUFFICES ASSUME Inv, PostedAbort PROVE Inv'
  OBVIOUS
<1> USE DEF taskVars, schedulerVars, toldVars
<1>1. PICK k \in DOMAIN posted : Handling(k, "abort")
  BY DEF PostedAbort
<1>2. posted \in Seq(PostedEvent) /\ DOMAIN posted \subseteq Nat
  BY DEF Inv, Types
<1>3. /\ posted' \in Seq(PostedEvent) /\ posted[k].event = "abort"
      /\ looked' = {} /\ Looping
      /\ \A j \in DOMAIN posted' :
           /\ j < k => j \in DOMAIN posted /\ posted'[j] = posted[j]
           /\ j >= k => j + 1 \in DOMAIN posted /\ posted'[j] = posted[j + 1]
      /\ \A i \in DOMAIN posted :
           /\ i < k => i \in DOMAIN posted' /\ posted'[i] = posted[i]
           /\ i > k => i - 1 \in DOMAIN posted' /\ posted'[i - 1] = posted[i]
  BY <1>1, <1>2, Handled
<1>4. Abort /\ UNCHANGED abortTimer
  BY DEF PostedAbort
<1>5. /\ Quiet /\ aborting' \in BOOLEAN /\ earned' \in BOOLEAN
      /\ requested' \subseteq requested
      /\ UNCHANGED <<taskVars, retrying, statusPollingTimer, reply, schedulerVars,
                     tries, toldVars, backgroundStatus, process, running>>
  BY <1>3, <1>4, AbortIs
<1>6. Phase'
  BY <1>1, <1>2, <1>5, PhaseHandled DEF Inv
<1>7. \A j \in DOMAIN posted' : \E i \in DOMAIN posted : posted'[j] = posted[i]
  <2> TAKE j \in DOMAIN posted'
  <2>1. j < k \/ j >= k
    BY <1>2, <1>3
  <2> QED BY <1>3, <2>1
<1>8. \A i \in DOMAIN posted :
        posted[i].event = "delete" /\ posted[i].process \in running' =>
          \E j \in DOMAIN posted' : posted'[j] = posted[i]
  <2> TAKE i \in DOMAIN posted
  <2>1. posted[i].event = "delete" => i < k \/ i > k
    BY <1>2, <1>3
  <2> QED BY <1>3, <2>1
<1> QED BY <1>3, <1>4, <1>5, <1>6, <1>7, <1>8, LoopInv

LEMMA AbortTimerInv == Inv /\ AbortTimerFires => Inv'
<1> SUFFICES ASSUME Inv, AbortTimerFires PROVE Inv'
  OBVIOUS
<1> USE DEF taskVars, schedulerVars, toldVars
<1>1. Looping /\ abortTimer' = FALSE /\ looked' = {} /\ Abort /\ posted' = posted
  BY DEF AbortTimerFires
<1>2. /\ Quiet /\ aborting' \in BOOLEAN /\ earned' \in BOOLEAN
      /\ requested' \subseteq requested
      /\ UNCHANGED <<taskVars, retrying, statusPollingTimer, reply, schedulerVars,
                     tries, toldVars, backgroundStatus, process, running>>
  BY <1>1, AbortIs
<1>3. Phase'
  BY <1>1, <1>2, PhaseKept DEF Inv
<1>4. posted' \in Seq(PostedEvent)
  BY <1>1 DEF Inv, Types
<1> QED BY <1>1, <1>2, <1>3, <1>4, LoopInv

\* A process that still runs when it is deleted crashes.
LEMMA PostedDeleteIs ==
  ASSUME Inv, PostedDelete
  PROVE  /\ Inv' /\ ~Calling("stopOrRetry")'
         /\ Frames(calls') \subseteq {Call("processError"), Finished("other")} \cup Frames(calls)
<1> USE DEF taskVars, flagVars, timerVars, schedulerVars, toldVars
<1>1. PICK k \in DOMAIN posted :
        /\ Handling(k, "delete")
        /\ calls' = (IF posted[k].process \in running
                     THEN <<Call("processError"), Finished("other")>> ELSE <<>>) \o calls
        /\ running' = running \ {posted[k].process}
  BY DEF PostedDelete
<1>2. posted \in Seq(PostedEvent) /\ DOMAIN posted \subseteq Nat /\ Stacked(calls)
      /\ calls \in Seq(Frame)
  BY DEF Inv, Types, Stacked
<1>3. /\ posted' \in Seq(PostedEvent) /\ posted[k].event = "delete"
      /\ looked' = {} /\ Looping
      /\ \A j \in DOMAIN posted' :
           /\ j < k => j \in DOMAIN posted /\ posted'[j] = posted[j]
           /\ j >= k => j + 1 \in DOMAIN posted /\ posted'[j] = posted[j + 1]
      /\ \A i \in DOMAIN posted :
           /\ i < k => i \in DOMAIN posted' /\ posted'[i] = posted[i]
           /\ i > k => i - 1 \in DOMAIN posted' /\ posted'[i - 1] = posted[i]
  BY <1>1, <1>2, Handled
<1>4. UNCHANGED <<taskVars, flagVars, timerVars, backgroundStatus,
                  process, reply, requested, schedulerVars, tries, earned, toldVars>>
  BY DEF PostedDelete
<1> DEFINE f == Call("processError")
           g == Finished("other")
<1>5. /\ f \in Frame /\ f.call = "processError"
      /\ g \in Frame /\ g.call = "processFinished"
  BY FrameForms DEF ExitCodes
<1>6. calls' \in {calls, <<f>> \o calls, <<f, g>> \o calls}
  BY <1>1, <1>2, ConcatEmptySeq
<1> HIDE DEF f, g
<1>7. Quiet /\ Frames(calls') \subseteq {f, g} \cup Frames(calls)
  BY <1>2, <1>3, <1>5, <1>6, Took
<1>8. Phase'
  BY <1>1, <1>2, <1>4, PhaseHandled DEF Inv
<1>9. \A j \in DOMAIN posted' : \E i \in DOMAIN posted : posted'[j] = posted[i]
  <2> TAKE j \in DOMAIN posted'
  <2>1. j < k \/ j >= k
    BY <1>2, <1>3
  <2> QED BY <1>3, <2>1
<1>10. \A i \in DOMAIN posted :
         posted[i].event = "delete" /\ posted[i].process \in running' =>
           \E j \in DOMAIN posted' : posted'[j] = posted[i]
  <2> TAKE i \in DOMAIN posted
  <2>1. posted[i].process \in running' => i # k
    BY <1>1
  <2>2. posted[i].process \in running' => i < k \/ i > k
    BY <1>2, <2>1
  <2> QED BY <1>3, <2>2
<1>11. aborting' \in BOOLEAN /\ earned' \in BOOLEAN /\ running' \subseteq running
       /\ requested' \subseteq requested
  BY <1>1, <1>4 DEF Inv, Types
<1>12. Inv'
  BY <1>3, <1>4, <1>7, <1>8, <1>9, <1>10, <1>11, LoopInv
<1>13. ~Calling("stopOrRetry")'
  BY <1>7 DEF Quiet
<1> QED BY <1>7, <1>12, <1>13 DEF f, g

LEMMA ProcessEndsIs ==
  ASSUME Inv, ProcessEnds
  PROVE  /\ Inv' /\ ~Calling("stopOrRetry")' /\ instance' = instance
         /\ (earned => earned')
         /\ \/ Frames(calls') \subseteq {Call("processError"), Finished("other")} \cup Frames(calls)
            \/ \E p \in running, code \in ExitCodes :
                 /\ Frames(calls') \subseteq {Finished(code)} \cup Frames(calls)
                 /\ earned' = (earned \/ (p.instance = instance /\ Succeeds(p, code)))
<1> USE DEF taskVars, flagVars, timerVars, schedulerVars, toldVars
<1>1. PICK p \in running :
        /\ looked' = (IF RipeEvents = {} THEN running ELSE looked) \ {p}
        /\ running' = running \ {p}
        /\ \/ \E code \in ExitCodes :
                /\ calls' = <<Finished(code)>> \o calls
                /\ earned' = (earned \/ (p.instance = instance /\ Succeeds(p, code)))
           \/ /\ calls' = <<Call("processError"), Finished("other")>> \o calls
              /\ UNCHANGED earned
           \/ /\ calls' = <<Call("processError")>> \o calls
              /\ UNCHANGED earned
  BY DEF ProcessEnds
<1>2. /\ Looping
      /\ UNCHANGED <<posted, taskVars, flagVars, timerVars, backgroundStatus,
                     process, reply, requested, schedulerVars, tries, toldVars>>
  BY DEF ProcessEnds
<1>3. Stacked(calls) /\ posted \in Seq(PostedEvent) /\ looked \subseteq running
      /\ aborting \in BOOLEAN /\ earned \in BOOLEAN
  BY DEF Inv, Types
<1>4. /\ Call("processError") \in Frame /\ Call("processError").call = "processError"
      /\ \A code \in ExitCodes :
           Finished(code) \in Frame /\ Finished(code).call = "processFinished"
  BY FrameForms
<1>5. ASSUME Quiet, earned' \in BOOLEAN PROVE Inv' /\ ~Calling("stopOrRetry")'
  <2>1. Phase'
    BY <1>2, PhaseKept DEF Inv
  <2>2. looked' \subseteq running' /\ running' \subseteq running
    BY <1>1, <1>3
  <2>3. posted' \in Seq(PostedEvent) /\ posted' = posted /\ aborting' \in BOOLEAN
    BY <1>2, <1>3
  <2>4. Inv'
    BY <1>2, <1>5, <2>1, <2>2, <2>3, LoopInv
  <2> QED BY <1>5, <2>4 DEF Quiet
<1>6. CASE \E code \in ExitCodes :
             /\ calls' = <<Finished(code)>> \o calls
             /\ earned' = (earned \/ (p.instance = instance /\ Succeeds(p, code)))
  <2>1. PICK code \in ExitCodes :
          /\ calls' = <<Finished(code)>> \o calls
          /\ earned' = (earned \/ (p.instance = instance /\ Succeeds(p, code)))
    BY <1>6
  <2> DEFINE f == Finished(code)
  <2>2. f \in Frame /\ f.call = "processFinished" /\ calls' = <<f>> \o calls
    BY <1>4, <2>1
  <2> HIDE DEF f
  <2>3. Quiet /\ Frames(calls') \subseteq {f, f} \cup Frames(calls)
    BY <1>2, <1>3, <2>2, Took
  <2>4. earned' \in BOOLEAN
    BY <2>1
  <2> QED BY <1>2, <1>3, <1>5, <2>1, <2>3, <2>4 DEF f
<1>7. CASE /\ calls' \in {<<Call("processError"), Finished("other")>> \o calls,
                          <<Call("processError")>> \o calls}
           /\ UNCHANGED earned
  <2> DEFINE f == Call("processError")
             g == Finished("other")
  <2>1. /\ f \in Frame /\ f.call = "processError"
        /\ g \in Frame /\ g.call = "processFinished"
    BY <1>4 DEF ExitCodes
  <2>2. calls' \in {calls, <<f>> \o calls, <<f, g>> \o calls}
    BY <1>7
  <2> HIDE DEF f, g
  <2>3. Quiet /\ Frames(calls') \subseteq {f, g} \cup Frames(calls)
    BY <1>2, <1>3, <2>1, <2>2, Took
  <2>4. earned' \in BOOLEAN
    BY <1>3, <1>7
  <2> QED BY <1>2, <1>5, <1>7, <2>3, <2>4 DEF f, g
<1> QED BY <1>1, <1>6, <1>7

LEMMA RequestEndsIs ==
  ASSUME Inv, RequestEnds
  PROVE  /\ Inv' /\ ~Calling("stopOrRetry")' /\ instance' = instance
         /\ \E r \in Reply \ {None}, success \in BOOLEAN :
              /\ Frames(calls') \subseteq {Replied(r, success)} \cup Frames(calls)
              /\ earned' = (earned \/ (r.instance = instance /\ success))
<1> USE DEF taskVars, flagVars, timerVars, schedulerVars, toldVars
<1>1. PICK r \in requested, success \in BOOLEAN :
        /\ requested' = requested \ {r}
        /\ earned' = (earned \/ (r.instance = instance /\ success))
        /\ \/ calls' = <<Replied(r, success)>> \o calls
           \/ calls' = <<Replied(r, success), Replied(r, success)>> \o calls
  BY DEF RequestEnds
<1>2. /\ Looping
      /\ UNCHANGED <<posted, looked, taskVars, flagVars, timerVars,
                     backgroundStatus, process, reply, running,
                     schedulerVars, tries, toldVars>>
  BY DEF RequestEnds
<1>3. Stacked(calls) /\ posted \in Seq(PostedEvent) /\ looked \subseteq running
      /\ aborting \in BOOLEAN /\ earned \in BOOLEAN /\ r \in Reply \ {None}
  BY DEF Inv, Types
<1> DEFINE f == Replied(r, success)
<1>4. f \in Frame /\ f.call = "replyHasFinished"
      /\ calls' \in {calls, <<f>> \o calls, <<f, f>> \o calls}
  BY <1>1, <1>3, FrameForms
<1> HIDE DEF f
<1>5. Quiet /\ Frames(calls') \subseteq {f, f} \cup Frames(calls)
  BY <1>2, <1>3, <1>4, Took
<1>6. Phase'
  BY <1>2, PhaseKept DEF Inv
<1>7. /\ looked' \subseteq running' /\ running' \subseteq running /\ requested' \subseteq requested
      /\ posted' \in Seq(PostedEvent) /\ posted' = posted
      /\ aborting' \in BOOLEAN /\ earned' \in BOOLEAN
  BY <1>1, <1>2, <1>3
<1>8. Inv'
  BY <1>2, <1>5, <1>6, <1>7, LoopInv
<1> QED BY <1>1, <1>2, <1>3, <1>5, <1>8 DEF f, Quiet

LEMMA NoPollingInv == Inv => ~PostedPollStatus /\ ~StatusPollingTimerFires
<1> SUFFICES ASSUME Inv PROVE ~PostedPollStatus /\ ~StatusPollingTimerFires
  OBVIOUS
<1>1. \A k \in DOMAIN posted : posted[k].event # "pollStatus"
  BY DEF Inv, NoPolling
<1> QED BY <1>1 DEF Inv, NoPolling, PostedPollStatus, Handling, StatusPollingTimerFires

-----------------------------------------------------------------------------
(* The scheduler.                                                          *)

\* A step of the scheduler, that only posts an event.
LEMMA SchedulerInv ==
  ASSUME Inv, UNCHANGED executorVars, Phase', posted' \in Seq(PostedEvent),
         given' \in Nat, aborts' \in Nat,
         posted' = posted \/ \E e \in PostedEvent :
           e.event \in {"execute", "abort"} /\ posted' = Append(posted, e)
  PROVE  Inv'
<1> USE DEF executorVars, taskVars, flagVars, timerVars, worldVars, toldVars
<1>1. posted \in Seq(PostedEvent)
  BY DEF Inv, Types
<1>2. /\ \A j \in DOMAIN posted' : posted'[j].event # "pollStatus"
      /\ \A k \in DOMAIN posted : k \in DOMAIN posted' /\ posted'[k] = posted[k]
  <2>1. CASE posted' = posted
    BY <2>1 DEF Inv, NoPolling
  <2>2. CASE posted' # posted
    <3>1. PICK e \in PostedEvent :
            e.event \in {"execute", "abort"} /\ posted' = Append(posted, e)
      BY <2>2
    <3>2. /\ DOMAIN posted' = DOMAIN posted \cup {Len(posted) + 1}
          /\ \A k \in DOMAIN posted : posted'[k] = posted[k]
          /\ posted'[Len(posted) + 1] = e
      BY <1>1, <3>1, Posted
    <3> QED BY <3>1, <3>2 DEF Inv, NoPolling
  <2> QED BY <2>1, <2>2
<1>3. Stacked(calls)' /\ OneTryAtATime' /\ TriesLeft' /\ Deadline'
  BY DEF Inv, Stacked, OneTryAtATime, Between, Deciding, Calling, Pauses, Frames,
         TriesLeft, TriesBounded, Deadline
<1>4. Types' /\ NoPolling'
  BY <1>2 DEF Inv, Types, NoPolling
<1>5. Owned'
  <2>1. Mean' = Mean
    BY DEF Mean
  <2>2. ASSUME NEW p \in running'
        PROVE  p = process \/ \E j \in DOMAIN posted' :
                                posted'[j].event = "delete" /\ posted'[j].process = p
    <3>1. p = process \/ \E k \in DOMAIN posted :
                           posted[k].event = "delete" /\ posted[k].process = p
      BY <2>2 DEF Inv, Owned
    <3> QED BY <1>2, <3>1
  <2> QED BY <2>1, <2>2 DEF Inv, Owned
<1> QED BY <1>3, <1>4, <1>5 DEF Inv

LEMMA StartTaskInstanceInv == Inv /\ StartTaskInstance => Inv'
<1> SUFFICES ASSUME Inv, StartTaskInstance PROVE Inv'
  OBVIOUS
<1> DEFINE i == given + 1
           e == Event("execute", i)
<1>1. /\ available > 0 /\ given < InstanceCount /\ available' = available - 1 /\ given' = i
      /\ posted' = Append(posted, e)
      /\ runningExecutors' = runningExecutors \cup {i}
      /\ UNCHANGED <<stopSignals, aborts, executorVars>>
  BY DEF StartTaskInstance
<1>2. posted \in Seq(PostedEvent) /\ given \in Nat /\ aborts \in Nat
  BY DEF Inv, Types
<1>3. i \in Instances /\ i \in Nat
  BY <1>1, <1>2, InstancesProperties DEF Instances
<1>4. e \in PostedEvent /\ e.event = "execute"
  BY <1>3, EventForms
<1>5. Idle
  BY <1>1 DEF Inv, Phase, Idle, Starting, Executing, Stopped
<1> HIDE DEF e
<1>6. /\ posted' \in Seq(PostedEvent) /\ DOMAIN posted' = DOMAIN posted \cup {Len(posted) + 1}
      /\ \A k \in DOMAIN posted : posted'[k] = posted[k] /\ k < Len(posted) + 1
      /\ posted'[Len(posted) + 1] = e /\ Len(posted) + 1 \in Nat /\ DOMAIN posted \subseteq Nat
  BY <1>1, <1>2, <1>4, Posted
<1>7. Phase'
  <2>1. \E k \in DOMAIN posted' :
          /\ posted'[k] = Event("execute", i)
          /\ \A j \in DOMAIN posted' \ {k} :
               /\ posted'[j].event # "execute"
               /\ j > k => posted'[j] = Event("abort", i)
    <3> DEFINE k == Len(posted) + 1
    <3>1. k \in DOMAIN posted' /\ posted'[k] = Event("execute", i)
      BY <1>6 DEF e
    <3>2. \A j \in DOMAIN posted' \ {k} : posted'[j].event # "execute" /\ ~(j > k)
      BY <1>5, <1>6 DEF Idle, NoExecute
    <3> HIDE DEF k
    <3> QED BY <3>1, <3>2
  <2>2. told' = 1..(i - 1)
    BY <1>1, <1>2, <1>5 DEF Idle, executorVars, toldVars
  <2>3. Starting'
    BY <1>1, <1>5, <2>1, <2>2 DEF Idle, Starting, executorVars, taskVars
  <2> QED BY <1>1, <1>3, <2>3 DEF Phase
<1>8. posted' = posted \/ \E x \in PostedEvent :
        x.event \in {"execute", "abort"} /\ posted' = Append(posted, x)
  BY <1>1, <1>4
<1> QED BY <1>1, <1>2, <1>3, <1>6, <1>7, <1>8, SchedulerInv

LEMMA AbortTaskInstanceInv == Inv /\ AbortTaskInstance => Inv'
<1> SUFFICES ASSUME Inv, AbortTaskInstance PROVE Inv'
  OBVIOUS
<1>1. PICK i \in runningExecutors : posted' = Append(posted, Event("abort", i))
  BY DEF AbortTaskInstance
<1>2. aborts' = aborts + 1
      /\ UNCHANGED <<given, available, runningExecutors, stopSignals, executorVars>>
  BY DEF AbortTaskInstance
<1>3. posted \in Seq(PostedEvent) /\ given \in Nat /\ aborts \in Nat
  BY DEF Inv, Types
<1>4. i = given /\ given \in Instances /\ (Starting \/ Executing \/ Stopped)
  BY DEF Inv, Phase, Idle, Starting, Executing, Stopped
<1> DEFINE e == Event("abort", given)
<1>5. e \in PostedEvent /\ e.event = "abort" /\ posted' = Append(posted, e)
  BY <1>1, <1>4, EventForms
<1> HIDE DEF e
<1>6. /\ posted' \in Seq(PostedEvent) /\ DOMAIN posted' = DOMAIN posted \cup {Len(posted) + 1}
      /\ \A k \in DOMAIN posted : posted'[k] = posted[k] /\ k < Len(posted) + 1
      /\ posted'[Len(posted) + 1] = e /\ Len(posted) + 1 \in Nat /\ Len(posted) + 1 \notin DOMAIN posted
  BY <1>3, <1>5, Posted
<1>7. Phase'
  <2> USE DEF executorVars, taskVars, toldVars
  <2>1. CASE Starting
    <3>1. PICK k \in DOMAIN posted :
            /\ posted[k] = Event("execute", given)
            /\ \A j \in DOMAIN posted \ {k} :
                 /\ posted[j].event # "execute"
                 /\ j > k => posted[j] = Event("abort", given)
      BY <2>1 DEF Starting
    <3>2. /\ k \in DOMAIN posted' /\ posted'[k] = Event("execute", given)
          /\ \A j \in DOMAIN posted' \ {k} :
               /\ posted'[j].event # "execute"
               /\ j > k => posted'[j] = Event("abort", given)
      BY <1>5, <1>6, <3>1 DEF e
    <3>3. Starting'
      BY <1>2, <2>1, <3>2 DEF Starting
    <3> QED BY <1>2, <1>4, <3>3 DEF Phase
  <2>2. CASE Executing
    <3>1. \A k \in DOMAIN posted' :
            /\ posted'[k].event # "execute"
            /\ posted'[k].event = "abort" => posted'[k] = Event("abort", given)
      BY <1>5, <1>6, <2>2 DEF Executing, e
    <3>2. Executing'
      BY <1>2, <2>2, <3>1 DEF Executing
    <3> QED BY <1>2, <1>4, <3>2 DEF Phase
  <2>3. CASE Stopped
    <3>1. NoExecute'
      BY <1>5, <1>6, <2>3 DEF Stopped, NoExecute
    <3>2. Stopped'
      BY <1>2, <2>3, <3>1 DEF Stopped
    <3> QED BY <1>2, <1>4, <3>2 DEF Phase
  <2> QED BY <1>4, <2>1, <2>2, <2>3
<1>8. posted' = posted \/ \E x \in PostedEvent :
        x.event \in {"execute", "abort"} /\ posted' = Append(posted, x)
  BY <1>5
<1> QED BY <1>2, <1>3, <1>6, <1>7, <1>8, SchedulerInv

LEMMA TaskInstanceStoppedInv == Inv /\ TaskInstanceStopped => Inv'
<1> SUFFICES ASSUME Inv, TaskInstanceStopped PROVE Inv'
  OBVIOUS
<1>1. /\ stopSignals # <<>> /\ available' = available + 1
      /\ runningExecutors' = runningExecutors \ {Head(stopSignals).instance}
      /\ stopSignals' = Tail(stopSignals)
      /\ UNCHANGED <<given, aborts, posted, executorVars>>
  BY DEF TaskInstanceStopped
<1>2. Stopped
  BY <1>1 DEF Inv, Phase, Idle, Starting, Executing
<1>3. PICK success \in BOOLEAN :
        stopSignals = <<[instance |-> given, success |-> success]>>
  BY <1>2 DEF Stopped
<1>4. Head(stopSignals).instance = given /\ Tail(stopSignals) = <<>>
  BY <1>3
<1>5. Idle'
  <2>1. given <= InstanceCount
    BY <1>2, InstancesProperties DEF Inv, Phase, Idle, Stopped, Instances
  <2> QED BY <1>1, <1>2, <1>4, <2>1
          DEF Stopped, Idle, NoExecute, executorVars, taskVars, toldVars
<1>6. posted' \in Seq(PostedEvent) /\ given' \in Nat /\ aborts' \in Nat
  BY <1>1 DEF Inv, Types
<1> QED BY <1>1, <1>5, <1>6, SchedulerInv DEF Phase

-----------------------------------------------------------------------------
(* The invariant.                                                          *)

LEMMA NextInv ==
  ASSUME NoBackground, Inv, [Next]_vars
  PROVE  Inv'
<1>1. CASE Next
  <2>1. CASE ExecuteOneTry
    BY <2>1, ExecuteOneTryInv
  <2>2. CASE ProcessError
    BY <2>2, ProcessErrorInv
  <2>3. CASE ProcessFinished
    BY <2>3, ProcessFinishedInv
  <2>4. CASE ReplyHasFinished
    BY <2>4, ReplyHasFinishedInv
  <2>5. CASE StopOrRetry
    BY <2>5, StopOrRetryInv
  <2>6. CASE Execute
    BY <2>6, ExecuteInv
  <2>7. CASE PostedAbort
    BY <2>7, PostedAbortInv
  <2>8. CASE PostedDelete
    BY <2>8, PostedDeleteIs
  <2>9. CASE PostedPollStatus \/ StatusPollingTimerFires
    BY <2>9, NoPollingInv
  <2>10. CASE PauseEnds
    BY <2>10, PauseEndsInv
  <2>11. CASE AbortTimerFires
    BY <2>11, AbortTimerInv
  <2>12. CASE ProcessEnds
    BY <2>12, ProcessEndsIs
  <2>13. CASE RequestEnds
    BY <2>13, RequestEndsIs
  <2>14. CASE StartTaskInstance
    BY <2>14, StartTaskInstanceInv
  <2>15. CASE AbortTaskInstance
    BY <2>15, AbortTaskInstanceInv
  <2>16. CASE TaskInstanceStopped
    BY <2>16, TaskInstanceStoppedInv
  <2> QED BY <1>1, <2>1, <2>2, <2>3, <2>4, <2>5, <2>6, <2>7, <2>8, <2>9, <2>10, <2>11,
             <2>12, <2>13, <2>14, <2>15, <2>16 DEF Next, Step, HandlePosted
<1>2. CASE UNCHANGED vars
  <2> USE DEF vars, taskVars, flagVars, timerVars, worldVars, schedulerVars, toldVars
  <2>1. Stacked(calls)' /\ OneTryAtATime' /\ TriesLeft' /\ Deadline'
    BY <1>2 DEF Inv, Stacked, OneTryAtATime, Between, Deciding, Calling, Pauses, Frames,
                TriesLeft, TriesBounded, Deadline
  <2>2. Types' /\ NoPolling' /\ Owned'
    BY <1>2 DEF Inv, Types, NoPolling, Owned, Mean
  <2>3. Phase'
    BY <1>2, PhaseKept DEF Inv
  <2> QED BY <2>1, <2>2, <2>3 DEF Inv
<1> QED BY <1>1, <1>2

\* The invariant holds in every state.
LEMMA AlwaysInv ==
  ASSUME NoBackground
  PROVE  Spec => []Inv
<1>1. Init => Inv
  BY InitInv
<1>2. Inv /\ [Next]_vars => Inv'
  BY NextInv
<1> QED BY <1>1, <1>2, PTL DEF Spec

-----------------------------------------------------------------------------
(* Types, tries, and the view of the scheduler.                            *)

\* Every variable has its type: what is signaled is an instance, what is posted
\* is for one, and every call has its arguments, as long as no task is a
\* background task.
THEOREM ExecutorTypeCorrect ==
  ASSUME NoBackground
  PROVE  Spec => []TypeOK
<1>1. Inv => TypeOK
  <2> SUFFICES ASSUME Inv PROVE TypeOK
    OBVIOUS
  <2>1. Types /\ NoPolling /\ calls \in Seq(Frame)
    BY DEF Inv, Stacked
  <2>2. /\ runningExecutors \subseteq Instances /\ told \subseteq Instances
        /\ stopSignals \in Seq([instance: Instances, success: BOOLEAN])
        /\ available \in Nat
    <3>1. given \in Nat /\ (given \in Instances \/ Idle)
      BY <2>1 DEF Inv, Phase, Types
    <3>2. CASE Idle
      <4>1. 1..given \subseteq Instances
        BY <3>1, <3>2, InstancesProperties DEF Idle, Instances
      <4> QED BY <3>2, <4>1 DEF Idle
    <3>3. CASE given \in Instances /\ (Starting \/ Executing \/ Stopped)
      <4>1. 1..given \subseteq Instances /\ 1..(given - 1) \subseteq Instances
        BY <3>1, <3>3, InstancesProperties DEF Instances
      <4>2. \A success \in BOOLEAN :
              <<[instance |-> given, success |-> success]>>
                \in Seq([instance: Instances, success: BOOLEAN])
        BY <3>3
      <4>3. <<>> \in Seq([instance: Instances, success: BOOLEAN])
        OBVIOUS
      <4>4. told \subseteq Instances /\ runningExecutors \subseteq Instances /\ available = 0
        BY <3>3, <4>1 DEF Starting, Executing, Stopped
      <4>5. stopSignals \in Seq([instance: Instances, success: BOOLEAN])
        BY <3>3, <4>2, <4>3 DEF Starting, Executing, Stopped
      <4> QED BY <4>4, <4>5
    <3> QED BY <3>2, <3>3 DEF Inv, Phase
  <2>3. {abortable, aborting, earned, retrying, abortTimer, statusPollingTimer} \subseteq BOOLEAN
    BY <2>1 DEF Types, NoPolling
  <2>4. {given, available, aborts, tries, stops} \subseteq Nat
    BY <2>1, <2>2 DEF Types
  <2> QED BY <2>1, <2>2, <2>3, <2>4 DEF Types, NoPolling, TypeOK
<1>2. Spec => []Inv
  BY AlwaysInv
<1> QED BY <1>1, <1>2, PTL

\* For any task configurations, without background tasks: an instance is tried at
\* most maxtries times, or once.
THEOREM TriesAreBounded ==
  ASSUME NoBackground
  PROVE  Spec => []TriesBounded
<1>1. Inv => TriesBounded
  BY DEF Inv, TriesLeft
<1>2. Spec => []Inv
  BY AlwaysInv
<1> QED BY <1>1, <1>2, PTL

\* The steps that leave alone what the scheduler sees, and the one that begins an
\* instance.
LEMMA ViewStep ==
  ASSUME NoBackground, Inv, [Next]_vars
  PROVE  [View!Next]_View!vars
<1> USE DEF taskVars, flagVars, timerVars, worldVars, schedulerVars, toldVars, View!vars
<1>1. SUFFICES ASSUME Next PROVE [View!Next]_View!vars
  BY DEF vars
<1>2. CASE ExecuteOneTry
  BY <1>2 DEF ExecuteOneTry
<1>3. CASE ProcessError \/ ProcessFinished \/ ReplyHasFinished
  BY <1>3 DEF ProcessError, ProcessFinished, ReplyHasFinished
<1>4. ASSUME instance # NoInstance, instance' = NoInstance, told' = told \cup {instance},
             stops' = stops + 1
      PROVE  View!End
  BY <1>4 DEF View!End
<1>5. CASE StopOrRetry
  <2> DEFINE success == Head(calls).success
  <2>1. /\ instance # NoInstance /\ calls # <<>> /\ ~Pauses(Tail(calls))
        /\ success \in BOOLEAN /\ process = None /\ reply = None
        /\ UNCHANGED <<posted, process, reply, looked, flagVars, backgroundStatus,
                       worldVars, tries, earned>>
        /\ (Again(success) /\ Retry(Tail(calls))) \/ Stop(success, Tail(calls))
    BY <1>5, StopOrRetryIs
  <2> HIDE DEF success
  <2>2. CASE Stop(success, Tail(calls))
    <3>1. instance' = NoInstance /\ told' = told \cup {instance} /\ stops' = stops + 1
      BY <2>1, <2>2, StopInv
    <3> QED BY <1>4, <2>1, <3>1 DEF View!Next
  <2>3. CASE Again(success) /\ Retry(Tail(calls))
    BY <2>3 DEF Retry
  <2> QED BY <2>1, <2>2, <2>3
<1>6. CASE PauseEnds
  <2>1. /\ instance # NoInstance /\ calls # <<>> /\ ~Pauses(Tail(calls))
        /\ process = None /\ reply = None
        /\ UNCHANGED <<posted, looked, flagVars, backgroundStatus, process,
                       reply, worldVars, tries, earned>>
        /\ \/ Stop(FALSE, Tail(calls))
           \/ UNCHANGED <<taskVars, timerVars, schedulerVars, toldVars>>
    BY <1>6, PauseEndsIs
  <2>2. CASE Stop(FALSE, Tail(calls))
    <3>1. instance' = NoInstance /\ told' = told \cup {instance} /\ stops' = stops + 1
      BY <2>1, <2>2, StopInv
    <3> QED BY <1>4, <2>1, <3>1 DEF View!Next
  <2> QED BY <2>1, <2>2
<1>7. CASE Execute
  <2>1. instance = NoInstance /\ instance' = given /\ given \in Instances /\ Starting
        /\ UNCHANGED toldVars
    BY <1>7, ExecuteIs
  <2>2. given \notin told
    BY <2>1, InstancesProperties DEF Starting
  <2>3. View!Begin(given)
    BY <2>1, <2>2 DEF View!Begin
  <2> QED BY <2>1, <2>3 DEF View!Next
<1>8. CASE PostedAbort \/ AbortTimerFires
  BY <1>8 DEF PostedAbort, AbortTimerFires, Abort
<1>9. CASE PostedPollStatus \/ StatusPollingTimerFires
  BY <1>9, NoPollingInv
<1>10. CASE PostedDelete \/ ProcessEnds \/ RequestEnds
  BY <1>10 DEF PostedDelete, ProcessEnds, RequestEnds
<1>11. CASE StartTaskInstance \/ AbortTaskInstance \/ TaskInstanceStopped
  BY <1>11 DEF StartTaskInstance, AbortTaskInstance, TaskInstanceStopped, executorVars
<1> QED BY <1>1, <1>2, <1>3, <1>5, <1>6, <1>7, <1>8, <1>9, <1>10, <1>11
        DEF Next, Step, HandlePosted

\* For any task configurations, without background tasks: whatever commands,
\* requests, aborts, timers and pauses do, instances are executed one at a time,
\* and each one is told once to have stopped.
THEOREM ExecutionImplemented ==
  ASSUME NoBackground
  PROVE  Spec => ImplementsExecution
<1>1. Init => View!Init
  BY DEF Init, View!Init
<1>2. Inv /\ [Next]_vars => [View!Next]_View!vars
  BY ViewStep
<1>3. Spec => []Inv
  BY AlwaysInv
<1> QED BY <1>1, <1>2, <1>3, PTL DEF Spec, ImplementsExecution, View!Spec

-----------------------------------------------------------------------------
(* What an instance leaves to the next one.                                *)

\* For any task configurations, without background tasks: when an instance
\* begins, no process of a former one still runs, no timer and no abort of a
\* former one is left.
THEOREM NothingIsLeft ==
  ASSUME NoBackground
  PROVE  Spec => LeavesNothingBehind
<1>1. Inv => TimersAreOwn /\ AbortsAreOwn
  <2> SUFFICES ASSUME Inv PROVE TimersAreOwn /\ AbortsAreOwn
    OBVIOUS
  <2>1. TimersAreOwn
    BY DEF Inv, Deadline, NoPolling, TimersAreOwn
  <2>2. AbortsAreOwn
    <3>1. instance # NoInstance => Executing
      BY PhaseProperties DEF Inv
    <3> QED BY <3>1, EventForms DEF Executing, AbortsAreOwn
  <2> QED BY <2>1, <2>2
<1>2. ASSUME Inv, [Next]_vars
      PROVE  [instance = NoInstance /\ instance' # NoInstance => running = {}]_vars
  <2> SUFFICES ASSUME instance = NoInstance, instance' # NoInstance PROVE running = {}
    OBVIOUS
  <2> USE DEF taskVars
  <2>1. Next
    BY <1>2 DEF vars
  <2>2. ~StopOrRetry /\ ~PauseEnds
    BY <1>2, StopOrRetryIs, PauseEndsIs
  <2>3. ~ExecuteOneTry /\ ~ProcessError /\ ~ProcessFinished /\ ~ReplyHasFinished
    BY DEF ExecuteOneTry, ProcessError, ProcessFinished, ReplyHasFinished
  <2>4. ~PostedAbort /\ ~AbortTimerFires /\ ~PostedPollStatus /\ ~StatusPollingTimerFires
    BY DEF PostedAbort, AbortTimerFires, Abort, PostedPollStatus, StatusPollingTimerFires,
           PollStatus
  <2>5. ~PostedDelete /\ ~ProcessEnds /\ ~RequestEnds
    BY DEF PostedDelete, ProcessEnds, RequestEnds
  <2>6. ~StartTaskInstance /\ ~AbortTaskInstance /\ ~TaskInstanceStopped
    BY DEF StartTaskInstance, AbortTaskInstance, TaskInstanceStopped, executorVars
  <2>7. Execute
    BY <2>1, <2>2, <2>3, <2>4, <2>5, <2>6 DEF Next, Step, HandlePosted
  <2> QED BY <1>2, <2>7, ExecuteIs
<1>3. Spec => []Inv
  BY AlwaysInv
<1> QED BY <1>1, <1>2, <1>3, PTL DEF Spec, LeavesNothingBehind, NothingLeftRunning

-----------------------------------------------------------------------------
(* The outcomes of an instance.                                            *)

\* A step that pushes calls that say no success that is not earned.
LEMMA EarnedKept ==
  ASSUME Inv, Earned, instance' = instance, earned => earned',
         \A f \in Frames(calls') \ Frames(calls) : SaysSuccess(f) => earned',
         ~Calling("stopOrRetry")'
  PROVE  Earned'
<1>1. Frames(calls)' = Frames(calls')
  BY DEF Frames
<1>2. \A f : SaysSuccess(f)' = SaysSuccess(f)
  BY DEF SaysSuccess, Mean
<1>3. \A f \in Frames(calls') : SaysSuccess(f) => earned'
  BY DEF Earned
<1>4. \A f \in Frames(calls)' : SaysSuccess(f)' => earned'
  BY <1>1, <1>2, <1>3
<1> QED BY <1>4 DEF Earned

\* A step that decides, with a success that is earned if there is one.
LEMMA EarnedDecided ==
  ASSUME Inv, Earned, NEW success \in BOOLEAN, calls # <<>>,
         calls' = <<Stopping(success)>> \o Tail(calls),
         UNCHANGED <<instance, earned>>, success => earned \/ Mean = "Nothing"
  PROVE  Earned'
<1>1. /\ Stopping(success) \in Frame /\ Stopping(success).call = "stopOrRetry"
      /\ Stopping(success).success = success /\ Stacked(calls)
  BY FrameForms DEF Inv
<1>2. /\ calls' # <<>> /\ Head(calls') = Stopping(success)
      /\ Frames(calls') \subseteq {Stopping(success)} \cup Frames(calls)
  BY <1>1, Replaced
<1>3. Frames(calls)' = Frames(calls')
  BY DEF Frames
<1>4. Mean' = Mean /\ \A f : SaysSuccess(f)' = SaysSuccess(f)
  BY DEF SaysSuccess, Mean
<1>5. ~SaysSuccess(Stopping(success))
  BY <1>1 DEF SaysSuccess
<1>6. \A f \in Frames(calls') : SaysSuccess(f) => earned
  BY <1>2, <1>5 DEF Earned
<1>7. \A f \in Frames(calls)' : SaysSuccess(f)' => earned'
  BY <1>3, <1>4, <1>6
<1>8. Head(calls)'.success = success
  BY <1>1, <1>2
<1> QED BY <1>4, <1>7, <1>8 DEF Earned

LEMMA NextEarned ==
  ASSUME NoBackground, CrashIsNoSuccess, Inv, Earned, [Next]_vars
  PROVE  Earned'
<1> USE DEF taskVars, flagVars, timerVars, worldVars, schedulerVars, toldVars
<1>1. \A name \in {"processError", "executeOneTry", "pause"} : ~SaysSuccess(Call(name))
  BY FrameForms DEF SaysSuccess
<1>2. ~SaysSuccess(Finished("other"))
  <2>1. "other" \in ExitCodes
    BY DEF ExitCodes
  <2>2. Finished("other").call = "processFinished" /\ Finished("other").code = "other"
    BY <2>1, FrameForms
  <2>3. instance # NoInstance => "other" \notin Config[instance].successes
    BY DEF CrashIsNoSuccess, Inv, Types
  <2> QED BY <2>2, <2>3 DEF SaysSuccess, Mean
<1>3. Stacked(calls) /\ earned \in BOOLEAN
  BY DEF Inv, Types
<1>4. CASE UNCHANGED <<calls, instance, earned>>
  BY <1>4 DEF Earned, Calling, SaysSuccess, Mean, Frames
<1>5. CASE ExecuteOneTry
  <2>1. /\ calls # <<>> /\ UNCHANGED <<instance, earned>>
        /\ \/ \E success \in BOOLEAN :
                /\ calls' = <<Stopping(success)>> \o Tail(calls)
                /\ success => Mean = "Nothing"
           \/ LocalMean
           \/ /\ Mean = "Http" /\ abortable' = TRUE /\ PerformRequest(Tail(calls))
              /\ UNCHANGED <<statusPollingTimer, backgroundStatus, process>>
    BY <1>5, ExecuteOneTryIs
  <2>2. CASE \E success \in BOOLEAN :
               /\ calls' = <<Stopping(success)>> \o Tail(calls)
               /\ success => Mean = "Nothing"
    BY <2>1, <2>2, EarnedDecided
  <2>3. CASE LocalMean
    <3>1. /\ Frames(calls') \subseteq {Call("processError")} \cup Frames(calls)
          /\ ~Calling("stopOrRetry")'
      BY <1>5, <2>3, LocalMeanInv
    <3>2. \A f \in {Call("processError")} : SaysSuccess(f) => earned'
      BY <1>1
    <3> QED BY <2>1, <3>1, <3>2, EarnedKept
  <2>4. CASE /\ Mean = "Http" /\ abortable' = TRUE /\ PerformRequest(Tail(calls))
             /\ UNCHANGED <<statusPollingTimer, backgroundStatus, process>>
    <3>1. \/ calls' = <<Stopping(FALSE)>> \o Tail(calls)
          \/ Frames(calls') \subseteq Frames(calls) /\ ~Calling("stopOrRetry")'
      BY <1>5, <2>4, HttpMeanInv
    <3>2. CASE calls' = <<Stopping(FALSE)>> \o Tail(calls)
      BY <2>1, <3>2, EarnedDecided
    <3>3. CASE Frames(calls') \subseteq Frames(calls) /\ ~Calling("stopOrRetry")'
      BY <2>1, <3>3, EarnedKept
    <3> QED BY <3>1, <3>2, <3>3
  <2> QED BY <2>1, <2>2, <2>3, <2>4
<1>6. CASE ProcessError
  <2>1. /\ calls # <<>> /\ UNCHANGED <<instance, earned>>
        /\ calls' = (IF process = None THEN <<>> ELSE <<Finished("other")>>) \o Tail(calls)
    BY <1>6 DEF ProcessError, Calling
  <2>2. CASE process = None
    <3>1. Tail(calls) \in Seq(Frame)
      BY <1>3, <2>1, Popped DEF Resting
    <3>2. calls' = Tail(calls)
      BY <2>1, <2>2, <3>1, ConcatEmptySeq
    <3>3. Quiet /\ Frames(calls') \subseteq Frames(calls)
      BY <1>3, <2>1, <3>2, Returned
    <3> QED BY <2>1, <3>3, EarnedKept DEF Quiet
  <2>3. CASE process # None
    <3>1. Finished("other") \in Frame /\ Finished("other").call = "processFinished"
      BY FrameForms DEF ExitCodes
    <3>2. calls' = <<Finished("other")>> \o Tail(calls)
      BY <2>1, <2>3
    <3>3. Quiet /\ Frames(calls') \subseteq {Finished("other")} \cup Frames(calls)
      BY <1>3, <2>1, <3>1, <3>2, Replaced
    <3>4. \A f \in {Finished("other")} : SaysSuccess(f) => earned'
      BY <1>2
    <3> QED BY <2>1, <3>3, <3>4, EarnedKept DEF Quiet
  <2> QED BY <2>2, <2>3
<1>7. CASE ProcessFinished
  <2>1. /\ calls # <<>> /\ Head(calls).call = "processFinished" /\ UNCHANGED <<instance, earned>>
    BY <1>7 DEF ProcessFinished, Calling
  <2>2. CASE process = None
    <3>1. calls' = Tail(calls)
      BY <1>7, <2>2 DEF ProcessFinished
    <3>2. Quiet /\ Frames(calls') \subseteq Frames(calls)
      BY <1>3, <2>1, <3>1, Returned
    <3> QED BY <2>1, <3>2, EarnedKept DEF Quiet
  <2>3. CASE process # None
    <3> DEFINE success == Head(calls).code \in Config[instance].successes
    <3>1. calls' = <<Stopping(success)>> \o Tail(calls) /\ success \in BOOLEAN
      BY <1>7, <2>3, ProcessFinishedIs
    <3>2. success => earned
      <4>1. Mean = "Local" /\ Head(calls) \in Frames(calls)
        BY <1>3, <2>1, <2>3, PendingProperties, Popped
      <4> QED BY <2>1, <4>1 DEF Earned, SaysSuccess
    <3> HIDE DEF success
    <3> QED BY <2>1, <3>1, <3>2, EarnedDecided
  <2> QED BY <2>2, <2>3
<1>8. CASE ReplyHasFinished
  <2>1. /\ calls # <<>> /\ Head(calls).call = "replyHasFinished"
        /\ UNCHANGED <<instance, earned>>
    BY <1>8 DEF ReplyHasFinished, Calling
  <2>2. CASE reply = None \/ Head(calls).reply # reply
    <3>1. calls' = Tail(calls)
      BY <1>8, <2>2 DEF ReplyHasFinished
    <3>2. Quiet /\ Frames(calls') \subseteq Frames(calls)
      BY <1>3, <2>1, <3>1, Returned
    <3> QED BY <2>1, <3>2, EarnedKept DEF Quiet
  <2>3. CASE ~(reply = None \/ Head(calls).reply # reply)
    <3>1. calls' = <<Stopping(Head(calls).success)>> \o Tail(calls)
      BY <1>8, <2>3 DEF ReplyHasFinished
    <3>2. Head(calls).success \in BOOLEAN /\ Head(calls) \in Frames(calls)
      BY <1>3, <2>1, Popped, FrameFields
    <3>3. Head(calls).success => earned
      <4>1. instance # NoInstance /\ reply.instance = instance
        BY <2>3, PendingProperties, InstancesProperties DEF Inv, Owned
      <4> QED BY <2>1, <2>3, <3>2, <4>1 DEF Earned, SaysSuccess
    <3> QED BY <2>1, <3>1, <3>2, <3>3, EarnedDecided
  <2> QED BY <2>2, <2>3
<1>9. ASSUME NEW success \in BOOLEAN, calls # <<>>, ~Pauses(Tail(calls)), process = None,
             reply = None, instance # NoInstance, Stop(success, Tail(calls)),
             UNCHANGED <<posted, process, reply, looked, flagVars, backgroundStatus,
                         worldVars, tries, earned>>
      PROVE  Earned'
  <2>1. instance' = NoInstance /\ ~Calling("stopOrRetry")'
    BY <1>9, StopInv
  <2> QED BY <2>1 DEF Earned, SaysSuccess, Mean
<1>10. ASSUME instance # NoInstance, calls # <<>>, ~Pauses(Tail(calls)),
              process = None, reply = None, remainingTries > 0, ~aborting,
              NEW name \in {"pause", "executeOneTry"}, calls' = <<Call(name)>> \o Tail(calls),
              UNCHANGED <<posted, looked, taskVars, flagVars, timerVars, backgroundStatus,
                          process, reply, worldVars, schedulerVars, tries, earned, toldVars>>
       PROVE  Earned'
  <2>1. Frames(calls') \subseteq {Call(name)} \cup Frames(calls) /\ ~Calling("stopOrRetry")'
    BY <1>10, AgainInv
  <2>2. \A f \in {Call(name)} : SaysSuccess(f) => earned'
    BY <1>1
  <2>3. instance' = instance /\ (earned => earned')
    BY <1>10
  <2> QED BY <2>1, <2>2, <2>3, EarnedKept
<1>11. CASE StopOrRetry
  <2> DEFINE success == Head(calls).success
  <2>1. /\ instance # NoInstance /\ calls # <<>> /\ ~Pauses(Tail(calls))
        /\ success \in BOOLEAN /\ process = None /\ reply = None
        /\ UNCHANGED <<posted, process, reply, looked, flagVars, backgroundStatus,
                       worldVars, tries, earned>>
        /\ (Again(success) /\ Retry(Tail(calls))) \/ Stop(success, Tail(calls))
    BY <1>11, StopOrRetryIs
  <2> HIDE DEF success
  <2>2. CASE Stop(success, Tail(calls))
    BY <1>9, <2>1, <2>2
  <2>3. CASE Again(success) /\ Retry(Tail(calls))
    <3> DEFINE name == IF Pause THEN "pause" ELSE "executeOneTry"
    <3>1. /\ calls' = <<Call(name)>> \o Tail(calls)
          /\ UNCHANGED <<taskVars, timerVars, schedulerVars, toldVars>>
      BY <2>3 DEF Retry
    <3>2. name \in {"pause", "executeOneTry"} /\ remainingTries > 0 /\ ~aborting
      BY <2>3 DEF Again
    <3> HIDE DEF name
    <3> QED BY <1>10, <2>1, <3>1, <3>2
  <2> QED BY <2>1, <2>2, <2>3
<1>12. CASE PauseEnds
  <2>1. /\ instance # NoInstance /\ calls # <<>> /\ ~Pauses(Tail(calls))
        /\ process = None /\ reply = None /\ remainingTries > 0
        /\ UNCHANGED <<posted, looked, flagVars, backgroundStatus, process,
                       reply, worldVars, tries, earned>>
        /\ \/ Stop(FALSE, Tail(calls))
           \/ /\ ~aborting /\ calls' = <<Call("executeOneTry")>> \o Tail(calls)
              /\ UNCHANGED <<taskVars, timerVars, schedulerVars, toldVars>>
    BY <1>12, PauseEndsIs
  <2> QED BY <1>9, <1>10, <2>1
<1>13. CASE Execute
  <2>1. calls = <<>> /\ calls' = <<Call("executeOneTry")>> \o calls /\ ~Calling("stopOrRetry")'
    BY <1>13, ExecuteIs, ExecuteInv
  <2>2. Call("executeOneTry") \in Frame /\ Call("executeOneTry").call = "executeOneTry"
    BY FrameForms
  <2>3. Frames(calls') = {Call("executeOneTry")} \cup Frames(<<>>) /\ Frames(<<>>) = {}
    BY <2>1, <2>2, Pushed, EmptyStack
  <2>4. Frames(calls)' = Frames(calls')
    BY DEF Frames
  <2>5. ~SaysSuccess(Call("executeOneTry"))'
    BY <2>2 DEF SaysSuccess
  <2> QED BY <2>1, <2>3, <2>4, <2>5 DEF Earned
<1>14. CASE PostedAbort \/ AbortTimerFires
  <2>1. Abort /\ Looping /\ instance' = instance
    <3>1. Abort /\ Looping
      BY <1>14 DEF PostedAbort, AbortTimerFires, Handling
    <3> QED BY <3>1 DEF Abort
  <2>2. /\ Quiet
        /\ \/ calls' = calls /\ earned' = earned
           \/ \E success \in BOOLEAN :
                /\ calls' = <<Replied(reply, success), Replied(reply, success)>> \o calls
                /\ earned' = (earned \/ success) /\ reply \in Reply \ {None}
    BY <2>1, AbortIs
  <2>3. CASE calls' = calls /\ earned' = earned
    BY <1>4, <2>1, <2>3
  <2>4. CASE \E success \in BOOLEAN :
               /\ calls' = <<Replied(reply, success), Replied(reply, success)>> \o calls
               /\ earned' = (earned \/ success) /\ reply \in Reply \ {None}
    <3>1. PICK success \in BOOLEAN :
            /\ calls' = <<Replied(reply, success), Replied(reply, success)>> \o calls
            /\ earned' = (earned \/ success) /\ reply \in Reply \ {None}
      BY <2>4
    <3> DEFINE f == Replied(reply, success)
    <3>2. f \in Frame /\ f.call = "replyHasFinished" /\ f.success = success
      BY <3>1, FrameForms
    <3>3. calls' = <<f, f>> \o calls
      BY <3>1
    <3> HIDE DEF f
    <3>4. Frames(calls') \subseteq {f, f} \cup Frames(calls)
      BY <1>3, <2>1, <3>2, <3>3, Took
    <3>5. \A g \in {f, f} : SaysSuccess(g) => earned'
      BY <3>1, <3>2 DEF SaysSuccess
    <3> QED BY <2>1, <2>2, <3>1, <3>4, <3>5, EarnedKept DEF Quiet
  <2> QED BY <2>2, <2>3, <2>4
<1>15. CASE PostedPollStatus \/ StatusPollingTimerFires
  BY <1>15, NoPollingInv
<1>16. CASE PostedDelete
  <2> DEFINE F == {Call("processError"), Finished("other")}
  <2>1. Frames(calls') \subseteq F \cup Frames(calls) /\ ~Calling("stopOrRetry")'
    BY <1>16, PostedDeleteIs
  <2>2. \A f \in F : SaysSuccess(f) => earned'
    BY <1>1, <1>2
  <2>3. UNCHANGED <<instance, earned>>
    BY <1>16 DEF PostedDelete
  <2> HIDE DEF F
  <2> QED BY <2>1, <2>2, <2>3, EarnedKept
<1>17. CASE ProcessEnds
  <2> DEFINE F == {Call("processError"), Finished("other")}
  <2>1. /\ ~Calling("stopOrRetry")' /\ instance' = instance /\ (earned => earned')
        /\ \/ Frames(calls') \subseteq F \cup Frames(calls)
           \/ \E p \in running, code \in ExitCodes :
                /\ Frames(calls') \subseteq {Finished(code)} \cup Frames(calls)
                /\ earned' = (earned \/ (p.instance = instance /\ Succeeds(p, code)))
    BY <1>17, ProcessEndsIs
  <2>2. \A f \in F : SaysSuccess(f) => earned'
    BY <1>1, <1>2
  <2> HIDE DEF F
  <2>3. CASE Frames(calls') \subseteq F \cup Frames(calls)
    BY <2>1, <2>2, <2>3, EarnedKept
  <2>4. CASE \E p \in running, code \in ExitCodes :
               /\ Frames(calls') \subseteq {Finished(code)} \cup Frames(calls)
               /\ earned' = (earned \/ (p.instance = instance /\ Succeeds(p, code)))
    <3>1. PICK p \in running, code \in ExitCodes :
            /\ Frames(calls') \subseteq {Finished(code)} \cup Frames(calls)
            /\ earned' = (earned \/ (p.instance = instance /\ Succeeds(p, code)))
      BY <2>4
    <3>2. Finished(code).call = "processFinished" /\ Finished(code).code = code
      BY FrameForms
    <3>3. SaysSuccess(Finished(code)) => earned'
      <4> SUFFICES ASSUME SaysSuccess(Finished(code)) PROVE earned'
        OBVIOUS
      <4>1. Mean = "Local" /\ code \in Config[instance].successes
        BY <3>2 DEF SaysSuccess
      <4>2. instance # NoInstance /\ Config[instance].mean = "Local"
        BY <4>1 DEF Mean
      <4>3. p.instance = instance /\ p.kind = "try"
        BY <4>2 DEF Inv, Owned
      <4> QED BY <3>1, <4>1, <4>2, <4>3 DEF Succeeds
    <3>4. \A f \in {Finished(code)} : SaysSuccess(f) => earned'
      BY <3>3
    <3> QED BY <2>1, <3>1, <3>4, EarnedKept
  <2> QED BY <2>1, <2>3, <2>4
<1>18. CASE RequestEnds
  <2>1. ~Calling("stopOrRetry")' /\ instance' = instance
    BY <1>18, RequestEndsIs
  <2>2. PICK r \in Reply \ {None}, success \in BOOLEAN :
          /\ Frames(calls') \subseteq {Replied(r, success)} \cup Frames(calls)
          /\ earned' = (earned \/ (r.instance = instance /\ success))
    BY <1>18, RequestEndsIs
  <2>3. /\ Replied(r, success).call = "replyHasFinished"
        /\ Replied(r, success).reply = r /\ Replied(r, success).success = success
    BY FrameForms
  <2>4. \A f \in {Replied(r, success)} : SaysSuccess(f) => earned'
    BY <2>2, <2>3 DEF SaysSuccess
  <2>5. earned => earned'
    BY <2>2
  <2> QED BY <2>1, <2>2, <2>4, <2>5, EarnedKept
<1>19. CASE StartTaskInstance \/ AbortTaskInstance \/ TaskInstanceStopped \/ UNCHANGED vars
  BY <1>4, <1>19 DEF StartTaskInstance, AbortTaskInstance, TaskInstanceStopped, executorVars,
                     vars
<1> QED BY <1>5, <1>6, <1>7, <1>8, <1>11, <1>12, <1>13, <1>14, <1>15, <1>16, <1>17, <1>18, <1>19
        DEF Next, Step, HandlePosted

\* For any task configurations, without background tasks: no try comes after an
\* abort, and an instance succeeds only by its own command or request, if a
\* crash is no success.
THEOREM OutcomesAreOwn ==
  ASSUME NoBackground, CrashIsNoSuccess
  PROVE  Spec => OutcomesAreEarned
<1> USE DEF taskVars, flagVars, timerVars, worldVars, schedulerVars, toldVars
<1>1. Init => Earned
  <2> SUFFICES ASSUME Init PROVE Earned
    OBVIOUS
  <2>1. calls = <<>> /\ Frames(<<>>) = {}
    BY EmptyStack DEF Init
  <2> QED BY <2>1 DEF Earned, Calling
<1>2. Inv /\ Earned /\ [Next]_vars => Earned'
  BY NextEarned
<1>3. ASSUME Inv, [Next]_vars
      PROVE  [\/ process' \notin {process, None} /\ process'.kind = "try"
              \/ reply' \notin {reply, None}
              => ~aborting]_vars
  <2> SUFFICES ASSUME process' \notin {process, None} \/ reply' \notin {reply, None}
               PROVE  ~aborting
    OBVIOUS
  <2>1. Next
    BY <1>3 DEF vars
  <2>2. ~ProcessError /\ ~ProcessFinished /\ ~ReplyHasFinished
    BY DEF ProcessError, ProcessFinished, ReplyHasFinished
  <2>3. ~StopOrRetry /\ ~PauseEnds
    BY <1>3, StopOrRetryIs, PauseEndsIs
  <2>4. ~Execute
    BY <1>3, ExecuteIs
  <2>5. ~PostedAbort /\ ~AbortTimerFires
    <3>1. ASSUME Abort, Looping PROVE UNCHANGED <<process, reply>>
      BY <1>3, <3>1, AbortIs
    <3> QED BY <3>1 DEF PostedAbort, AbortTimerFires, Handling
  <2>6. ~PostedPollStatus /\ ~StatusPollingTimerFires
    BY <1>3, NoPollingInv
  <2>7. ~PostedDelete /\ ~ProcessEnds /\ ~RequestEnds
    BY DEF PostedDelete, ProcessEnds, RequestEnds
  <2>8. ~StartTaskInstance /\ ~AbortTaskInstance /\ ~TaskInstanceStopped
    BY DEF StartTaskInstance, AbortTaskInstance, TaskInstanceStopped, executorVars
  <2>9. ExecuteOneTry
    BY <2>1, <2>2, <2>3, <2>4, <2>5, <2>6, <2>7, <2>8 DEF Next, Step, HandlePosted
  <2> QED BY <1>3, <2>9, ExecuteOneTryIs
<1>4. ASSUME Inv, Earned, [Next]_vars
      PROVE  [SignalsSuccess => earned \/ Mean = "Nothing"]_vars
  <2> SUFFICES ASSUME SignalsSuccess PROVE earned \/ Mean = "Nothing"
    OBVIOUS
  <2>1. stops' # stops /\ stopSignals'[Len(stopSignals)'].success
    BY DEF SignalsSuccess
  <2>2. Next
    BY <1>4, <2>1 DEF vars
  <2>3. ASSUME NEW success, stopSignals' = <<[instance |-> instance, success |-> success]>>
        PROVE  success
    BY <2>1, <2>3
  <2>4. StopOrRetry \/ PauseEnds
    <3>1. ~ExecuteOneTry /\ ~ProcessError /\ ~ProcessFinished /\ ~ReplyHasFinished
      BY <2>1 DEF ExecuteOneTry, ProcessError, ProcessFinished, ReplyHasFinished
    <3>2. ~Execute /\ ~PostedAbort /\ ~AbortTimerFires
      BY <2>1 DEF Execute, PostedAbort, AbortTimerFires, Abort
    <3>3. ~PostedPollStatus /\ ~StatusPollingTimerFires
      BY <1>4, NoPollingInv
    <3>4. ~PostedDelete /\ ~ProcessEnds /\ ~RequestEnds
      BY <2>1 DEF PostedDelete, ProcessEnds, RequestEnds
    <3>5. ~StartTaskInstance /\ ~AbortTaskInstance /\ ~TaskInstanceStopped
      BY <2>1 DEF StartTaskInstance, AbortTaskInstance, TaskInstanceStopped, executorVars
    <3> QED BY <2>2, <3>1, <3>2, <3>3, <3>4, <3>5 DEF Next, Step, HandlePosted
  <2>5. CASE StopOrRetry
    <3> DEFINE success == Head(calls).success
    <3>1. /\ instance # NoInstance /\ calls # <<>> /\ ~Pauses(Tail(calls))
          /\ Calling("stopOrRetry") /\ success \in BOOLEAN /\ process = None /\ reply = None
          /\ UNCHANGED <<posted, process, reply, looked, flagVars, backgroundStatus,
                         worldVars, tries, earned>>
          /\ (Again(success) /\ Retry(Tail(calls))) \/ Stop(success, Tail(calls))
      BY <1>4, <2>5, StopOrRetryIs
    <3>2. success => earned \/ Mean = "Nothing"
      BY <1>4, <3>1 DEF Earned
    <3> HIDE DEF success
    <3>3. ~Retry(Tail(calls))
      BY <2>1 DEF Retry
    <3>4. stopSignals' = <<[instance |-> instance, success |-> success]>>
      BY <1>4, <3>1, <3>3, StopInv
    <3> QED BY <2>3, <3>2, <3>4
  <2>6. CASE PauseEnds
    <3>1. /\ instance # NoInstance /\ calls # <<>> /\ ~Pauses(Tail(calls))
          /\ process = None /\ reply = None
          /\ UNCHANGED <<posted, looked, flagVars, backgroundStatus, process,
                         reply, worldVars, tries, earned>>
          /\ \/ Stop(FALSE, Tail(calls))
             \/ UNCHANGED <<taskVars, timerVars, schedulerVars, toldVars>>
      BY <1>4, <2>6, PauseEndsIs
    <3>2. Stop(FALSE, Tail(calls))
      BY <2>1, <3>1
    <3>3. stopSignals' = <<[instance |-> instance, success |-> FALSE]>>
      BY <1>4, <3>1, <3>2, StopInv
    <3> QED BY <2>3, <3>3
  <2> QED BY <2>4, <2>5, <2>6
<1>5. Spec => []Inv
  BY AlwaysInv
<1> QED BY <1>1, <1>2, <1>3, <1>4, <1>5, PTL
        DEF Spec, OutcomesAreEarned, NoTryOnceAborted, SuccessIsEarned
=============================================================================
