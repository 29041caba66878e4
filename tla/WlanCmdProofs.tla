--------------------------- MODULE WlanCmdProofs ---------------------------
(***************************************************************************)
(* Proofs about WlanCmd for every set of callers, every queue length and   *)
(* any number of commands.                                                 *)
(***************************************************************************)
EXTENDS WlanCmd, TLAPS

Messages == {"answer", "event"}
AnswerIn(q) == \E i \in DOMAIN q : q[i] = "answer"
OneAnswer(q) == \A i, j \in DOMAIN q : q[i] = "answer" /\ q[j] = "answer" => i = j

(* io_events as a sequence: what is appended and taken away *)
LEMMA Appended ==
    ASSUME NEW q \in Seq(Messages), NEW m \in Messages
    PROVE  /\ Append(q, m) \in Seq(Messages)
           /\ AnswerIn(Append(q, m)) <=> AnswerIn(q) \/ m = "answer"
           /\ OneAnswer(q) /\ (m = "answer" => ~AnswerIn(q)) => OneAnswer(Append(q, m))
<1>1. /\ DOMAIN Append(q, m) = 1..(Len(q) + 1) /\ DOMAIN q = 1..Len(q) /\ Len(q) \in Nat
      /\ \A i \in 1..Len(q) : Append(q, m)[i] = q[i]
      /\ Append(q, m)[Len(q) + 1] = m
    OBVIOUS
<1> QED
    BY <1>1 DEF AnswerIn, OneAnswer, Messages

LEMMA Removed ==
    ASSUME NEW q \in Seq(Messages), q # <<>>
    PROVE  /\ Tail(q) \in Seq(Messages)
           /\ Head(q) = "event" => (AnswerIn(Tail(q)) <=> AnswerIn(q))
           /\ Head(q) = "answer" => AnswerIn(q)
           /\ OneAnswer(q) => OneAnswer(Tail(q))
           /\ OneAnswer(q) /\ Head(q) = "answer" => ~AnswerIn(Tail(q))
<1>1. /\ DOMAIN Tail(q) = 1..(Len(q) - 1) /\ DOMAIN q = 1..Len(q) /\ Len(q) \in Nat \ {0}
      /\ \A i \in 1..(Len(q) - 1) : Tail(q)[i] = q[i + 1]
      /\ Head(q) = q[1]
    OBVIOUS
<1>2. Tail(q) \in Seq(Messages)
    OBVIOUS
<1>3. ASSUME Head(q) = "event" PROVE AnswerIn(Tail(q)) <=> AnswerIn(q)
    <2>1. ASSUME AnswerIn(Tail(q)) PROVE AnswerIn(q)
        BY <1>1, <2>1 DEF AnswerIn
    <2>2. ASSUME NEW i \in DOMAIN q, q[i] = "answer" PROVE AnswerIn(Tail(q))
        <3>1. i - 1 \in DOMAIN Tail(q) /\ Tail(q)[i - 1] = "answer"
            BY <1>1, <1>3, <2>2
        <3> QED
            BY <3>1 DEF AnswerIn
    <2> QED
        BY <2>1, <2>2 DEF AnswerIn
<1>4. Head(q) = "answer" => AnswerIn(q)
    BY <1>1 DEF AnswerIn
<1>5. OneAnswer(q) => OneAnswer(Tail(q))
    BY <1>1 DEF OneAnswer
<1>6. OneAnswer(q) /\ Head(q) = "answer" => ~AnswerIn(Tail(q))
    BY <1>1 DEF OneAnswer, AnswerIn
<1> QED
    BY <1>2, <1>3, <1>4, <1>5, <1>6

LEMMA InitIInv == Init => IInv
<1> SUFFICES ASSUME Init PROVE IInv
    OBVIOUS
<1>1. queue \in Seq(Messages) /\ ~Queued
    BY DEF Init, Queued
<1>2. TypeOK
    BY <1>1 DEF Init, TypeOK, Messages
<1>3. LockInv /\ PointerInv
    BY CallersAssumption DEF Init, LockInv, PointerInv
<1>4. OnePlace /\ Expected /\ Given /\ AnswerIsOwn
    BY <1>1 DEF Init, OnePlace, Expected, Given, AnswerIsOwn, Pending, Queued
<1> QED
    BY <1>2, <1>3, <1>4 DEF IInv

LEMMA NextIInv == IInv /\ [Next]_vars => IInv'
<1> SUFFICES ASSUME IInv, [Next]_vars PROVE IInv'
    OBVIOUS
<1> USE CallersAssumption, NumbersAssumption
<1> USE DEF IInv, TypeOK, LockInv, PointerInv, OnePlace, Expected, Given, AnswerIsOwn, Pending,
        Queued, caller, sync, loop, slips
<1>1. CASE UNCHANGED vars
    BY <1>1 DEF vars
<1>2. ASSUME NEW c \in Callers, Call(c) PROVE IInv'
    BY <1>2 DEF Call, Go
<1>3. ASSUME NEW c \in Callers, Lock(c) PROVE IInv'
    BY <1>3 DEF Lock, Go
<1>4. ASSUME NEW c \in Callers, Fail(c) PROVE IInv'
    BY <1>4 DEF Fail, Forget, Go
<1>5. ASSUME NEW c \in Callers, Keep(c) PROVE IInv'
    BY <1>5 DEF Keep, Forget, Go
<1>6. ASSUME NEW c \in Callers, Point(c) PROVE IInv'
    BY <1>6 DEF Point, Go
<1>7. ASSUME NEW c \in Callers, Send(c) PROVE IInv'
    BY <1>7 DEF Send, Go
<1>8. ASSUME NEW c \in Callers, Answered(c) PROVE IInv'
    BY <1>8 DEF Answered, Go
<1>9. ASSUME NEW c \in Callers, Timeout(c) PROVE IInv'
    BY <1>9 DEF Timeout, Go
<1>10. ASSUME NEW c \in Callers, Return(c) PROVE IInv'
    BY <1>10 DEF Return, Forget, Go
<1>11. ASSUME NEW n \in card, Answer(n) PROVE IInv'
    BY <1>11 DEF Answer
<1>12. ASSUME NEW n \in card, Lose(n) PROVE IInv'
    BY <1>12 DEF Lose
<1>13. CASE Enqueue
    <2>1. /\ queue' \in Seq(Messages) /\ AnswerIn(queue')
          /\ ~AnswerIn(queue) /\ OneAnswer(queue) => OneAnswer(queue')
        BY <1>13, Appended DEF Enqueue, Messages
    <2>2. Queued' /\ Pending
        BY <1>13, <2>1 DEF Enqueue, AnswerIn
    <2>3. ~late => OneAnswer(queue')
        BY <1>13, <2>1 DEF Enqueue, AnswerIn, OneAnswer
    <2> QED
        BY <1>13, <2>1, <2>2, <2>3 DEF Enqueue, Messages, OneAnswer
<1>14. CASE Drop
    BY <1>14 DEF Drop
<1>15. CASE Event
    <2>1. /\ queue' \in Seq(Messages) /\ (AnswerIn(queue') <=> AnswerIn(queue))
          /\ OneAnswer(queue) => OneAnswer(queue')
        BY <1>15, Appended DEF Event, Messages
    <2>2. (Queued' <=> Queued) /\ (Pending' <=> Pending)
        BY <1>15, <2>1 DEF Event, AnswerIn
    <2>3. ~late => OneAnswer(queue')
        BY <2>1 DEF OneAnswer
    <2> QED
        BY <1>15, <2>1, <2>2, <2>3 DEF Event, Messages, OneAnswer
<1>16. CASE HandleEvent
    BY <1>16, Removed DEF HandleEvent, Messages, AnswerIn, OneAnswer
<1>17. CASE Take
    BY <1>17, Removed DEF Take, Messages, AnswerIn, OneAnswer
<1>18. CASE Look
    BY <1>18 DEF Look
<1>19. CASE Fill
    BY <1>19 DEF Fill
<1>20. CASE Put
    BY <1>20 DEF Put
<1> QED
    BY <1>1, <1>2, <1>3, <1>4, <1>5, <1>6, <1>7, <1>8, <1>9, <1>10, <1>11, <1>12, <1>13, <1>14,
       <1>15, <1>16, <1>17, <1>18, <1>19, <1>20 DEF Next, MainLoop, Progress

LEMMA IInvImplies == IInv => AnswerIsOwn /\ FillsOwn
BY DEF IInv, TypeOK, LockInv, PointerInv, OnePlace, Expected, Given, AnswerIsOwn, Pending, Queued, FillsOwn

(* The inductive invariant of the command path *)
THEOREM Invariance == Spec => []IInv
BY InitIInv, NextIInv, PTL DEF Spec

(* A call that succeeds has had its own answer handled, as long as no      *)
(* answer comes after its call was given up: command_lock alone keeps the  *)
(* one semaphore and the one buffer apart for any number of callers.       *)
THEOREM AnswersAreOwn == Spec => []AnswerIsOwn
BY Invariance, IInvImplies, PTL

(* Nor does an answer ever reach the memory of another call. *)
THEOREM FillsAreOwn == Spec => []FillsOwn
BY Invariance, IInvImplies, PTL
=============================================================================
