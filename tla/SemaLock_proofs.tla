---------------------------- MODULE SemaLock_proofs ----------------------------
(***************************************************************************)
(* Theorems about SemaLock, proved for any number of threads.              *)
(***************************************************************************)
EXTENDS SemaLock, TLAPS

\* Who is about to change the lock's word is bound by what it read there: one
\* that read a free lock sets its bit, one that read a first waiting M dequeues
\* that M, and the bit is set while some M has the lock, which is then the only one.
Bound(t) ==
  /\ pc[t] = "grab" => ~v[t].locked
  /\ pc[t] \in {"next", "wake"} => v[t].head \in Ms
  /\ pc[t] = "ready" => mp[t] \in Ms

Owned ==
  /\ \A t \in Ms : pc[t] \in Inside => waitm.locked
  /\ \A s, t \in Ms : pc[s] \in Inside /\ pc[t] \in Inside => s = t

\* The note is woken once after it was cleared: an M wakes it only after it has
\* reset sleeping, and sleeping is set, and the note cleared, inside the lock.
WokenOnce ==
  /\ sleeping => note # LOCKED
  /\ \A t \in Ms : pc[t] \in {"wakeup", "exchange"} => ~sleeping /\ note # LOCKED
  /\ \A t \in Ms : pc[t] = "exchange" => mp[t] # LOCKED

LockInv == TypeOK /\ Owned /\ WokenOnce /\ \A t \in Ms : Bound(t)

-----------------------------------------------------------------------------
(* Types *)

\* The places of an M.
Places == {"out", "wake", "thrown"} \cup Inside \cup Outside \cup Asleep

\* An M that goes to a place is in one.
LEMMA GotoType ==
  ASSUME TypeOK, NEW t \in Ms, NEW w \in Places, Goto(t, w)
  PROVE  pc' \in [Ms -> Places]
  BY DEF TypeOK, Goto, Places

\* What an M reads from and writes to the lock's word are words.
LEMMA WordType ==
  /\ Free \in Word
  /\ \A t \in Ms : Queued(t) \in Word
  /\ \A w \in Word : [w EXCEPT !.locked = TRUE] \in Word
  /\ \A w \in Word : w.head \in Ms \cup {Nil} /\ w.locked \in BOOLEAN
  /\ \A h \in Ms \cup {Nil} : [locked |-> FALSE, head |-> h] \in Word
  BY DEF Word, Free, Queued

\* runtime.lock keeps every type.
LEMMA LockType ==
  ASSUME TypeOK, NEW t \in Ms,
         Lock(t) \/ Load(t) \/ Grab(t) \/ Queue(t) \/ QueueAgain(t) \/ WaitForLock(t)
  PROVE  TypeOK'
<1> USE LockAssumption, WordType
<1>1. CASE Lock(t)
  <2>1. pc' \in [Ms -> Places]
    BY <1>1, GotoType DEF Lock, Places, Inside, Outside
  <2> QED BY <1>1, <2>1 DEF Lock, TypeOK, Places
<1>2. CASE Load(t)
  <2>1. pc' \in [Ms -> Places]
    BY <1>2, GotoType DEF Load, Places, Outside, TypeOK
  <2>2. i' \in [Ms -> 0..Spin]
    BY <1>2 DEF Load, TypeOK
  <2> QED BY <1>2, <2>1, <2>2 DEF Load, TypeOK, Places, noteVars
<1>3. CASE Grab(t)
  <2>1. pc' \in [Ms -> Places]
    BY <1>3, GotoType DEF Grab, Places, Inside, Outside
  <2>2. i' \in [Ms -> 0..Spin]
    BY <1>3 DEF Grab, TypeOK
  <2>3. waitm' \in Word /\ v' \in [Ms -> Word]
    BY <1>3 DEF Grab, TypeOK
  <2> QED BY <1>3, <2>1, <2>2, <2>3 DEF Grab, TypeOK, Places, noteVars
<1>4. CASE Queue(t)
  <2>1. pc' \in [Ms -> Places]
    BY <1>4, GotoType DEF Queue, Places, Outside
  <2>2. waitm' \in Word /\ v' \in [Ms -> Word] /\ nextwaitm' \in [Ms -> Ms \cup {Nil}]
    BY <1>4 DEF Queue, TypeOK
  <2> QED BY <1>4, <2>1, <2>2 DEF Queue, TypeOK, Places, noteVars
<1>5. CASE QueueAgain(t)
  <2>1. pc' \in [Ms -> Places]
    BY <1>5, GotoType DEF QueueAgain, Places, Outside
  <2> QED BY <1>5, <2>1 DEF QueueAgain, TypeOK, Places, noteVars
<1>6. CASE WaitForLock(t)
  <2>1. pc' \in [Ms -> Places]
    BY <1>6, GotoType DEF WaitForLock, Places, Outside
  <2>2. i' \in [Ms -> 0..Spin] /\ waitsema' \in [Ms -> Nat]
    BY <1>6 DEF WaitForLock, TypeOK, Down
  <2> QED BY <1>6, <2>1, <2>2 DEF WaitForLock, TypeOK, Places, noteVars
<1> QED
  BY <1>1, <1>2, <1>3, <1>4, <1>5, <1>6

\* runtime.unlock keeps every type.
LEMMA UnlockType ==
  ASSUME TypeOK, NEW t \in Ms, Bound(t),
         Unlock(t) \/ FindNext(t) \/ Release(t) \/ WakeFirst(t)
  PROVE  TypeOK'
<1> USE LockAssumption, WordType
<1>1. CASE Unlock(t)
  <2>1. pc' \in [Ms -> Places]
    BY <1>1, GotoType DEF Unlock, Places, Inside, Outside, Asleep, Return, TypeOK
  <2> QED BY <1>1, <2>1 DEF Unlock, TypeOK, Places, lockVars, noteVars
<1>2. CASE FindNext(t)
  <2>1. pc' \in [Ms -> Places]
    BY <1>2, GotoType DEF FindNext, Places, Inside, Outside, Asleep, Return, TypeOK
  <2>2. next' \in [Ms -> Ms \cup {Nil}]
    BY <1>2 DEF FindNext, TypeOK, Bound, Up, Down
  <2> QED BY <1>2, <2>1, <2>2 DEF FindNext, TypeOK, Places, lockVars, noteVars
<1>3. CASE Release(t)
  <2>1. pc' \in [Ms -> Places]
    BY <1>3, GotoType DEF Release, Places, Inside, Outside, Asleep, Return, TypeOK
  <2>2. waitm' \in Word /\ v' \in [Ms -> Word]
    BY <1>3 DEF Release, TypeOK, Bound, Up, Down
  <2> QED BY <1>3, <2>1, <2>2 DEF Release, TypeOK, Places, lockVars, noteVars
<1>4. CASE WakeFirst(t)
  <2>1. pc' \in [Ms -> Places]
    BY <1>4, GotoType DEF WakeFirst, Places, Inside, Outside, Asleep, Return, TypeOK
  <2>2. waitsema' \in [Ms -> Nat]
    BY <1>4 DEF WakeFirst, TypeOK, Bound, Up, Down
  <2> QED BY <1>4, <2>1, <2>2 DEF WakeFirst, TypeOK, Places, lockVars, noteVars
<1> QED
  BY <1>1, <1>2, <1>3, <1>4

\* What is done inside the lock keeps every type.
LEMMA InsideType ==
  ASSUME TypeOK, NEW t \in Ms, Bound(t),
         AddTimer(t) \/ AddFirstTimer(t) \/ ServeTimer(t) \/ ClearNote(t) \/ NoteWakeup(t) \/ ExchangeNote(t) \/ WakeSleeper(t)
  PROVE  TypeOK'
<1> USE LockAssumption, WordType
<1>1. CASE AddTimer(t)
  <2>1. pc' \in [Ms -> Places]
    BY <1>1, GotoType DEF AddTimer, Places, Inside, Outside, Asleep, Return, TypeOK
  <2> QED BY <1>1, <2>1 DEF AddTimer, TypeOK, Places, lockVars, noteVars
<1>2. CASE AddFirstTimer(t)
  <2>1. pc' \in [Ms -> Places]
    BY <1>2, GotoType DEF AddFirstTimer, Places, Inside, Outside, Asleep, Return, TypeOK
  <2> QED BY <1>2, <2>1 DEF AddFirstTimer, TypeOK, Places, lockVars, noteVars
<1>3. CASE ServeTimer(t)
  <2>1. pc' \in [Ms -> Places]
    BY <1>3, GotoType DEF ServeTimer, Places, Inside, Outside, Asleep, Return, TypeOK
  <2> QED BY <1>3, <2>1 DEF ServeTimer, TypeOK, Places, lockVars, noteVars
<1>4. CASE ClearNote(t)
  <2>1. pc' \in [Ms -> Places]
    BY <1>4, GotoType DEF ClearNote, Places, Inside, Outside, Asleep, Return, TypeOK
  <2> QED BY <1>4, <2>1 DEF ClearNote, TypeOK, Places, lockVars, noteVars
<1>5. CASE NoteWakeup(t)
  <2>1. pc' \in [Ms -> Places]
    BY <1>5, GotoType DEF NoteWakeup, Places, Inside, Outside, Asleep, Return, TypeOK
  <2> QED BY <1>5, <2>1 DEF NoteWakeup, TypeOK, Places, lockVars, noteVars
<1>6. CASE ExchangeNote(t)
  <2>1. pc' \in [Ms -> Places]
    BY <1>6, GotoType DEF ExchangeNote, Places, Inside, Outside, Asleep, Return, TypeOK
  <2>2. mp' \in [Ms -> Ms \cup {Nil, LOCKED}]
    BY <1>6 DEF ExchangeNote, TypeOK, Bound, Up, Down
  <2> QED BY <1>6, <2>1, <2>2 DEF ExchangeNote, TypeOK, Places, lockVars, noteVars
<1>7. CASE WakeSleeper(t)
  <2>1. pc' \in [Ms -> Places]
    BY <1>7, GotoType DEF WakeSleeper, Places, Inside, Outside, Asleep, Return, TypeOK
  <2>2. waitsema' \in [Ms -> Nat]
    BY <1>7 DEF WakeSleeper, TypeOK, Bound, Up, Down
  <2> QED BY <1>7, <2>1, <2>2 DEF WakeSleeper, TypeOK, Places, lockVars, noteVars
<1> QED
  BY <1>1, <1>2, <1>3, <1>4, <1>5, <1>6, <1>7

\* runtime.notetsleep keeps every type.
LEMMA SleepType ==
  ASSUME TypeOK, NEW t \in Ms, Bound(t),
         Register(t) \/ SleepEnds(t) \/ Expire(t) \/ LookAtNote(t) \/ Unregister(t) \/ TakeSemaphore(t)
  PROVE  TypeOK'
<1> USE LockAssumption, WordType
<1>1. CASE Register(t)
  <2>1. pc' \in [Ms -> Places]
    BY <1>1, GotoType DEF Register, Places, Inside, Outside, Asleep, Return, TypeOK
  <2>2. note' \in Ms \cup {Nil, LOCKED}
    BY <1>1 DEF Register, TypeOK, Bound, Up, Down
  <2> QED BY <1>1, <2>1, <2>2 DEF Register, TypeOK, Places, lockVars, noteVars
<1>2. CASE SleepEnds(t)
  <2>1. pc' \in [Ms -> Places]
    BY <1>2, GotoType DEF SleepEnds, Places, Inside, Outside, Asleep, Return, Awake, TypeOK
  <2>2. waitsema' \in [Ms -> Nat]
    BY <1>2 DEF SleepEnds, TypeOK, Bound, Up, Down
  <2> QED BY <1>2, <2>1, <2>2 DEF SleepEnds, TypeOK, Places, lockVars, noteVars, Awake
<1>3. CASE Expire(t)
  <2>1. pc' \in [Ms -> Places]
    BY <1>3, GotoType DEF Expire, Places, Inside, Outside, Asleep, Return, TypeOK
  <2> QED BY <1>3, <2>1 DEF Expire, TypeOK, Places, lockVars, noteVars
<1>4. CASE LookAtNote(t)
  <2>1. pc' \in [Ms -> Places]
    BY <1>4, GotoType DEF LookAtNote, Places, Inside, Outside, Asleep, Return, TypeOK
  <2> QED BY <1>4, <2>1 DEF LookAtNote, TypeOK, Places, lockVars, noteVars
<1>5. CASE Unregister(t)
  <2>1. pc' \in [Ms -> Places]
    BY <1>5, GotoType DEF Unregister, Places, Inside, Outside, Asleep, Return, Awake, TypeOK
  <2> QED BY <1>5, <2>1 DEF Unregister, TypeOK, Places, lockVars, noteVars, Awake
<1>6. CASE TakeSemaphore(t)
  <2>1. pc' \in [Ms -> Places]
    BY <1>6, GotoType DEF TakeSemaphore, Places, Inside, Outside, Asleep, Return, Awake, TypeOK
  <2>2. waitsema' \in [Ms -> Nat]
    BY <1>6 DEF TakeSemaphore, TypeOK, Bound, Up, Down
  <2> QED BY <1>6, <2>1, <2>2 DEF TakeSemaphore, TypeOK, Places, lockVars, noteVars, Awake
<1> QED
  BY <1>1, <1>2, <1>3, <1>4, <1>5, <1>6

\* Every step keeps every type.
LEMMA StepType ==
  ASSUME TypeOK, NEW t \in Ms, Bound(t), Lock(t) \/ Step(t) \/ Expire(t)
  PROVE  TypeOK'
  BY LockType, UnlockType, InsideType, SleepType DEF Step

-----------------------------------------------------------------------------
(* The lock's word and who has the lock *)

\* What an M read stays bound, whoever takes the step.
LEMMA StepBound ==
  ASSUME LockInv, NEW t \in Ms, Lock(t) \/ Step(t) \/ Expire(t)
  PROVE  \A s \in Ms : Bound(s)'
<1> USE LockAssumption
<1>1. CASE Lock(t)
  BY <1>1 DEF Lock, LockInv, TypeOK, Bound, Goto, lockVars, noteVars
<1>2. CASE Load(t)
  BY <1>2 DEF Load, LockInv, TypeOK, Bound, Goto, lockVars, noteVars
<1>3. CASE Grab(t)
  BY <1>3 DEF Grab, LockInv, TypeOK, Bound, Goto, lockVars, noteVars
<1>4. CASE Queue(t)
  BY <1>4 DEF Queue, LockInv, TypeOK, Bound, Goto, lockVars, noteVars
<1>5. CASE QueueAgain(t)
  BY <1>5 DEF QueueAgain, LockInv, TypeOK, Bound, Goto, lockVars, noteVars
<1>6. CASE WaitForLock(t)
  BY <1>6 DEF WaitForLock, LockInv, TypeOK, Bound, Goto, lockVars, noteVars
<1>7. CASE Unlock(t)
  <2>1. waitm \in Word /\ (waitm.head # Nil => waitm.head \in Ms)
    BY WordType DEF LockInv, TypeOK
  <2>2. \A s \in Ms : s # t => Bound(s)'
    BY <1>7 DEF Unlock, LockInv, TypeOK, Bound, Goto, lockVars, noteVars
  <2>3. Bound(t)'
    BY <1>7, <2>1 DEF Unlock, LockInv, TypeOK, Bound, Goto, lockVars, noteVars
  <2> QED BY <2>2, <2>3
<1>8. CASE FindNext(t)
  BY <1>8 DEF FindNext, LockInv, TypeOK, Bound, Goto, lockVars, noteVars
<1>9. CASE Release(t)
  <2>1. v[t].head \in Ms \cup {Nil}
    BY WordType DEF LockInv, TypeOK
  <2>2. \A s \in Ms : s # t => Bound(s)'
    BY <1>9 DEF Release, LockInv, TypeOK, Bound, Goto, Return, lockVars, noteVars
  <2>3. Bound(t)'
    <3>1. CASE pc'[t] = "wake"
      <4>1. v'[t].head = v[t].head /\ v[t].head # Nil
        BY <1>9, <3>1 DEF Release, LockInv, TypeOK, Goto, Return
      <4> QED BY <3>1, <4>1, <2>1 DEF Bound
    <3>2. CASE pc'[t] # "wake"
      BY <1>9, <3>2 DEF Release, LockInv, TypeOK, Bound, Goto, Return
    <3> QED BY <3>1, <3>2
  <2> QED BY <2>2, <2>3
<1>10. CASE WakeFirst(t)
  BY <1>10 DEF WakeFirst, LockInv, TypeOK, Bound, Goto, lockVars, noteVars, Return
<1>11. CASE AddTimer(t)
  BY <1>11 DEF AddTimer, LockInv, TypeOK, Bound, Goto, lockVars, noteVars
<1>12. CASE AddFirstTimer(t)
  BY <1>12 DEF AddFirstTimer, LockInv, TypeOK, Bound, Goto, lockVars, noteVars
<1>13. CASE ServeTimer(t)
  BY <1>13 DEF ServeTimer, LockInv, TypeOK, Bound, Goto, lockVars, noteVars
<1>14. CASE ClearNote(t)
  BY <1>14 DEF ClearNote, LockInv, TypeOK, Bound, Goto, lockVars, noteVars
<1>15. CASE NoteWakeup(t)
  BY <1>15 DEF NoteWakeup, LockInv, TypeOK, Bound, Goto, lockVars, noteVars
<1>16. CASE ExchangeNote(t)
  BY <1>16 DEF ExchangeNote, LockInv, TypeOK, Bound, Goto, lockVars, noteVars
<1>17. CASE WakeSleeper(t)
  BY <1>17 DEF WakeSleeper, LockInv, TypeOK, Bound, Goto, lockVars, noteVars
<1>18. CASE Register(t)
  BY <1>18 DEF Register, LockInv, TypeOK, Bound, Goto, lockVars, noteVars
<1>19. CASE SleepEnds(t)
  BY <1>19 DEF SleepEnds, LockInv, TypeOK, Bound, Goto, lockVars, noteVars, Awake
<1>20. CASE Expire(t)
  BY <1>20 DEF Expire, LockInv, TypeOK, Bound, Goto, lockVars, noteVars
<1>21. CASE LookAtNote(t)
  BY <1>21 DEF LookAtNote, LockInv, TypeOK, Bound, Goto, lockVars, noteVars
<1>22. CASE Unregister(t)
  BY <1>22 DEF Unregister, LockInv, TypeOK, Bound, Goto, lockVars, noteVars, Awake
<1>23. CASE TakeSemaphore(t)
  BY <1>23 DEF TakeSemaphore, LockInv, TypeOK, Bound, Goto, lockVars, noteVars, Awake
<1> QED
  BY <1>1, <1>2, <1>3, <1>4, <1>5, <1>6, <1>7, <1>8, <1>9, <1>10, <1>11, <1>12, <1>13, <1>14, <1>15, <1>16, <1>17, <1>18, <1>19, <1>20, <1>21, <1>22, <1>23 DEF Step

\* The bit stays set while an M has the lock, and no second M gets it.
LEMMA StepOwned ==
  ASSUME LockInv, NEW t \in Ms, Lock(t) \/ Step(t) \/ Expire(t)
  PROVE  Owned'
<1> USE LockAssumption
<1>1. CASE Lock(t)
  BY <1>1 DEF Lock, LockInv, TypeOK, Bound, Owned, Goto, Word, Free, Queued, Inside, lockVars, noteVars
<1>2. CASE Load(t)
  BY <1>2 DEF Load, LockInv, TypeOK, Bound, Owned, Goto, Word, Free, Queued, Inside, lockVars, noteVars
<1>3. CASE Grab(t)
  BY <1>3 DEF Grab, LockInv, TypeOK, Bound, Owned, Goto, Word, Free, Queued, Inside, lockVars, noteVars
<1>4. CASE Queue(t)
  BY <1>4 DEF Queue, LockInv, TypeOK, Bound, Owned, Goto, Word, Free, Queued, Inside, lockVars, noteVars
<1>5. CASE QueueAgain(t)
  BY <1>5 DEF QueueAgain, LockInv, TypeOK, Bound, Owned, Goto, Word, Free, Queued, Inside, lockVars, noteVars
<1>6. CASE WaitForLock(t)
  BY <1>6 DEF WaitForLock, LockInv, TypeOK, Bound, Owned, Goto, Word, Free, Queued, Inside, lockVars, noteVars
<1>7. CASE Unlock(t)
  BY <1>7 DEF Unlock, LockInv, TypeOK, Bound, Owned, Goto, Word, Free, Queued, Inside, lockVars, noteVars
<1>8. CASE FindNext(t)
  BY <1>8 DEF FindNext, LockInv, TypeOK, Bound, Owned, Goto, Word, Free, Queued, Inside, lockVars, noteVars
<1>9. CASE Release(t)
  <2>1. pc[t] = "release" /\ pc \in [Ms -> Places] /\ Owned
    BY <1>9 DEF Release, LockInv, TypeOK, Places
  <2>2. CASE waitm = v[t]
    <3>1. \A s \in Ms : s # t => pc[s] \notin Inside
      BY <2>1 DEF Owned, Inside
    <3>2. PICK w \in {"wake", "register", "out"} : pc' = [pc EXCEPT ![t] = w]
      BY <1>9, <2>2 DEF Release, Return, Goto
    <3>3. \A s \in Ms : pc'[s] \notin Inside
      BY <2>1, <3>1, <3>2 DEF Inside
    <3> QED BY <3>3 DEF Owned
  <2>3. CASE waitm # v[t]
    BY <1>9, <2>1, <2>3 DEF Release, Owned, Goto, Inside
  <2> QED BY <2>2, <2>3
<1>10. CASE WakeFirst(t)
  BY <1>10 DEF WakeFirst, LockInv, TypeOK, Bound, Owned, Goto, Word, Free, Queued, Inside, lockVars, noteVars, Return
<1>11. CASE AddTimer(t)
  BY <1>11 DEF AddTimer, LockInv, TypeOK, Bound, Owned, Goto, Word, Free, Queued, Inside, lockVars, noteVars
<1>12. CASE AddFirstTimer(t)
  BY <1>12 DEF AddFirstTimer, LockInv, TypeOK, Bound, Owned, Goto, Word, Free, Queued, Inside, lockVars, noteVars
<1>13. CASE ServeTimer(t)
  BY <1>13 DEF ServeTimer, LockInv, TypeOK, Bound, Owned, Goto, Word, Free, Queued, Inside, lockVars, noteVars
<1>14. CASE ClearNote(t)
  BY <1>14 DEF ClearNote, LockInv, TypeOK, Bound, Owned, Goto, Word, Free, Queued, Inside, lockVars, noteVars
<1>15. CASE NoteWakeup(t)
  BY <1>15 DEF NoteWakeup, LockInv, TypeOK, Bound, Owned, Goto, Word, Free, Queued, Inside, lockVars, noteVars
<1>16. CASE ExchangeNote(t)
  BY <1>16 DEF ExchangeNote, LockInv, TypeOK, Bound, Owned, Goto, Word, Free, Queued, Inside, lockVars, noteVars
<1>17. CASE WakeSleeper(t)
  BY <1>17 DEF WakeSleeper, LockInv, TypeOK, Bound, Owned, Goto, Word, Free, Queued, Inside, lockVars, noteVars
<1>18. CASE Register(t)
  BY <1>18 DEF Register, LockInv, TypeOK, Bound, Owned, Goto, Word, Free, Queued, Inside, lockVars, noteVars
<1>19. CASE SleepEnds(t)
  BY <1>19 DEF SleepEnds, LockInv, TypeOK, Bound, Owned, Goto, Word, Free, Queued, Inside, lockVars, noteVars, Awake
<1>20. CASE Expire(t)
  BY <1>20 DEF Expire, LockInv, TypeOK, Bound, Owned, Goto, Word, Free, Queued, Inside, lockVars, noteVars
<1>21. CASE LookAtNote(t)
  BY <1>21 DEF LookAtNote, LockInv, TypeOK, Bound, Owned, Goto, Word, Free, Queued, Inside, lockVars, noteVars
<1>22. CASE Unregister(t)
  BY <1>22 DEF Unregister, LockInv, TypeOK, Bound, Owned, Goto, Word, Free, Queued, Inside, lockVars, noteVars, Awake
<1>23. CASE TakeSemaphore(t)
  BY <1>23 DEF TakeSemaphore, LockInv, TypeOK, Bound, Owned, Goto, Word, Free, Queued, Inside, lockVars, noteVars, Awake
<1> QED
  BY <1>1, <1>2, <1>3, <1>4, <1>5, <1>6, <1>7, <1>8, <1>9, <1>10, <1>11, <1>12, <1>13, <1>14, <1>15, <1>16, <1>17, <1>18, <1>19, <1>20, <1>21, <1>22, <1>23 DEF Step

\* No step wakes the note a second time, or prepares to.
LEMMA StepWokenOnce ==
  ASSUME LockInv, NEW t \in Ms, Lock(t) \/ Step(t) \/ Expire(t)
  PROVE  WokenOnce'
<1> USE LockAssumption
<1>0. /\ pc \in [Ms -> Places] /\ WokenOnce /\ mp \in [Ms -> Ms \cup {Nil, LOCKED}]
      /\ \A s \in Ms : pc[s] \in {"in", "wakeup", "exchange"} /\ pc[t] \in {"in", "wakeup", "exchange"} => s = t
  BY DEF LockInv, TypeOK, Places, Owned, Inside
<1>1. CASE Lock(t)
  BY <1>0, <1>1 DEF Lock, WokenOnce, Goto, lockVars, noteVars
<1>2. CASE Load(t)
  BY <1>0, <1>2 DEF Load, WokenOnce, Goto, lockVars, noteVars
<1>3. CASE Grab(t)
  BY <1>0, <1>3 DEF Grab, WokenOnce, Goto, lockVars, noteVars
<1>4. CASE Queue(t)
  BY <1>0, <1>4 DEF Queue, WokenOnce, Goto, lockVars, noteVars
<1>5. CASE QueueAgain(t)
  BY <1>0, <1>5 DEF QueueAgain, WokenOnce, Goto, lockVars, noteVars
<1>6. CASE WaitForLock(t)
  BY <1>0, <1>6 DEF WaitForLock, WokenOnce, Goto, lockVars, noteVars
<1>7. CASE Unlock(t)
  BY <1>0, <1>7 DEF Unlock, WokenOnce, Goto, lockVars, noteVars
<1>8. CASE FindNext(t)
  BY <1>0, <1>8 DEF FindNext, WokenOnce, Goto, lockVars, noteVars
<1>9. CASE Release(t)
  BY <1>0, <1>9 DEF Release, WokenOnce, Goto, lockVars, noteVars, Return
<1>10. CASE WakeFirst(t)
  BY <1>0, <1>10 DEF WakeFirst, WokenOnce, Goto, lockVars, noteVars, Return
<1>11. CASE AddTimer(t)
  BY <1>0, <1>11 DEF AddTimer, WokenOnce, Goto, lockVars, noteVars
<1>12. CASE AddFirstTimer(t)
  BY <1>0, <1>12 DEF AddFirstTimer, WokenOnce, Goto, lockVars, noteVars
<1>13. CASE ServeTimer(t)
  BY <1>0, <1>13 DEF ServeTimer, WokenOnce, Goto, lockVars, noteVars
<1>14. CASE ClearNote(t)
  BY <1>0, <1>14 DEF ClearNote, WokenOnce, Goto, lockVars, noteVars
<1>15. CASE NoteWakeup(t)
  BY <1>0, <1>15 DEF NoteWakeup, WokenOnce, Goto, lockVars, noteVars
<1>16. CASE ExchangeNote(t)
  BY <1>0, <1>16 DEF ExchangeNote, WokenOnce, Goto, lockVars, noteVars
<1>17. CASE WakeSleeper(t)
  BY <1>0, <1>17 DEF WakeSleeper, WokenOnce, Goto, lockVars, noteVars
<1>18. CASE Register(t)
  BY <1>0, <1>18 DEF Register, WokenOnce, Goto, lockVars, noteVars
<1>19. CASE SleepEnds(t)
  BY <1>0, <1>19 DEF SleepEnds, WokenOnce, Goto, lockVars, noteVars, Awake
<1>20. CASE Expire(t)
  BY <1>0, <1>20 DEF Expire, WokenOnce, Goto, lockVars, noteVars
<1>21. CASE LookAtNote(t)
  BY <1>0, <1>21 DEF LookAtNote, WokenOnce, Goto, lockVars, noteVars
<1>22. CASE Unregister(t)
  BY <1>0, <1>22 DEF Unregister, WokenOnce, Goto, lockVars, noteVars, Awake
<1>23. CASE TakeSemaphore(t)
  BY <1>0, <1>23 DEF TakeSemaphore, WokenOnce, Goto, lockVars, noteVars, Awake
<1> QED
  BY <1>1, <1>2, <1>3, <1>4, <1>5, <1>6, <1>7, <1>8, <1>9, <1>10, <1>11, <1>12, <1>13, <1>14, <1>15, <1>16, <1>17, <1>18, <1>19, <1>20, <1>21, <1>22, <1>23 DEF Step

\* The invariant holds at first and after every step.
LEMMA InitInv == Init => LockInv
<1> SUFFICES ASSUME Init PROVE LockInv
  OBVIOUS
<1>1. TypeOK
  <2>1. pc \in [Ms -> Places]
    BY DEF Init, Places
  <2>2. i \in [Ms -> 0..Spin] /\ waitsema \in [Ms -> Nat]
    BY LockAssumption DEF Init
  <2>3. v \in [Ms -> Word] /\ waitm \in Word
    BY WordType DEF Init
  <2> QED
    BY <2>1, <2>2, <2>3 DEF Init, TypeOK, Places
<1>2. \A t \in Ms : pc[t] = "out" /\ pc[t] \notin Inside
  BY DEF Init, Inside
<1>3. note # LOCKED
  BY LockAssumption DEF Init
<1> QED
  BY <1>1, <1>2, <1>3 DEF LockInv, Owned, Bound, WokenOnce

LEMMA NextInv == LockInv /\ [Next]_vars => LockInv'
<1>1. ASSUME LockInv, NEW t \in Ms, Lock(t) \/ Step(t) \/ Expire(t) PROVE LockInv'
  BY <1>1, StepType, StepBound, StepOwned, StepWokenOnce DEF LockInv
<1>2. ASSUME LockInv, UNCHANGED vars PROVE LockInv'
  BY <1>2 DEF LockInv, TypeOK, Owned, WokenOnce, Bound, vars, lockVars, noteVars
<1> QED
  BY <1>1, <1>2 DEF Next

\* Every semaphore, note, word and place is one of its kind, for any threads.
THEOREM TypeCorrect == Spec => []TypeOK
  BY InitInv, NextInv, PTL DEF Spec, LockInv

\* notewakeup never finds the note of the timers woken already, which would end
\* the program ("double wakeup"), whenever the timer process's deadline comes.
THEOREM NoteWokenOnce ==
  Spec => [](\A t \in Ms : pc[t] = "exchange" => mp[t] # LOCKED /\ note # LOCKED)
<1>1. LockInv => \A t \in Ms : pc[t] = "exchange" => mp[t] # LOCKED /\ note # LOCKED
  BY DEF LockInv, WokenOnce
<1> QED
  BY <1>1, InitInv, NextInv, PTL DEF Spec

-----------------------------------------------------------------------------
(* SemaLock implements Mutex *)

\* An M that neither gets the lock, nor gives it up, nor begins to wait for it
\* changes nothing that Mutex sees.
LEMMA Stays ==
  ASSUME pc \in [Ms -> Places], NEW t \in Ms, NEW w, Goto(t, w),
         pc[t] \in Inside <=> w \in Inside, pc[t] \in Outside <=> w \in Outside
  PROVE  UNCHANGED LockOf!vars
<1>1. \A s \in Ms : pc'[s] = IF s = t THEN w ELSE pc[s]
  BY DEF Goto
<1>2. {s \in Ms : pc'[s] \in Inside} = {s \in Ms : pc[s] \in Inside}
  BY <1>1
<1>3. {s \in Ms : pc'[s] \in Outside} = {s \in Ms : pc[s] \in Outside}
  BY <1>1
<1> QED
  BY <1>2, <1>3 DEF LockOf!vars, Inside, Outside

\* What the M that has the lock does before it releases it.
LEMMA StaysInside ==
  ASSUME LockInv, NEW t \in Ms,
         \/ AddTimer(t) \/ AddFirstTimer(t) \/ ServeTimer(t) \/ ClearNote(t) \/ NoteWakeup(t)
         \/ ExchangeNote(t) \/ WakeSleeper(t) \/ Unlock(t) \/ FindNext(t)
  PROVE  UNCHANGED LockOf!vars
<1>1. pc \in [Ms -> Places]
  BY DEF LockInv, TypeOK, Places
<1>2. CASE AddTimer(t)
  BY <1>1, <1>2, Stays DEF AddTimer, Places, Inside, Outside, Asleep
<1>3. CASE AddFirstTimer(t)
  BY <1>1, <1>3, Stays DEF AddFirstTimer, Places, Inside, Outside, Asleep
<1>4. CASE ServeTimer(t)
  BY <1>1, <1>4, Stays DEF ServeTimer, Places, Inside, Outside, Asleep
<1>5. CASE ClearNote(t)
  BY <1>1, <1>5, Stays DEF ClearNote, Places, Inside, Outside, Asleep
<1>6. CASE NoteWakeup(t)
  BY <1>1, <1>6, Stays DEF NoteWakeup, Places, Inside, Outside, Asleep
<1>7. CASE ExchangeNote(t)
  <2>1. pc[t] \in Inside /\ pc[t] \notin Outside
    BY <1>7 DEF ExchangeNote, Inside, Outside
  <2>2. mp[t] # LOCKED
    BY <1>7 DEF ExchangeNote, LockInv, WokenOnce
  <2>3. PICK w \in {"wakeup", "unlock", "ready"} : Goto(t, w)
    BY <1>7, <2>2 DEF ExchangeNote
  <2> QED
    BY <1>1, <2>1, <2>3, Stays DEF Inside, Outside
<1>8. CASE WakeSleeper(t)
  BY <1>1, <1>8, Stays DEF WakeSleeper, Places, Inside, Outside, Asleep
<1>9. CASE Unlock(t)
  BY <1>1, <1>9, Stays DEF Unlock, Places, Inside, Outside, Asleep
<1>10. CASE FindNext(t)
  BY <1>1, <1>10, Stays DEF FindNext, Places, Inside, Outside, Asleep
<1> QED
  BY <1>2, <1>3, <1>4, <1>5, <1>6, <1>7, <1>8, <1>9, <1>10

\* What an M does while it waits for the lock.
LEMMA StaysOutside ==
  ASSUME LockInv, NEW t \in Ms,
         \/ Load(t) \/ Queue(t) \/ QueueAgain(t) \/ WaitForLock(t)
  PROVE  UNCHANGED LockOf!vars
<1>1. pc \in [Ms -> Places]
  BY DEF LockInv, TypeOK, Places
<1>2. CASE Load(t)
  <2>1. pc[t] \in Outside /\ pc[t] \notin Inside
    BY <1>2 DEF Load, Inside, Outside
  <2>2. CASE UNCHANGED pc
    BY <2>2 DEF LockOf!vars
  <2>3. CASE \E w \in {"queue", "grab"} : Goto(t, w)
    BY <1>1, <2>1, <2>3, Stays DEF Inside, Outside
  <2> QED
    BY <1>2, <2>2, <2>3 DEF Load
<1>3. CASE Queue(t)
  BY <1>1, <1>3, Stays DEF Queue, Places, Inside, Outside, Asleep
<1>4. CASE QueueAgain(t)
  BY <1>1, <1>4, Stays DEF QueueAgain, Places, Inside, Outside, Asleep
<1>5. CASE WaitForLock(t)
  BY <1>1, <1>5, Stays DEF WaitForLock, Places, Inside, Outside, Asleep
<1> QED
  BY <1>2, <1>3, <1>4, <1>5

\* What an M does that neither has the lock nor wants it.
LEMMA StaysAway ==
  ASSUME LockInv, NEW t \in Ms,
         \/ WakeFirst(t) \/ Register(t) \/ SleepEnds(t) \/ Expire(t) \/ LookAtNote(t)
         \/ Unregister(t) \/ TakeSemaphore(t)
  PROVE  UNCHANGED LockOf!vars
<1>1. pc \in [Ms -> Places]
  BY DEF LockInv, TypeOK, Places
<1>2. CASE WakeFirst(t)
  BY <1>1, <1>2, Stays DEF WakeFirst, Places, Inside, Outside, Asleep, Return
<1>3. CASE Register(t)
  BY <1>1, <1>3, Stays DEF Register, Places, Inside, Outside, Asleep
<1>4. CASE SleepEnds(t)
  BY <1>1, <1>4, Stays DEF SleepEnds, Places, Inside, Outside, Asleep, Awake
<1>5. CASE Expire(t)
  BY <1>1, <1>5, Stays DEF Expire, Places, Inside, Outside, Asleep
<1>6. CASE LookAtNote(t)
  BY <1>1, <1>6, Stays DEF LookAtNote, Places, Inside, Outside, Asleep
<1>7. CASE Unregister(t)
  BY <1>1, <1>7, Stays DEF Unregister, Places, Inside, Outside, Asleep, Awake
<1>8. CASE TakeSemaphore(t)
  BY <1>1, <1>8, Stays DEF TakeSemaphore, Places, Inside, Outside, Asleep, Awake
<1> QED
  BY <1>2, <1>3, <1>4, <1>5, <1>6, <1>7, <1>8

\* An M gets the lock when no M has it.
LEMMA GetsIt ==
  ASSUME LockInv, NEW t \in Ms, pc[t] \notin Inside, ~waitm.locked, Goto(t, "in")
  PROVE  LockOf!Acquire(t)
<1>1. \A s \in Ms : pc[s] \notin Inside
  BY DEF LockInv, Owned
<1>2. pc' = [pc EXCEPT ![t] = "in"] /\ pc \in [Ms -> Places]
  BY DEF Goto, LockInv, TypeOK, Places
<1>3. \A s \in Ms : pc'[s] = IF s = t THEN "in" ELSE pc[s]
  BY <1>2
<1>4. "in" \in Inside /\ "in" \notin Outside
  BY DEF Inside, Outside
<1>5. {s \in Ms : pc'[s] \in Inside} = {t}
  BY <1>1, <1>3, <1>4
<1>6. {s \in Ms : pc'[s] \in Outside} = {s \in Ms : pc[s] \in Outside} \ {t}
  BY <1>3, <1>4
<1>7. {s \in Ms : pc[s] \in Inside} = {}
  BY <1>1
<1> QED
  BY <1>5, <1>6, <1>7 DEF LockOf!Acquire, Inside, Outside

\* runtime.lock at once, or with a wait.
LEMMA LockImplements ==
  ASSUME LockInv, NEW t \in Ms, Lock(t)
  PROVE  LockOf!Next
<1>1. pc[t] = "out" /\ pc[t] \notin Inside /\ pc \in [Ms -> Places]
  BY DEF Lock, Inside, LockInv, TypeOK, Places
<1>2. CASE waitm = Free
  BY <1>1, <1>2, GetsIt DEF Lock, Free, LockOf!Next
<1>3. CASE waitm # Free
  <2>1. pc' = [pc EXCEPT ![t] = "load"]
    BY <1>3 DEF Lock, Goto
  <2>2. \A s \in Ms : pc'[s] = IF s = t THEN "load" ELSE pc[s]
    BY <1>1, <2>1
  <2>3. pc[t] \notin Outside /\ "load" \in Outside /\ "load" \notin Inside
    BY <1>1 DEF Inside, Outside
  <2>4. {s \in Ms : pc'[s] \in Inside} = {s \in Ms : pc[s] \in Inside}
    BY <1>1, <2>2, <2>3
  <2>5. {s \in Ms : pc'[s] \in Outside} = {s \in Ms : pc[s] \in Outside} \cup {t}
    BY <2>2, <2>3
  <2>6. t \notin {s \in Ms : pc[s] \in Outside} \cup {s \in Ms : pc[s] \in Inside}
    BY <1>1, <2>3
  <2>7. LockOf!Wait(t)
    BY <2>4, <2>5, <2>6 DEF LockOf!Wait, Inside, Outside
  <2> QED
    BY <2>7 DEF LockOf!Next
<1> QED
  BY <1>2, <1>3

\* A compare-and-swap of the lock's word that sets its bit.
LEMMA GrabImplements ==
  ASSUME LockInv, NEW t \in Ms, Grab(t)
  PROVE  LockOf!Next \/ UNCHANGED LockOf!vars
<1>1. CASE waitm = v[t]
  BY <1>1, GetsIt DEF Grab, LockInv, Bound, Inside, LockOf!Next
<1>2. CASE waitm # v[t]
  <2>1. pc \in [Ms -> Places]
    BY DEF LockInv, TypeOK, Places
  <2> QED
    BY <1>2, <2>1, Stays DEF Grab, Inside, Outside
<1> QED
  BY <1>1, <1>2

\* A compare-and-swap of the lock's word that resets its bit.
LEMMA ReleaseImplements ==
  ASSUME LockInv, NEW t \in Ms, Release(t)
  PROVE  LockOf!Next \/ UNCHANGED LockOf!vars
<1>1. pc[t] = "release" /\ pc \in [Ms -> Places]
  BY DEF Release, LockInv, TypeOK, Places
<1>2. CASE waitm = v[t]
  <2>1. PICK w \in {"wake", "register", "out"} : pc' = [pc EXCEPT ![t] = w]
    BY <1>2 DEF Release, Return, Goto
  <2>2. \A s \in Ms : pc[s] \in Inside <=> s = t
    BY <1>1 DEF LockInv, Owned, Inside
  <2>3. \A s \in Ms : pc'[s] = IF s = t THEN w ELSE pc[s]
    BY <1>1, <2>1
  <2>4. w \notin Inside /\ w \notin Outside /\ pc[t] \notin Outside
    BY <1>1 DEF Inside, Outside
  <2>5. {s \in Ms : pc'[s] \in Inside} = {} /\ {s \in Ms : pc[s] \in Inside} = {t}
    BY <2>2, <2>3, <2>4
  <2>6. {s \in Ms : pc'[s] \in Outside} = {s \in Ms : pc[s] \in Outside}
    BY <2>3, <2>4
  <2>7. LockOf!Release(t)
    BY <2>5, <2>6 DEF LockOf!Release, Inside, Outside
  <2> QED
    BY <2>7 DEF LockOf!Next
<1>3. CASE waitm # v[t]
  BY <1>1, <1>3, Stays DEF Release, Inside, Outside
<1> QED
  BY <1>2, <1>3

\* Every step is a step of Mutex, or changes nothing that Mutex sees.
LEMMA StepImplements == LockInv /\ [Next]_vars => [LockOf!Next]_(LockOf!vars)
<1>1. ASSUME LockInv, NEW t \in Ms, Lock(t) \/ Step(t) \/ Expire(t)
      PROVE  LockOf!Next \/ UNCHANGED LockOf!vars
  BY <1>1, LockImplements, GrabImplements, ReleaseImplements,
     StaysInside, StaysOutside, StaysAway DEF Step
<1>2. ASSUME UNCHANGED vars PROVE UNCHANGED LockOf!vars
  BY <1>2 DEF vars, LockOf!vars
<1> QED
  BY <1>1, <1>2 DEF Next

LEMMA InitImplements == Init => LockOf!Init
  BY DEF Init, LockOf!Init, Inside, Outside

\* One M at a time has the lock, whatever the number of threads, and however
\* their reads, swaps, queueing and wakeups interleave.
THEOREM LockIsMutex == Spec => IsMutex
  BY InitInv, NextInv, InitImplements, StepImplements, PTL DEF Spec, LockOf!Spec, IsMutex

-----------------------------------------------------------------------------
(* No wakeup is lost, left over or doubled. *)

\* The list of the waiting M's is one: no M is in it twice, for nothing in it
\* leads back to the first, nor do two lead to the same.  Who unlocks holds on to
\* the first, which cannot leave the list, nor change what follows it, meanwhile.
OneList ==
  /\ \A t \in Ms : Listed(t) => pc[t] = "wait"
  /\ \A t \in Ms : Listed(t) => nextwaitm[t] \in {Nil} \cup (Ms \ {waitm.head})
  /\ \A s, t \in Ms :
       Listed(s) /\ Listed(t) /\ nextwaitm[s] = nextwaitm[t] /\ nextwaitm[s] # Nil => s = t
Held(t) ==
  /\ pc[t] \in {"next", "release"} /\ v[t].head # Nil => Listed(v[t].head)
  /\ pc[t] = "release" /\ v[t].head # Nil => next[t] = nextwaitm[v[t].head]

\* Only the timer process is registered with the note, while it sleeps, and
\* until it looks nothing but the wakeup removes it.
Registered ==
  /\ \A t \in Ms : pc[t] \in Asleep => timer = t
  /\ note \in Ms => pc[note] \in {"sleep", "expired", "unregister"}
  /\ \A t \in Ms : pc[t] \in {"sleep", "expired", "unregister"} => note \in {t, LOCKED}
  /\ \A t \in Ms : pc[t] = "take" => note = LOCKED

WakeInv == LockInv /\ OneList /\ Registered /\ InSync /\ \A t \in Ms : Held(t)

-----------------------------------------------------------------------------
(* The list of the waiting M's *)

\* The waiting M's are themselves a closed set.
LEMMA ListIsClosed ==
  ASSUME TypeOK
  PROVE  Closed({t \in Ms : Listed(t)})
<1> DEFINE L == {t \in Ms : Listed(t)}
<1>0. waitm.head \in Ms \cup {Nil} /\ \A s \in Ms : nextwaitm[s] \in Ms \cup {Nil}
  BY DEF TypeOK, Word
<1>1. waitm.head \in L \cup {Nil}
  BY <1>0 DEF Listed, Closed
<1>2. ASSUME NEW s \in L PROVE nextwaitm[s] \in L \cup {Nil}
  <2>1. CASE nextwaitm[s] = Nil
    BY <2>1
  <2>2. CASE nextwaitm[s] # Nil
    <3>1. ASSUME NEW S \in SUBSET Ms, Closed(S) PROVE nextwaitm[s] \in S
      <4>1. s \in S
        BY <1>2, <3>1 DEF Listed
      <4> QED BY <2>2, <3>1, <4>1 DEF Closed
    <3> QED BY <1>0, <3>1 DEF Listed
  <2> QED BY <2>1, <2>2
<1> QED
  BY <1>1, <1>2 DEF Closed

\* What changes neither the first nor what follows a waiting M leaves the list.
LEMMA SameList ==
  ASSUME TypeOK, waitm'.head = waitm.head,
         \A s \in Ms : Listed(s) => nextwaitm'[s] = nextwaitm[s]
  PROVE  \A s \in Ms : Listed(s)' <=> Listed(s)
<1>0. PICK L : L = {t \in Ms : Listed(t)}
  OBVIOUS
<1>1. Closed(L)
  BY <1>0, ListIsClosed
<1>2. Closed(L)'
  BY <1>0, <1>1 DEF Closed
<1>3. ASSUME NEW S \in SUBSET Ms, Closed(S)' PROVE L \subseteq S
  <2>1. Closed(S \cap L)
    BY <1>0, <1>1, <1>3 DEF Closed
  <2> QED BY <1>0, <2>1 DEF Listed
<1> QED
  BY <1>0, <1>2, <1>3 DEF Listed

\* An M that puts itself before the first is added to the list.
LEMMA Pushed ==
  ASSUME TypeOK, NEW t \in Ms, ~Listed(t), waitm'.head = t,
         nextwaitm' = [nextwaitm EXCEPT ![t] = waitm.head]
  PROVE  \A s \in Ms : Listed(s)' <=> Listed(s) \/ s = t
<1>0. PICK L : L = {s \in Ms : Listed(s)}
  OBVIOUS
<1>1. Closed(L) /\ t \notin L
  BY <1>0, ListIsClosed
<1>2. \A s \in Ms : nextwaitm'[s] = IF s = t THEN waitm.head ELSE nextwaitm[s]
  BY DEF TypeOK
<1>3. Closed(L \cup {t})'
  BY <1>1, <1>2 DEF Closed
<1>4. ASSUME NEW S \in SUBSET Ms, Closed(S)' PROVE L \cup {t} \subseteq S
  <2>1. t \in S
    BY <1>4, LockAssumption DEF Closed
  <2>2. Closed(S \cap L)
    BY <1>1, <1>2, <1>4, <2>1 DEF Closed
  <2> QED BY <1>0, <2>1, <2>2 DEF Listed
<1> QED
  BY <1>0, <1>3, <1>4 DEF Listed

\* The first is taken out of the list, and no other.
LEMMA Popped ==
  ASSUME TypeOK, OneList, waitm.head \in Ms, waitm'.head = nextwaitm[waitm.head],
         UNCHANGED nextwaitm
  PROVE  \A s \in Ms : Listed(s)' <=> Listed(s) /\ s # waitm.head
<1>0. PICK L, h : L = {s \in Ms : Listed(s)} /\ h = waitm.head
  OBVIOUS
<1>1. Closed(L) /\ h \in L
  BY <1>0, ListIsClosed, LockAssumption DEF Closed
<1>2. \A s \in L : nextwaitm[s] # h
  BY <1>0, LockAssumption DEF OneList
<1>3. Closed(L \ {h})'
  BY <1>0, <1>1, <1>2 DEF Closed
<1>4. ASSUME NEW S \in SUBSET Ms, Closed(S)' PROVE L \subseteq S \cup {h}
  <2>1. Closed(S \cup {h})
    BY <1>0, <1>4 DEF Closed
  <2> QED BY <1>0, <2>1 DEF Listed
<1> QED
  BY <1>0, <1>3, <1>4 DEF Listed

-----------------------------------------------------------------------------
(* What a step of one M leaves alone *)

\* A step of M t changes no other M's place, nor what another M read.
OnlyMoves(t) == \A s \in Ms : s # t =>
  pc'[s] = pc[s] /\ v'[s] = v[s] /\ next'[s] = next[s] /\ mp'[s] = mp[s]

\* Every step is one M's.
LEMMA StepMoves ==
  ASSUME TypeOK, NEW t \in Ms, Lock(t) \/ Step(t) \/ Expire(t)
  PROVE  OnlyMoves(t)
<1> USE DEF OnlyMoves, TypeOK, Goto, lockVars, noteVars
<1>1. CASE Lock(t) \/ Load(t) \/ Grab(t) \/ Queue(t) \/ QueueAgain(t) \/ WaitForLock(t)
  BY <1>1 DEF Lock, Load, Grab, Queue, QueueAgain, WaitForLock
<1>2. CASE Unlock(t) \/ FindNext(t) \/ Release(t) \/ WakeFirst(t)
  BY <1>2 DEF Unlock, FindNext, Release, WakeFirst
<1>3. CASE AddTimer(t) \/ AddFirstTimer(t) \/ ServeTimer(t) \/ ClearNote(t)
  BY <1>3 DEF AddTimer, AddFirstTimer, ServeTimer, ClearNote
<1>4. CASE NoteWakeup(t) \/ ExchangeNote(t) \/ WakeSleeper(t)
  BY <1>4 DEF NoteWakeup, ExchangeNote, WakeSleeper
<1>5. CASE Register(t) \/ SleepEnds(t) \/ Expire(t) \/ LookAtNote(t) \/ Unregister(t) \/ TakeSemaphore(t)
  BY <1>5 DEF Register, SleepEnds, Expire, LookAtNote, Unregister, TakeSemaphore, Awake
<1> QED
  BY <1>1, <1>2, <1>3, <1>4, <1>5 DEF Step

\* The list stays one list, and who holds on to the first still does.
LEMMA ListStays ==
  ASSUME WakeInv, NEW t \in Ms, OnlyMoves(t), Held(t)',
         waitm'.head = waitm.head,
         \A s \in Ms : Listed(s) => nextwaitm'[s] = nextwaitm[s],
         Listed(t) => pc'[t] = "wait"
  PROVE  OneList' /\ (\A s \in Ms : Held(s)') /\ (\A s \in Ms : Listed(s)' <=> Listed(s))
<1>1. \A s \in Ms : Listed(s)' <=> Listed(s)
  BY SameList DEF WakeInv, LockInv
<1>2. OneList'
  BY <1>1 DEF WakeInv, OneList, OnlyMoves
<1>3. ASSUME NEW s \in Ms, s # t PROVE Held(s)'
  <2>1. v[s].head \in Ms \cup {Nil}
    BY DEF WakeInv, LockInv, TypeOK, Word
  <2>2. pc'[s] = pc[s] /\ v'[s] = v[s] /\ next'[s] = next[s] /\ Held(s)
    BY <1>3 DEF OnlyMoves, WakeInv
  <2> QED
    BY <1>1, <2>1, <2>2 DEF Held
<1> QED
  BY <1>1, <1>2, <1>3

\* The semaphore of an M s is as it should be
Synced(s) ==
  /\ pc[s] # "thrown"
  /\ IF Expects(s)
     THEN \/ waitsema[s] = 1 /\ \A r \in Ms : ~Brings(r, s)
          \/ waitsema[s] = 0 /\ \E r \in Ms : \A q \in Ms : Brings(q, s) <=> q = r
     ELSE waitsema[s] = 0 /\ \A r \in Ms : ~Brings(r, s)

LEMMA InSyncIsSynced == InSync <=> \A s \in Ms : Synced(s)
  BY DEF InSync, Synced

\* An M stays in sync if neither its semaphore, nor who brings it up, nor whether
\* it expects that, changes.
LEMMA StaysSynced ==
  ASSUME NEW s \in Ms, Synced(s), waitsema'[s] = waitsema[s], pc'[s] # "thrown",
         Expects(s)' <=> Expects(s), \A r \in Ms : Brings(r, s)' <=> Brings(r, s)
  PROVE  Synced(s)'
  BY DEF Synced

\* Every other M expects what it did, if the list and the note are as they were.
LEMMA OthersExpect ==
  ASSUME NEW t \in Ms, OnlyMoves(t), note' = LOCKED <=> note = LOCKED,
         NEW s \in Ms, s # t, Listed(s)' <=> Listed(s)
  PROVE  Expects(s)' <=> Expects(s)
  BY DEF Expects, OnlyMoves

\* An M that neither was about to put a semaphore up nor is now brings what it did.
LEMMA BringsNothing ==
  ASSUME NEW t \in Ms, OnlyMoves(t), pc[t] \notin {"wake", "ready"}, pc'[t] \notin {"wake", "ready"}
  PROVE  \A r, s \in Ms : Brings(r, s)' <=> Brings(r, s)
  BY DEF Brings, OnlyMoves

\* The M's stay in sync, if all but one stay as they were.
LEMMA InSyncBut ==
  ASSUME InSync, NEW m \in Ms, Synced(m)',
         \A s \in Ms : s # m =>
           /\ waitsema'[s] = waitsema[s] /\ pc'[s] # "thrown"
           /\ Expects(s)' <=> Expects(s)
           /\ \A r \in Ms : Brings(r, s)' <=> Brings(r, s)
  PROVE  InSync'
<1>1. \A s \in Ms : Synced(s)'
  BY InSyncIsSynced, StaysSynced
<1> QED
  BY <1>1 DEF InSync, Synced

\* A step of an M that does not run the timer process's sleep.
LEMMA RegisteredStays ==
  ASSUME WakeInv, NEW t \in Ms, OnlyMoves(t), UNCHANGED note,
         timer' = timer \/ timer \in {Nil, t}, pc[t] \notin Asleep, pc'[t] \notin Asleep
  PROVE  Registered'
<1>1. \A s \in Ms : pc'[s] \in Asleep => s # t /\ pc[s] \in Asleep /\ timer = s
  BY DEF OnlyMoves, WakeInv, Registered
<1>2. \A s \in Ms : pc'[s] \in Asleep => timer' = s
  BY <1>1, LockAssumption
<1>3. note \in Ms => note # t /\ pc'[note] = pc[note]
  BY DEF OnlyMoves, WakeInv, Registered, Asleep
<1> QED
  BY <1>1, <1>2, <1>3 DEF OnlyMoves, WakeInv, Registered, Asleep

\* A step that is none of a wakeup, a wait or a sleep.
LEMMA Quiet ==
  ASSUME WakeInv, NEW t \in Ms, OnlyMoves(t), Held(t)',
         waitm'.head = waitm.head,
         \A s \in Ms : Listed(s) => nextwaitm'[s] = nextwaitm[s],
         UNCHANGED <<waitsema, note>>, timer' = timer \/ timer \in {Nil, t},
         pc[t] \notin {"wait", "wake", "ready"} \cup Asleep,
         pc'[t] \notin {"wait", "wake", "ready", "thrown"} \cup Asleep
  PROVE  OneList' /\ Registered' /\ InSync' /\ \A s \in Ms : Held(s)'
<1>1. OneList' /\ (\A s \in Ms : Held(s)') /\ (\A s \in Ms : Listed(s)' <=> Listed(s))
  BY ListStays DEF WakeInv, OneList
<1>2. Registered'
  BY RegisteredStays
<1>3. ASSUME NEW s \in Ms PROVE Synced(s)'
  <2>1. Synced(s)
    BY InSyncIsSynced DEF WakeInv
  <2>2. \A r \in Ms : Brings(r, s)' <=> Brings(r, s)
    BY BringsNothing
  <2>3. pc'[s] # "thrown"
    BY <2>1 DEF OnlyMoves, Synced
  <2>4. Expects(s)' <=> Expects(s)
    <3>1. CASE s = t
      BY <3>1 DEF Expects, Asleep
    <3>2. CASE s # t
      BY <3>2, <1>1, OthersExpect
    <3> QED BY <3>1, <3>2
  <2> QED
    BY <2>1, <2>2, <2>3, <2>4, StaysSynced
<1>4. InSync'
  BY <1>3 DEF InSync, Synced
<1> QED
  BY <1>1, <1>2, <1>4

-----------------------------------------------------------------------------
(* runtime.lock and runtime.unlock *)

\* The M tries, looks, or gets the lock.
LEMMA LockSync ==
  ASSUME WakeInv, NEW t \in Ms, Lock(t) \/ Load(t) \/ Grab(t) \/ QueueAgain(t)
  PROVE  OneList' /\ Registered' /\ InSync' /\ \A s \in Ms : Held(s)'
<1>0. OnlyMoves(t) /\ TypeOK
  BY StepMoves DEF WakeInv, LockInv, Step
<1>1. pc \in [Ms -> Places]
  BY <1>0 DEF TypeOK, Places
<1>2. CASE Lock(t)
  BY <1>0, <1>1, <1>2, Quiet DEF Lock, Goto, Asleep, Held, Free
<1>3. CASE Load(t)
  BY <1>0, <1>1, <1>3, Quiet DEF Load, Goto, Asleep, Held, noteVars
<1>4. CASE Grab(t)
  <2>1. waitm'.head = waitm.head
    BY <1>0, <1>4 DEF Grab, TypeOK, Word
  <2> QED
    BY <1>0, <1>1, <1>4, <2>1, Quiet DEF Grab, Goto, Asleep, Held, noteVars
<1>5. CASE QueueAgain(t)
  BY <1>0, <1>1, <1>5, Quiet DEF QueueAgain, Goto, Asleep, Held, noteVars
<1> QED
  BY <1>2, <1>3, <1>4, <1>5

\* The M that unlocks reads the list, or finds it changed.
LEMMA UnlockSync ==
  ASSUME WakeInv, NEW t \in Ms, Unlock(t) \/ FindNext(t) \/ (Release(t) /\ waitm # v[t])
  PROVE  OneList' /\ Registered' /\ InSync' /\ \A s \in Ms : Held(s)'
<1>0. OnlyMoves(t) /\ TypeOK
  BY StepMoves DEF WakeInv, LockInv, Step
<1>1. pc \in [Ms -> Places] /\ v \in [Ms -> Word] /\ next \in [Ms -> Ms \cup {Nil}]
  BY <1>0 DEF TypeOK, Places
<1>2. CASE Unlock(t)
  <2>1. v'[t] = waitm /\ (waitm.head # Nil => Listed(waitm.head))
    BY <1>0, <1>1, <1>2 DEF Unlock, TypeOK, Word, Listed, Closed
  <2>2. pc'[t] = IF waitm.head = Nil THEN "release" ELSE "next"
    BY <1>1, <1>2 DEF Unlock, Goto
  <2>3. (\A s \in Ms : Listed(s)' <=> Listed(s)) /\ waitm.head \in Ms \cup {Nil}
    BY <1>0, <1>2, SameList DEF Unlock, TypeOK, Word
  <2>4. Held(t)'
    BY <2>1, <2>2, <2>3 DEF Held
  <2> QED
    BY <1>0, <1>2, <2>2, <2>4, Quiet DEF Unlock, Asleep, noteVars
<1>3. CASE FindNext(t)
  <2>1. Held(t)
    BY DEF WakeInv
  <2>2. next'[t] = nextwaitm[v[t].head] /\ v'[t] = v[t] /\ pc'[t] = "release"
    BY <1>1, <1>3 DEF FindNext, Goto
  <2>3. \A s \in Ms : Listed(s)' <=> Listed(s)
    BY <1>0, <1>3, SameList DEF FindNext
  <2>4. v[t].head \in Ms \cup {Nil}
    BY <1>1 DEF Word
  <2>5. pc[t] = "next" /\ nextwaitm' = nextwaitm
    BY <1>3 DEF FindNext
  <2>6. Held(t)'
    BY <2>1, <2>2, <2>3, <2>4, <2>5 DEF Held
  <2> QED
    BY <1>0, <1>3, <2>2, <2>6, Quiet DEF FindNext, Asleep, noteVars
<1>4. CASE Release(t) /\ waitm # v[t]
  BY <1>0, <1>1, <1>4, Quiet DEF Release, Goto, Asleep, Held, noteVars
<1> QED
  BY <1>2, <1>3, <1>4

\* What is done inside the lock, but for a wakeup and for clearing the note.
LEMMA InsideSync ==
  ASSUME WakeInv, NEW t \in Ms,
         \/ AddTimer(t) \/ AddFirstTimer(t) \/ ServeTimer(t) \/ NoteWakeup(t)
         \/ (ExchangeNote(t) /\ note # mp[t])
  PROVE  OneList' /\ Registered' /\ InSync' /\ \A s \in Ms : Held(s)'
<1>0. OnlyMoves(t) /\ TypeOK
  BY StepMoves DEF WakeInv, LockInv, Step
<1>1. pc \in [Ms -> Places]
  BY <1>0 DEF TypeOK, Places
<1>2. CASE AddTimer(t)
  BY <1>0, <1>1, <1>2, Quiet DEF AddTimer, Goto, Asleep, Held, lockVars, noteVars
<1>3. CASE AddFirstTimer(t)
  BY <1>0, <1>1, <1>3, Quiet DEF AddFirstTimer, Goto, Asleep, Held, lockVars
<1>4. CASE ServeTimer(t)
  BY <1>0, <1>1, <1>4, Quiet DEF ServeTimer, Goto, Asleep, Held, lockVars
<1>5. CASE NoteWakeup(t)
  BY <1>0, <1>1, <1>5, Quiet DEF NoteWakeup, Goto, Asleep, Held, lockVars
<1>6. CASE ExchangeNote(t) /\ note # mp[t]
  BY <1>0, <1>1, <1>6, Quiet DEF ExchangeNote, Goto, Asleep, Held, lockVars
<1> QED
  BY <1>2, <1>3, <1>4, <1>5, <1>6

\* The M puts itself into the list, or finds the word changed.
LEMMA QueueSync ==
  ASSUME WakeInv, NEW t \in Ms, Queue(t)
  PROVE  OneList' /\ Registered' /\ InSync' /\ \A s \in Ms : Held(s)'
<1>0. OnlyMoves(t) /\ TypeOK
  BY StepMoves DEF WakeInv, LockInv, Step
<1>1. /\ pc \in [Ms -> Places] /\ v \in [Ms -> Word]
      /\ pc[t] = "queue" /\ ~Listed(t)
      /\ nextwaitm' = [nextwaitm EXCEPT ![t] = v[t].head]
      /\ UNCHANGED <<waitsema, note, timer>>
  BY <1>0 DEF TypeOK, Places, Queue, noteVars, WakeInv, OneList
<1>2. CASE waitm # v[t]
  <2>1. \A s \in Ms : Listed(s) => nextwaitm'[s] = nextwaitm[s]
    BY <1>0, <1>1 DEF TypeOK
  <2>2. pc'[t] = "again" /\ waitm' = waitm
    BY <1>1, <1>2 DEF Queue, Goto
  <2>3. Held(t)'
    BY <2>2 DEF Held
  <2> QED
    BY <1>0, <1>1, <2>1, <2>2, <2>3, Quiet DEF Asleep
<1>3. CASE waitm = v[t]
  <2>1. /\ waitm'.head = t /\ pc'[t] = "wait"
        /\ waitm.head \in Ms \cup {Nil}
        /\ \A s \in Ms : nextwaitm'[s] = IF s = t THEN waitm.head ELSE nextwaitm[s]
    BY <1>0, <1>1, <1>3 DEF Queue, Goto, Queued, TypeOK, Word
  <2>2. \A s \in Ms : Listed(s)' <=> Listed(s) \/ s = t
    BY <1>0, <1>1, <1>3, <2>1, Pushed
  <2>3. waitm.head # Nil => Listed(waitm.head)
    BY <2>1 DEF Listed, Closed
  <2>4. \A s \in Ms : Listed(s) => nextwaitm[s] = Nil \/ (nextwaitm[s] \in Ms /\ Listed(nextwaitm[s]))
    <3>0. PICK L : L = {s \in Ms : Listed(s)}
      OBVIOUS
    <3>1. Closed(L)
      BY <1>0, <3>0, ListIsClosed
    <3> QED BY <3>0, <3>1 DEF Closed
  <2>5. OneList'
    <3>1. \A s \in Ms : Listed(s)' => pc'[s] = "wait"
      BY <1>0, <2>1, <2>2 DEF OnlyMoves, WakeInv, OneList
    <3>2. ASSUME NEW s \in Ms, Listed(s)' PROVE nextwaitm'[s] \in {Nil} \cup (Ms \ {waitm'.head})
      BY <1>1, <2>1, <2>2, <2>3, <2>4, <3>2
    <3>3. ASSUME NEW r \in Ms, NEW s \in Ms, Listed(r)', Listed(s)',
                 nextwaitm'[r] = nextwaitm'[s], nextwaitm'[r] # Nil
          PROVE  r = s
      <4>1. CASE r # t /\ s # t
        BY <2>1, <2>2, <3>3, <4>1 DEF WakeInv, OneList
      <4>2. CASE r = t \/ s = t
        BY <2>1, <2>2, <3>3, <4>2, LockAssumption DEF WakeInv, OneList
      <4> QED BY <4>1, <4>2
    <3> QED BY <3>1, <3>2, <3>3 DEF OneList
  <2>6. \A s \in Ms : Held(s)'
    <3>1. ASSUME NEW s \in Ms, s # t PROVE Held(s)'
      <4>1. Held(s) /\ pc'[s] = pc[s] /\ v'[s] = v[s] /\ next'[s] = next[s]
        BY <1>0, <3>1 DEF OnlyMoves, WakeInv
      <4>2. v[s].head \in Ms \cup {Nil}
        BY <1>1 DEF Word
      <4> QED
        BY <1>1, <2>1, <2>2, <4>1, <4>2 DEF Held
    <3>2. Held(t)'
      BY <2>1 DEF Held
    <3> QED BY <3>1, <3>2
  <2>7. Registered'
    BY <1>0, <1>1, <2>1, RegisteredStays DEF Asleep
  <2>8. \A r, s \in Ms : Brings(r, s)' <=> Brings(r, s)
    BY <1>0, <1>1, <2>1, BringsNothing
  <2>9. ~Expects(t) /\ ~Expects(t)'
    BY <1>1, <2>1, <2>2 DEF Expects
  <2>10. \A s \in Ms : pc'[s] # "thrown" /\ Synced(s)
    BY <1>0, <2>1, InSyncIsSynced DEF OnlyMoves, WakeInv, InSync
  <2>11. ASSUME NEW s \in Ms PROVE Synced(s)'
    <3>1. CASE s = t
      BY <1>1, <2>8, <2>9, <2>10, <3>1, StaysSynced
    <3>2. CASE s # t
      <4>1. Expects(s)' <=> Expects(s)
        BY <1>0, <1>1, <2>2, <3>2, OthersExpect
      <4> QED BY <1>1, <2>8, <2>10, <4>1, StaysSynced
    <3> QED BY <3>1, <3>2
  <2>12. InSync'
    BY <2>11 DEF InSync, Synced
  <2> QED
    BY <2>5, <2>6, <2>7, <2>12
<1> QED
  BY <1>2, <1>3

\* The M that unlocks takes the first out of the list, and will wake it.
LEMMA ReleaseSync ==
  ASSUME WakeInv, NEW t \in Ms, Release(t), waitm = v[t]
  PROVE  OneList' /\ Registered' /\ InSync' /\ \A s \in Ms : Held(s)'
<1>0. OnlyMoves(t) /\ TypeOK
  BY StepMoves DEF WakeInv, LockInv, Step
<1>1. /\ pc \in [Ms -> Places] /\ v \in [Ms -> Word] /\ pc[t] = "release"
      /\ UNCHANGED <<nextwaitm, waitsema, note, timer>>
      /\ waitm.head \in Ms \cup {Nil}
  BY <1>0 DEF TypeOK, Places, Word, Release, noteVars
<1>2. \A s \in Ms : Synced(s)
  BY InSyncIsSynced DEF WakeInv
<1>3. CASE waitm.head = Nil
  <2>1. waitm'.head = waitm.head /\ pc'[t] = (IF t = timer THEN "register" ELSE "out")
    BY <1>1, <1>3 DEF Release, Goto, Return
  <2>2. Held(t)' /\ ~Listed(t)
    BY <1>1, <2>1 DEF Held, WakeInv, OneList
  <2>3. OneList' /\ (\A s \in Ms : Held(s)') /\ (\A s \in Ms : Listed(s)' <=> Listed(s))
    BY <1>0, <1>1, <2>1, <2>2, ListStays
  <2>4. Registered'
    <3>1. note \in Ms => note # t /\ pc'[note] = pc[note]
      BY <1>0, <1>1 DEF OnlyMoves, WakeInv, Registered
    <3> QED
      BY <1>0, <1>1, <2>1, <3>1 DEF OnlyMoves, WakeInv, Registered, Asleep
  <2>5. \A r, s \in Ms : Brings(r, s)' <=> Brings(r, s)
    BY <1>0, <1>1, <2>1, BringsNothing
  <2>6. ~Expects(t) /\ ~Expects(t)'
    BY <1>1, <2>1 DEF Expects
  <2>7. \A s \in Ms : s # t => (Expects(s)' <=> Expects(s)) /\ pc'[s] # "thrown"
    BY <1>0, <1>1, <1>2, <2>3, OthersExpect DEF OnlyMoves, Synced
  <2>8. Synced(t)'
    BY <1>1, <1>2, <2>1, <2>5, <2>6, StaysSynced
  <2>9. InSync'
    BY <1>1, <2>5, <2>7, <2>8, InSyncBut DEF WakeInv
  <2> QED
    BY <2>3, <2>4, <2>9
<1>4. CASE waitm.head # Nil
  <2>0. PICK h \in Ms : h = waitm.head
    BY <1>1, <1>4
  <2>1. Listed(h) /\ pc[h] = "wait" /\ h # t
    <3>1. Listed(h)
      BY <1>4, <2>0 DEF Listed, Closed
    <3> QED BY <1>1, <3>1 DEF WakeInv, OneList
  <2>2. /\ waitm'.head = nextwaitm[h] /\ pc'[t] = "wake" /\ v'[t].head = h
    <3>1. next[t] = nextwaitm[h]
      BY <1>1, <1>4, <2>0 DEF WakeInv, Held
    <3> QED BY <1>1, <1>4, <2>0, <3>1 DEF Release, Goto
  <2>3. \A s \in Ms : Listed(s)' <=> Listed(s) /\ s # h
    BY <1>0, <1>1, <2>0, <2>2, Popped DEF WakeInv
  <2>4. OneList'
    <3>1. \A s \in Ms : Listed(s)' => pc'[s] = "wait"
      BY <1>0, <1>1, <2>3 DEF OnlyMoves, WakeInv, OneList
    <3>2. ASSUME NEW s \in Ms, Listed(s)' PROVE nextwaitm'[s] \in {Nil} \cup (Ms \ {waitm'.head})
      BY <1>1, <2>1, <2>2, <2>3, <3>2 DEF WakeInv, OneList
    <3>3. \A r, s \in Ms :
            Listed(r)' /\ Listed(s)' /\ nextwaitm'[r] = nextwaitm'[s] /\ nextwaitm'[r] # Nil => r = s
      BY <1>1, <2>3 DEF WakeInv, OneList
    <3> QED BY <3>1, <3>2, <3>3 DEF OneList
  <2>5. \A s \in Ms : Held(s)'
    <3>1. ASSUME NEW s \in Ms PROVE pc'[s] \notin {"next", "release"}
      BY <1>0, <1>1, <2>2 DEF OnlyMoves, WakeInv, LockInv, Owned, Inside
    <3> QED BY <3>1 DEF Held
  <2>6. Registered'
    BY <1>0, <1>1, <2>2, RegisteredStays DEF Asleep
  <2>7. \A r, s \in Ms : Brings(r, s)' <=> Brings(r, s) \/ (r = t /\ s = h)
    BY <1>0, <1>1, <2>2 DEF Brings, OnlyMoves
  <2>8. ~Expects(h) /\ Expects(h)'
    <3>1. pc'[h] = "wait" /\ ~Listed(h)'
      BY <1>0, <2>1, <2>3 DEF OnlyMoves
    <3> QED BY <2>1, <3>1 DEF Expects
  <2>9. Synced(h)'
    BY <1>1, <1>2, <2>7, <2>8 DEF Synced, Expects
  <2>10. \A s \in Ms : s # h => (Expects(s)' <=> Expects(s)) /\ pc'[s] # "thrown"
    <3>1. ~Expects(t) /\ ~Expects(t)'
      BY <1>1, <2>2 DEF Expects
    <3>2. \A s \in Ms : s # t /\ s # h => (Expects(s)' <=> Expects(s))
      BY <1>0, <1>1, <2>3, OthersExpect
    <3> QED BY <1>0, <1>2, <2>2, <3>1, <3>2 DEF OnlyMoves, Synced
  <2>11. InSync'
    BY <1>1, <2>7, <2>9, <2>10, InSyncBut DEF WakeInv
  <2> QED
    BY <2>4, <2>5, <2>6, <2>11
<1> QED
  BY <1>3, <1>4

\* The M is woken, and its semaphore is down again.
LEMMA WaitSync ==
  ASSUME WakeInv, NEW t \in Ms, WaitForLock(t)
  PROVE  OneList' /\ Registered' /\ InSync' /\ \A s \in Ms : Held(s)'
<1>0. OnlyMoves(t) /\ TypeOK
  BY StepMoves DEF WakeInv, LockInv, Step
<1>1. /\ pc[t] = "wait" /\ pc'[t] = "load" /\ waitsema[t] > 0
      /\ waitsema' = [waitsema EXCEPT ![t] = @ - 1]
      /\ UNCHANGED <<waitm, nextwaitm, note, timer>>
  BY <1>0 DEF WaitForLock, Down, Goto, TypeOK, noteVars
<1>2. \A s \in Ms : Synced(s)
  BY InSyncIsSynced DEF WakeInv
<1>3. Expects(t) /\ waitsema[t] = 1 /\ (\A r \in Ms : ~Brings(r, t)) /\ ~Listed(t)
  BY <1>1, <1>2 DEF Synced, Expects
<1>4. OneList' /\ (\A s \in Ms : Held(s)') /\ (\A s \in Ms : Listed(s)' <=> Listed(s))
  BY <1>0, <1>1, <1>3, ListStays DEF Held
<1>5. Registered'
  BY <1>0, <1>1, RegisteredStays DEF Asleep
<1>6. \A r, s \in Ms : Brings(r, s)' <=> Brings(r, s)
  BY <1>0, <1>1, BringsNothing
<1>7. Synced(t)'
  <2>1. ~Expects(t)' /\ waitsema'[t] = 0
    BY <1>0, <1>1, <1>3 DEF Expects, TypeOK
  <2> QED BY <1>1, <1>3, <1>6, <2>1 DEF Synced
<1>8. \A s \in Ms : s # t =>
        waitsema'[s] = waitsema[s] /\ pc'[s] # "thrown" /\ (Expects(s)' <=> Expects(s))
  BY <1>0, <1>1, <1>2, <1>4, OthersExpect DEF OnlyMoves, Synced, TypeOK
<1>9. InSync'
  BY <1>6, <1>7, <1>8, InSyncBut DEF WakeInv
<1> QED
  BY <1>4, <1>5, <1>9

\* A semaphore is put up by the one M that was about to.
LEMMA UpSync ==
  ASSUME WakeInv, NEW t \in Ms, OnlyMoves(t), NEW m \in Ms, Brings(t, m),
         waitsema' = [waitsema EXCEPT ![m] = @ + 1],
         UNCHANGED <<waitm, nextwaitm, note>>,
         pc'[t] \notin {"wait", "wake", "ready", "thrown", "sleep", "expired", "unregister", "take"},
         Held(t)'
  PROVE  OneList' /\ InSync' /\ \A s \in Ms : Held(s)'
<1>0. TypeOK
  BY DEF WakeInv, LockInv
<1>1. \A s \in Ms : Synced(s)
  BY InSyncIsSynced DEF WakeInv
<1>2. pc[t] \in {"wake", "ready"}
  BY DEF Brings
<1>3. ~Listed(t) /\ ~Expects(t) /\ ~Expects(t)'
  BY <1>2 DEF WakeInv, OneList, Expects
<1>4. OneList' /\ (\A s \in Ms : Held(s)') /\ (\A s \in Ms : Listed(s)' <=> Listed(s))
  BY <1>3, ListStays
<1>5. Expects(m) /\ waitsema[m] = 0 /\ (\A r \in Ms : Brings(r, m) <=> r = t)
  BY <1>1 DEF Synced
<1>6. \A s \in Ms : Expects(s)' <=> Expects(s)
  BY <1>3, <1>4, OthersExpect
<1>7. \A r, s \in Ms : Brings(r, s)' <=> Brings(r, s) /\ r # t
  BY DEF Brings, OnlyMoves
<1>8. \A s \in Ms : s # m => ~Brings(t, s)
  BY <1>2 DEF Brings
<1>9. Synced(m)'
  <2>1. waitsema'[m] = 1 /\ pc'[m] # "thrown"
    BY <1>0, <1>1, <1>5 DEF TypeOK, OnlyMoves, Synced
  <2> QED BY <1>5, <1>6, <1>7, <2>1 DEF Synced
<1>10. \A s \in Ms : s # m =>
         /\ waitsema'[s] = waitsema[s] /\ pc'[s] # "thrown"
         /\ \A r \in Ms : Brings(r, s)' <=> Brings(r, s)
  BY <1>0, <1>1, <1>7, <1>8 DEF OnlyMoves, Synced, TypeOK
<1>11. InSync'
  BY <1>6, <1>9, <1>10, InSyncBut DEF WakeInv
<1> QED
  BY <1>4, <1>11

\* The M that was taken out of the list is woken.
LEMMA WakeSync ==
  ASSUME WakeInv, NEW t \in Ms, WakeFirst(t)
  PROVE  OneList' /\ Registered' /\ InSync' /\ \A s \in Ms : Held(s)'
<1>0. OnlyMoves(t) /\ TypeOK
  BY StepMoves DEF WakeInv, LockInv, Step
<1>1. /\ pc[t] = "wake" /\ v[t].head \in Ms
      /\ pc'[t] = (IF t = timer THEN "register" ELSE "out")
      /\ waitsema' = [waitsema EXCEPT ![v[t].head] = @ + 1]
      /\ UNCHANGED <<waitm, nextwaitm, note, timer>>
  BY <1>0 DEF WakeFirst, Up, Goto, Return, TypeOK, WakeInv, LockInv, Bound, noteVars
<1>2. Brings(t, v[t].head)
  BY <1>1 DEF Brings
<1>3. OneList' /\ InSync' /\ \A s \in Ms : Held(s)'
  BY <1>0, <1>1, <1>2, UpSync DEF Held
<1>4. Registered'
  <2>1. note \in Ms => note # t /\ pc'[note] = pc[note]
    BY <1>0, <1>1 DEF OnlyMoves, WakeInv, Registered
  <2> QED
    BY <1>0, <1>1, <2>1 DEF OnlyMoves, WakeInv, Registered, Asleep
<1> QED
  BY <1>3, <1>4

-----------------------------------------------------------------------------
(* The note and the sleep of the timer process *)

\* The M that was registered with the note is woken.
LEMMA ReadySync ==
  ASSUME WakeInv, NEW t \in Ms, WakeSleeper(t)
  PROVE  OneList' /\ Registered' /\ InSync' /\ \A s \in Ms : Held(s)'
<1>0. OnlyMoves(t) /\ TypeOK
  BY StepMoves DEF WakeInv, LockInv, Step
<1>1. /\ pc[t] = "ready" /\ mp[t] \in Ms /\ pc'[t] = "unlock"
      /\ waitsema' = [waitsema EXCEPT ![mp[t]] = @ + 1]
      /\ UNCHANGED <<waitm, nextwaitm, note, timer>>
  BY <1>0 DEF WakeSleeper, Up, Goto, TypeOK, WakeInv, LockInv, Bound, lockVars
<1>2. Brings(t, mp[t])
  BY <1>1 DEF Brings
<1>3. OneList' /\ InSync' /\ \A s \in Ms : Held(s)'
  BY <1>0, <1>1, <1>2, UpSync DEF Held
<1>4. Registered'
  BY <1>0, <1>1, RegisteredStays DEF Asleep
<1> QED
  BY <1>3, <1>4

\* The timer process clears the note, with which no M is registered then.
LEMMA ClearSync ==
  ASSUME WakeInv, NEW t \in Ms, ClearNote(t)
  PROVE  OneList' /\ Registered' /\ InSync' /\ \A s \in Ms : Held(s)'
<1>0. OnlyMoves(t) /\ TypeOK
  BY StepMoves DEF WakeInv, LockInv, Step
<1>1. /\ pc[t] = "in" /\ t = timer /\ pc'[t] = "unlock" /\ note' = Nil
      /\ UNCHANGED <<waitm, nextwaitm, waitsema, timer>>
  BY <1>0 DEF ClearNote, Goto, TypeOK, lockVars
<1>2. \A s \in Ms : pc[s] \notin Asleep /\ pc'[s] \notin Asleep
  BY <1>0, <1>1 DEF WakeInv, Registered, Asleep, OnlyMoves
<1>3. OneList' /\ (\A s \in Ms : Held(s)') /\ (\A s \in Ms : Listed(s)' <=> Listed(s))
  BY <1>0, <1>1, ListStays DEF Held, WakeInv, OneList
<1>4. Registered'
  BY <1>1, <1>2, LockAssumption DEF Registered, Asleep
<1>5. \A r, s \in Ms : Brings(r, s)' <=> Brings(r, s)
  BY <1>0, <1>1, BringsNothing
<1>6. \A s \in Ms : (Expects(s)' <=> Expects(s)) /\ pc'[s] # "thrown" /\ Synced(s)
  BY <1>0, <1>1, <1>2, <1>3, InSyncIsSynced DEF Expects, Asleep, OnlyMoves, WakeInv, Synced
<1>7. \A s \in Ms : Synced(s)'
  BY <1>1, <1>5, <1>6, StaysSynced
<1> QED
  BY <1>3, <1>4, <1>7 DEF InSync, Synced

\* The note is woken: whoever is registered with it now expects to be.
LEMMA ExchangeSync ==
  ASSUME WakeInv, NEW t \in Ms, ExchangeNote(t), note = mp[t]
  PROVE  OneList' /\ Registered' /\ InSync' /\ \A s \in Ms : Held(s)'
<1>0. OnlyMoves(t) /\ TypeOK
  BY StepMoves DEF WakeInv, LockInv, Step
<1>1. /\ pc[t] = "exchange" /\ note \in Ms \cup {Nil} /\ note' = LOCKED
      /\ pc'[t] = (IF note = Nil THEN "unlock" ELSE "ready")
      /\ note \in Ms => mp'[t] = note
      /\ UNCHANGED <<waitm, nextwaitm, waitsema, timer>>
  BY <1>0, LockAssumption DEF ExchangeNote, Goto, TypeOK, WakeInv, LockInv, WokenOnce, lockVars
<1>2. \A s \in Ms : Synced(s)
  BY InSyncIsSynced DEF WakeInv
<1>3. OneList' /\ (\A s \in Ms : Held(s)') /\ (\A s \in Ms : Listed(s)' <=> Listed(s))
  BY <1>0, <1>1, ListStays DEF Held, WakeInv, OneList
<1>4. Registered'
  BY <1>0, <1>1, LockAssumption DEF Registered, Asleep, WakeInv, OnlyMoves
<1>5. \A s \in Ms : pc[s] \in {"sleep", "expired", "unregister", "take"} => s = note
  BY <1>1, LockAssumption DEF WakeInv, Registered
<1>6. \A s \in Ms : s # note => (Expects(s)' <=> Expects(s)) /\ pc'[s] # "thrown"
  BY <1>0, <1>1, <1>2, <1>3, <1>5 DEF Expects, OnlyMoves, Synced
<1>7. CASE note = Nil
  <2>1. \A r, s \in Ms : Brings(r, s)' <=> Brings(r, s)
    BY <1>0, <1>1, <1>7, BringsNothing
  <2>2. \A s \in Ms : Synced(s)'
    BY <1>1, <1>2, <1>6, <1>7, <2>1, StaysSynced, LockAssumption
  <2> QED BY <1>3, <1>4, <2>2 DEF InSync, Synced
<1>8. CASE note # Nil
  <2>1. PICK m \in Ms : m = note
    BY <1>1, <1>8
  <2>2. pc[m] \in {"sleep", "expired", "unregister"} /\ m # t /\ pc'[m] = pc[m]
    BY <1>0, <1>1, <2>1 DEF WakeInv, Registered, OnlyMoves
  <2>3. \A r, s \in Ms : Brings(r, s)' <=> Brings(r, s) \/ (r = t /\ s = m)
    BY <1>0, <1>1, <2>1, LockAssumption DEF Brings, OnlyMoves
  <2>4. ~Expects(m) /\ Expects(m)'
    BY <1>1, <2>1, <2>2, LockAssumption DEF Expects
  <2>5. Synced(m)'
    BY <1>1, <1>2, <2>2, <2>3, <2>4 DEF Synced
  <2>6. InSync'
    BY <1>1, <1>6, <2>1, <2>3, <2>5, InSyncBut DEF WakeInv
  <2> QED BY <1>3, <1>4, <2>6
<1> QED
  BY <1>7, <1>8

\* No M but the one that runs the timer process is in its sleep.
LEMMA OneSleeps ==
  ASSUME WakeInv, NEW t \in Ms, pc[t] \in Asleep, OnlyMoves(t)
  PROVE  /\ timer = t
         /\ \A s \in Ms : s # t => pc[s] \notin Asleep /\ pc'[s] \notin Asleep
         /\ note \in Ms => note = t
  BY DEF WakeInv, Registered, OnlyMoves, Asleep

\* A step of the sleep that puts no semaphore up: what the M itself expects must
\* be as it should.
LEMMA SleepStays ==
  ASSUME WakeInv, NEW t \in Ms, OnlyMoves(t), pc[t] \in Asleep,
         pc'[t] \in {"out"} \cup Asleep,
         UNCHANGED <<waitm, nextwaitm>>,
         \A s \in Ms : s # t => waitsema'[s] = waitsema[s],
         (\A r \in Ms : Brings(r, t)' <=> Brings(r, t)) => Synced(t)'
  PROVE  OneList' /\ InSync' /\ \A s \in Ms : Held(s)'
<1>1. OneList' /\ (\A s \in Ms : Held(s)') /\ (\A s \in Ms : Listed(s)' <=> Listed(s))
  BY ListStays DEF Held, WakeInv, OneList, Asleep
<1>2. \A r, s \in Ms : Brings(r, s)' <=> Brings(r, s)
  BY BringsNothing DEF Asleep
<1>3. \A s \in Ms : s # t => (Expects(s)' <=> Expects(s)) /\ pc'[s] # "thrown"
  <2>1. \A s \in Ms : Synced(s)
    BY InSyncIsSynced DEF WakeInv
  <2> QED
    BY <1>1, <2>1, OneSleeps DEF Expects, Asleep, OnlyMoves, Synced
<1>4. InSync'
  BY <1>2, <1>3, InSyncBut DEF WakeInv
<1> QED
  BY <1>1, <1>4

\* The timer process goes to sleep, is woken, or its deadline passes, before the
\* wakeup or after it.
LEMMA SleepSync ==
  ASSUME WakeInv, NEW t \in Ms,
         \/ Register(t) \/ SleepEnds(t) \/ Expire(t) \/ LookAtNote(t)
         \/ Unregister(t) \/ TakeSemaphore(t)
  PROVE  OneList' /\ Registered' /\ InSync' /\ \A s \in Ms : Held(s)'
<1>0. OnlyMoves(t) /\ TypeOK
  BY StepMoves DEF WakeInv, LockInv, Step
<1>1. pc[t] \in Asleep /\ UNCHANGED <<waitm, nextwaitm>>
  BY DEF Register, SleepEnds, Expire, LookAtNote, Unregister, TakeSemaphore, Asleep, lockVars
<1>2. /\ timer = t
      /\ \A s \in Ms : s # t => pc[s] \notin Asleep /\ pc'[s] \notin Asleep
      /\ note \in Ms => note = t
  BY <1>0, <1>1, OneSleeps
<1>3. Synced(t)
  BY InSyncIsSynced DEF WakeInv
<1>4. CASE Register(t)
  <2>1. pc[t] = "register" /\ note \in {Nil, LOCKED} /\ waitsema' = waitsema
    BY <1>0, <1>2, <1>4 DEF Register, WakeInv, Registered, TypeOK
  <2>2. /\ pc'[t] = (IF note = Nil THEN "sleep" ELSE "out")
        /\ note' = (IF note = Nil THEN t ELSE LOCKED)
        /\ note = Nil => timer' = t
    BY <1>0, <1>2, <1>4, <2>1, LockAssumption DEF Register, Goto, TypeOK
  <2>3. ~Expects(t) /\ ~Expects(t)'
    BY <2>1, <2>2, LockAssumption DEF Expects
  <2>4. OneList' /\ InSync' /\ \A s \in Ms : Held(s)'
    BY <1>0, <1>1, <1>3, <2>1, <2>2, <2>3, SleepStays, StaysSynced DEF Asleep
  <2>5. Registered'
    BY <1>2, <2>2, LockAssumption DEF Registered, Asleep
  <2> QED BY <2>4, <2>5
<1>5. CASE SleepEnds(t) \/ TakeSemaphore(t)
  <2>1. /\ pc[t] \in {"sleep", "take"} /\ waitsema[t] > 0
        /\ waitsema' = [waitsema EXCEPT ![t] = @ - 1]
        /\ pc'[t] = "out" /\ note' = note
    BY <1>0, <1>5 DEF SleepEnds, TakeSemaphore, Down, Awake, Goto, TypeOK
  <2>2. Expects(t) /\ waitsema[t] = 1 /\ (\A r \in Ms : ~Brings(r, t)) /\ note = LOCKED
    BY <1>3, <2>1 DEF Synced, Expects
  <2>3. (\A r \in Ms : Brings(r, t)' <=> Brings(r, t)) => Synced(t)'
    <3>1. waitsema'[t] = 0 /\ ~Expects(t)'
      BY <1>0, <2>1, <2>2 DEF TypeOK, Expects
    <3> QED BY <2>1, <2>2, <3>1 DEF Synced
  <2>4. OneList' /\ InSync' /\ \A s \in Ms : Held(s)'
    BY <1>0, <1>1, <2>1, <2>3, SleepStays DEF TypeOK
  <2>5. Registered'
    BY <1>2, <2>1, <2>2, LockAssumption DEF Registered, Asleep
  <2> QED BY <2>4, <2>5
<1>6. CASE Expire(t) \/ LookAtNote(t)
  <2>1. pc[t] \in {"sleep", "expired"} /\ UNCHANGED <<waitsema, note, timer>>
    BY <1>6 DEF Expire, LookAtNote, noteVars
  <2>2. pc'[t] \in {"expired", "unregister", "take"} /\ (pc'[t] = "take" => note = LOCKED)
    BY <1>0, <1>2, <1>6, LockAssumption DEF Expire, LookAtNote, Goto, TypeOK, WakeInv, Registered
  <2>3. Expects(t)' <=> Expects(t)
    BY <2>1, <2>2 DEF Expects
  <2>4. OneList' /\ InSync' /\ \A s \in Ms : Held(s)'
    BY <1>0, <1>1, <1>3, <2>1, <2>2, <2>3, SleepStays, StaysSynced DEF Asleep
  <2>5. Registered'
    BY <1>2, <2>1, <2>2, LockAssumption DEF Registered, Asleep, WakeInv
  <2> QED BY <2>4, <2>5
<1>7. CASE Unregister(t)
  <2>1. pc[t] = "unregister" /\ waitsema' = waitsema /\ note \in {t, LOCKED}
    BY <1>7 DEF Unregister, WakeInv, Registered
  <2>2. /\ pc'[t] = (IF note = t THEN "out" ELSE "expired")
        /\ note' = (IF note = t THEN Nil ELSE LOCKED)
        /\ note = LOCKED => timer' = t
    BY <1>0, <1>2, <1>7, <2>1, LockAssumption DEF Unregister, Awake, Goto, TypeOK
  <2>3. Expects(t)' <=> Expects(t)
    BY <2>1, <2>2, LockAssumption DEF Expects
  <2>4. OneList' /\ InSync' /\ \A s \in Ms : Held(s)'
    BY <1>0, <1>1, <1>3, <2>1, <2>2, <2>3, SleepStays, StaysSynced DEF Asleep
  <2>5. Registered'
    BY <1>2, <2>2, <2>1, LockAssumption DEF Registered, Asleep
  <2> QED BY <2>4, <2>5
<1> QED
  BY <1>4, <1>5, <1>6, <1>7

-----------------------------------------------------------------------------
(* The invariant *)

\* The invariant holds at first: nothing waits, and every semaphore is down.
LEMMA InitWakeInv == Init => WakeInv
<1> SUFFICES ASSUME Init PROVE WakeInv
  OBVIOUS
<1>1. LockInv
  BY InitInv
<1>2. \A t \in Ms : pc[t] = "out" /\ waitsema[t] = 0 /\ ~Listed(t)
  <2>1. Closed({})
    BY DEF Init, Free, Closed
  <2> QED BY <2>1 DEF Init, Listed
<1>3. note \notin Ms
  BY LockAssumption DEF Init
<1>4. InSync
  BY <1>2 DEF InSync, Expects, Brings
<1> QED
  BY <1>1, <1>2, <1>3, <1>4 DEF WakeInv, OneList, Registered, Held, Asleep

\* Every step keeps it, whichever M takes it.
LEMMA NextWakeInv == WakeInv /\ [Next]_vars => WakeInv'
<1>1. ASSUME WakeInv, NEW t \in Ms, Lock(t) \/ Step(t) \/ Expire(t) PROVE WakeInv'
  <2>1. LockInv'
    <3>1. Next
      BY <1>1 DEF Next
    <3> QED BY <1>1, <3>1, NextInv DEF WakeInv
  <2>2. OneList' /\ Registered' /\ InSync' /\ \A s \in Ms : Held(s)'
    BY <1>1, LockSync, QueueSync, WaitSync, UnlockSync, ReleaseSync, WakeSync,
       InsideSync, ClearSync, ExchangeSync, ReadySync, SleepSync DEF Step
  <2> QED
    BY <2>1, <2>2 DEF WakeInv
<1>2. ASSUME WakeInv, UNCHANGED vars PROVE WakeInv'
  <2>1. LockInv'
    BY <1>2, NextInv DEF WakeInv
  <2>2. (\A t \in Ms : Listed(t)' <=> Listed(t)) /\ (\A s, t \in Ms : Brings(s, t)' <=> Brings(s, t))
    BY <1>2 DEF Listed, Closed, Brings, vars, lockVars, noteVars
  <2>3. \A t \in Ms : Expects(t)' <=> Expects(t)
    BY <1>2, <2>2 DEF Expects, vars, noteVars
  <2>4. InSync'
    BY <1>2, <2>2, <2>3 DEF WakeInv, InSync, vars
  <2>5. OneList' /\ Registered'
    BY <1>2, <2>2 DEF WakeInv, OneList, Registered, vars, lockVars, noteVars
  <2>6. \A t \in Ms : Held(t)'
    <3>1. \A t \in Ms : v[t].head \in Ms \cup {Nil}
      BY <1>2 DEF WakeInv, LockInv, TypeOK, Word
    <3> QED BY <1>2, <2>2, <3>1 DEF WakeInv, Held, vars, lockVars
  <2> QED
    BY <2>1, <2>4, <2>5, <2>6 DEF WakeInv
<1> QED
  BY <1>1, <1>2 DEF Next

\* However many threads lock, unlock, sleep and wake each other, no wakeup is
\* lost, left for a later wait, or given twice, and the runtime throws nothing.
THEOREM SemaphoresInSync == Spec => []InSync
  BY InitWakeInv, NextWakeInv, PTL DEF Spec, WakeInv

\* The waiting M's are one list, each in it once, and all of them wait.
THEOREM WaitersListed == Spec => []OneList
  BY InitWakeInv, NextWakeInv, PTL DEF Spec, WakeInv

\* The timer process alone registers with the note of the timers: none finds an M
\* there when it registers, and none finds itself gone from it unwoken.
THEOREM NoteIsTheTimers == Spec => []Registered
  BY InitWakeInv, NextWakeInv, PTL DEF Spec, WakeInv

-----------------------------------------------------------------------------
(* Nobody is forgotten in the lock's list *)

\* Who is on the way and takes no step is still on the way: only the M that
\* queues joins the list.
LEMMA OthersComeOn ==
  ASSUME WakeInv, NEW t \in Ms, OnlyMoves(t), NEW s \in Ms, s # t, OnItsWay(s),
         Listed(s)' => Listed(s)
  PROVE  OnItsWay(s)'
  BY DEF OnItsWay, OnlyMoves

\* A step that leaves the word and the list alone, of an M that neither waits nor
\* looks at the lock, or goes on looking.
LEMMA SameWord ==
  ASSUME WakeInv, ListIsServed, NEW t \in Ms, OnlyMoves(t), UNCHANGED waitm,
         \A s \in Ms : Listed(s) => nextwaitm'[s] = nextwaitm[s],
         ~OnItsWay(t) \/ pc'[t] \in {"load", "grab", "queue", "again"}
  PROVE  ListIsServed'
<1>1. \A s \in Ms : Listed(s)' <=> Listed(s)
  BY SameList DEF WakeInv, LockInv
<1>2. SUFFICES ASSUME waitm.head # Nil, ~waitm.locked
               PROVE  \E s \in Ms : OnItsWay(s)'
  BY DEF ListIsServed
<1>3. PICK s \in Ms : OnItsWay(s)
  BY <1>2 DEF ListIsServed
<1>4. CASE s # t
  BY <1>1, <1>3, <1>4, OthersComeOn
<1>5. CASE s = t
  BY <1>3, <1>5 DEF OnItsWay
<1> QED
  BY <1>4, <1>5

\* runtime.lock: an M that looks goes on looking, has the lock, or queues while
\* another has it.
LEMMA LockComesOn ==
  ASSUME WakeInv, ListIsServed, NEW t \in Ms,
         Lock(t) \/ Load(t) \/ Grab(t) \/ Queue(t) \/ QueueAgain(t) \/ WaitForLock(t)
  PROVE  ListIsServed'
<1>0. OnlyMoves(t) /\ TypeOK
  BY StepMoves DEF WakeInv, LockInv, Step
<1>1. pc \in [Ms -> Places] /\ waitm \in Word /\ v \in [Ms -> Word]
  BY <1>0 DEF TypeOK, Places
<1>2. CASE Lock(t)
  <2>1. CASE waitm = Free
    <3>1. waitm'.locked
      BY <1>1, <1>2, <2>1 DEF Lock, Free
    <3> QED BY <3>1 DEF ListIsServed
  <2>2. CASE waitm # Free
    <3>1. pc'[t] = "load"
      BY <1>1, <1>2, <2>2 DEF Lock, Goto
    <3> QED BY <1>0, <1>2, <2>2, <3>1, SameWord DEF Lock
  <2> QED BY <2>1, <2>2
<1>3. CASE Load(t)
  <2>1. pc'[t] \in {"load", "grab", "queue"}
    BY <1>1, <1>3 DEF Load, Goto
  <2> QED BY <1>0, <1>3, <2>1, SameWord DEF Load
<1>4. CASE Grab(t)
  <2>1. CASE waitm = v[t]
    <3>1. waitm'.locked
      BY <1>1, <1>4, <2>1 DEF Grab, Word
    <3> QED BY <3>1 DEF ListIsServed
  <2>2. CASE waitm # v[t]
    <3>1. pc'[t] = "load"
      BY <1>1, <1>4, <2>2 DEF Grab, Goto
    <3> QED BY <1>0, <1>4, <2>2, <3>1, SameWord DEF Grab
  <2> QED BY <2>1, <2>2
<1>5. CASE Queue(t)
  <2>1. CASE waitm = v[t]
    <3>1. waitm'.locked
      BY <1>5, <2>1 DEF Queue, Queued
    <3> QED BY <3>1 DEF ListIsServed
  <2>2. CASE waitm # v[t]
    <3>1. pc'[t] = "again" /\ waitm' = waitm
      BY <1>1, <1>5, <2>2 DEF Queue, Goto
    <3>2. \A s \in Ms : Listed(s) => s # t
      BY <1>5 DEF Queue, WakeInv, OneList
    <3>3. \A s \in Ms : Listed(s) => nextwaitm'[s] = nextwaitm[s]
      BY <1>0, <1>5, <3>2 DEF Queue, TypeOK
    <3> QED BY <1>0, <3>1, <3>3, SameWord
  <2> QED BY <2>1, <2>2
<1>6. CASE QueueAgain(t)
  <2>1. pc'[t] \in {"grab", "queue"}
    BY <1>1, <1>6 DEF QueueAgain, Goto
  <2> QED BY <1>0, <1>6, <2>1, SameWord DEF QueueAgain
<1>7. CASE WaitForLock(t)
  <2>1. pc'[t] = "load"
    BY <1>1, <1>7 DEF WaitForLock, Goto
  <2> QED BY <1>0, <1>7, <2>1, SameWord DEF WaitForLock
<1> QED
  BY <1>2, <1>3, <1>4, <1>5, <1>6, <1>7

\* runtime.unlock: who frees a lock with a list sends its first on the way.
LEMMA ReleaseSends ==
  ASSUME WakeInv, ListIsServed, NEW t \in Ms, Release(t)
  PROVE  ListIsServed'
<1>0. OnlyMoves(t) /\ TypeOK
  BY StepMoves DEF WakeInv, LockInv, Step
<1>1. waitm.head \in Ms \cup {Nil} /\ pc[t] = "release" /\ UNCHANGED nextwaitm
  BY <1>0 DEF TypeOK, Word, Release
<1>2. CASE waitm # v[t]
  <2>1. UNCHANGED waitm /\ ~OnItsWay(t)
    BY <1>1, <1>2 DEF Release, OnItsWay
  <2> QED BY <1>0, <1>1, <2>1, SameWord
<1>3. CASE waitm = v[t] /\ waitm.head = Nil
  <2>1. waitm'.head = Nil
    BY <1>3 DEF Release
  <2> QED BY <2>1 DEF ListIsServed
<1>4. CASE waitm = v[t] /\ waitm.head # Nil
  <2>0. PICK h \in Ms : h = waitm.head
    BY <1>1, <1>4
  <2>1. Listed(h) /\ pc[h] = "wait" /\ h # t
    <3>1. Listed(h)
      BY <1>4, <2>0 DEF Listed, Closed
    <3> QED BY <1>1, <3>1 DEF WakeInv, OneList
  <2>2. waitm'.head = nextwaitm[h]
    <3>1. next[t] = nextwaitm[h]
      BY <1>1, <1>4, <2>0 DEF WakeInv, Held
    <3> QED BY <1>1, <1>4, <2>0, <3>1 DEF Release
  <2>3. ~Listed(h)'
    BY <1>0, <1>1, <2>0, <2>2, Popped DEF WakeInv
  <2>4. OnItsWay(h)'
    BY <1>0, <2>1, <2>3 DEF OnItsWay, OnlyMoves
  <2> QED BY <2>4 DEF ListIsServed
<1> QED
  BY <1>2, <1>3, <1>4

\* Nothing else touches the word, nor is it done by an M on its way.
LEMMA RestComesOn ==
  ASSUME WakeInv, ListIsServed, NEW t \in Ms,
         \/ Unlock(t) \/ FindNext(t) \/ WakeFirst(t)
         \/ AddTimer(t) \/ AddFirstTimer(t) \/ ServeTimer(t) \/ ClearNote(t)
         \/ NoteWakeup(t) \/ ExchangeNote(t) \/ WakeSleeper(t)
         \/ Register(t) \/ SleepEnds(t) \/ Expire(t) \/ LookAtNote(t) \/ Unregister(t)
         \/ TakeSemaphore(t)
  PROVE  ListIsServed'
<1>0. OnlyMoves(t)
  BY StepMoves DEF WakeInv, LockInv, Step
<1>1. UNCHANGED <<waitm, nextwaitm>> /\ pc[t] \notin {"load", "grab", "queue", "again", "wait"}
  BY DEF Unlock, FindNext, WakeFirst, AddTimer, AddFirstTimer, ServeTimer, ClearNote,
         NoteWakeup, ExchangeNote, WakeSleeper, Register, SleepEnds, Expire, LookAtNote,
         Unregister, TakeSemaphore, lockVars
<1>2. ~OnItsWay(t)
  BY <1>1 DEF OnItsWay
<1> QED
  BY <1>0, <1>1, <1>2, SameWord

\* The note of the timers, from where the timer process cleared it to where it
\* wakes up.  Only the M's that add timers wake it.
NoteIsServed == \A t \in Ms : timer = t =>
  /\ pc[t] \notin {"wakeup", "exchange", "ready"}
  /\ pc[t] \in {"unlock", "next", "release", "wake"} \cup Asleep /\ ~sleeping =>
       note = LOCKED \/ \E s \in Ms : pc[s] \in {"wakeup", "exchange"}

\* A step of an M that is no waker, neither before nor after, and that does not
\* begin to run the timer process.
LEMMA NoteComesOn ==
  ASSUME WakeInv, NoteIsServed, NEW t \in Ms, OnlyMoves(t), UNCHANGED sleeping,
         pc[t] \notin {"wakeup", "exchange"},
         note = LOCKED => note' = LOCKED,
         timer' = t => timer = t,
         timer' \in {timer, Nil, t},
         timer' = t => pc'[t] \notin {"wakeup", "exchange", "ready"},
         timer' = t /\ pc'[t] \in {"unlock", "next", "release", "wake"} \cup Asleep
           => pc[t] \in {"unlock", "next", "release", "wake"} \cup Asleep
  PROVE  NoteIsServed'
<1>1. ASSUME NEW s \in Ms, timer' = s
      PROVE  /\ timer = s
             /\ pc'[s] \notin {"wakeup", "exchange", "ready"}
             /\ pc'[s] \in {"unlock", "next", "release", "wake"} \cup Asleep
                  => pc[s] \in {"unlock", "next", "release", "wake"} \cup Asleep
  <2>1. CASE s = t
    BY <1>1, <2>1
  <2>2. CASE s # t
    BY <1>1, <2>2, LockAssumption DEF OnlyMoves, NoteIsServed
  <2> QED BY <2>1, <2>2
<1>2. \A s \in Ms : pc[s] \in {"wakeup", "exchange"} => pc'[s] = pc[s]
  BY DEF OnlyMoves
<1> QED
  BY <1>1, <1>2 DEF NoteIsServed

\* The steps by which an M locks and unlocks.
LEMMA LockServesNote ==
  ASSUME WakeInv, NoteIsServed, NEW t \in Ms,
         \/ Lock(t) \/ Load(t) \/ Grab(t) \/ Queue(t) \/ QueueAgain(t) \/ WaitForLock(t)
         \/ Unlock(t) \/ FindNext(t) \/ Release(t) \/ WakeFirst(t)
  PROVE  NoteIsServed'
<1>0. OnlyMoves(t) /\ pc \in [Ms -> Places]
  BY StepMoves DEF WakeInv, LockInv, TypeOK, Places, Step
<1>1. CASE Lock(t)
  <2>1. pc[t] = "out" /\ pc'[t] \in {"in", "load"} /\ timer' \in {timer, t}
        /\ UNCHANGED <<note, sleeping>>
    BY <1>0, <1>1 DEF Lock, Goto
  <2>2. \A s \in Ms : timer' = s /\ s # t => timer = s /\ pc'[s] = pc[s]
    BY <1>0, <2>1 DEF OnlyMoves
  <2>3. \A s \in Ms : pc[s] \in {"wakeup", "exchange"} => pc'[s] = pc[s]
    BY <1>0, <2>1 DEF OnlyMoves
  <2>4. pc'[t] \notin {"wakeup", "exchange", "ready"} /\ pc'[t] \notin {"unlock", "next", "release", "wake"} \cup Asleep
    BY <2>1 DEF Asleep
  <2> QED BY <2>1, <2>2, <2>3, <2>4 DEF NoteIsServed
<1>2. CASE Load(t) \/ Grab(t) \/ Queue(t) \/ QueueAgain(t) \/ WaitForLock(t)
  <2>1. /\ pc[t] \in {"load", "grab", "queue", "again", "wait"}
        /\ pc'[t] \in {"load", "grab", "queue", "again", "wait", "in"}
        /\ UNCHANGED <<note, sleeping, timer>>
    BY <1>0, <1>2 DEF Load, Grab, Queue, QueueAgain, WaitForLock, Goto, noteVars
  <2> QED BY <1>0, <2>1, NoteComesOn DEF Asleep
<1>3. CASE Unlock(t) \/ FindNext(t) \/ Release(t) \/ WakeFirst(t)
  <2>1. /\ pc[t] \in {"unlock", "next", "release", "wake"}
        /\ pc'[t] \in {"unlock", "next", "release", "wake", "register", "out"}
        /\ UNCHANGED <<note, sleeping, timer>>
    BY <1>0, <1>3 DEF Unlock, FindNext, Release, WakeFirst, Return, Goto, noteVars
  <2> QED BY <1>0, <2>1, NoteComesOn
<1> QED
  BY <1>1, <1>2, <1>3

\* What is done inside the lock, and the wakeup of the note.
LEMMA InsideServesNote ==
  ASSUME WakeInv, NoteIsServed, NEW t \in Ms,
         \/ AddTimer(t) \/ AddFirstTimer(t) \/ ServeTimer(t) \/ ClearNote(t)
         \/ NoteWakeup(t) \/ ExchangeNote(t) \/ WakeSleeper(t)
  PROVE  NoteIsServed'
<1>0. OnlyMoves(t) /\ pc \in [Ms -> Places]
  BY StepMoves DEF WakeInv, LockInv, TypeOK, Places, Step
<1>1. \A s \in Ms : timer = s /\ s # t => pc'[s] = pc[s]
  BY <1>0 DEF OnlyMoves
<1>2. CASE AddTimer(t) \/ ServeTimer(t)
  <2>1. /\ pc[t] = "in" /\ pc'[t] = "unlock" /\ timer' # t /\ timer' \in {timer, Nil}
        /\ UNCHANGED <<note, sleeping>>
    BY <1>0, <1>2, LockAssumption DEF AddTimer, ServeTimer, Goto, noteVars
  <2> QED BY <1>0, <2>1, NoteComesOn
<1>3. CASE AddFirstTimer(t)
  <2>1. pc'[t] = "wakeup" /\ t # timer /\ timer' = timer
    BY <1>0, <1>3 DEF AddFirstTimer, Goto
  <2> QED BY <1>1, <2>1 DEF NoteIsServed
<1>4. CASE ClearNote(t)
  <2>1. pc'[t] = "unlock" /\ timer = t /\ timer' = timer /\ sleeping' = TRUE
    BY <1>0, <1>4 DEF ClearNote, Goto
  <2> QED BY <2>1 DEF NoteIsServed
<1>5. CASE NoteWakeup(t)
  <2>1. pc[t] = "wakeup" /\ pc'[t] = "exchange" /\ timer' = timer
    BY <1>0, <1>5 DEF NoteWakeup, Goto
  <2> QED BY <1>1, <2>1 DEF NoteIsServed
<1>6. CASE ExchangeNote(t)
  <2>1. pc[t] = "exchange" /\ timer' = timer /\ timer # t
    BY <1>6 DEF ExchangeNote, NoteIsServed
  <2>2. note' = LOCKED \/ pc'[t] = "wakeup"
    BY <1>0, <1>6 DEF ExchangeNote, Goto
  <2> QED BY <1>1, <2>1, <2>2 DEF NoteIsServed
<1>7. CASE WakeSleeper(t)
  <2>1. pc[t] = "ready" /\ pc'[t] = "unlock" /\ UNCHANGED <<note, sleeping, timer>>
    BY <1>0, <1>7 DEF WakeSleeper, Goto
  <2> QED BY <1>0, <2>1, NoteComesOn DEF NoteIsServed
<1> QED
  BY <1>2, <1>3, <1>4, <1>5, <1>6, <1>7

\* The sleep of the timer process.
LEMMA SleepServesNote ==
  ASSUME WakeInv, NoteIsServed, NEW t \in Ms,
         Register(t) \/ SleepEnds(t) \/ Expire(t) \/ LookAtNote(t) \/ Unregister(t) \/ TakeSemaphore(t)
  PROVE  NoteIsServed'
<1>0. OnlyMoves(t) /\ pc \in [Ms -> Places]
  BY StepMoves DEF WakeInv, LockInv, TypeOK, Places, Step
<1>1. pc[t] \in Asleep /\ pc'[t] \in {"out", "thrown"} \cup Asleep
  BY <1>0 DEF Register, SleepEnds, Expire, LookAtNote, Unregister, TakeSemaphore, Awake, Goto, Asleep
<1>2. timer = t /\ timer' \in {timer, Nil} /\ UNCHANGED sleeping
  BY <1>1 DEF Register, SleepEnds, Expire, LookAtNote, Unregister, TakeSemaphore, Awake,
     noteVars, WakeInv, Registered
<1>3. note = LOCKED => note' = LOCKED
  BY LockAssumption DEF Register, SleepEnds, Expire, LookAtNote, Unregister, TakeSemaphore, noteVars
<1> QED
  BY <1>0, <1>1, <1>2, <1>3, NoteComesOn DEF Asleep

\* However many threads lock, unlock and add timers: while some sleep in the list
\* of a lock that is free, one is awake, or about to be woken, that will take it,
\* and the timer process is not left asleep when an earlier timer was added.
THEOREM NobodyForgotten == Spec => []NobodyIsForgotten
<1>1. Init => ListIsServed /\ NoteIsServed
  BY LockAssumption DEF Init, Free, ListIsServed, NoteIsServed
<1>2. WakeInv /\ ListIsServed /\ NoteIsServed /\ [Next]_vars => ListIsServed' /\ NoteIsServed'
  <2>1. ASSUME WakeInv, ListIsServed, NoteIsServed, NEW t \in Ms, Lock(t) \/ Step(t) \/ Expire(t)
        PROVE  ListIsServed'
    BY <2>1, LockComesOn, ReleaseSends, RestComesOn DEF Step
  <2>2. ASSUME WakeInv, NoteIsServed, NEW t \in Ms, Lock(t) \/ Step(t) \/ Expire(t)
        PROVE  NoteIsServed'
    BY <2>2, LockServesNote, InsideServesNote, SleepServesNote DEF Step
  <2>3. ASSUME ListIsServed, UNCHANGED vars PROVE ListIsServed'
    BY <2>3 DEF ListIsServed, OnItsWay, Listed, Closed, vars, lockVars
  <2>4. ASSUME NoteIsServed, UNCHANGED vars PROVE NoteIsServed'
    BY <2>4 DEF NoteIsServed, vars, noteVars
  <2> QED BY <2>1, <2>2, <2>3, <2>4 DEF Next
<1>3. WakeInv /\ ListIsServed /\ NoteIsServed => NobodyIsForgotten
  BY DEF WakeInv, Registered, NoteIsServed, SleeperIsWoken, NobodyIsForgotten
<1> QED
  BY <1>1, <1>2, <1>3, InitWakeInv, NextWakeInv, PTL DEF Spec
=============================================================================
