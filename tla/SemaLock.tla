------------------------------- MODULE SemaLock -------------------------------
(***************************************************************************)
(* Locks and notes of the runtime that every compiled program carries, as  *)
(* built for Windows and Mac (lock_sema.c), where the timer process uses   *)
(* them (time.goc): the lock of the timers, and the note on which the      *)
(* process sleeps until the first timer is due or an earlier one is added. *)
(*                                                                         *)
(* An M (a thread) has one semaphore, waitsema, for both.  The lock's word *)
(* is a bit and the head of a list of M's that are to be woken, linked by  *)
(* their nextwaitm.  A semaphore that is up when its M does not expect it  *)
(* lets the M pass the next wait on whatever it is, while it is in a list. *)
(*                                                                         *)
(* Each access to shared memory is a step; a local variable that is not    *)
(* read again has its first value.  The goroutine of the timer process may *)
(* go on in another M after each sleep (exitsyscall).                      *)
(***************************************************************************)
EXTENDS Naturals

CONSTANTS
  Ms,        \* the threads
  Nil,       \* no M
  LOCKED,    \* the value of a note that was woken
  Spin       \* rounds of a waiting M before it queues, on one processor 1

ASSUME LockAssumption ==
  /\ Nil \notin Ms /\ LOCKED \notin Ms /\ Nil # LOCKED
  /\ Spin \in Nat \ {0}

VARIABLES
  pc,         \* where each M is
  v,          \* what it read from the lock's word
  next,       \* in unlock: what it read from the first waiting M's nextwaitm
  mp,         \* what it read from the note
  i,          \* its rounds
  waitm,      \* the lock's word: its bit, and the first waiting M
  nextwaitm,  \* M -> the next waiting M
  waitsema,   \* M -> its semaphore
  note,       \* timers.waitnote: Nil, LOCKED, or the M that sleeps
  sleeping,   \* timers.sleeping
  timer       \* the M that runs the timer process, or Nil

lockVars == <<waitm, nextwaitm, v, next, i>>
noteVars == <<note, sleeping, timer, mp>>
vars == <<pc, waitsema, lockVars, noteVars>>

Word == [locked : BOOLEAN, head : Ms \cup {Nil}]
Free == [locked |-> FALSE, head |-> Nil]
Queued(t) == [locked |-> TRUE, head |-> t]

\* Where an M has the lock, and where it waits for it
Inside == {"in", "unlock", "next", "release", "wakeup", "exchange", "ready"}
Outside == {"load", "grab", "queue", "again", "wait"}
Asleep == {"register", "sleep", "expired", "unregister", "take"}

TypeOK ==
  /\ pc \in [Ms -> {"out", "wake", "thrown"} \cup Inside \cup Outside \cup Asleep]
  /\ v \in [Ms -> Word] /\ next \in [Ms -> Ms \cup {Nil}]
  /\ mp \in [Ms -> Ms \cup {Nil, LOCKED}]
  /\ i \in [Ms -> 0..Spin]
  /\ waitm \in Word
  /\ nextwaitm \in [Ms -> Ms \cup {Nil}]
  /\ waitsema \in [Ms -> Nat]
  /\ note \in Ms \cup {Nil, LOCKED}
  /\ sleeping \in BOOLEAN
  /\ timer \in Ms \cup {Nil}

Init ==
  /\ pc = [t \in Ms |-> "out"]
  /\ v = [t \in Ms |-> Free] /\ next = [t \in Ms |-> Nil]
  /\ mp = [t \in Ms |-> Nil] /\ i = [t \in Ms |-> 0]
  /\ waitm = Free
  /\ nextwaitm = [t \in Ms |-> Nil]
  /\ waitsema = [t \in Ms |-> 0]
  /\ note = Nil /\ sleeping = FALSE /\ timer = Nil

Goto(t, where) == pc' = [pc EXCEPT ![t] = where]

-----------------------------------------------------------------------------
(* runtime.lock *)

\* addtimer or the timer process calls lock, which tries to have it at once
Lock(t) ==
  /\ pc[t] = "out"
  /\ \/ timer' = timer
     \/ timer = Nil /\ timer' = t
  /\ IF waitm = Free
     THEN waitm' = [waitm EXCEPT !.locked = TRUE] /\ Goto(t, "in") /\ UNCHANGED i
     ELSE Goto(t, "load") /\ i' = [i EXCEPT ![t] = 0] /\ UNCHANGED waitm
  /\ UNCHANGED <<nextwaitm, v, next, waitsema, note, sleeping, mp>>

\* Slip: one round too many
LoadOnceMore(t) ==
  /\ pc[t] = "load"
  /\ IF waitm.locked /\ i[t] <= Spin
     THEN i' = [i EXCEPT ![t] = @ + 1] /\ UNCHANGED <<v, pc>>
     ELSE /\ v' = [v EXCEPT ![t] = waitm]
          /\ i' = [i EXCEPT ![t] = 0]
          /\ Goto(t, IF waitm.locked THEN "queue" ELSE "grab")
  /\ UNCHANGED <<waitm, nextwaitm, next, waitsema, noteVars>>

\* A lock that is not free is looked at Spin times before the M queues
Load(t) ==
  /\ pc[t] = "load"
  /\ IF waitm.locked /\ i[t] < Spin
     THEN i' = [i EXCEPT ![t] = @ + 1] /\ UNCHANGED <<v, pc>>
     ELSE /\ v' = [v EXCEPT ![t] = waitm]
          /\ i' = [i EXCEPT ![t] = 0]
          /\ Goto(t, IF waitm.locked THEN "queue" ELSE "grab")
  /\ UNCHANGED <<waitm, nextwaitm, next, waitsema, noteVars>>

\* Slip: a store, where the word may have changed since it was read
GrabBlindly(t) ==
  /\ pc[t] = "grab"
  /\ waitm' = [v[t] EXCEPT !.locked = TRUE]
  /\ Goto(t, "in")
  /\ v' = [v EXCEPT ![t] = Free]
  /\ UNCHANGED <<nextwaitm, next, i, waitsema, noteVars>>

\* casp( waitm, v, v|LOCKED )
Grab(t) ==
  /\ pc[t] = "grab"
  /\ IF waitm = v[t]
     THEN waitm' = [v[t] EXCEPT !.locked = TRUE] /\ Goto(t, "in") /\ UNCHANGED i
     ELSE Goto(t, "load") /\ i' = [i EXCEPT ![t] = 1] /\ UNCHANGED waitm
  /\ v' = [v EXCEPT ![t] = Free]
  /\ UNCHANGED <<nextwaitm, next, waitsema, noteVars>>

\* Slip: the word becomes the M, without the bit
QueueUnlocked(t) ==
  /\ pc[t] = "queue"
  /\ nextwaitm' = [nextwaitm EXCEPT ![t] = v[t].head]
  /\ IF waitm = v[t]
     THEN waitm' = [locked |-> FALSE, head |-> t] /\ Goto(t, "wait")
     ELSE Goto(t, "again") /\ UNCHANGED waitm
  /\ v' = [v EXCEPT ![t] = Free]
  /\ UNCHANGED <<next, i, waitsema, noteVars>>

\* The M puts itself before the first that waits
Queue(t) ==
  /\ pc[t] = "queue"
  /\ nextwaitm' = [nextwaitm EXCEPT ![t] = v[t].head]
  /\ IF waitm = v[t]
     THEN waitm' = Queued(t) /\ Goto(t, "wait")
     ELSE Goto(t, "again") /\ UNCHANGED waitm
  /\ v' = [v EXCEPT ![t] = Free]
  /\ UNCHANGED <<next, i, waitsema, noteVars>>

QueueAgain(t) ==
  /\ pc[t] = "again"
  /\ v' = [v EXCEPT ![t] = waitm]
  /\ Goto(t, IF waitm.locked THEN "queue" ELSE "grab")
  /\ UNCHANGED <<waitm, nextwaitm, next, i, waitsema, noteVars>>

Down(t) == waitsema[t] > 0 /\ waitsema' = [waitsema EXCEPT ![t] = @ - 1]
Up(t) == waitsema' = [waitsema EXCEPT ![t] = @ + 1]

\* semasleep( -1 )
WaitForLock(t) ==
  /\ pc[t] = "wait"
  /\ Down(t)
  /\ i' = [i EXCEPT ![t] = 1]
  /\ Goto(t, "load")
  /\ UNCHANGED <<waitm, nextwaitm, v, next, noteVars>>

-----------------------------------------------------------------------------
(* runtime.unlock *)

Unlock(t) ==
  /\ pc[t] = "unlock"
  /\ v' = [v EXCEPT ![t] = waitm]
  /\ Goto(t, IF waitm.head = Nil THEN "release" ELSE "next")
  /\ UNCHANGED <<waitm, nextwaitm, next, i, waitsema, noteVars>>

\* mp->nextwaitm
FindNext(t) ==
  /\ pc[t] = "next"
  /\ next' = [next EXCEPT ![t] = nextwaitm[v[t].head]]
  /\ Goto(t, "release")
  /\ UNCHANGED <<waitm, nextwaitm, v, i, waitsema, noteVars>>

\* addtimer returns; the timer process goes to sleep
Return == [t \in Ms |-> IF t = timer THEN "register" ELSE "out"]

\* casp( waitm, v, nil or nextwaitm ): the M that is dequeued is to be woken
Release(t) ==
  /\ pc[t] = "release"
  /\ IF waitm = v[t]
     THEN /\ waitm' = [locked |-> FALSE, head |-> IF v[t].head = Nil THEN Nil ELSE next[t]]
          /\ Goto(t, IF v[t].head = Nil THEN Return[t] ELSE "wake")
          /\ v' = [v EXCEPT ![t] = [locked |-> FALSE, head |-> v[t].head]]
     ELSE Goto(t, "unlock") /\ v' = [v EXCEPT ![t] = Free] /\ UNCHANGED waitm
  /\ next' = [next EXCEPT ![t] = Nil]
  /\ UNCHANGED <<nextwaitm, i, waitsema, noteVars>>

\* semawakeup( mp )
WakeFirst(t) ==
  /\ pc[t] = "wake"
  /\ Up(v[t].head)
  /\ v' = [v EXCEPT ![t] = Free]
  /\ Goto(t, Return[t])
  /\ UNCHANGED <<waitm, nextwaitm, next, i, noteVars>>

-----------------------------------------------------------------------------
(* What addtimer and the timer process do inside the lock *)

\* The new timer is not the first, or the timer process does not sleep
AddTimer(t) ==
  /\ pc[t] = "in" /\ t # timer
  /\ Goto(t, "unlock")
  /\ UNCHANGED <<lockVars, waitsema, noteVars>>

\* The new timer is the first
AddFirstTimer(t) ==
  /\ pc[t] = "in" /\ t # timer /\ sleeping
  /\ sleeping' = FALSE
  /\ Goto(t, "wakeup")
  /\ UNCHANGED <<lockVars, waitsema, note, timer, mp>>

\* A timer is due, and is served outside the lock, or there is none: the process
\* unlocks, and comes back to lock
ServeTimer(t) ==
  /\ pc[t] = "in" /\ t = timer
  /\ timer' = Nil
  /\ Goto(t, "unlock")
  /\ UNCHANGED <<lockVars, waitsema, note, sleeping, mp>>

\* Until the first timer is due the process will sleep
ClearNote(t) ==
  /\ pc[t] = "in" /\ t = timer
  /\ sleeping' = TRUE
  /\ note' = Nil
  /\ Goto(t, "unlock")
  /\ UNCHANGED <<lockVars, waitsema, timer, mp>>

-----------------------------------------------------------------------------
(* runtime.notewakeup *)

NoteWakeup(t) ==
  /\ pc[t] = "wakeup"
  /\ mp' = [mp EXCEPT ![t] = note]
  /\ Goto(t, "exchange")
  /\ UNCHANGED <<lockVars, waitsema, note, sleeping, timer>>

\* Slip: a store, where an M may have registered since the note was read
SetNote(t) ==
  /\ pc[t] = "exchange"
  /\ note' = LOCKED
  /\ Goto(t, IF mp[t] \in Ms THEN "ready" ELSE "unlock")
  /\ mp' = [mp EXCEPT ![t] = IF @ \in Ms THEN @ ELSE Nil]
  /\ UNCHANGED <<lockVars, waitsema, sleeping, timer>>

\* casp( &n->waitm, mp, LOCKED )
ExchangeNote(t) ==
  /\ pc[t] = "exchange"
  /\ IF note = mp[t]
     THEN /\ note' = LOCKED
          /\ Goto(t, CASE mp[t] = Nil -> "unlock" [] mp[t] = LOCKED -> "thrown" [] OTHER -> "ready")
          /\ mp' = [mp EXCEPT ![t] = IF @ \in Ms THEN @ ELSE Nil]
     ELSE Goto(t, "wakeup") /\ mp' = [mp EXCEPT ![t] = Nil] /\ UNCHANGED note
  /\ UNCHANGED <<lockVars, waitsema, sleeping, timer>>

\* semawakeup( mp )
WakeSleeper(t) ==
  /\ pc[t] = "ready"
  /\ Up(mp[t])
  /\ mp' = [mp EXCEPT ![t] = Nil]
  /\ Goto(t, "unlock")
  /\ UNCHANGED <<lockVars, note, sleeping, timer>>

-----------------------------------------------------------------------------
(* runtime.notetsleep, with a deadline *)

\* The sleep is over, and any M may go on with the timer process
Awake(t) == Goto(t, "out") /\ timer' = Nil

Register(t) ==
  /\ pc[t] = "register"
  /\ note' = IF note = Nil THEN t ELSE note
  /\ timer' = IF note = LOCKED THEN Nil ELSE timer
  /\ Goto(t, CASE note = Nil -> "sleep" [] note = LOCKED -> "out" [] OTHER -> "thrown")
  /\ UNCHANGED <<lockVars, waitsema, sleeping, mp>>

\* semasleep( ns ) acquired the semaphore
SleepEnds(t) ==
  /\ pc[t] = "sleep"
  /\ Down(t)
  /\ Awake(t)
  /\ UNCHANGED <<lockVars, note, sleeping, mp>>

\* It did not, and the deadline has passed
Expire(t) ==
  /\ pc[t] = "sleep"
  /\ Goto(t, "expired")
  /\ UNCHANGED <<lockVars, waitsema, noteVars>>

LookAtNote(t) ==
  /\ pc[t] = "expired"
  /\ Goto(t, CASE note = t -> "unregister" [] note = LOCKED -> "take" [] OTHER -> "thrown")
  /\ UNCHANGED <<lockVars, waitsema, noteVars>>

\* casp( &n->waitm, mp, nil )
Unregister(t) ==
  /\ pc[t] = "unregister"
  /\ IF note = t THEN note' = Nil /\ Awake(t)
     ELSE Goto(t, "expired") /\ UNCHANGED <<note, timer>>
  /\ UNCHANGED <<lockVars, waitsema, sleeping, mp>>

\* Slip: the wakeup is not taken, for the deadline has passed anyway
LeaveSemaphore(t) ==
  /\ pc[t] = "take"
  /\ Awake(t)
  /\ UNCHANGED <<lockVars, waitsema, note, sleeping, mp>>

\* The wakeup came first, and the semaphore is up or soon will be
TakeSemaphore(t) ==
  /\ pc[t] = "take"
  /\ Down(t)
  /\ Awake(t)
  /\ UNCHANGED <<lockVars, note, sleeping, mp>>

-----------------------------------------------------------------------------
\* What an M does once it called lock.  A deadline need not come.
Step(t) ==
  \/ Load(t) \/ Grab(t) \/ Queue(t) \/ QueueAgain(t) \/ WaitForLock(t)
  \/ Unlock(t) \/ FindNext(t) \/ Release(t) \/ WakeFirst(t)
  \/ AddTimer(t) \/ AddFirstTimer(t) \/ ServeTimer(t) \/ ClearNote(t)
  \/ NoteWakeup(t) \/ ExchangeNote(t) \/ WakeSleeper(t)
  \/ Register(t) \/ SleepEnds(t) \/ LookAtNote(t) \/ Unregister(t) \/ TakeSemaphore(t)

Next == \E t \in Ms : Lock(t) \/ Step(t) \/ Expire(t)

\* The system runs every thread that can go on
Spec == Init /\ [][Next]_vars /\ \A t \in Ms : WF_vars(Step(t))

-----------------------------------------------------------------------------
(* Properties *)

\* The waiting M's: the smallest set with the first of them, and with the next
\* of each M in it.
Closed(S) ==
  /\ waitm.head \in S \cup {Nil}
  /\ \A s \in S : nextwaitm[s] \in S \cup {Nil}
Listed(t) == \A S \in SUBSET Ms : Closed(S) => t \in S

\* M s is about to put up the semaphore of M t
Brings(s, t) ==
  \/ pc[s] = "wake" /\ v[s].head = t
  \/ pc[s] = "ready" /\ mp[s] = t

\* M t was taken out of the lock's list, or registered with a note that was woken
Expects(t) ==
  \/ pc[t] = "wait" /\ ~Listed(t)
  \/ pc[t] \in {"sleep", "expired", "unregister", "take"} /\ note = LOCKED

\* A semaphore is up, or about to be put up, once for every M that was taken out
\* of the lock's list, or registered with a note that was woken, and for no
\* other: no wakeup is lost, none is left for a later wait, none is doubled
\* (an event of Windows would lose the second).  Nor do the runtime's own tests
\* throw: a note is woken once, and no semaphore is out of sync.
InSync == \A t \in Ms :
  /\ pc[t] # "thrown"
  /\ IF Expects(t)
     THEN \/ waitsema[t] = 1 /\ \A s \in Ms : ~Brings(s, t)
          \/ waitsema[t] = 0 /\ \E s \in Ms : \A r \in Ms : Brings(r, t) <=> r = s
     ELSE waitsema[t] = 0 /\ \A s \in Ms : ~Brings(s, t)

\* M t has still to look at the lock, or was dequeued and will
OnItsWay(t) ==
  \/ pc[t] \in {"load", "grab", "queue", "again"}
  \/ pc[t] = "wait" /\ ~Listed(t)

\* While the lock is free, an M that is awake, or about to be woken, is on its
\* way to take it from the list.
ListIsServed ==
  waitm.head # Nil /\ ~waitm.locked => \E t \in Ms : OnItsWay(t)

\* Once a new first timer was added, the note of the timer process is woken, or
\* the M that added it is about to wake it.
SleeperIsWoken == \A t \in Ms :
  pc[t] \in Asleep /\ ~sleeping =>
    note = LOCKED \/ \E s \in Ms : pc[s] \in {"wakeup", "exchange"}

\* Whoever sleeps has a reason to: in the lock's list, that the lock is taken, so
\* that an unlock is to come; at the note, that no earlier timer was added.
\* Otherwise some M is bound to wake it.
NobodyIsForgotten == ListIsServed /\ SleeperIsWoken

LockOf == INSTANCE Mutex WITH
  Threads <- Ms,
  waiting <- {t \in Ms : pc[t] \in Outside},
  holders <- {t \in Ms : pc[t] \in Inside}

\* One M at a time has the lock: what the M's do to its word is what the threads
\* of Mutex do.
IsMutex == LockOf!Spec

\* No M sleeps while what it waits for is there: one that waits for a free lock
\* gets it, unless another does first, and the timer process does not sleep
\* through a timer that was added for it.
Wakes ==
  /\ LockOf!Progress
  /\ \A t \in Ms : (pc[t] = "sleep" /\ ~sleeping) ~> (pc[t] # "sleep")
=============================================================================
