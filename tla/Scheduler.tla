----------------------------- MODULE Scheduler -----------------------------
(***************************************************************************)
(* core/events/scheduler.py: scheduler processes that tick, find the jobs  *)
(* due at the minute they ticked in, and run those they win a Redis lock   *)
(* for, one after another in the tick.                                     *)
(*                                                                         *)
(* Time is a count of units on one clock; a minute is Minute units long.   *)
(* A process's own clock runs Ahead of it by a fixed offset.  Redis and    *)
(* the crons see no other time.                                            *)
(***************************************************************************)
EXTENDS Integers, Sequences, FiniteSets

CONSTANTS
  Schedulers,     \* processes
  Ahead,          \* [Schedulers -> Nat]: how far each clock is ahead
  Jobs,           \* the registry, a sequence of job names
  Due,            \* [job name -> minutes at which its cron matches]
  Durations,      \* [job name -> how long a run may take]
  Minute,         \* units in a minute
  Tick,           \* tick_s, the sleep between two rounds
  Ttl,            \* LOCK_TTL_S
  LastInstant,    \* bound: the last instant
  MaxDeaths       \* bound: process deaths

Names == {Jobs[i] : i \in DOMAIN Jobs}

ASSUME SchedulerAssumption ==
  /\ IsFiniteSet(Schedulers) /\ Ahead \in [Schedulers -> Nat]
  /\ Jobs \in Seq(Names) /\ \A j \in Names : Durations[j] \subseteq Nat
  /\ Minute \in Nat \ {0} /\ Tick \in 1..Minute /\ Ttl \in Nat \ {0}
  /\ LastInstant \in Nat /\ MaxDeaths \in Nat

VARIABLES
  clock,     \* the clock
  proc,      \* each process: when its next step comes (until), the minute of
             \* its round, and the jobs of the registry it has not reached
  lock,      \* gop:sched:<job>:<minute>: the instant the key expires
  runs,      \* history: how often each job was run for each minute
  away,      \* history: the minutes that began on a process's clock while it
             \* was down, or still in the round of an earlier minute
  deaths

schedulerVars == <<clock, proc, lock, runs, away, deaths>>

Minutes == 0..((LastInstant + 2 * Minute) \div Minute)
Sleeping == [at |-> "sleep", until |-> 0, minute |-> 0, left |-> <<>>]

SchedulerInit ==
  /\ clock = 0
  /\ proc \in [Schedulers ->
                {[Sleeping EXCEPT !.until = start] : start \in 0..(Minute - 1)}]
  /\ lock = [j \in Names |-> [m \in Minutes |-> 0]]
  /\ runs = [j \in Names |-> [m \in Minutes |-> 0]]
  /\ away = [s \in Schedulers |->
               {m \in Minutes : m < (proc[s].until + Ahead[s]) \div Minute}]
  /\ deaths = 0

Ready(s, point) == proc[s].at = point /\ proc[s].until <= clock
OwnMinute(s, instant) == (instant + Ahead[s]) \div Minute

(* Nobody has anything left to do at this instant. *)
ClockPasses ==
  /\ clock < LastInstant
  /\ \A s \in Schedulers : proc[s].until > clock
  /\ clock' = clock + 1
  /\ UNCHANGED <<proc, lock, runs, away, deaths>>

(* run_due reads the clock once; every job of the registry is matched and  *)
(* locked with that minute.                                                *)
StartRound(s) ==
  /\ Ready(s, "sleep")
  /\ proc' = [proc EXCEPT ![s] =
                 [at |-> "round", until |-> clock,
                  minute |-> OwnMinute(s, clock), left |-> Jobs]]
  /\ UNCHANGED <<clock, lock, runs, away, deaths>>

(* Mutant: the lock is not consulted. *)
LockFreeAnyway(j, minute) == TRUE

(* SET NX EX: the key is absent or has expired. *)
LockFreeAt(j, minute) == lock[j][minute] <= clock

(* Mutant: a round ends with the first job that is due. *)
RunJobThenStop(s) ==
  /\ Ready(s, "round") /\ proc[s].left # <<>>
  /\ LET j == Head(proc[s].left)  minute == proc[s].minute IN
       IF minute \in Due[j]
         THEN /\ lock' = [lock EXCEPT ![j][minute] = clock + Ttl]
              /\ runs' = [runs EXCEPT ![j][minute] = @ + 1]
              /\ proc' = [proc EXCEPT ![s].left = <<>>]
         ELSE /\ proc' = [proc EXCEPT ![s].left = Tail(@)]
              /\ UNCHANGED <<lock, runs>>
  /\ UNCHANGED <<clock, away, deaths>>

(* The next job of the registry: passed over when it is not due; won and   *)
(* run, for one of its durations; or left to the process that holds the    *)
(* lock.                                                                   *)
RunJob(s) ==
  /\ Ready(s, "round") /\ proc[s].left # <<>>
  /\ LET j == Head(proc[s].left)  minute == proc[s].minute IN
       IF minute \in Due[j] /\ LockFreeAt(j, minute)
         THEN /\ lock' = [lock EXCEPT ![j][minute] = clock + Ttl]
              /\ runs' = [runs EXCEPT ![j][minute] = @ + 1]
              /\ \E d \in Durations[j] :
                   proc' = [proc EXCEPT ![s].left = Tail(@), ![s].until = clock + d]
         ELSE /\ proc' = [proc EXCEPT ![s].left = Tail(@)]
              /\ UNCHANGED <<lock, runs>>
  /\ UNCHANGED <<clock, away, deaths>>

(* The sleep starts when the round is over, not when its minute is.        *)
Sleep(s) ==
  /\ Ready(s, "round") /\ proc[s].left = <<>>
  /\ proc' = [proc EXCEPT ![s].at = "sleep", ![s].until = clock + Tick]
  /\ away' = [away EXCEPT ![s] = @ \cup {m \in Minutes :
                proc[s].minute < m /\ m <= OwnMinute(s, clock)}]
  /\ UNCHANGED <<clock, lock, runs, deaths>>

(* The process dies, inside a job or asleep, and is started again. *)
SchedulerDies(s) ==
  /\ deaths < MaxDeaths
  /\ proc' = [proc EXCEPT ![s].at = "sleep", ![s].until = clock + 1, ![s].left = <<>>]
  /\ away' = [away EXCEPT ![s] = @ \cup {m \in Minutes :
                proc[s].minute <= m /\ m < OwnMinute(s, clock + 1)}]
  /\ deaths' = deaths + 1
  /\ UNCHANGED <<clock, lock, runs>>

SchedulerNext ==
  \/ ClockPasses
  \/ \E s \in Schedulers : StartRound(s) \/ RunJob(s) \/ Sleep(s) \/ SchedulerDies(s)

SchedulerSpec == SchedulerInit /\ [][SchedulerNext]_schedulerVars
-----------------------------------------------------------------------------
(* Properties                                                              *)

(* However many schedulers are up, a job is run a second time for a minute *)
(* only once the lock's time has gone by since that minute began: by a     *)
(* round that slow jobs held up, or a clock that is behind (_acquire and   *)
(* LOCK_TTL_S against run_due, which keeps its minute for the whole        *)
(* round).                                                                 *)
FiresOnce ==
  \A j \in Names, m \in Minutes :
    (runs[j][m] > 0 /\ runs'[j][m] > runs[j][m])
      => \E s \in Schedulers : clock + Ahead[s] >= m * Minute + Ttl

(* A job due at a minute has been started once that minute is over and the *)
(* scheduler asleep; what one scheduler leaves out are the minutes it was  *)
(* away for (run_scheduler's sleep after the round, run_due).              *)
DueJobsFire ==
  \A s \in Schedulers, j \in Names, m \in Minutes :
    (/\ m \in Due[j] /\ m \notin away[s]
     /\ proc[s].at = "sleep" /\ (m + 1) * Minute <= clock + Ahead[s])
      => runs[j][m] > 0
=============================================================================
