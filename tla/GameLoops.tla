------------------------------- MODULE GameLoops -------------------------------
(***************************************************************************)
(* The time accounting of the program's three loops: the game server's     *)
(* main loop (ServerInstance::run), its network thread's (NetworkServer::  *)
(* run) and the client's frame loop (ClientInstance::run).  All three add  *)
(* the time that passed since their last iteration to remainingTime, make  *)
(* at most one step per iteration, subtract what the step stands for, and  *)
(* sleep until the next one is due.  The server's step stands for more or  *)
(* less time when it is behind.                                            *)
(*                                                                         *)
(* An iteration is one step here.  Time is in integer units; where the code *)
(* divides floats the step is rounded up, in favour of catching up.        *)
(***************************************************************************)
EXTENDS Integers, SequencesExt

CONSTANTS
  Loops,         \* which of "server", "network", "client" are looked at
  FixedTimestep, \* FIXED_TIMESTEP, 1/60 s
  TickPeriod,    \* NetworkServer::m_tickPeriod, 0.1 s
  MaxElapsed,    \* no more than 2 s are made up for
  MaxSleep,      \* 1 s
  Window,        \* how many iterations the mean is over, 20
  LightWork,     \* what an iteration takes without load, sleep apart
  Frames,        \* how long a frame is at the refresh rates of the screens
  HeavyWork,     \* what an iteration takes under load, or a stalled frame
  MaxHeavy,      \* bound on the number of iterations under load
  MaxBacklog     \* remainingTime is not counted above this bound

ASSUME LoopAssumption ==
  /\ Loops \subseteq {"server", "network", "client"}
  /\ {FixedTimestep, TickPeriod, MaxElapsed, MaxSleep, Window} \subseteq Nat \ {0}
  /\ LightWork \cup Frames \cup HeavyWork \subseteq Nat \ {0}
  /\ MaxHeavy \in Nat
  /\ MaxBacklog \in Nat /\ MaxBacklog >= 4 * FixedTimestep

(* No more is made up for at once than a tick is long (0.1 s against 2 s).  *)
(* What an iteration takes is not assumed to fit into its step: a screen   *)
(* of 60 Hz has frames of just a timestep, a slower one of more.           *)
ASSUME CapAssumption == TickPeriod <= MaxElapsed

VARIABLES
  loop,               \* which loop this is
  remainingTime,      \* time that passed and was not simulated yet
  stepDurationRecord, \* the last iterations' durations (server)
  sleepTime,          \* how long this iteration's sleep will be
  stepped,            \* whether the last iteration made a step
  killFlag,           \* m_killFlag, ~m_running, WindowShouldClose
  ended,              \* the loop was left
  heavy,              \* iterations under load so far
  usual               \* what an iteration without load takes at present

vars == <<loop, remainingTime, stepDurationRecord, sleepTime, stepped,
          killFlag, ended, heavy, usual>>

Least(a, b) == IF a < b THEN a ELSE b
Clamp(a, low, high) == IF a < low THEN low ELSE Least(a, high)
RatioUp(a, b) == (a + b - 1) \div b
Total(record) == FoldSeq(LAMBDA a, b : a + b, 0, record)
Nominal == IF loop = "network" THEN TickPeriod ELSE FixedTimestep

(* The client's drawing waits for the frame of the screen it is on.        *)
Usual == IF loop = "client" THEN Frames ELSE LightWork
-----------------------------------------------------------------------------
Init ==
  /\ loop \in Loops
  /\ remainingTime = 0
  /\ stepDurationRecord = <<>>
  /\ sleepTime = 0
  /\ stepped = FALSE
  /\ killFlag = FALSE
  /\ ended = FALSE
  /\ heavy = 0
  /\ usual \in Usual

(* What one step of the server stands for: the fixed timestep, going over  *)
(* to nine tenths of the mean iteration as the loop falls from one to four *)
(* timesteps behind.                                                       *)
CurrentTimestep(due, record) ==
  LET ramp == 3 * FixedTimestep
      alpha == Clamp(due - FixedTimestep, 0, ramp)
      n == Len(record)
  IN RatioUp(9 * Total(record) * alpha + 10 * n * FixedTimestep * (ramp - alpha),
             10 * n * ramp)

(* Faults: a step that is not due is made; time that was not enough for a  *)
(* step is forgotten; the sleep is a whole step, however late it is.       *)
EagerAdvance(due, timestep, maySleep) ==
  /\ stepped' = TRUE
  /\ remainingTime' = Least(due - timestep, MaxBacklog)
  /\ sleepTime' = IF maySleep THEN Clamp(timestep - due, 0, MaxSleep) ELSE 0

ForgetfulAdvance(due, timestep, maySleep) ==
  LET left == IF due >= timestep THEN due - timestep ELSE 0 IN
  /\ stepped' = (due >= timestep)
  /\ remainingTime' = Least(left, MaxBacklog)
  /\ sleepTime' = IF maySleep THEN Clamp(timestep - left, 0, MaxSleep) ELSE 0

SleepyAdvance(due, timestep, maySleep) ==
  LET left == IF due >= timestep THEN due - timestep ELSE due IN
  /\ stepped' = (due >= timestep)
  /\ remainingTime' = Least(left, MaxBacklog)
  /\ sleepTime' = IF maySleep THEN Clamp(timestep, 0, MaxSleep) ELSE 0

(* A step if one is due, and the sleep until the next one is.              *)
Advance(due, timestep, maySleep) ==
  LET left == IF due >= timestep THEN due - timestep ELSE due IN
  /\ stepped' = (due >= timestep)
  /\ remainingTime' = Least(left, MaxBacklog)
  /\ sleepTime' = IF maySleep THEN Clamp(timestep - left, 0, MaxSleep) ELSE 0

ServerIteration(work) ==
  LET elapsed == Least(MaxElapsed, sleepTime + work)
      due == remainingTime + elapsed
      all == Append(stepDurationRecord, elapsed)
      record == IF Len(all) > Window THEN Tail(all) ELSE all
  IN /\ loop = "server"
     /\ stepDurationRecord' = record
     /\ Advance(due, CurrentTimestep(due, record), TRUE)

NetworkIteration(work) ==
  LET elapsed == Least(MaxElapsed, sleepTime + work) IN
  /\ loop = "network"
  /\ Advance(remainingTime + elapsed, TickPeriod, TRUE)
  /\ UNCHANGED stepDurationRecord

(* Fault: whether a step is due is decided before the time is added.       *)
LateClient(frame) ==
  LET due == remainingTime >= FixedTimestep
      left == remainingTime + frame - IF due THEN FixedTimestep ELSE 0
  IN /\ loop = "client"
     /\ stepped' = due
     /\ remainingTime' = Least(left, MaxBacklog)
     /\ sleepTime' = 0
     /\ UNCHANGED stepDurationRecord

(* The client does not sleep: drawing waits for the next frame.  Time that *)
(* passed is not capped.                                                   *)
ClientIteration(frame) ==
  /\ loop = "client"
  /\ Advance(remainingTime + frame, FixedTimestep, FALSE)
  /\ UNCHANGED stepDurationRecord

Iteration(work) ==
  /\ ~ended /\ ~killFlag
  /\ ServerIteration(work) \/ NetworkIteration(work) \/ ClientIteration(work)
  /\ UNCHANGED <<loop, killFlag, ended, usual>>

Light ==
  /\ Iteration(usual)
  /\ UNCHANGED heavy

Heavy ==
  /\ heavy < MaxHeavy
  /\ \E work \in HeavyWork : Iteration(work)
  /\ heavy' = heavy + 1

(* The client's window goes to a screen of another rate, which the target  *)
(* rate follows; or an iteration of another length is usual from now on.   *)
ChangeScreen ==
  /\ ~ended /\ ~killFlag
  /\ usual' \in Usual
  /\ UNCHANGED <<loop, remainingTime, stepDurationRecord, sleepTime, stepped,
                 killFlag, ended, heavy>>

(* ServerInstance::stop, NetworkServer::stop, or the window is closed.     *)
Stop ==
  /\ ~killFlag
  /\ killFlag' = TRUE
  /\ UNCHANGED <<loop, remainingTime, stepDurationRecord, sleepTime, stepped,
                 ended, heavy, usual>>

Exit ==
  /\ killFlag /\ ~ended
  /\ ended' = TRUE
  /\ UNCHANGED <<loop, remainingTime, stepDurationRecord, sleepTime, stepped,
                 killFlag, heavy, usual>>

Next == Light \/ Heavy \/ ChangeScreen \/ Stop \/ Exit

Spec == Init /\ [][Next]_vars

(* The threads run.  Nobody has to move a window.                          *)
FairSpec == Spec /\ WF_vars(Light) /\ WF_vars(Exit)
-----------------------------------------------------------------------------
TypeOK ==
  /\ loop \in Loops
  /\ remainingTime \in 0 .. MaxBacklog
  /\ stepDurationRecord \in Seq(1 .. MaxElapsed)
  /\ Len(stepDurationRecord) <= Window
  /\ sleepTime \in 0 .. MaxSleep
  /\ {stepped, killFlag, ended} \subseteq BOOLEAN
  /\ heavy \in 0 .. MaxHeavy
  /\ usual \in Usual

(* A loop at least one step late, and a loop whose iterations leave time   *)
(* over.  The server's step depends on its window: it is left out.         *)
Behind == remainingTime >= Nominal
Roomy == loop # "server" /\ usual < Nominal

(* "go slower than the mean to catch up" (server_instance.cpp:55): when    *)
(* the load is gone, a loop that fell behind makes up for what it missed,  *)
(* and is from then on less than one step behind.                          *)
CatchesUp == <>[](ended \/ remainingTime < Nominal)

(* The network thread and the client make one step per iteration at most   *)
(* (network_server.cpp:284-296, client_instance.cpp:55-77).  If they are a *)
(* step late, an iteration brings them closer to the present exactly when  *)
(* it leaves time over: on a screen of 60 Hz or less (client_instance.cpp: *)
(* 25-26, 60-63) a client that was stalled once stays late.  If they are   *)
(* not late, an iteration that leaves time over never makes them so.       *)
GainsGround ==
  [][Light /\ loop # "server" =>
       /\ Behind => (remainingTime' < remainingTime <=> Roomy)
       /\ ~Behind /\ Roomy => ~Behind']_vars

(* From when all their iterations leave time over the network thread and   *)
(* the client make up for every stall, and are then never again a step     *)
(* late (network_server.cpp:284-296, client_instance.cpp:55-77): no sleep  *)
(* and no check gives away what a step gained, however often the client's  *)
(* window went to a slow screen before.                                    *)
MakesUp == <>[]Roomy => <>[](ended \/ ~Behind)

(* However slow the server's steps become under load, the game goes on     *)
(* (server_instance.cpp:63-80): a sleep never outgrows what it waits for.  *)
KeepsStepping == []<>(stepped \/ ended)
=============================================================================
