--------------------------------- MODULE Cgi ---------------------------------
(***************************************************************************)
(* One call of TcpServer::handle_cgi_request: the parent polls the script  *)
(* it forked, kills it after WaitLimit, and only then reads the pipe, one  *)
(* byte for each usleep, for ReadLimit.  The script, and a process the     *)
(* script may leave behind with the pipe open, run beside it.              *)
(*                                                                         *)
(* A tick is the 500 us of one usleep: 5000 ms and 3000 ms are WaitLimit   *)
(* and ReadLimit ticks.  usleep may take up to MaxLag ticks.  gettimeofday *)
(* reads a clock that may be set while the call runs, Jumps times; what    *)
(* time_dif returns is unsigned, modulo ClockMod: a clock set to before    *)
(* the first call makes it huge.                                           *)
(***************************************************************************)
EXTENDS Integers

CONSTANTS
    WaitLimit,     \* ticks before a script is killed
    ReadLimit,     \* ticks ft_usleep reads for
    MaxLag,        \* the most ticks one usleep takes
    Capacity,      \* bytes a pipe holds
    MaxOutput,     \* bound on the bytes written to the pipe
    Leftover,      \* whether the script may leave a process behind
    Jumps,         \* bound on the times the clock is set
    ClockMod,      \* 2^64
    MaxElapsed     \* ticks after which no more are counted

ASSUME CgiAssumption ==
    /\ {WaitLimit, ReadLimit, MaxOutput, Jumps, MaxElapsed} \subseteq Nat
    /\ {MaxLag, Capacity, ClockMod} \subseteq Nat \ {0}
    /\ Leftover \in BOOLEAN

\* No clock that nobody sets comes to its zero during a call, and the ticks are
\* counted for as long as a call may take.
ASSUME CgiClockAssumption ==
    /\ 2 * WaitLimit + ReadLimit + 2 * MaxLag < ClockMod
    /\ WaitLimit + ReadLimit + 2 * MaxLag <= MaxElapsed

VARIABLES
    pc,        \* where the parent is: see Where
    wall,      \* what time_dif returns: the clock, from its first call on
    base,      \* base, of the wait and then of ft_usleep
    child,     \* the script: "none", "running", "zombie" or "reaped"
    grand,     \* the process it left: "none", "running" or "gone"
    pipe,      \* bytes in the pipe
    written,   \* bytes the script's processes have written
    got,       \* read.length()
    check,     \* what ft_usleep returned, "unset" before
    time,      \* time: TRUE when the script was killed
    answer,    \* status stored in _requests, "none" when nothing is
    elapsed,   \* ticks that really passed since the fork
    jumps      \* times the clock was set

parentVars == <<pc, base, got, check, time, answer>>
scriptVars == <<child, grand, written>>
clockVars  == <<wall, elapsed, jumps>>
vars       == <<parentVars, scriptVars, clockVars, pipe>>

Where == {"start", "wait", "clock", "loop", "read", "respond", "done"}

TypeOK ==
    /\ pc \in Where
    /\ wall \in 0..(ClockMod - 1)
    /\ base \in 0..(ClockMod - 1)
    /\ child \in {"none", "running", "zombie", "reaped"}
    /\ grand \in {"none", "running", "gone"}
    /\ pipe \in 0..Capacity
    /\ written \in 0..MaxOutput
    /\ got \in 0..MaxOutput
    /\ check \in {"unset", "eof", "error", "late"}
    /\ time \in BOOLEAN
    /\ answer \in {"none", "200", "500", "504"}
    /\ elapsed \in 0..MaxElapsed
    /\ jumps \in 0..Jumps

\* The server may have run other scripts before: wall is not 0.
Init ==
    /\ pc = "start" /\ base = 0 /\ got = 0 /\ check = "unset" /\ time = FALSE
    /\ answer = "none"
    /\ wall \in 0..WaitLimit \cap 0..(ClockMod - 1) /\ elapsed = 0 /\ jumps = 0
    /\ child = "none" /\ grand = "none" /\ written = 0 /\ pipe = 0

Plus(t, d) == (t + d) % ClockMod

\* The parent sleeps, or waits in read().
Passes(d) ==
    /\ wall' = Plus(wall, d)
    /\ elapsed' = IF elapsed + d < MaxElapsed THEN elapsed + d ELSE MaxElapsed
    /\ UNCHANGED jumps
Sleeps    == \E d \in 1..MaxLag : Passes(d)

-----------------------------------------------------------------------------
(* The parent.                                                             *)

Fork ==
    /\ pc = "start"
    /\ pc' = "wait" /\ child' = "running" /\ base' = wall
    /\ UNCHANGED <<got, check, time, answer, grand, written, clockVars, pipe>>

\* pipe or fork fails: the call returns and stores nothing.
NoProcess ==
    /\ pc = "start"
    /\ pc' = "done"
    /\ UNCHANGED <<base, got, check, time, answer, scriptVars, clockVars, pipe>>

\* waitpid(pid, &status, WNOHANG) returns the pid: on to ft_usleep.
Reap ==
    /\ pc = "wait" /\ child = "zombie"
    /\ child' = "reaped"
    /\ pc' = "loop" /\ base' = wall
    /\ UNCHANGED <<got, check, time, answer, grand, written, clockVars, pipe>>

\* It returns 0: look at the clock.
NotYet ==
    /\ pc = "wait" /\ child = "running"
    /\ pc' = "clock"
    /\ UNCHANGED <<base, got, check, time, answer, scriptVars, clockVars, pipe>>

\* Mutant: base is forgotten, the time since the first script counts.
OldWaitIsOver == wall >= WaitLimit
WaitIsOver    == wall >= Plus(base, WaitLimit)

PollAgain ==
    /\ pc = "clock" /\ ~WaitIsOver
    /\ pc' = "wait"
    /\ Sleeps
    /\ UNCHANGED <<base, got, check, time, answer, scriptVars, pipe>>

\* Mutant: the script is left running, the loop only stops waiting for it.
SoftKill ==
    /\ pc = "clock" /\ WaitIsOver
    /\ time' = TRUE
    /\ pc' = "loop" /\ base' = wall
    /\ UNCHANGED <<got, check, answer, scriptVars, clockVars, pipe>>

\* The script is killed, if it has not just exited, and never waited for.
Kill ==
    /\ pc = "clock" /\ WaitIsOver
    /\ child' = "zombie" /\ time' = TRUE
    /\ pc' = "loop" /\ base' = wall
    /\ UNCHANGED <<got, check, answer, grand, written, clockVars, pipe>>

\* Mutant: the limit itself is already late.
ShortReadGoesOn == wall < Plus(base, ReadLimit)
ReadGoesOn      == wall <= Plus(base, ReadLimit)
Writers         == child = "running" \/ grand = "running"

EndRead(result) ==
    /\ pc' = "respond" /\ check' = result
    /\ UNCHANGED <<base, got, time, answer, scriptVars, clockVars, pipe>>

ReadNext ==
    /\ pc = "loop" /\ ReadGoesOn
    /\ pc' = "read"
    /\ UNCHANGED <<base, got, check, time, answer, scriptVars, clockVars, pipe>>

ReadLate == pc = "loop" /\ ~ReadGoesOn /\ EndRead("late")

\* Mutant: end of file is taken for a byte.
UncheckedReadByte ==
    /\ pc = "read"
    /\ pc' = "loop"
    /\ pipe' = pipe - 1 /\ got' = got + 1
    /\ Sleeps
    /\ UNCHANGED <<base, check, time, answer, scriptVars>>

ReadByte ==
    /\ pc = "read"
    /\ pipe > 0
    /\ pc' = "loop"
    /\ pipe' = pipe - 1 /\ got' = got + 1
    /\ Sleeps
    /\ UNCHANGED <<base, check, time, answer, scriptVars>>

\* While the pipe is empty and somebody may write to it, read() waits: the
\* parent has no step, whatever the limit.
ReadEof   == pc = "read" /\ pipe = 0 /\ ~Writers /\ EndRead("eof")
ReadFails == pc = "read" /\ EndRead("error")

\* Mutant: what was read in time is taken for the whole.
HastyAnswer ==
    IF got > 0 THEN "200" ELSE IF time THEN "504" ELSE IF check = "eof" THEN "500" ELSE "none"

\* The three responses; with none of them _requests is left empty.
Answer ==
    IF check = "eof" /\ got > 0 THEN "200"
    ELSE IF check = "eof" /\ ~time THEN "500"
    ELSE IF time THEN "504"
    ELSE "none"

Respond ==
    /\ pc = "respond"
    /\ answer' = Answer
    /\ pc' = "done"
    /\ UNCHANGED <<base, got, check, time, scriptVars, clockVars, pipe>>

-----------------------------------------------------------------------------
(* The script, what it leaves behind, and the clock.                       *)

Write ==
    /\ Writers
    /\ pipe < Capacity /\ written < MaxOutput
    /\ pipe' = pipe + 1 /\ written' = written + 1
    /\ UNCHANGED <<parentVars, child, grand, clockVars>>

\* The script ends, by itself or by a signal; execv may have failed.
ScriptExits ==
    /\ child = "running"
    /\ child' = "zombie"
    /\ UNCHANGED <<parentVars, grand, written, clockVars, pipe>>

LeaveBehind ==
    /\ Leftover /\ child = "running" /\ grand = "none"
    /\ grand' = "running"
    /\ UNCHANGED <<parentVars, child, written, clockVars, pipe>>

LeftoverExits ==
    /\ grand = "running"
    /\ grand' = "gone"
    /\ UNCHANGED <<parentVars, child, written, clockVars, pipe>>

\* Time passes for a parent that read() keeps waiting; what passes after the
\* limit makes no difference.
TimePasses ==
    /\ pc = "read" /\ pipe = 0 /\ Writers
    /\ ReadGoesOn
    /\ Passes(1)
    /\ UNCHANGED <<parentVars, scriptVars, pipe>>

SetClock ==
    /\ jumps < Jumps
    /\ jumps' = jumps + 1
    /\ wall' \in 0..(ClockMod - 1)
    /\ UNCHANGED <<parentVars, scriptVars, elapsed, pipe>>

ParentStep ==
    \/ Fork \/ NoProcess \/ Reap \/ NotYet \/ PollAgain \/ Kill
    \/ ReadNext \/ ReadLate \/ ReadByte \/ ReadEof \/ Respond

ScriptStep == Write \/ ScriptExits \/ LeaveBehind \/ LeftoverExits

Next == ParentStep \/ ReadFails \/ ScriptStep \/ TimePasses \/ SetClock

Spec == Init /\ [][Next]_vars

\* Only the server's own process is sure to run.
FairSpec == Spec /\ WF_vars(ParentStep)

-----------------------------------------------------------------------------
(* Safety.                                                                 *)

\* A 200 carries every byte that was ever written to the pipe, also when the
\* script was killed, left a process behind or the clock was set: output that
\* was read in part is never passed off as the whole.
WholeOutput == answer = "200" => got = written

\* The output of a script that ends in time is answered with 200 if one byte
\* for each sleep fits in the limit of ft_usleep, to the last byte.
SmallOutputAnswered ==
    pc = "done" /\ check \in {"eof", "late"} /\ ~time
        /\ 0 < written /\ written * MaxLag <= ReadLimit
        /\ grand = "none" /\ jumps = 0
    => answer = "200"

\* The call, and with it every other connection, waits no longer than the two
\* limits and two sleeps, whatever the script does by itself.
CallIsBounded ==
    grand = "none" /\ jumps = 0
        => elapsed < WaitLimit + ReadLimit + 2 * MaxLag

\* A script is not killed before WaitLimit has passed since its own fork.
KilledOnlyLate ==
    [][time' /\ ~time /\ jumps = 0 => elapsed >= WaitLimit]_vars

-----------------------------------------------------------------------------
(* Liveness, with fairness for the server's own steps only.                *)

\* The limit is not within one sleep of the clock's last value.
LimitIsSeen == pc \in {"wait", "clock"} => Plus(base, WaitLimit) <= ClockMod - MaxLag

\* The call returns although the script runs for ever or the clock is set,
\* unless a process left behind holds the pipe open for ever, or a clock set
\* to before the first call runs past its zero in the one sleep in which the
\* limit would have been seen.
Returns ==
    (<>[](grand # "running") /\ []LimitIsSeen) => (pc = "wait" ~> pc = "done")
=============================================================================
