------------------------------ MODULE CgiProofs ------------------------------
(***************************************************************************)
(* What holds of a CGI call for all limits, pipe capacities and outputs.   *)
(***************************************************************************)
EXTENDS Cgi, TLAPS

\* Clock readings stay below the modulus.
LEMMA PlusInRange ==
    ASSUME NEW t \in Nat, NEW d \in Nat
    PROVE  Plus(t, d) \in 0..(ClockMod - 1)
  BY CgiAssumption DEF Plus

\* Time that passes keeps the types of the clocks.
LEMMA PassesTyped ==
    ASSUME wall \in 0..(ClockMod - 1), elapsed \in 0..MaxElapsed,
           NEW d \in Nat, Passes(d)
    PROVE  wall' \in 0..(ClockMod - 1) /\ elapsed' \in 0..MaxElapsed
<1>1. wall' = Plus(wall, d) /\ wall \in Nat
  BY DEF Passes
<1>2. wall' \in 0..(ClockMod - 1)
  BY <1>1, PlusInRange
<1>3. MaxElapsed \in Nat /\ elapsed \in Nat
  BY CgiAssumption
<1>4. elapsed' = IF elapsed + d < MaxElapsed THEN elapsed + d ELSE MaxElapsed
  BY DEF Passes
<1>5. elapsed' \in 0..MaxElapsed
  BY <1>3, <1>4
<1>6. QED
  BY <1>2, <1>5

-----------------------------------------------------------------------------
(* The inductive invariant.                                                *)

\* Every byte written is in the pipe or has been read.
Balance == pipe + got = written

\* ft_usleep returns once; end of file leaves nothing to come.
ReadOutcome ==
    /\ pc \notin {"respond", "done"} => check = "unset"
    /\ check = "eof" => pipe = 0 /\ ~Writers
    /\ answer = "200" => check = "eof"

CgiInv == TypeOK /\ Balance /\ ReadOutcome

\* The invariant holds when the call starts.
LEMMA CgiInit == Init => CgiInv
<1> SUFFICES ASSUME Init PROVE CgiInv
  OBVIOUS
<1>1. time \in BOOLEAN
  BY Zenon DEF Init
<1>2. TypeOK
  BY <1>1, CgiAssumption DEF Init, TypeOK, Where
<1>3. Balance /\ ReadOutcome
  BY DEF Init, Balance, ReadOutcome
<1>4. QED
  BY <1>2, <1>3 DEF CgiInv

\* The parent's steps keep it.
LEMMA CgiParent ==
    ASSUME CgiInv, ParentStep \/ ReadFails
    PROVE  CgiInv'
<1> USE CgiAssumption DEF CgiInv, TypeOK, Where, Balance, ReadOutcome, Writers
<1>1. CASE Fork
  BY <1>1 DEF Fork, clockVars
<1>2. CASE NoProcess
  BY <1>2 DEF NoProcess, clockVars, scriptVars
<1>3. CASE Reap
  BY <1>3 DEF Reap, clockVars
<1>4. CASE NotYet
  BY <1>4 DEF NotYet, clockVars, scriptVars
<1>5. CASE PollAgain
  <2>1. wall' \in 0..(ClockMod - 1) /\ elapsed' \in 0..MaxElapsed /\ UNCHANGED jumps
    BY <1>5, PassesTyped DEF PollAgain, Sleeps, Passes
  <2>2. QED
    BY <1>5, <2>1 DEF PollAgain, scriptVars
<1>6. CASE Kill
  <2>1. time' \in BOOLEAN
    BY <1>6, Zenon DEF Kill
  <2>2. QED
    BY <1>6, <2>1 DEF Kill, clockVars
<1>7. CASE ReadNext
  BY <1>7 DEF ReadNext, clockVars, scriptVars
<1>8. CASE ReadLate
  BY <1>8 DEF ReadLate, EndRead, clockVars, scriptVars
<1>9. CASE ReadByte
  <2>1. wall' \in 0..(ClockMod - 1) /\ elapsed' \in 0..MaxElapsed /\ UNCHANGED jumps
    BY <1>9, PassesTyped DEF ReadByte, Sleeps, Passes
  <2>2. QED
    BY <1>9, <2>1 DEF ReadByte, scriptVars
<1>10. CASE ReadEof
  BY <1>10 DEF ReadEof, EndRead, clockVars, scriptVars
<1>11. CASE Respond
  BY <1>11 DEF Respond, Answer, clockVars, scriptVars
<1>12. CASE ReadFails
  BY <1>12 DEF ReadFails, EndRead, clockVars, scriptVars
<1>13. QED
  BY <1>1, <1>2, <1>3, <1>4, <1>5, <1>6, <1>7, <1>8, <1>9, <1>10, <1>11, <1>12
  DEF ParentStep

\* The steps of the script, the leftover process and the clock keep it.
LEMMA CgiOthers ==
    ASSUME CgiInv, ScriptStep \/ TimePasses \/ SetClock
    PROVE  CgiInv'
<1> USE CgiAssumption DEF CgiInv, TypeOK, Where, Balance, ReadOutcome, Writers
<1>1. CASE Write
  BY <1>1 DEF Write, parentVars, clockVars
<1>2. CASE ScriptExits
  BY <1>2 DEF ScriptExits, parentVars, clockVars
<1>3. CASE LeaveBehind
  BY <1>3 DEF LeaveBehind, parentVars, clockVars
<1>4. CASE LeftoverExits
  BY <1>4 DEF LeftoverExits, parentVars, clockVars
<1>5. CASE TimePasses
  <2>1. wall' \in 0..(ClockMod - 1) /\ elapsed' \in 0..MaxElapsed /\ UNCHANGED jumps
    BY <1>5, PassesTyped DEF TimePasses, Passes
  <2>2. QED
    BY <1>5, <2>1 DEF TimePasses, parentVars, scriptVars
<1>6. CASE SetClock
  BY <1>6 DEF SetClock, parentVars, scriptVars
<1>7. QED
  BY <1>1, <1>2, <1>3, <1>4, <1>5, <1>6 DEF ScriptStep

\* So it always holds.
LEMMA CgiAlways == Spec => []CgiInv
<1>1. CgiInv /\ [Next]_vars => CgiInv'
  <2>1. CgiInv /\ UNCHANGED vars => CgiInv'
    BY DEF CgiInv, TypeOK, Balance, ReadOutcome, Writers, vars, parentVars,
           scriptVars, clockVars
  <2>2. QED
    BY <2>1, CgiParent, CgiOthers DEF Next
<1>2. QED
  BY CgiInit, <1>1, PTL DEF Spec

\* Every variable keeps its type; in particular the parent never counts a byte
\* it did not read.
THEOREM CgiTypeCorrect == Spec => []TypeOK
<1>1. CgiInv => TypeOK
  BY DEF CgiInv
<1>2. QED
  BY CgiAlways, <1>1, PTL

\* A 200 of handle_cgi_request carries all that was written to the pipe.
THEOREM WholeOutputHolds == Spec => []WholeOutput
<1>1. CgiInv => WholeOutput
  BY DEF CgiInv, TypeOK, Balance, ReadOutcome, WholeOutput
<1>2. QED
  BY CgiAlways, <1>1, PTL

-----------------------------------------------------------------------------
(* The clocks, while nobody sets them.                                     *)

\* The script and the parent's place; what Respond stores.
Places ==
    /\ child = "none" => pc \in {"start", "done"} /\ elapsed = 0 /\ check = "unset"
    /\ pc = "start" => child = "none"
    /\ child = "running" => pc \in {"wait", "clock"}
    /\ pc = "done" /\ check # "unset" => answer = Answer

\* While the parent polls, base is when it forked and elapsed the time since.
WaitClock ==
    jumps = 0 =>
        /\ pc = "start" => wall <= WaitLimit
        /\ pc \in {"wait", "clock"} =>
               /\ base <= WaitLimit /\ base <= wall /\ wall < base + WaitLimit + MaxLag
               /\ elapsed = wall - base

\* While it reads, base is when it began to, every sleep was for a byte, and
\* what passed before was one wait.
ReadClock ==
    jumps = 0 /\ grand = "none" =>
        /\ pc \notin {"start", "wait", "clock"} /\ child # "none" =>
               /\ base < 2 * WaitLimit + MaxLag
               /\ base <= wall /\ wall <= base + ReadLimit + MaxLag
               /\ pc = "read" => wall <= base + ReadLimit
               /\ wall - base <= got * MaxLag
               /\ elapsed < (wall - base) + WaitLimit + MaxLag
        /\ check = "late" => got * MaxLag > ReadLimit

ClockInv == CgiInv /\ Places /\ WaitClock /\ ReadClock

\* The limits are numbers, and no sum of them reaches the modulus.
LEMMA Limits ==
    /\ WaitLimit \in Nat /\ ReadLimit \in Nat /\ MaxLag \in Nat \ {0}
    /\ MaxElapsed \in Nat /\ ClockMod \in Nat \ {0}
    /\ 2 * WaitLimit + ReadLimit + 2 * MaxLag < ClockMod
    /\ WaitLimit + ReadLimit + 2 * MaxLag <= MaxElapsed
  BY CgiAssumption, CgiClockAssumption

\* Below the modulus the clock adds as numbers do.
LEMMA NoWrap ==
    ASSUME NEW t \in Nat, NEW d \in Nat, t + d < ClockMod
    PROVE  Plus(t, d) = t + d
  BY CgiAssumption DEF Plus

\* Time that passes moves both clocks on by as much.
LEMMA BothMove ==
    ASSUME NEW d \in Nat, Passes(d), wall \in Nat, elapsed \in Nat,
           wall + d < ClockMod, elapsed + d <= MaxElapsed
    PROVE  wall' = wall + d /\ elapsed' = elapsed + d /\ jumps' = jumps
<1>1. wall' = wall + d /\ jumps' = jumps
  BY NoWrap DEF Passes
<1>2. elapsed' = IF elapsed + d < MaxElapsed THEN elapsed + d ELSE MaxElapsed
  BY DEF Passes
<1>3. QED
  BY <1>1, <1>2, Limits

\* The products of a byte more, and of more bytes.
LEMMA Times ==
    ASSUME NEW m \in Nat, NEW a \in Nat, NEW b \in Nat, a <= b
    PROVE  a * m \in Nat /\ (a + 1) * m = a * m + m /\ a * m <= b * m
<1>1. PICK c \in Nat : b = a + c
  <2>1. b - a \in Nat /\ b = a + (b - a)
    OBVIOUS
  <2>2. QED
    BY <2>1
<1>2. b * m = a * m + c * m /\ c * m \in Nat /\ a * m \in Nat
  BY <1>1
<1>3. QED
  BY <1>2

LEMMA ClockInit == Init => ClockInv
<1> SUFFICES ASSUME Init PROVE ClockInv
  OBVIOUS
<1>1. CgiInv
  BY CgiInit
<1>2. Places
  BY DEF Init, Places
<1>3. WaitClock /\ ReadClock
  BY DEF Init, WaitClock, ReadClock
<1>4. QED
  BY <1>1, <1>2, <1>3 DEF ClockInv

\* The parent's steps keep the clocks in step.
LEMMA ClockParent ==
    ASSUME ClockInv, CgiInv', ParentStep \/ ReadFails
    PROVE  ClockInv'
<1>0. /\ Places /\ WaitClock /\ ReadClock
      /\ wall \in Nat /\ base \in Nat /\ elapsed \in Nat /\ got \in Nat
      /\ jumps \in Nat
      /\ pc \in Where /\ check \in {"unset", "eof", "error", "late"}
      /\ pc \notin {"respond", "done"} => check = "unset"
  BY DEF ClockInv, CgiInv, TypeOK, ReadOutcome
<1>1. CASE Fork
  <2>1. /\ pc = "start" /\ pc' = "wait" /\ child' = "running" /\ base' = wall
        /\ UNCHANGED <<got, check, time, answer, grand, wall, elapsed, jumps>>
    BY <1>1 DEF Fork, clockVars
  <2>2. Places' /\ ReadClock'
    BY <1>0, <2>1 DEF Places, ReadClock
  <2>3. WaitClock'
    BY <1>0, <2>1, Limits DEF WaitClock, Places
  <2>4. QED
    BY <2>2, <2>3 DEF ClockInv
<1>2. CASE NoProcess
  <2>1. /\ pc = "start" /\ pc' = "done"
        /\ UNCHANGED <<base, got, check, time, answer, child, grand, wall, elapsed, jumps>>
    BY <1>2 DEF NoProcess, clockVars, scriptVars
  <2>2. QED
    BY <1>0, <2>1 DEF ClockInv, Places, WaitClock, ReadClock
<1>3. CASE Reap \/ Kill
  <2>1. /\ pc \in {"wait", "clock"} /\ pc' = "loop" /\ child' \in {"zombie", "reaped"}
        /\ base' = wall
        /\ UNCHANGED <<got, check, answer, grand, wall, elapsed, jumps>>
    BY <1>3 DEF Reap, Kill, clockVars
  <2>2. Places' /\ WaitClock'
    BY <1>0, <2>1 DEF Places, WaitClock
  <2>3. ASSUME jumps = 0
        PROVE  /\ wall < 2 * WaitLimit + MaxLag /\ elapsed < WaitLimit + MaxLag
               /\ wall - wall <= got * MaxLag
    <3>1. base <= WaitLimit /\ wall < base + WaitLimit + MaxLag /\ elapsed = wall - base
      BY <1>0, <2>1, <2>3 DEF WaitClock
    <3>2. 0 <= got * MaxLag
      BY <1>0, Limits, Times
    <3>3. QED
      BY <1>0, <3>1, <3>2, Limits
  <2>4. ReadClock'
    BY <1>0, <2>1, <2>3, Limits DEF ReadClock
  <2>5. QED
    BY <2>2, <2>4 DEF ClockInv
<1>4. CASE NotYet
  <2>1. /\ pc = "wait" /\ pc' = "clock"
        /\ UNCHANGED <<base, got, check, time, answer, child, grand, wall, elapsed, jumps>>
    BY <1>4 DEF NotYet, clockVars, scriptVars
  <2>2. QED
    BY <1>0, <2>1 DEF ClockInv, Places, WaitClock, ReadClock
<1>5. CASE PollAgain
  <2>1. /\ pc = "clock" /\ pc' = "wait" /\ ~WaitIsOver
        /\ UNCHANGED <<base, got, check, time, answer, child, grand>>
    BY <1>5 DEF PollAgain, scriptVars
  <2>2. PICK d \in 1..MaxLag : Passes(d)
    BY <1>5 DEF PollAgain, Sleeps
  <2>3. d \in Nat /\ 1 <= d /\ d <= MaxLag /\ jumps' = jumps
    BY <2>2, Limits DEF Passes
  <2>4. Places' /\ ReadClock'
    BY <1>0, <2>1, <2>3 DEF Places, ReadClock
  <2>5. ASSUME jumps = 0
        PROVE  /\ base' <= WaitLimit /\ base' <= wall'
               /\ wall' < base' + WaitLimit + MaxLag /\ elapsed' = wall' - base'
    <3>1. base <= WaitLimit /\ base <= wall /\ elapsed = wall - base
      BY <1>0, <2>1, <2>5 DEF WaitClock
    <3>2. Plus(base, WaitLimit) = base + WaitLimit
      BY <1>0, <3>1, NoWrap, Limits
    <3>3. wall < base + WaitLimit
      BY <1>0, <2>1, <3>2, Limits DEF WaitIsOver
    <3>4. wall' = wall + d /\ elapsed' = elapsed + d
      <4>1. wall + d < ClockMod /\ elapsed + d <= MaxElapsed
        BY <1>0, <2>3, <3>1, <3>3, Limits
      <4>2. QED
        BY <1>0, <2>2, <2>3, <4>1, BothMove
    <3>5. QED
      BY <1>0, <2>1, <2>3, <3>1, <3>3, <3>4, Limits
  <2>6. WaitClock'
    BY <2>1, <2>3, <2>5 DEF WaitClock
  <2>7. QED
    BY <2>4, <2>6 DEF ClockInv
<1>6. CASE ReadNext
  <2>1. /\ pc = "loop" /\ pc' = "read" /\ ReadGoesOn
        /\ UNCHANGED <<base, got, check, time, answer, child, grand, wall, elapsed, jumps>>
    BY <1>6 DEF ReadNext, clockVars, scriptVars
  <2>2. Places' /\ WaitClock'
    BY <1>0, <2>1 DEF Places, WaitClock
  <2>3. ASSUME jumps = 0, grand = "none" PROVE wall <= base + ReadLimit
    <3>1. base < 2 * WaitLimit + MaxLag
      BY <1>0, <2>1, <2>3 DEF ReadClock, Places
    <3>2. Plus(base, ReadLimit) = base + ReadLimit
      BY <1>0, <3>1, NoWrap, Limits
    <3>3. QED
      BY <2>1, <3>2 DEF ReadGoesOn
  <2>4. ReadClock'
    BY <1>0, <2>1, <2>3 DEF ReadClock
  <2>5. QED
    BY <2>2, <2>4 DEF ClockInv
<1>7. CASE ReadLate
  <2>1. /\ pc = "loop" /\ pc' = "respond" /\ ~ReadGoesOn /\ check' = "late"
        /\ UNCHANGED <<base, got, time, answer, child, grand, wall, elapsed, jumps>>
    BY <1>7 DEF ReadLate, EndRead, clockVars, scriptVars
  <2>2. Places' /\ WaitClock'
    BY <1>0, <2>1 DEF Places, WaitClock
  <2>3. ASSUME jumps = 0, grand = "none" PROVE got * MaxLag > ReadLimit
    <3>1. base < 2 * WaitLimit + MaxLag /\ wall - base <= got * MaxLag
      BY <1>0, <2>1, <2>3 DEF ReadClock, Places
    <3>2. Plus(base, ReadLimit) = base + ReadLimit
      BY <1>0, <3>1, NoWrap, Limits
    <3>3. wall > base + ReadLimit
      BY <1>0, <2>1, <3>2, Limits DEF ReadGoesOn
    <3>4. got * MaxLag \in Nat
      BY <1>0, Limits, Times
    <3>5. QED
      BY <1>0, <3>1, <3>3, <3>4, Limits
  <2>4. ReadClock'
    BY <1>0, <2>1, <2>3 DEF ReadClock
  <2>5. QED
    BY <2>2, <2>4 DEF ClockInv
<1>8. CASE ReadByte
  <2>1. /\ pc = "read" /\ pc' = "loop" /\ got' = got + 1
        /\ UNCHANGED <<base, check, time, answer, child, grand>>
    BY <1>8 DEF ReadByte, scriptVars
  <2>2. PICK d \in 1..MaxLag : Passes(d)
    BY <1>8 DEF ReadByte, Sleeps
  <2>3. d \in Nat /\ 1 <= d /\ d <= MaxLag /\ jumps' = jumps
    BY <2>2, Limits DEF Passes
  <2>4. Places' /\ WaitClock' /\ check = "unset"
    BY <1>0, <2>1, <2>3 DEF Places, WaitClock
  <2>5. ASSUME jumps = 0, grand = "none"
        PROVE  /\ base < 2 * WaitLimit + MaxLag
               /\ base <= wall' /\ wall' <= base + ReadLimit + MaxLag
               /\ wall' - base <= got' * MaxLag
               /\ elapsed' < (wall' - base) + WaitLimit + MaxLag
    <3>1. /\ base < 2 * WaitLimit + MaxLag
          /\ base <= wall /\ wall <= base + ReadLimit
          /\ wall - base <= got * MaxLag
          /\ elapsed < (wall - base) + WaitLimit + MaxLag
      BY <1>0, <2>1, <2>5 DEF ReadClock, Places
    <3>2. wall' = wall + d /\ elapsed' = elapsed + d
      <4>1. wall + d < ClockMod /\ elapsed + d <= MaxElapsed
        BY <1>0, <2>3, <3>1, Limits
      <4>2. QED
        BY <1>0, <2>2, <2>3, <4>1, BothMove
    <3>3. got' * MaxLag = got * MaxLag + MaxLag /\ got * MaxLag \in Nat
      BY <1>0, <2>1, Limits, Times
    <3>. DEFINE g == got * MaxLag
               h == got' * MaxLag
    <3>4. h = g + MaxLag /\ g \in Nat /\ wall - base <= g
      BY <3>1, <3>3
    <3>. HIDE DEF g, h
    <3>5. wall' - base <= h
      BY <1>0, <2>3, <3>2, <3>4, Limits
    <3>6. QED
      BY <1>0, <2>3, <3>1, <3>2, <3>5, Limits DEF h
  <2>6. ReadClock'
    BY <2>1, <2>3, <2>4, <2>5 DEF ReadClock
  <2>7. QED
    BY <2>4, <2>6 DEF ClockInv
<1>9. CASE ReadEof \/ ReadFails
  <2>1. /\ pc = "read" /\ pc' = "respond" /\ check' \in {"eof", "error"}
        /\ UNCHANGED <<base, got, time, answer, child, grand, wall, elapsed, jumps>>
    BY <1>9 DEF ReadEof, ReadFails, EndRead, clockVars, scriptVars
  <2>2. QED
    BY <1>0, <2>1 DEF ClockInv, Places, WaitClock, ReadClock
<1>10. CASE Respond
  <2>1. /\ pc = "respond" /\ pc' = "done" /\ answer' = Answer
        /\ UNCHANGED <<base, got, check, time, child, grand, wall, elapsed, jumps>>
    BY <1>10 DEF Respond, clockVars, scriptVars
  <2>2. answer' = Answer'
    BY <2>1 DEF Answer
  <2>3. QED
    BY <1>0, <2>1, <2>2 DEF ClockInv, Places, WaitClock, ReadClock
<1>11. QED
  BY <1>1, <1>2, <1>3, <1>4, <1>5, <1>6, <1>7, <1>8, <1>9, <1>10 DEF ParentStep

\* What the script and the clock do, too: a script that has ended and left
\* nothing behind keeps no read() waiting.
LEMMA ClockOthers ==
    ASSUME ClockInv, CgiInv', ScriptStep \/ TimePasses \/ SetClock
    PROVE  ClockInv'
<1>0. /\ Places /\ WaitClock /\ ReadClock
      /\ jumps \in Nat /\ grand \in {"none", "running", "gone"}
  BY DEF ClockInv, CgiInv, TypeOK
<1>1. CASE Write
  <2>1. UNCHANGED <<pc, base, got, check, time, answer, child, grand, wall, elapsed, jumps>>
    BY <1>1 DEF Write, parentVars, clockVars
  <2>2. QED
    BY <1>0, <2>1 DEF ClockInv, Places, WaitClock, ReadClock, Answer
<1>2. CASE ScriptExits
  <2>1. /\ child = "running" /\ child' = "zombie"
        /\ UNCHANGED <<pc, base, got, check, time, answer, grand, wall, elapsed, jumps>>
    BY <1>2 DEF ScriptExits, parentVars, clockVars
  <2>2. QED
    BY <1>0, <2>1 DEF ClockInv, Places, WaitClock, ReadClock, Answer
<1>3. CASE LeaveBehind \/ LeftoverExits
  <2>1. /\ grand' # "none"
        /\ UNCHANGED <<pc, base, got, check, time, answer, child, wall, elapsed, jumps>>
    BY <1>3 DEF LeaveBehind, LeftoverExits, parentVars, clockVars
  <2>2. QED
    BY <1>0, <2>1 DEF ClockInv, Places, WaitClock, ReadClock, Answer
<1>4. CASE TimePasses
  <2>1. /\ pc = "read" /\ Writers /\ jumps' = jumps
        /\ UNCHANGED <<pc, base, got, check, time, answer, child, grand>>
    BY <1>4 DEF TimePasses, Passes, parentVars, scriptVars
  <2>2. grand = "running" /\ child # "none" /\ check = "unset"
    BY <1>0, <2>1 DEF Places, Writers, ClockInv, CgiInv, ReadOutcome
  <2>3. QED
    BY <1>0, <2>1, <2>2 DEF ClockInv, Places, WaitClock, ReadClock
<1>5. CASE SetClock
  <2>1. /\ jumps' = jumps + 1
        /\ UNCHANGED <<pc, base, got, check, time, answer, child, grand, elapsed>>
    BY <1>5 DEF SetClock, parentVars, scriptVars
  <2>2. jumps' # 0
    BY <1>0, <2>1
  <2>3. QED
    BY <1>0, <2>1, <2>2 DEF ClockInv, Places, WaitClock, ReadClock, Answer
<1>6. QED
  BY <1>1, <1>2, <1>3, <1>4, <1>5 DEF ScriptStep

LEMMA ClockAlways == Spec => []ClockInv
<1>1. ClockInv /\ CgiInv' /\ [Next]_vars => ClockInv'
  <2>1. ClockInv /\ CgiInv' /\ UNCHANGED vars => ClockInv'
    BY DEF ClockInv, Places, WaitClock, ReadClock, Answer, vars, parentVars, scriptVars,
           clockVars
  <2>2. QED
    BY <2>1, ClockParent, ClockOthers DEF Next
<1>2. QED
  BY ClockInit, CgiAlways, <1>1, PTL DEF Spec

\* handle_cgi_request never kills a script that has not had its WaitLimit,
\* however its sleeps fall, unless the clock is set.
THEOREM KilledOnlyLateHolds == Spec => KilledOnlyLate
<1>1. ASSUME ClockInv, Next, time', ~time, jumps = 0 PROVE elapsed >= WaitLimit
  <2>1. Kill
    BY <1>1, Zenon DEF Next, ParentStep, ScriptStep, Fork, NoProcess, Reap, NotYet, PollAgain,
       ReadNext, ReadLate, ReadByte, ReadEof, ReadFails, EndRead, Respond, Write, ScriptExits,
       LeaveBehind, LeftoverExits, TimePasses, SetClock, parentVars
  <2>2. pc = "clock" /\ wall >= Plus(base, WaitLimit)
    BY <2>1 DEF Kill, WaitIsOver
  <2>3. /\ base <= WaitLimit /\ elapsed = wall - base
        /\ base \in Nat /\ wall \in Nat
    BY <1>1, <2>2 DEF ClockInv, WaitClock, CgiInv, TypeOK
  <2>4. Plus(base, WaitLimit) = base + WaitLimit
    BY <2>3, NoWrap, Limits
  <2>5. QED
    BY <2>2, <2>3, <2>4, Limits
<1>2. ClockInv /\ [Next]_vars => [time' /\ ~time /\ jumps = 0 => elapsed >= WaitLimit]_vars
  BY <1>1, Zenon DEF vars
<1>3. QED
  BY <1>2, ClockAlways, PTL DEF Spec, KilledOnlyLate

\* The call holds up the other connections for no longer than the two limits
\* and two sleeps, whatever a script does that leaves no process behind.
THEOREM CallIsBoundedHolds == Spec => []CallIsBounded
<1>1. ASSUME ClockInv, grand = "none", jumps = 0
      PROVE  elapsed < WaitLimit + ReadLimit + 2 * MaxLag
  <2>1. /\ Places /\ WaitClock /\ ReadClock
        /\ wall \in Nat /\ base \in Nat /\ elapsed \in Nat
    BY <1>1 DEF ClockInv, CgiInv, TypeOK
  <2>2. CASE child = "none"
    BY <2>1, <2>2, Limits DEF Places
  <2>3. CASE child # "none" /\ pc \in {"wait", "clock"}
    <3>1. wall < base + WaitLimit + MaxLag /\ elapsed = wall - base
      BY <1>1, <2>1, <2>3 DEF WaitClock
    <3>2. QED
      BY <2>1, <3>1, Limits
  <2>4. CASE child # "none" /\ pc \notin {"wait", "clock"}
    <3>1. wall <= base + ReadLimit + MaxLag /\ elapsed < (wall - base) + WaitLimit + MaxLag
      BY <1>1, <2>1, <2>4 DEF ReadClock, Places
    <3>2. QED
      BY <2>1, <3>1, Limits
  <2>5. QED
    BY <2>2, <2>3, <2>4
<1>2. ClockInv => CallIsBounded
  BY <1>1 DEF CallIsBounded
<1>3. QED
  BY <1>2, ClockAlways, PTL

\* A script that ends in time with an output that one byte for each sleep takes
\* through the limit of ft_usleep is answered with 200.
THEOREM SmallOutputAnsweredHolds == Spec => []SmallOutputAnswered
<1>1. ASSUME ClockInv, pc = "done", check \in {"eof", "late"}, ~time,
             0 < written, written * MaxLag <= ReadLimit, grand = "none", jumps = 0
      PROVE  answer = "200"
  <2>1. /\ got \in Nat /\ written \in Nat /\ pipe \in Nat /\ pipe + got = written
        /\ check = "eof" => pipe = 0
        /\ answer = Answer
    BY <1>1, CgiAssumption DEF ClockInv, CgiInv, TypeOK, Balance, ReadOutcome, Places
  <2>2. check # "late"
    <3>1. got <= written
      BY <2>1
    <3>2. got * MaxLag <= written * MaxLag /\ got * MaxLag \in Nat /\ written * MaxLag \in Nat
      BY <2>1, <3>1, Times, Limits
    <3>3. check = "late" => got * MaxLag > ReadLimit
      BY <1>1 DEF ClockInv, ReadClock
    <3>4. QED
      BY <1>1, <3>2, <3>3, Limits
  <2>3. check = "eof" /\ got > 0
    BY <1>1, <2>1, <2>2
  <2>4. QED
    BY <2>1, <2>3 DEF Answer
<1>2. ClockInv => SmallOutputAnswered
  BY <1>1 DEF SmallOutputAnswered
<1>3. QED
  BY <1>2, ClockAlways, PTL
=============================================================================
