------------------------------- MODULE X86Rtc -------------------------------
(***************************************************************************)
(* The real-time clock of the x86 machine (x86/qemu/ioe.c): registers are  *)
(* read one after the other while the clock runs on, both to measure the   *)
(* processor's frequency over one second and to return the time of day.    *)
(* The clock is cut down to minutes and seconds.                           *)
(***************************************************************************)
EXTENDS Naturals

CONSTANTS
  SecsPerMin, MinsPerHour,
  MaxTicks                 \* of the clock while one reader runs

ASSUME X86RtcAssumption ==
  SecsPerMin \in Nat \ {0, 1} /\ MinsPerHour \in Nat \ {0} /\ MaxTicks \in Nat

VARIABLES
  now,        \* seconds since the reader was called, the initial time included
  begin,      \* now, when this iteration of a loop began
  pc,         \* next register to read
  old,        \* t0.second of wait_sec
  rtc,        \* registers read so far by read_rtc_async
  seen,       \* now, when rtc.second was read
  first       \* t1 of estimate_freq, and now when it was taken

rtcVars == <<now, begin, pc, old, rtc, seen, first>>

(* The clock keeps binary-coded decimals, read_rtc decodes them. *)
Register(n) == (n \div 10) * 16 + (n % 10)
read_rtc(n) == LET ret == Register(n) IN (ret % 16) + (ret \div 16) * 10
second == read_rtc(now % SecsPerMin)
minute == read_rtc((now \div SecsPerMin) % MinsPerHour)
NotRead == [second |-> 0, minute |-> 0]
NoTime == [t |-> 0, at |-> 0]

X86RtcTypeOK ==
  /\ now \in Nat /\ begin \in 0 .. now /\ seen \in 0 .. now
  /\ pc \in {"old", "second", "minute", "decide", "retry", "estimated",
             "rtc_second", "rtc_minute", "rtc_again", "returned"}
  /\ old \in 0 .. SecsPerMin - 1
  /\ rtc \in [second : 0 .. SecsPerMin - 1, minute : 0 .. MinsPerHour - 1]
  /\ first \in [t : Nat, at : 0 .. now]

(* estimate_freq or timer_rtc is called at any time of the hour. *)
X86RtcInit ==
  /\ now \in 0 .. SecsPerMin * MinsPerHour - 1
  /\ begin = now /\ seen = now
  /\ pc \in {"old", "rtc_second"}
  /\ old = 0
  /\ rtc = NotRead
  /\ first = NoTime

At(here, there) == pc = here /\ pc' = there

(* Ticks that keep the readers' loops in step with the clock: an iteration *)
(* of wait_sec takes far less than a second, one of timer_rtc less than a  *)
(* minute, and the two seconds wait_sec catches lie within an hour.        *)
Tick ==
  /\ now < SecsPerMin * MinsPerHour + MaxTicks
  /\ IF pc \in {"old", "second", "minute", "decide"}
     THEN now = begin
     ELSE now - begin < SecsPerMin - 1 /\ pc \notin {"estimated", "returned"}
  /\ first = NoTime \/ now - first.at < SecsPerMin * MinsPerHour - 1
  /\ now' = now + 1
  /\ UNCHANGED <<begin, pc, old, rtc, seen, first>>

-----------------------------------------------------------------------------
(* wait_sec, called twice by estimate_freq. *)
ReadOld ==
  /\ At("old", "second")
  /\ old' = second /\ begin' = now
  /\ UNCHANGED <<now, rtc, seen, first>>

ReadSecond ==
  /\ At("second", "minute")
  /\ rtc' = [rtc EXCEPT !.second = second] /\ seen' = now
  /\ UNCHANGED <<now, begin, old, first>>

ReadMinute ==
  /\ At("minute", "decide")
  /\ rtc' = [rtc EXCEPT !.minute = minute]
  /\ UNCHANGED <<now, begin, old, seen, first>>

ReadTime == rtc.minute * SecsPerMin + rtc.second

SameSecond ==
  /\ At("decide", "old")
  /\ old = rtc.second
  /\ begin' = now
  /\ UNCHANGED <<now, old, rtc, seen, first>>

FirstSecond ==
  /\ At("decide", "old")
  /\ old # rtc.second
  /\ first = NoTime
  /\ first' = [t |-> ReadTime, at |-> seen]
  /\ begin' = now
  /\ UNCHANGED <<now, old, rtc, seen>>

(* t1 >= t2 starts over. *)
SecondSecond ==
  /\ pc = "decide" /\ old # rtc.second /\ first # NoTime
  /\ IF first.t >= ReadTime
     THEN pc' = "old" /\ first' = NoTime
     ELSE pc' = "estimated" /\ UNCHANGED first
  /\ begin' = now
  /\ UNCHANGED <<now, old, rtc, seen>>

-----------------------------------------------------------------------------
(* timer_rtc *)
RtcSecond ==
  /\ At("rtc_second", "rtc_minute")
  /\ rtc' = [rtc EXCEPT !.second = second] /\ seen' = now /\ begin' = now
  /\ UNCHANGED <<now, old, first>>

RtcMinute ==
  /\ At("rtc_minute", "rtc_again")
  /\ rtc' = [rtc EXCEPT !.minute = minute]
  /\ UNCHANGED <<now, begin, old, seen, first>>

(* Faulty variant: the time is not read again. *)
RtcOnce ==
  /\ At("rtc_again", "returned")
  /\ UNCHANGED <<now, begin, old, rtc, seen, first>>

RtcAgain ==
  /\ pc = "rtc_again"
  /\ pc' = IF rtc.second = second THEN "returned" ELSE "rtc_second"
  /\ begin' = now
  /\ UNCHANGED <<now, old, rtc, seen, first>>

Finished == pc \in {"estimated", "returned"} /\ UNCHANGED rtcVars

X86RtcNext ==
  \/ Tick
  \/ ReadOld \/ ReadSecond \/ ReadMinute \/ SameSecond \/ FirstSecond \/ SecondSecond
  \/ RtcSecond \/ RtcMinute \/ RtcAgain
  \/ Finished

X86RtcSpec == X86RtcInit /\ [][X86RtcNext]_rtcVars

-----------------------------------------------------------------------------
(* The time timer_rtc returns is one that really was, not the minute of    *)
(* one moment with the second of another (ioe.c:90-96).                    *)
TimeNotTorn ==
  pc = "returned" =>
    rtc = [second |-> seen % SecsPerMin, minute |-> (seen \div SecsPerMin) % MinsPerHour]

(* The seconds estimate_freq divides by are those that passed, and never   *)
(* zero, although wait_sec does not read the time a second time            *)
(* (ioe.c:59-78).                                                          *)
EstimateSound ==
  pc = "estimated" => ReadTime > first.t /\ ReadTime - first.t = seen - first.at

(* Both readers get a time that really was, although the clock runs on     *)
(* between any two reads of its registers (ioe.c:42-96).                   *)
ClockReadsSound == TimeNotTorn /\ EstimateSound
=============================================================================
