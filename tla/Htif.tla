-------------------------------- MODULE Htif --------------------------------
(***************************************************************************)
(* The host-target interface of the Spike machine (RV64): harts that share *)
(* the words tohost and fromhost under a spinlock, and the host that takes *)
(* requests from one and puts replies in the other.                        *)
(***************************************************************************)
EXTENDS Naturals, Sequences

CONSTANTS
  Harts, NoHart,
  Chars,             \* characters
  MaxTyped,          \* bound: characters the user types
  MaxPut             \* bound: characters the harts print

ASSUME HtifAssumption ==
  /\ Harts # {} /\ NoHart \notin Harts
  /\ Chars # {} /\ Chars \cap {"-1", "0"} = {}   \* a byte plus 1 is neither
  /\ MaxTyped \in Nat /\ MaxPut \in Nat

VARIABLES
  tohost, fromhost,  \* a command, or Zero
  htif_console_buf,
  htif_lock,         \* the hart that holds it, or NoHart
  hart,              \* per hart: op, at (the next line of it) and data
  host,              \* power, reads to answer, replies that wait for fromhost
  typed, got,        \* history: what the console sent and getchar returned
  put, printed       \* history: what putchar accepted and the console showed

htifVars == <<tohost, fromhost, htif_console_buf, htif_lock, hart, host,
              typed, got, put, printed>>

(* A word of the interface: device, command and payload; Zero is the word  *)
(* 0.  A payload is a character, nothing, or the 1 that ends the run.      *)
TOHOST_CMD(dev, cmd, data) == [dev |-> dev, cmd |-> cmd, data |-> data]
Payload == Chars \cup {"nothing", "exit"}
Zero == TOHOST_CMD(0, 0, "zero")
Words == [dev : {0, 1}, cmd : {0, 1}, data : Payload]

(* htif_console_buf is -1 (a read is on its way), 0 (nothing was read yet) *)
(* or a character plus 1.                                                  *)
Unset == "-1"
NoChar == "0"

Idle == [op |-> "none", at |-> "idle", data |-> "nothing"]

HtifTypeOK ==
  /\ tohost \in Words \cup {Zero}
  /\ fromhost \in Words \cup {Zero}
  /\ htif_console_buf \in {Unset, NoChar} \cup Chars
  /\ htif_lock \in Harts \cup {NoHart}
  /\ hart \in [Harts ->
       [op : {"none", "getchar", "putchar", "syscall", "poweroff"},
        at : {"idle", "lock", "check", "set", "busy", "wait", "unlock",
              "clear", "shout", "abort"},
        data : Payload]]
  /\ host \in [power : {"on", "off"}, reads : Nat, replies : Seq(Words)]
  /\ {typed, got, put, printed} \subseteq Seq(Chars)

HtifInit ==
  /\ tohost = Zero
  /\ fromhost = Zero
  /\ htif_console_buf = NoChar
  /\ htif_lock = NoHart
  /\ hart = [h \in Harts |-> Idle]
  /\ host = [power |-> "on", reads |-> 0, replies |-> <<>>]
  /\ typed = <<>> /\ got = <<>> /\ put = <<>> /\ printed = <<>>

GoTo(h, line) == hart' = [hart EXCEPT ![h].at = line]

At(h, line) == host.power = "on" /\ hart[h].at = line

-----------------------------------------------------------------------------
(* A hart calls one of the operations. *)
Call(h, op, c, line) ==
  /\ At(h, "idle")
  /\ hart' = [hart EXCEPT ![h] = [op |-> op, at |-> line, data |-> c]]
  /\ UNCHANGED <<tohost, fromhost, htif_console_buf, htif_lock, host, typed, got, printed>>

htif_console_getchar(h) == Call(h, "getchar", "nothing", "lock") /\ UNCHANGED put

htif_console_putchar(h, c) ==
  /\ Len(put) < MaxPut
  /\ Call(h, "putchar", c, "lock")
  /\ UNCHANGED put

htif_syscall(h) == Call(h, "syscall", "nothing", "lock") /\ UNCHANGED put

htif_poweroff(h) == Call(h, "poweroff", "nothing", "clear") /\ UNCHANGED put

(* Where an operation goes on once it has the lock. *)
Body(op) == IF op = "getchar" THEN "check" ELSE "set"

(* Faulty variant: the swap's result is not looked at. *)
lock_ignoring_trylock(h) ==
  /\ At(h, "lock")
  /\ htif_lock' = h
  /\ GoTo(h, Body(hart[h].op))
  /\ UNCHANGED <<tohost, fromhost, htif_console_buf, host, typed, got, put, printed>>

(* spinlock_lock ends with the atomic swap that found the lock free. *)
spinlock_lock(h) ==
  /\ At(h, "lock")
  /\ htif_lock = NoHart
  /\ htif_lock' = h
  /\ GoTo(h, Body(hart[h].op))
  /\ UNCHANGED <<tohost, fromhost, htif_console_buf, host, typed, got, put, printed>>

spinlock_unlock(h) ==
  /\ At(h, "unlock")
  /\ htif_lock' = NoHart
  /\ hart' = [hart EXCEPT ![h] = Idle]
  /\ UNCHANGED <<tohost, fromhost, htif_console_buf, host, typed, got, put, printed>>

(* A reply is in fromhost: __check_fromhost takes it, asserting that it is *)
(* the console's, and goes on at next.  The host writes fromhost only when *)
(* it is zero, so that nothing comes between reading and clearing it       *)
(* (unless another hart is switching the machine off: no property says     *)
(* anything of fromhost then).                                             *)
__check_fromhost(h, next) ==
  /\ fromhost # Zero
  /\ fromhost' = Zero
  /\ hart' = [hart EXCEPT ![h].at =
                IF fromhost.dev = 1 /\ fromhost.cmd \in {0, 1}
                THEN next ELSE "abort"]
  /\ htif_console_buf' = IF fromhost.dev = 1 /\ fromhost.cmd = 0
                         THEN fromhost.data ELSE htif_console_buf

(* A call of __check_fromhost: nothing in fromhost, or the reply taken. *)
CheckAt(h, line, next) ==
  /\ At(h, line)
  /\ \/ __check_fromhost(h, next)
     \/ /\ fromhost = Zero
        /\ GoTo(h, next)
        /\ UNCHANGED <<fromhost, htif_console_buf>>
  /\ UNCHANGED <<tohost, htif_lock, host, typed, got, put, printed>>

(* The calls in getchar and in do_tohost_fromhost, and the one in the loop *)
(* of __set_tohost.                                                        *)
CheckFromhost(h) == CheckAt(h, "check", "wait") \/ CheckAt(h, "busy", "set")

(* Faulty variant: every call asks the console for another character. *)
GetcharAlwaysAsks(h) ==
  /\ At(h, "wait")
  /\ hart[h].op = "getchar"
  /\ htif_console_buf' = Unset
  /\ GoTo(h, "set")
  /\ got' = IF htif_console_buf \in {Unset, NoChar} THEN got
            ELSE Append(got, htif_console_buf)
  /\ UNCHANGED <<tohost, fromhost, htif_lock, host, typed, put, printed>>

(* getchar, the rest: the buffered character, if any, is the result; the   *)
(* next one is asked for unless a request is out already.                  *)
GetcharTake(h) ==
  /\ At(h, "wait")
  /\ hart[h].op = "getchar"
  /\ IF htif_console_buf = Unset
     THEN GoTo(h, "unlock") /\ UNCHANGED <<htif_console_buf, got>>
     ELSE /\ htif_console_buf' = Unset
          /\ GoTo(h, "set")
          /\ got' = IF htif_console_buf = NoChar THEN got
                    ELSE Append(got, htif_console_buf)
  /\ UNCHANGED <<tohost, fromhost, htif_lock, host, typed, put, printed>>

(* The request __set_tohost posts for the operation. *)
Request(h) ==
  CASE hart[h].op = "getchar" -> TOHOST_CMD(1, 0, "nothing")
    [] hart[h].op = "putchar" -> TOHOST_CMD(1, 1, hart[h].data)
    [] hart[h].op = "syscall" -> TOHOST_CMD(0, 0, "nothing")

(* __set_tohost: while tohost is taken, replies are taken in. *)
__set_tohost(h) ==
  /\ At(h, "set")
  /\ IF tohost # Zero
     THEN GoTo(h, "busy") /\ UNCHANGED <<tohost, put>>
     ELSE /\ tohost' = Request(h)
          /\ GoTo(h, IF hart[h].op = "syscall" THEN "wait" ELSE "unlock")
          /\ put' = IF hart[h].op = "putchar" THEN Append(put, hart[h].data) ELSE put
  /\ UNCHANGED <<fromhost, htif_console_buf, htif_lock, host, typed, got, printed>>

(* Faulty variant: the first reply is taken for the answer. *)
SyscallTakesAnyReply(h) ==
  /\ At(h, "wait")
  /\ hart[h].op = "syscall"
  /\ fromhost # Zero
  /\ fromhost' = Zero
  /\ GoTo(h, "unlock")
  /\ UNCHANGED htif_console_buf
  /\ UNCHANGED <<tohost, htif_lock, host, typed, got, put, printed>>

(* do_tohost_fromhost waits for the reply to its own request.  For any     *)
(* other reply it calls __check_fromhost, which reads fromhost again.      *)
do_tohost_fromhost(h) ==
  /\ At(h, "wait")
  /\ hart[h].op = "syscall"
  /\ \/ /\ fromhost # Zero /\ fromhost.dev = 0 /\ fromhost.cmd = 0
        /\ fromhost' = Zero
        /\ GoTo(h, "unlock")
        /\ UNCHANGED htif_console_buf
     \/ /\ fromhost # Zero /\ ~(fromhost.dev = 0 /\ fromhost.cmd = 0)
        /\ GoTo(h, "check")
        /\ UNCHANGED <<fromhost, htif_console_buf>>
  /\ UNCHANGED <<tohost, htif_lock, host, typed, got, put, printed>>

(* htif_poweroff writes both words without the lock, for ever. *)
PoweroffClear(h) ==
  /\ At(h, "clear")
  /\ fromhost' = Zero
  /\ GoTo(h, "shout")
  /\ UNCHANGED <<tohost, htif_console_buf, htif_lock, host, typed, got, put, printed>>

PoweroffShout(h) ==
  /\ At(h, "shout")
  /\ tohost' = TOHOST_CMD(0, 0, "exit")
  /\ GoTo(h, "clear")
  /\ UNCHANGED <<fromhost, htif_console_buf, htif_lock, host, typed, got, put, printed>>

-----------------------------------------------------------------------------
(* The host takes a request out of tohost. *)
HostTakes(request) ==
  /\ host.power = "on"
  /\ tohost = request
  /\ tohost' = Zero
  /\ UNCHANGED <<fromhost, htif_console_buf, htif_lock, hart, typed, got, put>>

HostExits ==
  /\ HostTakes(TOHOST_CMD(0, 0, "exit"))
  /\ host' = [host EXCEPT !.power = "off"]
  /\ UNCHANGED printed

HostSyscall ==
  /\ HostTakes(TOHOST_CMD(0, 0, "nothing"))
  /\ host' = [host EXCEPT !.replies = Append(@, TOHOST_CMD(0, 0, "nothing"))]
  /\ UNCHANGED printed

HostRead ==
  /\ HostTakes(TOHOST_CMD(1, 0, "nothing"))
  /\ host' = [host EXCEPT !.reads = @ + 1]
  /\ UNCHANGED printed

HostWrite(c) ==
  /\ HostTakes(TOHOST_CMD(1, 1, c))
  /\ printed' = Append(printed, c)
  /\ UNCHANGED host

(* A character typed answers a read. *)
UserTypes(c) ==
  /\ host.power = "on" /\ host.reads > 0
  /\ Len(typed) < MaxTyped
  /\ typed' = Append(typed, c)
  /\ host' = [host EXCEPT !.reads = @ - 1,
                          !.replies = Append(@, TOHOST_CMD(1, 0, c))]
  /\ UNCHANGED <<tohost, fromhost, htif_console_buf, htif_lock, hart, got, put, printed>>

HostReplies ==
  /\ host.power = "on" /\ host.replies # <<>>
  /\ fromhost = Zero
  /\ fromhost' = Head(host.replies)
  /\ host' = [host EXCEPT !.replies = Tail(@)]
  /\ UNCHANGED <<tohost, htif_console_buf, htif_lock, hart, typed, got, put, printed>>

HostStep ==
  \/ HostExits \/ HostSyscall \/ HostRead \/ HostReplies
  \/ \E c \in Chars : HostWrite(c) \/ UserTypes(c)

HartStep(h) ==
  \/ spinlock_lock(h) \/ spinlock_unlock(h)
  \/ CheckFromhost(h) \/ GetcharTake(h)
  \/ __set_tohost(h) \/ do_tohost_fromhost(h)
  \/ PoweroffClear(h) \/ PoweroffShout(h)

HartCall(h) ==
  \/ htif_console_getchar(h) \/ htif_syscall(h) \/ htif_poweroff(h)
  \/ \E c \in Chars : htif_console_putchar(h, c)

HtifNext == HostStep \/ \E h \in Harts : HartCall(h) \/ HartStep(h)

(* A hart in the middle of an operation goes on, and so does the host      *)
(* (except that nobody has to type).                                       *)
HtifFairness ==
  /\ \A h \in Harts : WF_htifVars(HartStep(h))
  /\ WF_htifVars(HostExits) /\ WF_htifVars(HostSyscall) /\ WF_htifVars(HostRead)
  /\ WF_htifVars(HostReplies)
  /\ \A c \in Chars : WF_htifVars(HostWrite(c))

HtifSpec == HtifInit /\ [][HtifNext]_htifVars /\ HtifFairness

-----------------------------------------------------------------------------
SomeoneHalts == \E h \in Harts : hart[h].op = "poweroff"

Pending(w) == IF w # Zero /\ w.dev = 1 THEN <<w.data>> ELSE <<>>

Buffered ==
  IF htif_console_buf \in {Unset, NoChar} THEN <<>> ELSE <<htif_console_buf>>

ConsoleReplies == {i \in DOMAIN host.replies : host.replies[i].dev = 1}

(* The character queued at the host, of which there is one at most.        *)
QueuedChars ==
  IF ConsoleReplies = {} THEN <<>>
  ELSE <<host.replies[CHOOSE i \in ConsoleReplies : TRUE].data>>

(* Every character typed is returned by getchar once and in order, however *)
(* the harts' calls interleave: until then it is in the buffer, in         *)
(* fromhost or queued at the host, and one read at most is ever            *)
(* outstanding, so that a reply never overwrites a buffered character      *)
(* (htif.c:46-63).  What is printed is what was put, in order; what is     *)
(* missing is at most the character still in tohost, which htif_poweroff   *)
(* may overwrite, because it does not wait for tohost as __set_tohost does *)
(* (htif.c:39-44, 105-111).                                                *)
NoCharLost ==
  /\ ~SomeoneHalts => /\ typed = got \o Buffered \o Pending(fromhost) \o QueuedChars
                      /\ \A i, j \in ConsoleReplies : i = j
  /\ \/ printed = put
     \/ put # <<>> /\ printed = SubSeq(put, 1, Len(put) - 1)

(* The assertions on a reply's device and command never fail: the reply to *)
(* a system call is taken only by the hart that waits for it (htif.c:26-35 *)
(* and 70-79).  A hart that switches the machine off clears fromhost and   *)
(* may exchange the reply under the other's two reads of it.               *)
NoHartAborts == ~SomeoneHalts => \A h \in Harts : hart[h].at # "abort"

(* Whoever holds the lock gives it back, although it waits for tohost to   *)
(* become free and, in a system call, for the reply; unless the machine is *)
(* being switched off (htif.c:39-81).                                      *)
LockIsReleased == []<>(htif_lock = NoHart \/ SomeoneHalts)
=============================================================================
