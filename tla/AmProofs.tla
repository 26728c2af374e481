------------------------------ MODULE AmProofs ------------------------------
(***************************************************************************)
(* The parts of the abstract machine whose processors wait for each other  *)
(* or share words, for every number of processors: no assertion on a reply *)
(* of the host fails and no character is lost, CPUs start one at a time,   *)
(* and a CPU of the native machine sees the pages of the space it has      *)
(* loaded.                                                                 *)
(***************************************************************************)
EXTENDS MCAmLive, Integers, SequenceTheorems, FiniteSetTheorems, TLAPS

-----------------------------------------------------------------------------
(* The host-target interface *)

(* The requests that __set_tohost posts, and the host's replies. *)
ReadRequest == TOHOST_CMD(1, 0, "nothing")
SysRequest == TOHOST_CMD(0, 0, "nothing")
ExitRequest == TOHOST_CMD(0, 0, "exit")
PutRequest(c) == TOHOST_CMD(1, 1, c)
ConsoleReply(w) == \E c \in Chars : w = TOHOST_CMD(1, 0, c)

(* What the words of the interface can be. *)
WordsOK ==
  /\ \/ tohost \in {Zero, ReadRequest, SysRequest, ExitRequest}
     \/ \E c \in Chars : tohost = PutRequest(c)
  /\ fromhost \in {Zero, SysRequest} \/ ConsoleReply(fromhost)
  /\ \A i \in 1 .. Len(host.replies) :
       host.replies[i] = SysRequest \/ ConsoleReply(host.replies[i])

(* The lines of the operations that run with the lock held. *)
Locked == {"check", "set", "busy", "wait", "unlock", "abort"}

(* Where a hart can be in which operation, and who holds the lock. *)
HartsOK ==
  \A h \in Harts :
    /\ hart[h].at \in {"clear", "shout"} <=> hart[h].op = "poweroff"
    /\ hart[h].at = "idle" <=> hart[h].op = "none"
    /\ hart[h].at \in {"check", "wait"} => hart[h].op \in {"getchar", "syscall"}
    /\ hart[h].op = "putchar" => hart[h].data \in Chars
    /\ hart[h].at \in Locked <=> htif_lock = h

(* What was put and not printed is in tohost, or was overwritten there by  *)
(* htif_poweroff.                                                          *)
PutOK ==
  /\ tohost \in {Zero, ReadRequest, SysRequest} /\ host.power = "on" => printed = put
  /\ \A c \in Chars : tohost = PutRequest(c) => put = Append(printed, c)
  /\ printed = put \/ \E c \in Chars : put = Append(printed, c)

(* The record of the hart that holds the lock. *)
Holder == IF htif_lock = NoHart THEN Idle ELSE hart[htif_lock]

Count(b) == IF b THEN 1 ELSE 0

HasReply(dev) == \E i \in 1 .. Len(host.replies) : host.replies[i].dev = dev

(* One read is out exactly while the buffer is unset: the getchar that     *)
(* asks for it is about to post it, it is in tohost, at the host, answered *)
(* and queued there, or answered in fromhost.                              *)
OneRead ==
  Count(Holder.op = "getchar" /\ Holder.at \in {"set", "busy"}) + Count(tohost = ReadRequest)
    + host.reads + Count(HasReply(1)) + Count(fromhost.dev = 1)
  = Count(htif_console_buf = Unset)

(* A system call is out exactly while the holder of the lock waits for it. *)
OneSyscall ==
  Count(tohost = SysRequest) + Count(HasReply(0)) + Count(fromhost = SysRequest)
  = Count(Holder.op = "syscall" /\ Holder.at \in {"wait", "check"})

(* No two replies of one device are queued. *)
RepliesUnique ==
  \A i, j \in 1 .. Len(host.replies) :
    host.replies[i].dev = host.replies[j].dev => i = j

(* The one character that was typed and not returned, wherever it is. *)
CharKept ==
  /\ htif_console_buf \in Chars => typed = Append(got, htif_console_buf)
  /\ fromhost.dev = 1 => typed = Append(got, fromhost.data)
  /\ \A i \in 1 .. Len(host.replies) :
       host.replies[i].dev = 1 => typed = Append(got, host.replies[i].data)
  /\ htif_console_buf \notin Chars /\ fromhost.dev # 1 /\ ~HasReply(1) => typed = got

(* What holds until some hart calls htif_poweroff. *)
Orderly ==
  /\ Holder.at # "abort"
  /\ Holder.op = "syscall" /\ Holder.at = "check" => fromhost.dev = 1
  /\ OneRead
  /\ OneSyscall
  /\ RepliesUnique
  /\ CharKept

HtifInv ==
  /\ HtifTypeOK
  /\ WordsOK
  /\ HartsOK
  /\ PutOK
  /\ ~SomeoneHalts => Orderly

(* What holds whether or not some hart switches the machine off. *)
Basic == HtifTypeOK /\ WordsOK /\ HartsOK /\ PutOK

-----------------------------------------------------------------------------
(* Lemmas on the model's operators. *)

(* The requests and replies are words of the interface, and the words that *)
(* the harts tell apart differ (TOHOST_CMD, htif.c:11-23).                 *)
LEMMA WordFacts ==
  /\ ReadRequest \in Words /\ SysRequest \in Words /\ ExitRequest \in Words
  /\ \A c \in Chars : PutRequest(c) \in Words /\ TOHOST_CMD(1, 0, c) \in Words
  /\ Zero # ReadRequest /\ Zero # SysRequest /\ Zero # ExitRequest
  /\ \A c \in Chars : Zero # PutRequest(c) /\ Zero # TOHOST_CMD(1, 0, c)
BY DEF ReadRequest, SysRequest, ExitRequest, PutRequest, TOHOST_CMD, Zero, Words, Payload

(* A hart that goes to another line of its operation keeps the operation   *)
(* and its data, and no other hart moves.                                  *)
LEMMA GoToFacts ==
  ASSUME HtifTypeOK, NEW h \in Harts, NEW line, GoTo(h, line)
  PROVE  /\ hart'[h] = [op |-> hart[h].op, at |-> line, data |-> hart[h].data]
         /\ \A g \in Harts : g # h => hart'[g] = hart[g]
         /\ DOMAIN hart' = Harts
BY DEF HtifTypeOK, GoTo

(* A reply queued behind the others (the host's side of htif.c). *)
LEMMA AppendFacts ==
  ASSUME NEW S, NEW s \in Seq(S), NEW w \in S
  PROVE  /\ Append(s, w) \in Seq(S)
         /\ Len(Append(s, w)) = Len(s) + 1
         /\ \A i \in 1 .. Len(s) : Append(s, w)[i] = s[i]
         /\ Append(s, w)[Len(s) + 1] = w
         /\ Len(s) \in Nat
OBVIOUS

(* The first reply taken from the queue (the host's side of htif.c). *)
LEMMA TailFacts ==
  ASSUME NEW S, NEW s \in Seq(S), s # <<>>
  PROVE  /\ Tail(s) \in Seq(S)
         /\ Head(s) \in S /\ Head(s) = s[1]
         /\ Len(s) \in Nat /\ Len(s) > 0
         /\ Len(Tail(s)) = Len(s) - 1
         /\ \A i \in 1 .. Len(s) - 1 : Tail(s)[i] = s[i + 1]
<1>1. Len(s) \in Nat /\ Len(s) > 0
  BY EmptySeq
<1> QED
  BY <1>1, HeadTailProperties

(* The initial state satisfies the invariant: nobody is in an operation    *)
(* and both words are zero.                                                *)
LEMMA HtifInitInv == HtifInit => HtifInv
<1> SUFFICES ASSUME HtifInit PROVE HtifInv
  OBVIOUS
<1>1. HtifTypeOK
  BY DEF HtifInit, HtifTypeOK, Idle, Payload, Unset, NoChar
<1>2. Len(host.replies) = 0 /\ host.reads = 0
  BY DEF HtifInit
<1>3. WordsOK
  BY <1>2 DEF HtifInit, WordsOK
<1>4. HartsOK
  BY HtifAssumption DEF HtifInit, HartsOK, Idle, Locked
<1>5. PutOK
  BY WordFacts DEF HtifInit, PutOK
<1>6. Holder = Idle /\ tohost.dev = 0 /\ fromhost.dev = 0 /\ ~HasReply(1) /\ ~HasReply(0)
  BY <1>2 DEF HtifInit, Holder, Zero, TOHOST_CMD, HasReply
<1>7. OneRead
  BY <1>2, <1>6, WordFacts DEF HtifInit, OneRead, Count, Idle, Unset, NoChar
<1>8. OneSyscall
  BY <1>2, <1>6, WordFacts DEF HtifInit, OneSyscall, Count, Idle
<1>9. RepliesUnique /\ CharKept
  BY <1>2, <1>6, HtifAssumption DEF HtifInit, RepliesUnique, CharKept, NoChar
<1>10. Orderly
  BY <1>6, <1>7, <1>8, <1>9 DEF Orderly, Idle
<1> QED
  BY <1>1, <1>3, <1>4, <1>5, <1>10 DEF HtifInv

-----------------------------------------------------------------------------
(* Every action preserves what holds whether or not the machine is being   *)
(* switched off.                                                           *)

(* A hart's call of getchar, putchar, a system call or poweroff keeps the  *)
(* basic invariant: it only records the operation (htif.c:46, 65, 83, 105).*)
LEMMA CallBasic ==
  ASSUME Basic, NEW h \in Harts, HartCall(h)
  PROVE  Basic'
<1>1. PICK op \in {"getchar", "putchar", "syscall", "poweroff"},
           c \in Chars \cup {"nothing"}, line \in {"lock", "clear"} :
        /\ Call(h, op, c, line)
        /\ line = "clear" <=> op = "poweroff"
        /\ op = "putchar" => c \in Chars
        /\ put' = put
  BY DEF HartCall, htif_console_getchar, htif_console_putchar, htif_syscall, htif_poweroff
<1> USE <1>1
<1>2. /\ tohost' = tohost /\ fromhost' = fromhost /\ htif_console_buf' = htif_console_buf
      /\ htif_lock' = htif_lock /\ host' = host
      /\ typed' = typed /\ got' = got /\ printed' = printed /\ put' = put
      /\ hart' = [hart EXCEPT ![h] = [op |-> op, at |-> line, data |-> c]]
      /\ hart[h].at = "idle"
  BY DEF Call, At
<1>3. HtifTypeOK'
  BY <1>2 DEF Basic, HtifTypeOK, Payload
<1>4. WordsOK'
  BY <1>2 DEF Basic, WordsOK
<1>5. HartsOK'
  <2> SUFFICES ASSUME NEW g \in Harts
               PROVE  /\ hart'[g].at \in {"clear", "shout"} <=> hart'[g].op = "poweroff"
                      /\ hart'[g].at = "idle" <=> hart'[g].op = "none"
                      /\ hart'[g].at \in {"check", "wait"} => hart'[g].op \in {"getchar", "syscall"}
                      /\ hart'[g].op = "putchar" => hart'[g].data \in Chars
                      /\ hart'[g].at \in Locked <=> htif_lock' = g
    BY DEF HartsOK
  <2>1. CASE g = h
    BY <1>2, <2>1 DEF Basic, HtifTypeOK, HartsOK, Locked
  <2>2. CASE g # h
    <3>1. hart'[g] = hart[g]
      BY <1>2, <2>2 DEF Basic, HtifTypeOK
    <3> QED
      BY <1>2, <3>1 DEF Basic, HartsOK
  <2> QED
    BY <2>1, <2>2
<1>6. PutOK'
  BY <1>2 DEF Basic, PutOK
<1> QED
  BY <1>3, <1>4, <1>5, <1>6 DEF Basic

(* The host takes a request or queues a reply: only the words, its queue   *)
(* and the histories change (the other side of htif.c:39-44).              *)
LEMMA HostBasic ==
  ASSUME Basic, HostStep
  PROVE  Basic'
<1>1. hart' = hart /\ htif_lock' = htif_lock
  BY DEF HostStep, HostExits, HostSyscall, HostRead, HostReplies, HostWrite, UserTypes, HostTakes
<1>2. HartsOK'
  BY <1>1 DEF Basic, HartsOK
<1>3. CASE HostExits
  <2>1. HtifTypeOK'
    BY <1>3 DEF HostExits, HostTakes, Basic, HtifTypeOK
  <2>2. WordsOK'
    BY <1>3 DEF HostExits, HostTakes, Basic, HtifTypeOK, WordsOK
  <2>3. PutOK'
    BY <1>3, WordFacts DEF HostExits, HostTakes, Basic, HtifTypeOK, PutOK
  <2> QED
    BY <1>2, <2>1, <2>2, <2>3 DEF Basic
<1>4. CASE HostSyscall
  <2> DEFINE r == Append(host.replies, SysRequest)
  <2>1. /\ tohost = SysRequest /\ tohost' = Zero
        /\ fromhost' = fromhost /\ htif_console_buf' = htif_console_buf
        /\ typed' = typed /\ got' = got /\ put' = put /\ printed' = printed
        /\ host' = [host EXCEPT !.replies = r]
        /\ host.power = "on"
    BY <1>4 DEF HostSyscall, HostTakes, SysRequest
  <2>2. host.replies \in Seq(Words)
    BY DEF Basic, HtifTypeOK
  <2>3. /\ r \in Seq(Words)
        /\ Len(r) = Len(host.replies) + 1
        /\ \A i \in 1 .. Len(host.replies) : r[i] = host.replies[i]
        /\ r[Len(host.replies) + 1] = SysRequest
        /\ Len(host.replies) \in Nat
    BY <2>2, WordFacts, AppendFacts
  <2> HIDE DEF r
  <2>4. host'.replies = r /\ host'.reads = host.reads /\ host'.power = host.power
    BY <2>1 DEF Basic, HtifTypeOK
  <2>5. HtifTypeOK'
    BY <1>1, <2>1, <2>3 DEF Basic, HtifTypeOK
  <2>6. WordsOK'
    BY <2>1, <2>3, <2>4 DEF Basic, WordsOK
  <2>7. PutOK'
    BY <2>1, <2>4, WordFacts DEF Basic, PutOK
  <2> QED
    BY <1>2, <2>5, <2>6, <2>7 DEF Basic
<1>5. CASE HostRead
  <2>1. /\ tohost = ReadRequest /\ tohost' = Zero
        /\ fromhost' = fromhost /\ htif_console_buf' = htif_console_buf
        /\ typed' = typed /\ got' = got /\ put' = put /\ printed' = printed
        /\ host' = [host EXCEPT !.reads = @ + 1]
        /\ host.power = "on"
    BY <1>5 DEF HostRead, HostTakes, ReadRequest
  <2>2. host'.replies = host.replies /\ host'.reads = host.reads + 1 /\ host'.power = host.power
    BY <2>1 DEF Basic, HtifTypeOK
  <2>3. HtifTypeOK'
    BY <1>1, <2>1 DEF Basic, HtifTypeOK
  <2>4. WordsOK'
    BY <2>1, <2>2 DEF Basic, WordsOK
  <2>5. PutOK'
    BY <2>1, <2>2, WordFacts DEF Basic, PutOK
  <2> QED
    BY <1>2, <2>3, <2>4, <2>5 DEF Basic
<1>6. ASSUME NEW c \in Chars, HostWrite(c) PROVE Basic'
  <2>1. /\ tohost = PutRequest(c) /\ tohost' = Zero
        /\ fromhost' = fromhost /\ htif_console_buf' = htif_console_buf
        /\ typed' = typed /\ got' = got /\ put' = put /\ printed' = Append(printed, c)
        /\ host' = host
    BY <1>6 DEF HostWrite, HostTakes, PutRequest
  <2>2. HtifTypeOK'
    <3>1. printed' \in Seq(Chars)
      BY <2>1 DEF Basic, HtifTypeOK
    <3> QED
      BY <1>1, <2>1, <3>1 DEF Basic, HtifTypeOK
  <2>3. WordsOK'
    BY <2>1 DEF Basic, WordsOK
  <2>4. PutOK'
    BY <2>1, WordFacts DEF Basic, PutOK
  <2> QED
    BY <1>2, <2>2, <2>3, <2>4 DEF Basic
<1>7. ASSUME NEW c \in Chars, UserTypes(c) PROVE Basic'
  <2> DEFINE w == TOHOST_CMD(1, 0, c)
             r == Append(host.replies, w)
  <2>1. /\ tohost' = tohost
        /\ fromhost' = fromhost /\ htif_console_buf' = htif_console_buf
        /\ typed' = Append(typed, c) /\ got' = got /\ put' = put /\ printed' = printed
        /\ host' = [host EXCEPT !.reads = @ - 1, !.replies = r]
        /\ host.reads > 0
    BY <1>7 DEF UserTypes
  <2>2. host.replies \in Seq(Words) /\ w \in Words
    BY WordFacts DEF Basic, HtifTypeOK
  <2>w. ConsoleReply(w)
    BY DEF ConsoleReply
  <2> HIDE DEF w
  <2>3. /\ r \in Seq(Words)
        /\ Len(r) = Len(host.replies) + 1
        /\ \A i \in 1 .. Len(host.replies) : r[i] = host.replies[i]
        /\ r[Len(host.replies) + 1] = w
        /\ Len(host.replies) \in Nat
    BY <2>2, AppendFacts
  <2> HIDE DEF r
  <2>4. host'.replies = r /\ host'.reads = host.reads - 1 /\ host'.power = host.power
    BY <2>1 DEF Basic, HtifTypeOK
  <2>5. HtifTypeOK'
    <3>1. typed' \in Seq(Chars)
      BY <2>1 DEF Basic, HtifTypeOK
    <3>2. host.reads - 1 \in Nat
      BY <2>1 DEF Basic, HtifTypeOK
    <3>3. host' \in [power : {"on", "off"}, reads : Nat, replies : Seq(Words)]
      BY <2>1, <2>3, <3>2 DEF Basic, HtifTypeOK
    <3> QED
      BY <1>1, <2>1, <3>1, <3>3 DEF Basic, HtifTypeOK
  <2>6. WordsOK'
    BY <2>1, <2>3, <2>4, <2>w DEF Basic, WordsOK
  <2>7. PutOK'
    BY <2>1, <2>4, WordFacts DEF Basic, PutOK
  <2> QED
    BY <1>2, <2>5, <2>6, <2>7 DEF Basic
<1>8. CASE HostReplies
  <2> DEFINE s == host.replies
  <2>1. /\ tohost' = tohost /\ fromhost = Zero /\ fromhost' = Head(s)
        /\ htif_console_buf' = htif_console_buf
        /\ typed' = typed /\ got' = got /\ put' = put /\ printed' = printed
        /\ host' = [host EXCEPT !.replies = Tail(s)]
        /\ s # <<>>
    BY <1>8 DEF HostReplies
  <2>2. s \in Seq(Words)
    BY DEF Basic, HtifTypeOK
  <2>3. /\ Tail(s) \in Seq(Words)
        /\ Head(s) \in Words /\ Head(s) = s[1]
        /\ Len(s) \in Nat /\ Len(s) > 0
        /\ Len(Tail(s)) = Len(s) - 1
        /\ \A i \in 1 .. Len(s) - 1 : Tail(s)[i] = s[i + 1]
    BY <2>1, <2>2, TailFacts
  <2>4. host'.replies = Tail(s) /\ host'.reads = host.reads /\ host'.power = host.power
    BY <2>1 DEF Basic, HtifTypeOK
  <2>5. HtifTypeOK'
    BY <1>1, <2>1, <2>3 DEF Basic, HtifTypeOK
  <2>6. WordsOK'
    <3>1. \A i \in 1 .. Len(s) : s[i] = SysRequest \/ ConsoleReply(s[i])
      BY DEF Basic, WordsOK
    <3>2. fromhost' = SysRequest \/ ConsoleReply(fromhost')
      BY <2>1, <2>3, <3>1
    <3>3. \A i \in 1 .. Len(host'.replies) :
             host'.replies[i] = SysRequest \/ ConsoleReply(host'.replies[i])
      <4> SUFFICES ASSUME NEW i \in 1 .. Len(Tail(s))
                   PROVE  Tail(s)[i] = SysRequest \/ ConsoleReply(Tail(s)[i])
        BY <2>4
      <4>1. i \in 1 .. Len(s) - 1 /\ i + 1 \in 1 .. Len(s)
        BY <2>3
      <4>2. Tail(s)[i] = s[i + 1]
        BY <2>3, <4>1
      <4>3. QED
        BY <3>1, <4>1, <4>2
    <3>4. \/ tohost' \in {Zero, ReadRequest, SysRequest, ExitRequest}
          \/ \E c \in Chars : tohost' = PutRequest(c)
      BY <2>1 DEF Basic, WordsOK
    <3> QED
      BY <3>2, <3>3, <3>4 DEF WordsOK, ConsoleReply
  <2>7. PutOK'
    BY <2>1, <2>4 DEF Basic, PutOK
  <2> QED
    BY <1>2, <2>5, <2>6, <2>7 DEF Basic
<1> QED
  BY <1>3, <1>4, <1>5, <1>6, <1>7, <1>8 DEF HostStep

(* A hart that moves on with the lock held, or within poweroff, keeps the  *)
(* relation between lines, operations and the lock (htif.c:39-111).        *)
LEMMA MoveHarts ==
  ASSUME Basic, NEW h \in Harts, NEW line, GoTo(h, line), htif_lock' = htif_lock,
         \/ /\ hart[h].at \in Locked /\ line \in Locked
            /\ line \in {"check", "wait"} => hart[h].op \in {"getchar", "syscall"}
         \/ hart[h].at \in {"clear", "shout"} /\ line \in {"clear", "shout"}
  PROVE  HartsOK'
<1>1. /\ hart'[h] = [op |-> hart[h].op, at |-> line, data |-> hart[h].data]
      /\ \A g \in Harts : g # h => hart'[g] = hart[g]
  BY GoToFacts DEF Basic
<1> SUFFICES ASSUME NEW g \in Harts
             PROVE  /\ hart'[g].at \in {"clear", "shout"} <=> hart'[g].op = "poweroff"
                    /\ hart'[g].at = "idle" <=> hart'[g].op = "none"
                    /\ hart'[g].at \in {"check", "wait"} => hart'[g].op \in {"getchar", "syscall"}
                    /\ hart'[g].op = "putchar" => hart'[g].data \in Chars
                    /\ hart'[g].at \in Locked <=> htif_lock' = g
  BY DEF HartsOK
<1>2. CASE g = h
  <2>1. hart'[g].op = hart[h].op /\ hart'[g].at = line /\ hart'[g].data = hart[h].data
    BY <1>1, <1>2
  <2> QED
    BY <1>2, <2>1 DEF Basic, HartsOK, Locked
<1>3. CASE g # h
  BY <1>1, <1>3 DEF Basic, HartsOK
<1> QED
  BY <1>2, <1>3

(* What __check_fromhost does with a reply: a console reply goes to the    *)
(* buffer, the reply to a system call fails the assertion (htif.c:25-37).  *)
LEMMA CheckFacts ==
  ASSUME Basic, NEW h \in Harts, NEW next, __check_fromhost(h, next)
  PROVE  /\ fromhost # Zero /\ fromhost' = Zero
         /\ \/ /\ fromhost.dev = 1 /\ fromhost.data \in Chars
               /\ GoTo(h, next)
               /\ htif_console_buf' = fromhost.data
            \/ /\ fromhost = SysRequest
               /\ GoTo(h, "abort")
               /\ htif_console_buf' = htif_console_buf
<1>1. fromhost = SysRequest \/ \E c \in Chars : fromhost = TOHOST_CMD(1, 0, c)
  BY DEF Basic, WordsOK, ConsoleReply, __check_fromhost
<1>2. CASE fromhost = SysRequest
  <2>1. fromhost.dev = 0
    BY <1>2 DEF SysRequest, TOHOST_CMD
  <2> QED
    BY <1>2, <2>1 DEF __check_fromhost, GoTo
<1>3. ASSUME NEW c \in Chars, fromhost = TOHOST_CMD(1, 0, c)
      PROVE  /\ fromhost.dev = 1 /\ fromhost.data \in Chars
             /\ GoTo(h, next)
             /\ htif_console_buf' = fromhost.data
  <2>1. fromhost.dev = 1 /\ fromhost.cmd = 0 /\ fromhost.data = c
    BY <1>3 DEF TOHOST_CMD
  <2> QED
    BY <2>1 DEF __check_fromhost, GoTo
<1> QED
  BY <1>1, <1>2, <1>3 DEF __check_fromhost

(* A hart in the function body of getchar, putchar or a system call keeps  *)
(* the types when its line is one the code has.                            *)
LEMMA MoveType ==
  ASSUME Basic, NEW h \in Harts,
         NEW line \in {"check", "set", "busy", "wait", "unlock", "clear", "shout", "abort"},
         GoTo(h, line)
  PROVE  hart' \in [Harts ->
           [op : {"none", "getchar", "putchar", "syscall", "poweroff"},
            at : {"idle", "lock", "check", "set", "busy", "wait", "unlock",
                  "clear", "shout", "abort"},
            data : Payload]]
BY DEF Basic, HtifTypeOK, GoTo

(* Taking and giving back the lock keeps the basic invariant: the lock was *)
(* free (atomic.h:50-63).                                                  *)
LEMMA LockBasic ==
  ASSUME Basic, NEW h \in Harts, spinlock_lock(h) \/ spinlock_unlock(h)
  PROVE  Basic'
<1>1. /\ tohost' = tohost /\ fromhost' = fromhost /\ htif_console_buf' = htif_console_buf
      /\ host' = host
      /\ typed' = typed /\ got' = got /\ printed' = printed /\ put' = put
  BY DEF spinlock_lock, spinlock_unlock
<1>2. WordsOK'
  BY <1>1 DEF Basic, WordsOK
<1>3. PutOK'
  BY <1>1 DEF Basic, PutOK
<1>4. CASE spinlock_lock(h)
  <2> DEFINE line == Body(hart[h].op)
  <2>1. /\ hart[h].at = "lock" /\ htif_lock = NoHart /\ htif_lock' = h /\ GoTo(h, line)
        /\ line \in {"check", "set"} /\ (line = "check" => hart[h].op = "getchar")
    BY <1>4 DEF spinlock_lock, At, Body
  <2> HIDE DEF line
  <2>2. /\ hart'[h] = [op |-> hart[h].op, at |-> line, data |-> hart[h].data]
        /\ \A g \in Harts : g # h => hart'[g] = hart[g]
    BY <2>1, GoToFacts DEF Basic
  <2>3. HtifTypeOK'
    <3>1. line \in {"check", "set", "busy", "wait", "unlock", "clear", "shout", "abort"}
      BY <2>1
    <3>2. hart' \in [Harts ->
           [op : {"none", "getchar", "putchar", "syscall", "poweroff"},
            at : {"idle", "lock", "check", "set", "busy", "wait", "unlock",
                  "clear", "shout", "abort"},
            data : Payload]]
      BY <2>1, <3>1, MoveType
    <3> QED
      BY <1>1, <2>1, <3>2 DEF Basic, HtifTypeOK
  <2>4. HartsOK'
    <3> SUFFICES ASSUME NEW g \in Harts
               PROVE  /\ hart'[g].at \in {"clear", "shout"} <=> hart'[g].op = "poweroff"
                      /\ hart'[g].at = "idle" <=> hart'[g].op = "none"
                      /\ hart'[g].at \in {"check", "wait"} => hart'[g].op \in {"getchar", "syscall"}
                      /\ hart'[g].op = "putchar" => hart'[g].data \in Chars
                      /\ hart'[g].at \in Locked <=> htif_lock' = g
      BY DEF HartsOK
    <3>1. CASE g = h
      <4>1. hart'[g].op = hart[h].op /\ hart'[g].at = line /\ hart'[g].data = hart[h].data
        BY <2>2, <3>1
      <4> QED
        BY <2>1, <3>1, <4>1 DEF Basic, HartsOK, Locked
    <3>2. CASE g # h
      <4>1. hart'[g] = hart[g] /\ hart[g].at \notin Locked
        BY <2>1, <2>2, <3>2, HtifAssumption DEF Basic, HartsOK
      <4> QED
        BY <2>1, <3>2, <4>1 DEF Basic, HartsOK
    <3> QED
      BY <3>1, <3>2
  <2> QED
    BY <1>2, <1>3, <2>3, <2>4 DEF Basic
<1>5. CASE spinlock_unlock(h)
  <2>1. hart[h].at = "unlock" /\ htif_lock' = NoHart /\ hart' = [hart EXCEPT ![h] = Idle]
    BY <1>5 DEF spinlock_unlock, At
  <2>2. hart'[h] = Idle /\ \A g \in Harts : g # h => hart'[g] = hart[g]
    BY <2>1 DEF Basic, HtifTypeOK
  <2>3. HtifTypeOK'
    BY <1>1, <2>1 DEF Basic, HtifTypeOK, Idle, Payload
  <2>4. HartsOK'
    <3> SUFFICES ASSUME NEW g \in Harts
               PROVE  /\ hart'[g].at \in {"clear", "shout"} <=> hart'[g].op = "poweroff"
                      /\ hart'[g].at = "idle" <=> hart'[g].op = "none"
                      /\ hart'[g].at \in {"check", "wait"} => hart'[g].op \in {"getchar", "syscall"}
                      /\ hart'[g].op = "putchar" => hart'[g].data \in Chars
                      /\ hart'[g].at \in Locked <=> htif_lock' = g
      BY DEF HartsOK
    <3>0. g # NoHart /\ htif_lock = h
      BY <2>1, HtifAssumption DEF Basic, HartsOK, Locked
    <3>1. CASE g = h
      BY <2>1, <2>2, <3>0, <3>1 DEF Idle, Locked
    <3>2. CASE g # h
      <4>1. hart'[g] = hart[g] /\ hart[g].at \notin Locked
        BY <2>2, <3>0, <3>2 DEF Basic, HartsOK
      <4> QED
        BY <2>1, <3>0, <4>1 DEF Basic, HartsOK
    <3> QED
      BY <3>1, <3>2
  <2> QED
    BY <1>2, <1>3, <2>3, <2>4 DEF Basic
<1> QED
  BY <1>4, <1>5

(* What a reply in fromhost does to the hart that checks for it, which     *)
(* goes on at next unless the assertion fails.                             *)
ReplyTaken(h, next) ==
  /\ fromhost # Zero /\ fromhost' = Zero
  /\ \/ /\ fromhost.dev = 1 /\ fromhost.data \in Chars
        /\ GoTo(h, next)
        /\ htif_console_buf' = fromhost.data
     \/ /\ fromhost = SysRequest
        /\ GoTo(h, "abort")
        /\ htif_console_buf' = htif_console_buf

(* What a step of __set_tohost does, operation by operation. *)
RequestPosted(h) ==
  /\ tohost = Zero /\ fromhost' = fromhost /\ htif_console_buf' = htif_console_buf
  /\ \/ /\ hart[h].op = "getchar" /\ tohost' = ReadRequest
        /\ GoTo(h, "unlock") /\ put' = put
     \/ /\ hart[h].op = "putchar" /\ hart[h].data \in Chars
        /\ tohost' = PutRequest(hart[h].data)
        /\ GoTo(h, "unlock") /\ put' = Append(put, hart[h].data)
     \/ /\ hart[h].op = "syscall" /\ tohost' = SysRequest
        /\ GoTo(h, "wait") /\ put' = put

(* __set_tohost finds tohost taken, or posts the request of one of the     *)
(* three operations that call it (htif.c:39-44).                           *)
LEMMA SetFacts ==
  ASSUME Basic, NEW h \in Harts, __set_tohost(h)
  PROVE  /\ host.power = "on" /\ hart[h].at = "set"
         /\ \/ /\ tohost' = tohost /\ put' = put /\ GoTo(h, "busy")
               /\ fromhost' = fromhost /\ htif_console_buf' = htif_console_buf
            \/ RequestPosted(h)
         /\ htif_lock' = htif_lock /\ host' = host
         /\ typed' = typed /\ got' = got /\ printed' = printed
<1>1. /\ host.power = "on" /\ hart[h].at = "set"
      /\ htif_lock' = htif_lock /\ host' = host
      /\ typed' = typed /\ got' = got /\ printed' = printed
  BY DEF __set_tohost, At
<1>2. hart[h].op \in {"getchar", "putchar", "syscall"}
  BY <1>1 DEF Basic, HtifTypeOK, HartsOK
<1>3. CASE tohost # Zero
  BY <1>1, <1>3 DEF __set_tohost
<1>4. CASE tohost = Zero
  <2>1. /\ tohost' = Request(h)
        /\ GoTo(h, IF hart[h].op = "syscall" THEN "wait" ELSE "unlock")
        /\ put' = IF hart[h].op = "putchar" THEN Append(put, hart[h].data) ELSE put
        /\ fromhost' = fromhost /\ htif_console_buf' = htif_console_buf
    BY <1>4 DEF __set_tohost
  <2>2. CASE hart[h].op = "getchar"
    <3>1. Request(h) = ReadRequest
      BY <2>2 DEF Request, ReadRequest
    <3> QED
      BY <1>1, <1>4, <2>1, <2>2, <3>1 DEF RequestPosted
  <2>3. CASE hart[h].op = "putchar"
    <3>1. Request(h) = PutRequest(hart[h].data)
      BY <2>3 DEF Request, PutRequest
    <3>2. hart[h].data \in Chars
      BY <2>3 DEF Basic, HartsOK
    <3> QED
      BY <1>1, <1>4, <2>1, <2>3, <3>1, <3>2 DEF RequestPosted
  <2>4. CASE hart[h].op = "syscall"
    <3>1. Request(h) = SysRequest
      BY <2>4 DEF Request, SysRequest
    <3> QED
      BY <1>1, <1>4, <2>1, <2>4, <3>1 DEF RequestPosted
  <2> QED
    BY <1>2, <2>2, <2>3, <2>4
<1> QED
  BY <1>3, <1>4

(* A check for a reply takes it or finds none (htif.c:21, 42, 48, 77). *)
Checks(h, line, next) ==
  /\ hart[h].at = line
  /\ \/ ReplyTaken(h, next)
     \/ /\ fromhost' = fromhost
        /\ GoTo(h, next) /\ htif_console_buf' = htif_console_buf

LEMMA CheckStepFacts ==
  ASSUME Basic, NEW h \in Harts, CheckFromhost(h)
  PROVE  /\ Checks(h, "check", "wait") \/ Checks(h, "busy", "set")
         /\ tohost' = tohost /\ htif_lock' = htif_lock /\ host' = host
         /\ typed' = typed /\ got' = got /\ put' = put /\ printed' = printed
<1>1. ASSUME NEW line, NEW next, CheckAt(h, line, next)
      PROVE  /\ Checks(h, line, next)
             /\ tohost' = tohost /\ htif_lock' = htif_lock /\ host' = host
             /\ typed' = typed /\ got' = got /\ put' = put /\ printed' = printed
  <2>1. CASE __check_fromhost(h, next)
    <3>1. ReplyTaken(h, next)
      BY <2>1, CheckFacts DEF ReplyTaken
    <3> QED
      BY <1>1, <3>1 DEF CheckAt, At, Checks
  <2>2. CASE ~__check_fromhost(h, next)
    BY <1>1, <2>2 DEF CheckAt, At, Checks
  <2> QED
    BY <2>1, <2>2
<1> QED
  BY <1>1 DEF CheckFromhost

(* Taking a reply, or posting a request, keeps the types of the words and  *)
(* of the harts (htif.c:25-44).                                            *)
LEMMA ReplyBasic ==
  ASSUME Basic, NEW h \in Harts, NEW next \in {"set", "wait"}, ReplyTaken(h, next),
         hart[h].at \in Locked, next = "wait" => hart[h].op \in {"getchar", "syscall"},
         tohost' = tohost, htif_lock' = htif_lock, host' = host,
         typed' = typed, got' = got, put' = put, printed' = printed
  PROVE  Basic'
<1>1. PICK line \in {"set", "wait", "abort"} :
        GoTo(h, line) /\ (line = "wait" => hart[h].op \in {"getchar", "syscall"})
  BY DEF ReplyTaken
<1>2. HartsOK'
  <2>1. /\ line \in Locked
        /\ line \in {"check", "wait"} => hart[h].op \in {"getchar", "syscall"}
    BY <1>1 DEF Locked
  <2> QED
    BY <1>1, <2>1, MoveHarts
<1>3. HtifTypeOK'
  <2>1. line \in {"check", "set", "busy", "wait", "unlock", "clear", "shout", "abort"}
    OBVIOUS
  <2>2. hart' \in [Harts ->
           [op : {"none", "getchar", "putchar", "syscall", "poweroff"},
            at : {"idle", "lock", "check", "set", "busy", "wait", "unlock",
                  "clear", "shout", "abort"},
            data : Payload]]
    BY <1>1, <2>1, MoveType
  <2>3. fromhost' = Zero /\ htif_console_buf' \in {Unset, NoChar} \cup Chars
    BY DEF ReplyTaken, Basic, HtifTypeOK
  <2> QED
    BY <2>2, <2>3 DEF Basic, HtifTypeOK
<1>4. WordsOK'
  BY DEF ReplyTaken, Basic, WordsOK
<1>5. PutOK'
  BY DEF Basic, PutOK
<1> QED
  BY <1>2, <1>3, <1>4, <1>5 DEF Basic

(* A hart that only goes to another line with the lock held keeps the      *)
(* basic invariant.                                                        *)
LEMMA MoveBasic ==
  ASSUME Basic, NEW h \in Harts, NEW next \in {"set", "busy", "wait"}, GoTo(h, next),
         hart[h].at \in Locked, next = "wait" => hart[h].op \in {"getchar", "syscall"},
         tohost' = tohost, fromhost' = fromhost, htif_console_buf' = htif_console_buf,
         htif_lock' = htif_lock, host' = host,
         typed' = typed, got' = got, put' = put, printed' = printed
  PROVE  Basic'
<1>1. HartsOK'
  <2>1. next \in Locked /\ (next \in {"check", "wait"} => hart[h].op \in {"getchar", "syscall"})
    BY DEF Locked
  <2> QED
    BY <2>1, MoveHarts
<1>2. HtifTypeOK'
  <2>1. next \in {"check", "set", "busy", "wait", "unlock", "clear", "shout", "abort"}
    OBVIOUS
  <2> QED
    BY <2>1, MoveType DEF Basic, HtifTypeOK
<1>3. WordsOK' /\ PutOK'
  BY DEF Basic, WordsOK, PutOK
<1> QED
  BY <1>1, <1>2, <1>3 DEF Basic

(* The steps of getchar, putchar and a system call with the lock held keep *)
(* the basic invariant (htif.c:39-81).                                     *)
LEMMA BodyBasic ==
  ASSUME Basic, NEW h \in Harts,
         CheckFromhost(h) \/ GetcharTake(h) \/ __set_tohost(h) \/ do_tohost_fromhost(h)
  PROVE  Basic'
<1>1. CASE CheckFromhost(h)
  <2>1. PICK next \in {"set", "wait"} :
          /\ hart[h].at \in Locked
          /\ next = "wait" => hart[h].op \in {"getchar", "syscall"}
          /\ \/ ReplyTaken(h, next)
             \/ /\ fromhost' = fromhost
                /\ GoTo(h, next) /\ htif_console_buf' = htif_console_buf
    BY <1>1, CheckStepFacts DEF Checks, Basic, HartsOK, Locked
  <2>2. CASE ReplyTaken(h, next)
    BY <1>1, <2>1, <2>2, CheckStepFacts, ReplyBasic
  <2>3. CASE ~ReplyTaken(h, next)
    <3>1. /\ fromhost' = fromhost /\ htif_console_buf' = htif_console_buf /\ GoTo(h, next)
          /\ tohost' = tohost /\ htif_lock' = htif_lock /\ host' = host
          /\ typed' = typed /\ got' = got /\ put' = put /\ printed' = printed
      BY <1>1, <2>1, <2>3, CheckStepFacts
    <3> QED
      BY <2>1, <3>1, MoveBasic
  <2> QED
    BY <2>2, <2>3
<1>2. CASE GetcharTake(h)
  <2>1. PICK line \in {"unlock", "set"} : GoTo(h, line)
    BY <1>2 DEF GetcharTake
  <2>2. /\ hart[h].at \in Locked
        /\ tohost' = tohost /\ fromhost' = fromhost /\ htif_lock' = htif_lock /\ host' = host
        /\ typed' = typed /\ put' = put /\ printed' = printed
        /\ htif_console_buf' \in {Unset, htif_console_buf}
        /\ got' = got \/ (htif_console_buf \in Chars /\ got' = Append(got, htif_console_buf))
    BY <1>2 DEF GetcharTake, At, Locked, Basic, HtifTypeOK
  <2>3. HartsOK'
    <3>1. line \in Locked /\ line \notin {"check", "wait"}
      BY DEF Locked
    <3> QED
      BY <2>1, <2>2, <3>1, MoveHarts
  <2>4. HtifTypeOK'
    <3>0. got \in Seq(Chars)
      BY DEF Basic, HtifTypeOK
    <3>1. got' \in Seq(Chars)
      BY <2>2, <3>0, AppendFacts
    <3>2. line \in {"check", "set", "busy", "wait", "unlock", "clear", "shout", "abort"}
      OBVIOUS
    <3>3. hart' \in [Harts ->
           [op : {"none", "getchar", "putchar", "syscall", "poweroff"},
            at : {"idle", "lock", "check", "set", "busy", "wait", "unlock",
                  "clear", "shout", "abort"},
            data : Payload]]
      BY <2>1, <3>2, MoveType
    <3> QED
      BY <2>2, <3>1, <3>3 DEF Basic, HtifTypeOK
  <2>5. WordsOK' /\ PutOK'
    BY <2>2 DEF Basic, WordsOK, PutOK
  <2> QED
    BY <2>3, <2>4, <2>5 DEF Basic
<1>3. CASE __set_tohost(h)
  <2>1. hart[h].at \in Locked /\ host.power = "on"
    BY <1>3, SetFacts DEF Locked
  <2>2. CASE ~RequestPosted(h)
    BY <1>3, <2>1, <2>2, SetFacts, MoveBasic
  <2>3. CASE RequestPosted(h)
    <3>1. PICK line \in {"unlock", "wait"} :
            GoTo(h, line) /\ (line = "wait" => hart[h].op = "syscall")
      BY <2>3 DEF RequestPosted
    <3>2. /\ htif_lock' = htif_lock /\ host' = host
          /\ fromhost' = fromhost /\ htif_console_buf' = htif_console_buf
          /\ typed' = typed /\ got' = got /\ printed' = printed
      BY <1>3, <2>3, SetFacts DEF RequestPosted
    <3>3. HartsOK'
      <4>1. line \in Locked /\ line # "check"
        BY DEF Locked
      <4> QED
        BY <2>1, <3>1, <3>2, <4>1, MoveHarts
    <3>4. tohost' \in {ReadRequest, SysRequest} \/ \E c \in Chars : tohost' = PutRequest(c)
      BY <2>3 DEF RequestPosted
    <3>5. HtifTypeOK'
      <4>0. put \in Seq(Chars)
        BY DEF Basic, HtifTypeOK
      <4>1. put' \in Seq(Chars)
        BY <2>3, <4>0, AppendFacts DEF RequestPosted
      <4>2. tohost' \in Words
        BY <3>4, WordFacts
      <4>3. line \in {"check", "set", "busy", "wait", "unlock", "clear", "shout", "abort"}
        OBVIOUS
      <4>4. hart' \in [Harts ->
           [op : {"none", "getchar", "putchar", "syscall", "poweroff"},
            at : {"idle", "lock", "check", "set", "busy", "wait", "unlock",
                  "clear", "shout", "abort"},
            data : Payload]]
        BY <3>1, <4>3, MoveType
      <4> QED
        BY <3>2, <4>1, <4>2, <4>4 DEF Basic, HtifTypeOK
    <3>6. WordsOK'
      BY <3>2, <3>4 DEF Basic, WordsOK
    <3>7. PutOK'
      <4>1. printed = put
        BY <2>1, <2>3 DEF RequestPosted, Basic, PutOK
      <4>2. CASE hart[h].op = "putchar"
        <5>1. tohost' = PutRequest(hart[h].data) /\ put' = Append(printed', hart[h].data)
              /\ hart[h].data \in Chars
          BY <2>3, <3>2, <4>1, <4>2 DEF RequestPosted
        <5>2. /\ PutRequest(hart[h].data) \notin {Zero, ReadRequest, SysRequest}
              /\ \A c \in Chars : PutRequest(hart[h].data) = PutRequest(c) => c = hart[h].data
          BY DEF PutRequest, ReadRequest, SysRequest, Zero, TOHOST_CMD
        <5> QED
          BY <5>1, <5>2 DEF PutOK
      <4>3. CASE hart[h].op # "putchar"
        <5>1. tohost' \in {ReadRequest, SysRequest} /\ put' = printed'
          BY <2>3, <3>2, <4>1, <4>3 DEF RequestPosted
        <5>2. \A c \in Chars : PutRequest(c) \notin {ReadRequest, SysRequest}
          BY DEF PutRequest, ReadRequest, SysRequest, TOHOST_CMD
        <5> QED
          BY <5>1, <5>2 DEF PutOK
      <4> QED
        BY <4>2, <4>3
    <3> QED
      BY <3>3, <3>5, <3>6, <3>7 DEF Basic
  <2> QED
    BY <1>3, <2>2, <2>3, SetFacts
<1>4. CASE do_tohost_fromhost(h)
  <2>1. PICK line \in {"unlock", "check"} : GoTo(h, line)
    BY <1>4 DEF do_tohost_fromhost
  <2>2. /\ hart[h].at \in Locked /\ hart[h].op = "syscall"
        /\ tohost' = tohost /\ fromhost' \in {fromhost, Zero} /\ htif_lock' = htif_lock
        /\ host' = host /\ htif_console_buf' = htif_console_buf
        /\ typed' = typed /\ got' = got /\ put' = put /\ printed' = printed
    BY <1>4 DEF do_tohost_fromhost, At, Locked
  <2>3. HartsOK'
    <3>1. line \in Locked
      BY DEF Locked
    <3> QED
      BY <2>1, <2>2, <3>1, MoveHarts
  <2>4. HtifTypeOK'
    <3>1. line \in {"check", "set", "busy", "wait", "unlock", "clear", "shout", "abort"}
      OBVIOUS
    <3> QED
      BY <2>1, <2>2, <3>1, MoveType DEF Basic, HtifTypeOK
  <2>5. WordsOK' /\ PutOK'
    BY <2>2 DEF Basic, WordsOK, PutOK
  <2> QED
    BY <2>3, <2>4, <2>5 DEF Basic
<1> QED
  BY <1>1, <1>2, <1>3, <1>4

(* A hart that switches the machine off writes the words without the lock, *)
(* and keeps the basic invariant (htif.c:105-111).                         *)
LEMMA PoweroffBasic ==
  ASSUME Basic, NEW h \in Harts, PoweroffClear(h) \/ PoweroffShout(h)
  PROVE  Basic'
<1>1. PICK line \in {"clear", "shout"} : GoTo(h, line)
  BY DEF PoweroffClear, PoweroffShout
<1>2. /\ hart[h].at \in {"clear", "shout"}
      /\ tohost' \in {tohost, ExitRequest} /\ fromhost' \in {fromhost, Zero}
      /\ htif_lock' = htif_lock
      /\ host' = host /\ htif_console_buf' = htif_console_buf
      /\ typed' = typed /\ got' = got /\ put' = put /\ printed' = printed
  BY DEF PoweroffClear, PoweroffShout, At, ExitRequest
<1>3. HartsOK'
  BY <1>1, <1>2, MoveHarts
<1>4. HtifTypeOK'
  <2>1. line \in {"check", "set", "busy", "wait", "unlock", "clear", "shout", "abort"}
    OBVIOUS
  <2> QED
    BY <1>1, <1>2, <2>1, MoveType, WordFacts DEF Basic, HtifTypeOK
<1>5. WordsOK'
  BY <1>2 DEF Basic, WordsOK
<1>6. PutOK'
  <2>1. /\ ExitRequest \notin {Zero, ReadRequest, SysRequest}
        /\ \A c \in Chars : ExitRequest # PutRequest(c)
    BY DEF PutRequest, ReadRequest, SysRequest, Zero, ExitRequest, TOHOST_CMD
  <2> QED
    BY <1>2, <2>1 DEF Basic, PutOK
<1> QED
  BY <1>3, <1>4, <1>5, <1>6 DEF Basic

-----------------------------------------------------------------------------
(* Every action but poweroff's own keeps the state orderly.                *)

(* A hart at a line that needs the lock is its holder (atomic.h:50-63). *)
LEMMA HolderFacts ==
  ASSUME Basic, NEW h \in Harts, hart[h].at \in Locked
  PROVE  htif_lock = h /\ Holder = hart[h]
BY HtifAssumption DEF Basic, HartsOK, Holder

(* Where the holder of the lock is after a step of its own. *)
LEMMA HolderMoves ==
  ASSUME Basic, NEW h \in Harts, hart[h].at \in Locked, NEW line, GoTo(h, line),
         htif_lock' = htif_lock
  PROVE  /\ Holder.op = hart[h].op /\ Holder.at = hart[h].at
         /\ Holder'.op = hart[h].op /\ Holder'.at = line
<1>1. htif_lock = h /\ Holder = hart[h]
  BY HolderFacts
<1>2. Holder' = hart'[h]
  BY <1>1, HtifAssumption DEF Holder
<1>3. hart'[h] = [op |-> hart[h].op, at |-> line, data |-> hart[h].data]
  BY GoToFacts DEF Basic
<1> QED
  BY <1>1, <1>2, <1>3

(* While nobody switches the machine off, nobody did before: htif_poweroff *)
(* never returns (htif.c:105-111).                                         *)
LEMMA PoweroffStays ==
  ASSUME Basic, HtifNext, ~SomeoneHalts'
  PROVE  ~SomeoneHalts /\ \A h \in Harts : ~PoweroffClear(h) /\ ~PoweroffShout(h)
<1> SUFFICES ASSUME NEW g \in Harts, hart[g].op = "poweroff"
             PROVE  hart'[g].op = "poweroff"
  <2>1. \A h \in Harts : PoweroffClear(h) \/ PoweroffShout(h) => hart[h].op = "poweroff"
    BY DEF Basic, HartsOK, PoweroffClear, PoweroffShout, At
  <2> QED
    BY <2>1 DEF SomeoneHalts
<1>1. hart[g].at \in {"clear", "shout"}
  BY DEF Basic, HartsOK
<1>2. CASE HostStep
  BY <1>2 DEF HostStep, HostExits, HostSyscall, HostRead, HostReplies, HostWrite, UserTypes,
       HostTakes
<1>3. ASSUME NEW h \in Harts, HartCall(h) PROVE hart'[g].op = "poweroff"
  <2>1. hart[h].at = "idle" /\ \E r : hart' = [hart EXCEPT ![h] = r]
    BY <1>3 DEF HartCall, htif_console_getchar, htif_console_putchar, htif_syscall,
         htif_poweroff, Call, At
  <2> QED
    BY <1>1, <2>1 DEF Basic, HtifTypeOK
<1>4. ASSUME NEW h \in Harts, HartStep(h) PROVE hart'[g].op = "poweroff"
  <2>1. CASE spinlock_unlock(h)
    BY <1>1, <2>1 DEF spinlock_unlock, At, Basic, HtifTypeOK
  <2>2. CASE ~spinlock_unlock(h)
    <3>1. \E line : GoTo(h, line)
      <4>1. CASE CheckFromhost(h) \/ __set_tohost(h)
        BY <4>1 DEF CheckFromhost, CheckAt, __set_tohost, __check_fromhost, GoTo
      <4>2. CASE ~(CheckFromhost(h) \/ __set_tohost(h))
        BY <1>4, <2>2, <4>2 DEF HartStep, spinlock_lock, GetcharTake, do_tohost_fromhost,
             PoweroffClear, PoweroffShout
      <4> QED
        BY <4>1, <4>2
    <3>2. PICK line : GoTo(h, line)
      BY <3>1
    <3>3. /\ hart'[h] = [op |-> hart[h].op, at |-> line, data |-> hart[h].data]
          /\ \A k \in Harts : k # h => hart'[k] = hart[k]
      BY <3>2, GoToFacts DEF Basic
    <3> QED
      BY <3>3
  <2> QED
    BY <2>1, <2>2
<1> QED
  BY <1>2, <1>3, <1>4 DEF HtifNext

(* A state in which nothing changed but what Holder says of other          *)
(* operations is orderly.                                                  *)
LEMMA OrderlyFrame ==
  ASSUME Orderly, tohost' = tohost, fromhost' = fromhost,
         htif_console_buf' = htif_console_buf, host' = host, typed' = typed, got' = got,
         Holder'.at # "abort",
         Holder'.op = "syscall" /\ Holder'.at = "check" => fromhost.dev = 1,
         (Holder'.op = "getchar" /\ Holder'.at \in {"set", "busy"})
           <=> (Holder.op = "getchar" /\ Holder.at \in {"set", "busy"}),
         (Holder'.op = "syscall" /\ Holder'.at \in {"wait", "check"})
           <=> (Holder.op = "syscall" /\ Holder.at \in {"wait", "check"})
  PROVE  Orderly'
<1>1. (HasReply(0)' <=> HasReply(0)) /\ (HasReply(1)' <=> HasReply(1))
  BY DEF HasReply
<1>2. OneRead'
  BY <1>1 DEF Orderly, OneRead, Count
<1>3. OneSyscall'
  BY <1>1 DEF Orderly, OneSyscall, Count
<1>4. RepliesUnique'
  BY DEF Orderly, RepliesUnique
<1>5. CharKept'
  BY <1>1 DEF Orderly, CharKept
<1> QED
  BY <1>2, <1>3, <1>4, <1>5 DEF Orderly

(* Calls, and taking and giving back the lock, keep the state orderly      *)
(* (htif.c:46, 65, 83, 105; atomic.h:50-63).                               *)
LEMMA CallOrderly ==
  ASSUME Basic, Orderly, NEW h \in Harts,
         HartCall(h) \/ spinlock_lock(h) \/ spinlock_unlock(h)
  PROVE  Orderly'
<1>1. CASE HartCall(h)
  <2>1. /\ tohost' = tohost /\ fromhost' = fromhost /\ htif_console_buf' = htif_console_buf
        /\ htif_lock' = htif_lock /\ host' = host /\ typed' = typed /\ got' = got
        /\ hart[h].at = "idle" /\ \E r : hart' = [hart EXCEPT ![h] = r]
    BY <1>1 DEF HartCall, htif_console_getchar, htif_console_putchar, htif_syscall,
         htif_poweroff, Call, At
  <2>2. Holder' = Holder
    <3>1. htif_lock # h
      BY <2>1 DEF Basic, HartsOK, Locked
    <3>2. htif_lock \in Harts => hart'[htif_lock] = hart[htif_lock]
      BY <2>1, <3>1 DEF Basic, HtifTypeOK
    <3>3. htif_lock \in Harts \cup {NoHart}
      BY DEF Basic, HtifTypeOK
    <3> QED
      BY <2>1, <3>2, <3>3 DEF Holder
  <2> QED
    BY <2>1, <2>2, OrderlyFrame DEF Orderly
<1>2. CASE spinlock_lock(h)
  <2>1. /\ tohost' = tohost /\ fromhost' = fromhost /\ htif_console_buf' = htif_console_buf
        /\ host' = host /\ typed' = typed /\ got' = got
        /\ htif_lock = NoHart /\ htif_lock' = h /\ GoTo(h, Body(hart[h].op))
    BY <1>2 DEF spinlock_lock
  <2>2. Holder.op = "none"
    BY <2>1 DEF Holder, Idle
  <2>3. Holder' = hart'[h]
    BY <2>1, HtifAssumption DEF Holder
  <2>4. Holder'.op = hart[h].op /\ Holder'.at = Body(hart[h].op)
    <3> DEFINE line == Body(hart[h].op)
    <3>1. GoTo(h, line)
      BY <2>1
    <3> HIDE DEF line
    <3>2. hart'[h] = [op |-> hart[h].op, at |-> line, data |-> hart[h].data]
      BY <3>1, GoToFacts DEF Basic
    <3>3. Holder'.op = hart[h].op /\ Holder'.at = line
      BY <2>3, <3>2
    <3> QED
      BY <3>3 DEF line
  <2> QED
    BY <2>1, <2>2, <2>4, OrderlyFrame DEF Orderly, Body
<1>3. CASE spinlock_unlock(h)
  <2>1. /\ tohost' = tohost /\ fromhost' = fromhost /\ htif_console_buf' = htif_console_buf
        /\ host' = host /\ typed' = typed /\ got' = got
        /\ htif_lock' = NoHart /\ hart[h].at = "unlock"
    BY <1>3 DEF spinlock_unlock, At
  <2>2. Holder.at = "unlock"
    BY <2>1, HolderFacts DEF Locked
  <2>3. Holder'.op = "none" /\ Holder'.at = "idle"
    BY <2>1 DEF Holder, Idle
  <2> QED
    BY <2>1, <2>2, <2>3, OrderlyFrame
<1> QED
  BY <1>1, <1>2, <1>3

(* Of the places where the one read can be, at most one holds it, and none *)
(* when the buffer is set (htif.c:46-63).                                  *)
LEMMA ReadPlaces ==
  ASSUME Basic, Orderly
  PROVE  /\ fromhost.dev = 1 =>
              /\ ~(Holder.op = "getchar" /\ Holder.at \in {"set", "busy"})
              /\ tohost # ReadRequest /\ host.reads = 0 /\ ~HasReply(1)
              /\ htif_console_buf = Unset
         /\ host.reads > 0 =>
              /\ ~(Holder.op = "getchar" /\ Holder.at \in {"set", "busy"})
              /\ tohost # ReadRequest /\ host.reads = 1 /\ ~HasReply(1)
              /\ fromhost.dev # 1 /\ htif_console_buf = Unset
         /\ htif_console_buf # Unset =>
              /\ ~(Holder.op = "getchar" /\ Holder.at \in {"set", "busy"})
              /\ tohost # ReadRequest /\ host.reads = 0 /\ ~HasReply(1)
              /\ fromhost.dev # 1
         /\ HasReply(1) => fromhost.dev # 1 /\ htif_console_buf = Unset
<1>1. host.reads \in Nat
  BY DEF Basic, HtifTypeOK
<1> DEFINE a == Count(Holder.op = "getchar" /\ Holder.at \in {"set", "busy"})
           b == Count(tohost = ReadRequest)
           c == Count(HasReply(1))
           d == Count(fromhost.dev = 1)
           e == Count(htif_console_buf = Unset)
<1>2. /\ a \in {0, 1} /\ (a = 1 <=> (Holder.op = "getchar" /\ Holder.at \in {"set", "busy"}))
      /\ b \in {0, 1} /\ (b = 1 <=> tohost = ReadRequest)
      /\ c \in {0, 1} /\ (c = 1 <=> HasReply(1))
      /\ d \in {0, 1} /\ (d = 1 <=> fromhost.dev = 1)
      /\ e \in {0, 1} /\ (e = 1 <=> htif_console_buf = Unset)
  BY DEF Count
<1>3. a + b + host.reads + c + d = e
  BY DEF Orderly, OneRead
<1> HIDE DEF a, b, c, d, e
<1>4. d = 1 => a = 0 /\ b = 0 /\ host.reads = 0 /\ c = 0 /\ e = 1
  BY <1>1, <1>2, <1>3
<1>5. host.reads > 0 => a = 0 /\ b = 0 /\ host.reads = 1 /\ c = 0 /\ d = 0 /\ e = 1
  BY <1>1, <1>2, <1>3
<1>6. e = 0 => a = 0 /\ b = 0 /\ host.reads = 0 /\ c = 0 /\ d = 0
  <2> SUFFICES ASSUME e = 0 PROVE a = 0 /\ b = 0 /\ host.reads = 0 /\ c = 0 /\ d = 0
    OBVIOUS
  <2>1. a >= 0 /\ b >= 0 /\ c >= 0 /\ d >= 0 /\ host.reads >= 0
    BY <1>1, <1>2
  <2>2. a = 0
    BY <1>1, <1>2, <1>3, <2>1
  <2>3. b = 0
    BY <1>1, <1>2, <1>3, <2>1
  <2>4. c = 0
    BY <1>1, <1>2, <1>3, <2>1
  <2>5. d = 0
    BY <1>1, <1>2, <1>3, <2>1
  <2>6. host.reads = 0
    BY <1>1, <1>3, <2>2, <2>3, <2>4, <2>5
  <2> QED
    BY <2>2, <2>3, <2>4, <2>5, <2>6
<1>7. c = 1 => d = 0 /\ e = 1
  BY <1>1, <1>2, <1>3
<1> QED
  BY <1>2, <1>4, <1>5, <1>6, <1>7

(* Of the places where the one system call can be, at most one holds it,   *)
(* and none when nobody waits for it (htif.c:65-81).                       *)
LEMMA SyscallPlaces ==
  ASSUME Orderly
  PROVE  /\ ~(Holder.op = "syscall" /\ Holder.at \in {"wait", "check"}) =>
              tohost # SysRequest /\ ~HasReply(0) /\ fromhost # SysRequest
         /\ tohost = SysRequest => ~HasReply(0) /\ fromhost # SysRequest
         /\ HasReply(0) => tohost # SysRequest /\ fromhost # SysRequest
         /\ fromhost = SysRequest => tohost # SysRequest /\ ~HasReply(0)
BY DEF Orderly, OneSyscall, Count

(* What Orderly says once the pieces that a step leaves alone are known:   *)
(* the queue is as it was.                                                 *)
LEMMA SameQueue ==
  ASSUME Orderly, host' = host
  PROVE  /\ (HasReply(0)' <=> HasReply(0)) /\ (HasReply(1)' <=> HasReply(1))
         /\ RepliesUnique' /\ host'.reads = host.reads
BY DEF HasReply, Orderly, RepliesUnique

(* A hart that takes a reply in keeps the state orderly: the reply is the  *)
(* console's, and the buffer was unset (htif.c:25-37).                     *)
LEMMA ReplyOrderly ==
  ASSUME Basic, Orderly, NEW h \in Harts, NEW next \in {"set", "wait"}, ReplyTaken(h, next),
         \/ hart[h].at = "busy" /\ next = "set"
         \/ hart[h].at = "check" /\ next = "wait",
         tohost' = tohost, htif_lock' = htif_lock, host' = host, typed' = typed, got' = got
  PROVE  Orderly'
<1>1. hart[h].at \in Locked
  BY DEF Locked
<1>2. Holder.op = hart[h].op /\ Holder.at = hart[h].at
  BY <1>1, HolderFacts
<1>3. hart[h].at = "check" => hart[h].op \in {"getchar", "syscall"}
  BY DEF Basic, HartsOK
<1>4. fromhost # SysRequest
  <2>1. SysRequest.dev = 0
    BY DEF SysRequest, TOHOST_CMD
  <2>2. Holder.op = "syscall" /\ Holder.at = "check" => fromhost.dev = 1
    BY DEF Orderly
  <2>3. CASE Holder.op = "syscall" /\ Holder.at = "check"
    BY <2>1, <2>2, <2>3
  <2>4. CASE ~(Holder.op = "syscall" /\ Holder.at = "check")
    <3>1. ~(Holder.op = "syscall" /\ Holder.at \in {"wait", "check"})
      BY <1>2, <2>4
    <3> QED
      BY <3>1, SyscallPlaces
  <2> QED
    BY <2>3, <2>4
<1>5. /\ fromhost.dev = 1 /\ fromhost.data \in Chars /\ fromhost' = Zero
      /\ GoTo(h, next) /\ htif_console_buf' = fromhost.data
  BY <1>4 DEF ReplyTaken
<1>6. Holder'.op = hart[h].op /\ Holder'.at = next
  BY <1>1, <1>5, HolderMoves
<1>7. /\ ~(Holder.op = "getchar" /\ Holder.at \in {"set", "busy"})
      /\ tohost # ReadRequest /\ host.reads = 0 /\ ~HasReply(1)
      /\ htif_console_buf = Unset
  BY <1>5, ReadPlaces
<1>8. Zero.dev = 0 /\ Zero # SysRequest /\ htif_console_buf' # Unset /\ htif_console_buf' \in Chars
  BY <1>5, HtifAssumption DEF Zero, SysRequest, TOHOST_CMD, Unset
<1>9. OneRead'
  BY <1>2, <1>5, <1>6, <1>7, <1>8, SameQueue DEF OneRead, Count
<1>10. OneSyscall'
  <2>1. fromhost' # SysRequest
    BY <1>5, <1>8
  <2>2. (Holder'.op = "syscall" /\ Holder'.at \in {"wait", "check"})
          <=> (Holder.op = "syscall" /\ Holder.at \in {"wait", "check"})
    BY <1>2, <1>6
  <2> QED
    BY <1>4, <2>1, <2>2, SameQueue DEF Orderly, OneSyscall, Count
<1>11. CharKept'
  <2>1. typed' = Append(got', htif_console_buf')
    BY <1>5 DEF Orderly, CharKept
  <2>2. ~HasReply(1)'
    BY <1>7, SameQueue
  <2>3. \A i \in 1 .. Len(host'.replies) : host'.replies[i].dev # 1
    BY <2>2 DEF HasReply
  <2> QED
    BY <1>5, <1>8, <2>1, <2>3 DEF CharKept
<1> QED
  BY <1>5, <1>6, <1>9, <1>10, <1>11, SameQueue DEF Orderly

(* The steps of getchar, putchar and a system call with the lock held keep *)
(* the state orderly (htif.c:39-81).                                       *)
LEMMA BodyOrderly ==
  ASSUME Basic, Orderly, NEW h \in Harts,
         CheckFromhost(h) \/ GetcharTake(h) \/ __set_tohost(h) \/ do_tohost_fromhost(h)
  PROVE  Orderly'
<1>0. Zero.dev = 0 /\ Zero # SysRequest /\ Zero # ReadRequest
  BY DEF Zero, SysRequest, ReadRequest, TOHOST_CMD
<1>1. CASE CheckFromhost(h)
  <2>1. PICK line \in {"check", "busy"}, next \in {"set", "wait"} :
          /\ (line = "busy" /\ next = "set") \/ (line = "check" /\ next = "wait")
          /\ Checks(h, line, next)
    BY <1>1, CheckStepFacts
  <2>2. CASE ReplyTaken(h, next)
    BY <1>1, <2>1, <2>2, CheckStepFacts, ReplyOrderly DEF Checks
  <2>3. CASE ~ReplyTaken(h, next)
    <3>1. /\ fromhost' = fromhost /\ htif_console_buf' = htif_console_buf /\ GoTo(h, next)
          /\ tohost' = tohost /\ htif_lock' = htif_lock /\ host' = host
          /\ typed' = typed /\ got' = got /\ hart[h].at = line
      BY <1>1, <2>1, <2>3, CheckStepFacts DEF Checks
    <3>2. /\ Holder.op = hart[h].op /\ Holder.at = line
          /\ Holder'.op = hart[h].op /\ Holder'.at = next
      BY <3>1, HolderMoves DEF Locked
    <3> QED
      BY <2>1, <3>1, <3>2, OrderlyFrame
  <2> QED
    BY <2>2, <2>3
<1>2. CASE GetcharTake(h)
  <2>1. /\ hart[h].at = "wait" /\ hart[h].op = "getchar"
        /\ tohost' = tohost /\ fromhost' = fromhost /\ htif_lock' = htif_lock /\ host' = host
        /\ typed' = typed
    BY <1>2 DEF GetcharTake, At
  <2>2. CASE htif_console_buf = Unset
    <3>1. GoTo(h, "unlock") /\ htif_console_buf' = htif_console_buf /\ got' = got
      BY <1>2, <2>2 DEF GetcharTake
    <3>2. /\ Holder.op = hart[h].op /\ Holder.at = "wait"
          /\ Holder'.op = hart[h].op /\ Holder'.at = "unlock"
      BY <2>1, <3>1, HolderMoves DEF Locked
    <3> QED
      BY <2>1, <3>1, <3>2, OrderlyFrame
  <2>3. CASE htif_console_buf # Unset
    <3>1. /\ GoTo(h, "set") /\ htif_console_buf' = Unset
          /\ got' = IF htif_console_buf = NoChar THEN got ELSE Append(got, htif_console_buf)
      BY <1>2, <2>3 DEF GetcharTake
    <3>2. /\ Holder.op = hart[h].op /\ Holder.at = "wait"
          /\ Holder'.op = hart[h].op /\ Holder'.at = "set"
      BY <2>1, <3>1, HolderMoves DEF Locked
    <3>3. tohost # ReadRequest /\ host.reads = 0 /\ ~HasReply(1) /\ fromhost.dev # 1
      BY <2>3, ReadPlaces
    <3>4. OneRead'
      BY <2>1, <3>1, <3>2, <3>3, SameQueue DEF OneRead, Count
    <3>5. OneSyscall'
      BY <2>1, <3>2, SameQueue DEF Orderly, OneSyscall, Count
    <3>6. typed' = got'
      <4>1. htif_console_buf \in {NoChar} \cup Chars /\ NoChar \notin Chars
        BY <2>3, HtifAssumption DEF Basic, HtifTypeOK, NoChar
      <4> QED
        BY <2>1, <3>1, <3>3, <4>1 DEF Orderly, CharKept
    <3>7. CharKept'
      <4>1. Unset \notin Chars
        BY HtifAssumption DEF Unset
      <4>2. \A i \in 1 .. Len(host'.replies) : host'.replies[i].dev # 1
        BY <2>1, <3>3 DEF HasReply
      <4> QED
        BY <2>1, <3>1, <3>3, <3>6, <4>1, <4>2 DEF CharKept
    <3> QED
      BY <2>1, <3>2, <3>4, <3>5, <3>7, SameQueue DEF Orderly
  <2> QED
    BY <2>2, <2>3
<1>3. CASE __set_tohost(h)
  <2>1. /\ hart[h].at = "set"
        /\ htif_lock' = htif_lock /\ host' = host /\ typed' = typed /\ got' = got
    BY <1>3, SetFacts
  <2>2. CASE ~RequestPosted(h)
    <3>1. /\ tohost' = tohost /\ GoTo(h, "busy")
          /\ fromhost' = fromhost /\ htif_console_buf' = htif_console_buf
      BY <1>3, <2>2, SetFacts
    <3>2. /\ Holder.op = hart[h].op /\ Holder.at = "set"
          /\ Holder'.op = hart[h].op /\ Holder'.at = "busy"
      BY <2>1, <3>1, HolderMoves DEF Locked
    <3> QED
      BY <2>1, <3>1, <3>2, OrderlyFrame
  <2>3. CASE RequestPosted(h)
    <3>1. PICK line \in {"unlock", "wait"} :
            GoTo(h, line) /\ (line = "wait" <=> hart[h].op = "syscall")
      BY <2>3 DEF RequestPosted
    <3>2. /\ Holder.op = hart[h].op /\ Holder.at = "set"
          /\ Holder'.op = hart[h].op /\ Holder'.at = line
      BY <2>1, <3>1, HolderMoves DEF Locked
    <3>3. tohost = Zero /\ fromhost' = fromhost /\ htif_console_buf' = htif_console_buf
      BY <2>3 DEF RequestPosted
    <3>4. /\ tohost' = ReadRequest <=> hart[h].op = "getchar"
          /\ tohost' = SysRequest <=> hart[h].op = "syscall"
      <4>1. ReadRequest # SysRequest /\ \A c : PutRequest(c) \notin {ReadRequest, SysRequest}
        BY DEF ReadRequest, SysRequest, PutRequest, TOHOST_CMD
      <4> QED
        BY <2>3, <4>1 DEF RequestPosted
    <3>5. OneRead'
      BY <1>0, <2>1, <3>2, <3>3, <3>4, SameQueue DEF Orderly, OneRead, Count
    <3>6. OneSyscall'
      BY <1>0, <2>1, <3>1, <3>2, <3>3, <3>4, SameQueue DEF Orderly, OneSyscall, Count
    <3>7. CharKept'
      BY <2>1, <3>3, SameQueue DEF Orderly, CharKept
    <3> QED
      BY <2>1, <3>2, <3>5, <3>6, <3>7, SameQueue DEF Orderly
  <2> QED
    BY <1>3, <2>2, <2>3, SetFacts
<1>4. CASE do_tohost_fromhost(h)
  <2>1. /\ hart[h].at = "wait" /\ hart[h].op = "syscall" /\ htif_console_buf' = htif_console_buf
        /\ tohost' = tohost /\ htif_lock' = htif_lock /\ host' = host
        /\ typed' = typed /\ got' = got /\ fromhost # Zero
    BY <1>4 DEF do_tohost_fromhost, At
  <2>2. fromhost = SysRequest \/ (fromhost.dev = 1 /\ fromhost.cmd = 0)
    BY <2>1 DEF Basic, WordsOK, ConsoleReply, TOHOST_CMD
  <2>3. CASE fromhost = SysRequest
    <3>1. fromhost.dev = 0 /\ fromhost.cmd = 0
      BY <2>3 DEF SysRequest, TOHOST_CMD
    <3>2. GoTo(h, "unlock") /\ fromhost' = Zero
      BY <1>4, <3>1 DEF do_tohost_fromhost
    <3>3. /\ Holder.op = hart[h].op /\ Holder.at = "wait"
          /\ Holder'.op = hart[h].op /\ Holder'.at = "unlock"
      BY <2>1, <3>2, HolderMoves DEF Locked
    <3>4. OneRead'
      BY <1>0, <2>1, <3>1, <3>2, <3>3, SameQueue DEF Orderly, OneRead, Count
    <3>5. OneSyscall'
      <4>1. tohost # SysRequest /\ ~HasReply(0)
        BY <2>3, SyscallPlaces
      <4> QED
        BY <1>0, <2>1, <3>2, <3>3, <4>1, SameQueue DEF OneSyscall, Count
    <3>6. CharKept'
      BY <1>0, <2>1, <3>1, <3>2, SameQueue DEF Orderly, CharKept
    <3> QED
      BY <2>1, <3>3, <3>4, <3>5, <3>6, SameQueue DEF Orderly
  <2>4. CASE fromhost.dev = 1 /\ fromhost.cmd = 0
    <3>1. GoTo(h, "check") /\ fromhost' = fromhost
      BY <1>4, <2>4 DEF do_tohost_fromhost
    <3>2. /\ Holder.op = hart[h].op /\ Holder.at = "wait"
          /\ Holder'.op = hart[h].op /\ Holder'.at = "check"
      BY <2>1, <3>1, HolderMoves DEF Locked
    <3> QED
      BY <2>1, <2>4, <3>1, <3>2, OrderlyFrame
  <2> QED
    BY <2>2, <2>3, <2>4
<1> QED
  BY <1>1, <1>2, <1>3, <1>4

(* A reply queued behind the others of which none is its device's. *)
LEMMA ReplyQueued ==
  ASSUME Basic, Orderly, NEW w \in Words, host'.replies = Append(host.replies, w),
         NEW dev \in {0, 1}, w.dev = dev, ~HasReply(dev)
  PROVE  /\ HasReply(dev)' /\ (HasReply(1 - dev)' <=> HasReply(1 - dev))
         /\ RepliesUnique'
         /\ \A i \in 1 .. Len(host'.replies) :
              \/ host'.replies[i] = w
              \/ \E j \in 1 .. Len(host.replies) : host'.replies[i] = host.replies[j]
<1> DEFINE s == host.replies
           r == host'.replies
<1>1. s \in Seq(Words)
  BY DEF Basic, HtifTypeOK
<1>2. /\ Len(r) = Len(s) + 1 /\ Len(s) \in Nat
      /\ \A i \in 1 .. Len(s) : r[i] = s[i]
      /\ r[Len(s) + 1] = w
  BY <1>1, AppendFacts
<1>3. \A i \in 1 .. Len(s) : s[i].dev # dev
  BY DEF HasReply
<1>4. RepliesUnique'
  <2> SUFFICES ASSUME NEW i \in 1 .. Len(r), NEW j \in 1 .. Len(r), r[i].dev = r[j].dev
               PROVE  i = j
    BY DEF RepliesUnique
  <2>1. CASE i \in 1 .. Len(s) /\ j \in 1 .. Len(s)
    BY <1>2, <2>1 DEF Orderly, RepliesUnique
  <2>2. CASE i = Len(s) + 1
    BY <1>2, <1>3, <2>2
  <2>3. CASE j = Len(s) + 1
    BY <1>2, <1>3, <2>3
  <2> QED
    BY <1>2, <2>1, <2>2, <2>3
<1>5. HasReply(dev)'
  BY <1>2 DEF HasReply
<1>6. HasReply(1 - dev)' <=> HasReply(1 - dev)
  <2>1. 1 - dev # dev
    OBVIOUS
  <2>2. \A i \in 1 .. Len(r) : i \in 1 .. Len(s) \/ r[i].dev = dev
    BY <1>2
  <2>3. 1 .. Len(s) \subseteq 1 .. Len(r)
    BY <1>2
  <2> QED
    BY <1>2, <2>1, <2>2, <2>3 DEF HasReply
<1>7. \A i \in 1 .. Len(r) : r[i] = w \/ \E j \in 1 .. Len(s) : r[i] = s[j]
  BY <1>2
<1> QED
  BY <1>4, <1>5, <1>6, <1>7

(* The host's steps keep the state orderly (the other side of htif.c). *)
LEMMA HostOrderly ==
  ASSUME Basic, Orderly, HostStep
  PROVE  Orderly'
<1>0. /\ Zero.dev = 0 /\ Zero # SysRequest /\ Zero # ReadRequest
      /\ ReadRequest # SysRequest /\ ExitRequest \notin {ReadRequest, SysRequest}
      /\ \A c : PutRequest(c) \notin {ReadRequest, SysRequest}
      /\ SysRequest.dev = 0
  BY DEF Zero, SysRequest, ReadRequest, ExitRequest, PutRequest, TOHOST_CMD
<1>1. Holder' = Holder /\ htif_console_buf' = htif_console_buf /\ got' = got
  BY DEF HostStep, HostExits, HostSyscall, HostRead, HostReplies, HostWrite, UserTypes,
       HostTakes, Holder
<1>2. host.reads \in Nat /\ host.replies \in Seq(Words) /\ Len(host.replies) \in Nat
  BY DEF Basic, HtifTypeOK
<1>3. CASE HostExits \/ \E c \in Chars : HostWrite(c)
  <2>1. /\ tohost \notin {ReadRequest, SysRequest} /\ tohost' = Zero
        /\ fromhost' = fromhost /\ typed' = typed
    BY <1>0, <1>3 DEF HostExits, HostWrite, HostTakes, ExitRequest, PutRequest
  <2>2. host'.replies = host.replies /\ host'.reads = host.reads
    BY <1>3 DEF HostExits, HostWrite, Basic, HtifTypeOK
  <2>3. (HasReply(0)' <=> HasReply(0)) /\ (HasReply(1)' <=> HasReply(1)) /\ RepliesUnique'
    BY <2>2 DEF HasReply, Orderly, RepliesUnique
  <2>4. OneRead'
    BY <1>0, <1>1, <2>1, <2>2, <2>3 DEF Orderly, OneRead, Count
  <2>5. OneSyscall'
    BY <1>0, <1>1, <2>1, <2>3 DEF Orderly, OneSyscall, Count
  <2>6. CharKept'
    BY <1>1, <2>1, <2>2, <2>3 DEF Orderly, CharKept
  <2> QED
    BY <1>1, <2>1, <2>3, <2>4, <2>5, <2>6 DEF Orderly
<1>4. CASE HostSyscall
  <2>1. /\ tohost = SysRequest /\ tohost' = Zero
        /\ fromhost' = fromhost /\ typed' = typed
        /\ host' = [host EXCEPT !.replies = Append(host.replies, SysRequest)]
    BY <1>4 DEF HostSyscall, HostTakes, SysRequest
  <2>2. host'.replies = Append(host.replies, SysRequest) /\ host'.reads = host.reads
    BY <2>1 DEF Basic, HtifTypeOK
  <2>3. ~HasReply(0) /\ fromhost # SysRequest
    BY <2>1, SyscallPlaces
  <2>4. /\ HasReply(0)' /\ (HasReply(1)' <=> HasReply(1)) /\ RepliesUnique'
        /\ \A i \in 1 .. Len(host'.replies) :
              \/ host'.replies[i] = SysRequest
              \/ \E j \in 1 .. Len(host.replies) : host'.replies[i] = host.replies[j]
    <3>1. 1 - 0 = 1
      OBVIOUS
    <3> QED
      BY <1>0, <2>2, <2>3, <3>1, WordFacts, ReplyQueued
  <2>5. OneRead'
    BY <1>0, <1>1, <2>1, <2>2, <2>4 DEF Orderly, OneRead, Count
  <2>6. OneSyscall'
    BY <1>0, <1>1, <2>1, <2>3, <2>4 DEF Orderly, OneSyscall, Count
  <2>7. CharKept'
    BY <1>0, <1>1, <2>1, <2>4 DEF Orderly, CharKept
  <2> QED
    BY <1>1, <2>1, <2>4, <2>5, <2>6, <2>7 DEF Orderly
<1>5. CASE HostRead
  <2>1. /\ tohost = ReadRequest /\ tohost' = Zero
        /\ fromhost' = fromhost /\ typed' = typed
        /\ host' = [host EXCEPT !.reads = @ + 1]
    BY <1>5 DEF HostRead, HostTakes, ReadRequest
  <2>2. host'.replies = host.replies /\ host'.reads = host.reads + 1
    BY <2>1 DEF Basic, HtifTypeOK
  <2>3. (HasReply(0)' <=> HasReply(0)) /\ (HasReply(1)' <=> HasReply(1)) /\ RepliesUnique'
    BY <2>2 DEF HasReply, Orderly, RepliesUnique
  <2>4. OneRead'
    BY <1>0, <1>1, <1>2, <2>1, <2>2, <2>3 DEF Orderly, OneRead, Count
  <2>5. OneSyscall'
    BY <1>0, <1>1, <2>1, <2>3 DEF Orderly, OneSyscall, Count
  <2>6. CharKept'
    BY <1>1, <2>1, <2>2, <2>3 DEF Orderly, CharKept
  <2> QED
    BY <1>1, <2>1, <2>3, <2>4, <2>5, <2>6 DEF Orderly
<1>6. ASSUME NEW c \in Chars, UserTypes(c) PROVE Orderly'
  <2> DEFINE w == TOHOST_CMD(1, 0, c)
  <2>1. /\ tohost' = tohost /\ fromhost' = fromhost
        /\ typed' = Append(typed, c)
        /\ host' = [host EXCEPT !.reads = @ - 1, !.replies = Append(host.replies, w)]
        /\ host.reads > 0
    BY <1>6 DEF UserTypes
  <2>2. w \in Words /\ w.dev = 1 /\ w.data = c
    BY WordFacts DEF TOHOST_CMD
  <2> HIDE DEF w
  <2>3. host'.replies = Append(host.replies, w) /\ host'.reads = host.reads - 1
    BY <2>1 DEF Basic, HtifTypeOK
  <2>4. /\ ~(Holder.op = "getchar" /\ Holder.at \in {"set", "busy"})
        /\ tohost # ReadRequest /\ host.reads = 1 /\ ~HasReply(1)
        /\ fromhost.dev # 1 /\ htif_console_buf = Unset
    BY <2>1, ReadPlaces
  <2>5. /\ HasReply(1)' /\ (HasReply(0)' <=> HasReply(0)) /\ RepliesUnique'
        /\ \A i \in 1 .. Len(host'.replies) :
              \/ host'.replies[i] = w
              \/ \E j \in 1 .. Len(host.replies) : host'.replies[i] = host.replies[j]
    <3>1. 1 - 1 = 0
      OBVIOUS
    <3> QED
      BY <2>2, <2>3, <2>4, <3>1, ReplyQueued
  <2>6. OneRead'
    BY <1>1, <2>1, <2>3, <2>4, <2>5 DEF OneRead, Count
  <2>7. OneSyscall'
    BY <1>1, <2>1, <2>5 DEF Orderly, OneSyscall, Count
  <2>8. CharKept'
    <3>1. Unset \notin Chars
      BY HtifAssumption DEF Unset
    <3>2. typed' = Append(got', c)
      BY <1>1, <2>1, <2>4, <3>1 DEF Orderly, CharKept
    <3>3. \A i \in 1 .. Len(host'.replies) : host'.replies[i].dev = 1 => host'.replies[i] = w
      BY <2>4, <2>5 DEF HasReply
    <3> QED
      BY <1>1, <2>1, <2>2, <2>4, <2>5, <3>1, <3>2, <3>3 DEF CharKept
  <2> QED
    BY <1>1, <2>1, <2>5, <2>6, <2>7, <2>8 DEF Orderly
<1>7. CASE HostReplies
  <2> DEFINE s == host.replies
             r == host'.replies
  <2>1. /\ tohost' = tohost /\ fromhost = Zero /\ fromhost' = Head(s)
        /\ typed' = typed /\ s # <<>>
        /\ host' = [host EXCEPT !.replies = Tail(s)]
    BY <1>7 DEF HostReplies
  <2>2. r = Tail(s) /\ host'.reads = host.reads
    BY <2>1 DEF Basic, HtifTypeOK
  <2>3. /\ fromhost' = s[1] /\ Len(s) > 0 /\ Len(r) = Len(s) - 1
        /\ \A i \in 1 .. Len(s) - 1 : r[i] = s[i + 1]
    BY <1>2, <2>1, <2>2, TailFacts
  <2>4. \A i, j \in 1 .. Len(s) : s[i].dev = s[j].dev => i = j
    BY DEF Orderly, RepliesUnique
  <2>5. s[1] = SysRequest \/ (s[1].dev = 1 /\ s[1] # SysRequest)
    <3>1. s[1] = SysRequest \/ ConsoleReply(s[1])
      BY <1>2, <2>3 DEF Basic, WordsOK
    <3>2. ASSUME ConsoleReply(s[1]) PROVE s[1].dev = 1
      <4>1. PICK c \in Chars : s[1] = TOHOST_CMD(1, 0, c)
        BY <3>2 DEF ConsoleReply
      <4> QED
        BY <4>1 DEF TOHOST_CMD
    <3> QED
      BY <1>0, <3>1, <3>2
  <2>6. \A i \in 1 .. Len(r) : \E j \in 2 .. Len(s) : r[i] = s[j]
    <3> SUFFICES ASSUME NEW i \in 1 .. Len(r) PROVE i + 1 \in 2 .. Len(s) /\ r[i] = s[i + 1]
      OBVIOUS
    <3> QED
      BY <1>2, <2>3
  <2>7. \A j \in 2 .. Len(s) : \E i \in 1 .. Len(r) : r[i] = s[j]
    <3> SUFFICES ASSUME NEW j \in 2 .. Len(s) PROVE j - 1 \in 1 .. Len(r) /\ r[j - 1] = s[j]
      OBVIOUS
    <3>1. j - 1 \in 1 .. Len(s) - 1 /\ (j - 1) + 1 = j
      BY <1>2
    <3> QED
      BY <1>2, <2>3, <3>1
  <2>8. RepliesUnique'
    <3> SUFFICES ASSUME NEW i \in 1 .. Len(r), NEW j \in 1 .. Len(r), r[i].dev = r[j].dev
                 PROVE  i = j
      BY DEF RepliesUnique
    <3>0. i \in 1 .. Len(s) - 1 /\ j \in 1 .. Len(s) - 1
      BY <2>3
    <3>1. r[i] = s[i + 1] /\ r[j] = s[j + 1] /\ i + 1 \in 1 .. Len(s) /\ j + 1 \in 1 .. Len(s)
      BY <1>2, <2>3, <3>0
    <3>2. i + 1 = j + 1
      BY <2>4, <3>1
    <3> QED
      BY <3>2
  <2>9. \A dev \in {0, 1} :
           /\ s[1].dev = dev => HasReply(dev) /\ ~HasReply(dev)'
           /\ s[1].dev # dev => (HasReply(dev)' <=> HasReply(dev))
    <3> SUFFICES ASSUME NEW dev \in {0, 1}
                 PROVE  /\ s[1].dev = dev => HasReply(dev) /\ ~HasReply(dev)'
                        /\ s[1].dev # dev => (HasReply(dev)' <=> HasReply(dev))
      OBVIOUS
    <3>1. 1 \in 1 .. Len(s) /\ \A j \in 2 .. Len(s) : j \in 1 .. Len(s) /\ j # 1
      BY <1>2, <2>3
    <3>2. \A j \in 1 .. Len(s) : j = 1 \/ j \in 2 .. Len(s)
      BY <1>2
    <3>3. CASE s[1].dev = dev
      <4>1. HasReply(dev)
        BY <3>1, <3>3 DEF HasReply
      <4>2. \A j \in 2 .. Len(s) : s[j].dev # dev
        BY <2>4, <3>1, <3>3
      <4> QED
        BY <2>6, <3>3, <4>1, <4>2 DEF HasReply
    <3>4. CASE s[1].dev # dev
      <4>1. ASSUME NEW i \in 1 .. Len(r), r[i].dev = dev
            PROVE  \E j \in 1 .. Len(s) : s[j].dev = dev
        BY <2>6, <3>1, <4>1
      <4>2. ASSUME NEW j \in 1 .. Len(s), s[j].dev = dev
            PROVE  \E i \in 1 .. Len(r) : r[i].dev = dev
        <5>1. j \in 2 .. Len(s)
          BY <3>2, <3>4, <4>2
        <5> QED
          BY <2>7, <4>2, <5>1
      <4>3. HasReply(dev)' <=> HasReply(dev)
        BY <4>1, <4>2 DEF HasReply
      <4> QED
        BY <3>4, <4>3
    <3> QED
      BY <3>3, <3>4
  <2>10. \A i \in 1 .. Len(r) : \E j \in 1 .. Len(s) : r[i] = s[j]
    <3>1. 2 .. Len(s) \subseteq 1 .. Len(s)
      BY <1>2
    <3> QED
      BY <2>6, <3>1
  <2>11. CharKept'
    <3>1. \A i \in 1 .. Len(s) : s[i].dev = 1 => typed = Append(got, s[i].data)
      BY DEF Orderly, CharKept
    <3>2. \A i \in 1 .. Len(r) : r[i].dev = 1 => typed' = Append(got', r[i].data)
      BY <1>1, <2>1, <2>10, <3>1
    <3>3. fromhost'.dev = 1 => typed' = Append(got', fromhost'.data)
      <4>1. 1 \in 1 .. Len(s)
        BY <1>2, <2>3
      <4> QED
        BY <1>1, <2>1, <2>3, <3>1, <4>1
    <3>4. htif_console_buf' \in Chars => typed' = Append(got', htif_console_buf')
      BY <1>1, <2>1 DEF Orderly, CharKept
    <3>5. htif_console_buf' \notin Chars /\ fromhost'.dev # 1 /\ ~HasReply(1)' => typed' = got'
      <4>1. fromhost'.dev # 1 /\ ~HasReply(1)' => ~HasReply(1)
        BY <2>3, <2>9
      <4>2. fromhost.dev # 1
        BY <1>0, <2>1
      <4> QED
        BY <1>1, <2>1, <4>1, <4>2 DEF Orderly, CharKept
    <3> QED
      BY <3>2, <3>3, <3>4, <3>5 DEF CharKept
  <2>12. ~(Holder'.op = "syscall" /\ Holder'.at = "check")
    BY <1>0, <1>1, <2>1 DEF Orderly
  <2>13. OneRead' /\ OneSyscall'
    <3>1. CASE s[1] = SysRequest
      <4>1. /\ HasReply(0) /\ ~HasReply(0)' /\ (HasReply(1)' <=> HasReply(1))
            /\ fromhost'.dev = 0 /\ fromhost' = SysRequest
        BY <1>0, <2>3, <2>9, <3>1
      <4>2. OneRead'
        BY <1>0, <1>1, <2>1, <2>2, <4>1 DEF Orderly, OneRead, Count
      <4>3. OneSyscall'
        BY <1>0, <1>1, <2>1, <4>1 DEF Orderly, OneSyscall, Count
      <4> QED
        BY <4>2, <4>3
    <3>2. CASE s[1].dev = 1 /\ s[1] # SysRequest
      <4>1. /\ HasReply(1) /\ ~HasReply(1)' /\ (HasReply(0)' <=> HasReply(0))
            /\ fromhost'.dev = 1 /\ fromhost' # SysRequest
        BY <2>3, <2>9, <3>2
      <4>2. OneRead'
        BY <1>0, <1>1, <1>2, <2>1, <2>2, <4>1 DEF Orderly, OneRead, Count
      <4>3. OneSyscall'
        BY <1>0, <1>1, <2>1, <4>1 DEF Orderly, OneSyscall, Count
      <4> QED
        BY <4>2, <4>3
    <3> QED
      BY <2>5, <3>1, <3>2
  <2> QED
    BY <1>1, <2>8, <2>11, <2>12, <2>13 DEF Orderly
<1> QED
  BY <1>3, <1>4, <1>5, <1>6, <1>7 DEF HostStep

-----------------------------------------------------------------------------
(* The theorems.                                                           *)

(* Every step of a hart or of the host keeps the whole invariant (htif.c). *)
LEMMA HtifStep == HtifInv /\ [HtifNext]_htifVars => HtifInv'
<1> SUFFICES ASSUME HtifInv, [HtifNext]_htifVars PROVE HtifInv'
  OBVIOUS
<1>1. Basic
  BY DEF HtifInv, Basic
<1>2. CASE UNCHANGED htifVars
  <2>1. HtifTypeOK'
    BY <1>2 DEF HtifInv, htifVars, HtifTypeOK
  <2>2. WordsOK' /\ HartsOK' /\ PutOK'
    BY <1>2 DEF HtifInv, htifVars, WordsOK, HartsOK, PutOK
  <2>3. Orderly' <=> Orderly
    BY <1>2 DEF htifVars, Orderly, Holder, OneRead, OneSyscall, RepliesUnique, CharKept, HasReply
  <2>4. SomeoneHalts' <=> SomeoneHalts
    BY <1>2 DEF htifVars, SomeoneHalts
  <2> QED
    BY <2>1, <2>2, <2>3, <2>4 DEF HtifInv
<1>3. CASE HtifNext
  <2>1. Basic'
    BY <1>1, <1>3, CallBasic, HostBasic, LockBasic, BodyBasic, PoweroffBasic
       DEF HtifNext, HartStep
  <2>2. ASSUME ~SomeoneHalts' PROVE Orderly'
    <3>1. ~SomeoneHalts /\ \A h \in Harts : ~PoweroffClear(h) /\ ~PoweroffShout(h)
      BY <1>1, <1>3, <2>2, PoweroffStays
    <3>2. Orderly
      BY <3>1 DEF HtifInv
    <3> QED
      BY <1>1, <1>3, <3>1, <3>2, HostOrderly, CallOrderly, BodyOrderly DEF HtifNext, HartStep
  <2> QED
    BY <2>1, <2>2 DEF Basic, HtifInv
<1> QED
  BY <1>2, <1>3

(* A character appended is the only one at the end (the histories). *)
LEMMA AppendForms ==
  ASSUME NEW S, NEW s \in Seq(S), NEW c \in S
  PROVE  /\ s \o <<c>> = Append(s, c)
         /\ Append(s, c) # <<>>
         /\ SubSeq(Append(s, c), 1, Len(Append(s, c)) - 1) = s
<1> DEFINE a == Append(s, c)
           n == Len(s)
<1>1. a \in Seq(S) /\ Len(a) = n + 1 /\ n \in Nat /\ (\A i \in 1 .. n : a[i] = s[i])
  BY AppendFacts
<1>2. s \o <<c>> = a
  OBVIOUS
<1>3. a # <<>>
  BY <1>1, EmptySeq
<1>4. SubSeq(a, 1, n) = s
  <2> DEFINE b == SubSeq(a, 1, n)
  <2> HIDE DEF a
  <2>1. 1 \in Int /\ n \in Int /\ \A i \in 1 .. n : a[i] \in S
    BY <1>1, ElementOfSeq
  <2>2. b \in Seq(S) /\ Len(b) = n /\ \A i \in 1 .. n : b[i] = a[i]
    <3>1. /\ b \in Seq(S)
          /\ Len(b) = IF 1 <= n THEN n - 1 + 1 ELSE 0
          /\ \A i \in 1 .. n - 1 + 1 : b[i] = a[1 + i - 1]
      BY <2>1, SubSeqProperties
    <3> HIDE DEF b, n
    <3>2. n - 1 + 1 = n /\ \A i \in 1 .. n : 1 + i - 1 = i
      BY <1>1
    <3>3. Len(b) = n
      BY <1>1, <3>1
    <3> QED
      BY <3>1, <3>2, <3>3
  <2> HIDE DEF b
  <2> QED
    BY <1>1, <2>2, SeqEqual DEF b
<1> QED
  <2>1. Len(a) - 1 = n
    BY <1>1
  <2> QED
    BY <1>2, <1>3, <1>4, <2>1

(* The invariant implies that no assertion on a reply fails. *)
LEMMA InvNoAborts == HtifInv => NoHartAborts
<1> SUFFICES ASSUME HtifInv, ~SomeoneHalts, NEW h \in Harts PROVE hart[h].at # "abort"
  BY DEF NoHartAborts
<1>1. Basic /\ Holder.at # "abort"
  BY DEF HtifInv, Basic, Orderly
<1> QED
  BY <1>1, HolderFacts DEF Locked

(* The invariant implies that no character is lost: of the buffer,         *)
(* fromhost and the queue at most one holds a character (htif.c:46-63).    *)
LEMMA InvNoCharLost == HtifInv => NoCharLost
<1> SUFFICES ASSUME HtifInv PROVE NoCharLost
  OBVIOUS
<1>1. Basic
  BY DEF HtifInv, Basic
<1>2. typed \in Seq(Chars) /\ got \in Seq(Chars) /\ put \in Seq(Chars) /\ printed \in Seq(Chars)
  BY DEF HtifInv, HtifTypeOK
<1>3. printed = put \/ (put # <<>> /\ printed = SubSeq(put, 1, Len(put) - 1))
  BY <1>2, AppendForms DEF HtifInv, PutOK
<1>4. ASSUME ~SomeoneHalts
      PROVE  /\ typed = got \o Buffered \o Pending(fromhost) \o QueuedChars
             /\ \A i, j \in ConsoleReplies : i = j
  <2>1. Orderly
    BY <1>4 DEF HtifInv
  <2>2. DOMAIN host.replies = 1 .. Len(host.replies)
    BY DEF HtifInv, HtifTypeOK
  <2>3. \A i, j \in ConsoleReplies : i = j
    BY <2>1, <2>2 DEF ConsoleReplies, Orderly, RepliesUnique
  <2>4. HasReply(1) <=> ConsoleReplies # {}
    BY <2>2 DEF ConsoleReplies, HasReply
  <2>5. Unset \notin Chars /\ NoChar \notin Chars
    BY HtifAssumption DEF Unset, NoChar
  <2>6. /\ \A s \in Seq(Chars) : s \o <<>> = s
        /\ \A s \in Seq(Chars), c \in Chars : s \o <<c>> = Append(s, c) /\ Append(s, c) \in Seq(Chars)
    BY ConcatEmptySeq, AppendForms, AppendFacts
  <2>7. CASE htif_console_buf \in Chars
    <3>1. fromhost.dev # 1 /\ ~HasReply(1)
      BY <1>1, <2>1, <2>5, <2>7, ReadPlaces
    <3>2. /\ Buffered = <<htif_console_buf>> /\ Pending(fromhost) = <<>> /\ QueuedChars = <<>>
      BY <2>4, <2>5, <2>7, <3>1 DEF Buffered, Pending, QueuedChars
    <3>3. typed = Append(got, htif_console_buf)
      BY <2>1, <2>7 DEF Orderly, CharKept
    <3> QED
      BY <1>2, <2>3, <2>6, <2>7, <3>2, <3>3
  <2>8. CASE fromhost.dev = 1
    <3>1. htif_console_buf = Unset /\ ~HasReply(1)
      BY <1>1, <2>1, <2>8, ReadPlaces
    <3>2. fromhost # Zero /\ fromhost.data \in Chars
      <4>1. Zero.dev = 0 /\ SysRequest.dev = 0
        BY DEF Zero, SysRequest, TOHOST_CMD
      <4>2. ConsoleReply(fromhost)
        BY <2>8, <4>1 DEF HtifInv, WordsOK
      <4> QED
        BY <2>8, <4>1, <4>2 DEF ConsoleReply, TOHOST_CMD
    <3>3. /\ Buffered = <<>> /\ Pending(fromhost) = <<fromhost.data>> /\ QueuedChars = <<>>
      BY <2>4, <2>8, <3>1, <3>2 DEF Buffered, Pending, QueuedChars
    <3>4. typed = Append(got, fromhost.data)
      BY <2>1, <2>8 DEF Orderly, CharKept
    <3> QED
      BY <1>2, <2>3, <2>6, <3>2, <3>3, <3>4
  <2>9. CASE HasReply(1)
    <3>1. htif_console_buf = Unset /\ fromhost.dev # 1
      BY <1>1, <2>1, <2>9, ReadPlaces
    <3> DEFINE k == CHOOSE i \in ConsoleReplies : TRUE
    <3>2. k \in ConsoleReplies
      BY <2>4, <2>9
    <3>3. QueuedChars = <<host.replies[k].data>>
      BY <2>4, <2>9 DEF QueuedChars
    <3> HIDE DEF k
    <3>4. k \in 1 .. Len(host.replies) /\ host.replies[k].dev = 1
      BY <2>2, <3>2 DEF ConsoleReplies
    <3>5. host.replies[k].data \in Chars
      <4>1. SysRequest.dev = 0
        BY DEF SysRequest, TOHOST_CMD
      <4>2. ConsoleReply(host.replies[k])
        BY <3>4, <4>1 DEF HtifInv, WordsOK
      <4>3. PICK c \in Chars : host.replies[k] = TOHOST_CMD(1, 0, c)
        BY <4>2 DEF ConsoleReply
      <4> QED
        BY <4>3 DEF TOHOST_CMD
    <3>6. Buffered = <<>> /\ Pending(fromhost) = <<>>
      BY <3>1 DEF Buffered, Pending
    <3>7. typed = Append(got, host.replies[k].data)
      BY <2>1, <3>4 DEF Orderly, CharKept
    <3> DEFINE c == host.replies[k].data
    <3>8. c \in Chars /\ QueuedChars = <<c>> /\ typed = Append(got, c)
      BY <3>3, <3>5, <3>7
    <3> HIDE DEF c
    <3> QED
      BY <1>2, <2>3, <2>6, <3>6, <3>8
  <2>10. CASE htif_console_buf \notin Chars /\ fromhost.dev # 1 /\ ~HasReply(1)
    <3>1. typed = got
      BY <2>1, <2>10 DEF Orderly, CharKept
    <3>2. htif_console_buf \in {Unset, NoChar}
      BY <2>10 DEF HtifInv, HtifTypeOK
    <3>3. Buffered = <<>> /\ Pending(fromhost) = <<>> /\ QueuedChars = <<>>
      BY <2>4, <2>10, <3>2 DEF Buffered, Pending, QueuedChars
    <3> QED
      BY <1>2, <2>3, <2>6, <3>1, <3>3
  <2> QED
    BY <2>7, <2>8, <2>9, <2>10
<1> QED
  BY <1>3, <1>4 DEF NoCharLost

(* However many harts call getchar, putchar and system calls, and however  *)
(* they interleave with each other and with the host, no assertion on a    *)
(* reply fails unless some hart switches the machine off (htif.c:26-35 and *)
(* 70-79).                                                                 *)
THEOREM RepliesReachTheirCallers == HtifSpec => [](HtifTypeOK /\ NoHartAborts)
<1>1. HtifInit => HtifInv
  BY HtifInitInv
<1>2. HtifInv /\ [HtifNext]_htifVars => HtifInv'
  BY HtifStep
<1>3. HtifInv => HtifTypeOK /\ NoHartAborts
  BY InvNoAborts DEF HtifInv
<1> QED
  BY <1>1, <1>2, <1>3, PTL DEF HtifSpec

(* Every character typed is returned by getchar once and in order, and     *)
(* what is printed is what was put, but for the last character at most     *)
(* (htif.c:39-63, 105-111).                                                *)
THEOREM ConsoleLosesNothing == HtifSpec => []NoCharLost
<1>1. HtifInit => HtifInv
  BY HtifInitInv
<1>2. HtifInv /\ [HtifNext]_htifVars => HtifInv'
  BY HtifStep
<1>3. HtifInv => NoCharLost
  BY InvNoCharLost
<1> QED
  BY <1>1, <1>2, <1>3, PTL DEF HtifSpec

-----------------------------------------------------------------------------
(* Start-up *)

BootPath == {"bootstack", "percpu", "ready"}

(* The CPU that mpe_init is waiting for: its requests are on their way, it *)
(* runs through the boot path, or it has reported.                         *)
Waking(c) ==
  \/ at[c] = "reset" /\ "STARTUP" \in ipi[c] /\ ap_ready = 0
  \/ at[c] \in {"record"} \cup BootPath /\ ipi[c] = {} /\ ap_ready = 0
  \/ at[c] = "user" /\ ipi[c] = {} /\ ap_ready = 1

(* As long as nobody has halted, CPUs below next_cpu are in the program,   *)
(* those above have not been woken, and only the one in between moves.     *)
Starting ==
  /\ at[0] \in {"bootstack", "main", "mpe", "poll", "user"} /\ ipi[0] = {}
  /\ at[0] \in {"bootstack", "main"} => next_cpu = 1 /\ is_ap = 0
  /\ at[0] = "user" => next_cpu = ncpu
  /\ at[0] # "poll" => ap_ready = 0
  /\ \A c \in CPUs \ {0} :
       /\ c < next_cpu => at[c] = "user" /\ ipi[c] = {}
       /\ c > next_cpu \/ (c = next_cpu /\ at[0] # "poll") => at[c] = "reset" /\ ipi[c] = {}
       /\ c = next_cpu /\ at[0] = "poll" => Waking(c)

(* Somebody has halted: the boot record leads nowhere any more. *)
Stopping ==
  /\ at[0] \notin {"bootstack", "main"}
  /\ \A c, d \in CPUs : at[c] \in BootPath /\ at[d] \in BootPath => c = d

BootInv ==
  /\ X86BootTypeOK
  /\ at[0] = "poll" => next_cpu < ncpu /\ is_ap = 1
  /\ \A c \in CPUs \ {0} : /\ at[c] \notin {"main", "mpe", "poll"}
                           /\ at[c] = "bootstack" => is_ap = 1
  /\ jmp_code = "boot" => Starting
  /\ jmp_code = "self" => Stopping

(* CPU 0 is a CPU, and so is every CPU that mpe_init starts (mpe.c:12-33). *)
LEMMA BootFacts ==
  /\ ncpu \in Nat \ {0} /\ 0 \in CPUs /\ CPUs \subseteq Nat
  /\ \A n \in 1 .. ncpu : n < ncpu => n \in CPUs \ {0}
  BY X86BootAssumption DEF CPUs

(* After power-on CPU 0 alone is in the boot path (mpe.c:12-33). *)
LEMMA BootInitInv == X86BootInit => BootInv
  <1> SUFFICES ASSUME X86BootInit PROVE BootInv
    OBVIOUS
  <1>1. X86BootTypeOK
    BY BootFacts DEF X86BootInit, X86BootTypeOK
  <1>2. Starting
    BY BootFacts DEF X86BootInit, Starting
  <1>3. QED
    BY <1>1, <1>2, BootFacts DEF X86BootInit, BootInv

(* mpe_init and its loop. *)
LEMMA MpeSteps == ASSUME BootInv, mpe_init \/ WakeNext \/ PollReady PROVE BootInv'
  <1> USE BootFacts
  <1>0. /\ X86BootTypeOK /\ next_cpu \in Nat /\ next_cpu >= 1
    BY DEF BootInv, X86BootTypeOK
  <1>1. CASE mpe_init
    <2>1. at[0] = "main" /\ at' = [at EXCEPT ![0] = "mpe"] /\ jmp_code' = "boot"
          /\ UNCHANGED <<ipi, is_ap, ap_ready, next_cpu, stopped, power>>
      BY <1>1 DEF mpe_init, Runs
    <2>2. jmp_code = "boot" /\ Starting
      BY <2>1 DEF BootInv, Stopping, X86BootTypeOK
    <2>3. at'[0] = "mpe" /\ \A c \in CPUs \ {0} : at'[c] = at[c]
      BY <1>0, <2>1 DEF X86BootTypeOK
    <2>4. X86BootTypeOK'
      BY <1>0, <2>1 DEF X86BootTypeOK
    <2>5. Starting'
      BY <1>0, <2>1, <2>2, <2>3 DEF Starting
    <2>6. QED
      BY <2>1, <2>3, <2>4, <2>5 DEF BootInv
  <1>2. CASE WakeNext
    <2>1. /\ at[0] = "mpe"
          /\ at' = [at EXCEPT ![0] = IF next_cpu < ncpu THEN "poll" ELSE "user"]
          /\ IF next_cpu < ncpu
             THEN is_ap' = 1 /\ ipi' = [ipi EXCEPT ![next_cpu] = {"INIT", "STARTUP"}]
             ELSE UNCHANGED <<is_ap, ipi>>
          /\ UNCHANGED <<jmp_code, ap_ready, next_cpu, stopped, power>>
      BY <1>2 DEF WakeNext, Runs, BootAp
    <2>2. /\ at'[0] = IF next_cpu < ncpu THEN "poll" ELSE "user"
          /\ \A c \in CPUs \ {0} : at'[c] = at[c]
      BY <1>0, <2>1 DEF X86BootTypeOK
    <2>3. X86BootTypeOK'
      BY <1>0, <2>1 DEF X86BootTypeOK
    <2>4. ASSUME Starting PROVE Starting'
      <3>1. CASE next_cpu < ncpu
        <4>1. next_cpu \in CPUs \ {0}
          BY <1>0, <3>1 DEF X86BootTypeOK
        <4>2. /\ ipi'[next_cpu] = {"INIT", "STARTUP"}
              /\ \A c \in CPUs \ {next_cpu} : ipi'[c] = ipi[c]
          BY <1>0, <2>1, <3>1, <4>1 DEF X86BootTypeOK
        <4>3. Waking(next_cpu)'
          BY <2>1, <2>2, <2>4, <4>1, <4>2 DEF Starting, Waking
        <4>4. QED
          BY <1>0, <2>1, <2>2, <2>4, <3>1, <4>1, <4>2, <4>3 DEF Starting, Waking
      <3>2. CASE ~(next_cpu < ncpu)
        <4>1. next_cpu = ncpu
          BY <1>0, <3>2 DEF X86BootTypeOK
        <4>2. \A c \in CPUs \ {0} : c < next_cpu
          BY <4>1 DEF CPUs
        <4>3. QED
          BY <2>1, <2>2, <2>4, <3>2, <4>1, <4>2 DEF Starting
      <3>3. QED
        BY <3>1, <3>2
    <2>5. ASSUME Stopping PROVE Stopping'
      BY <2>1, <2>2, <2>5 DEF Stopping, BootPath
    <2>6. QED
      BY <2>1, <2>2, <2>3, <2>4, <2>5 DEF BootInv
  <1>3. CASE PollReady
    <2>1. /\ at[0] = "poll" /\ ap_ready = 1
          /\ at' = [at EXCEPT ![0] = "mpe"] /\ ap_ready' = 0
          /\ next_cpu' = next_cpu + 1
          /\ UNCHANGED <<ipi, jmp_code, is_ap, stopped, power>>
      BY <1>3 DEF PollReady, Runs
    <2>2. at'[0] = "mpe" /\ \A c \in CPUs \ {0} : at'[c] = at[c]
      BY <1>0, <2>1 DEF X86BootTypeOK
    <2>3. next_cpu < ncpu
      BY <2>1 DEF BootInv
    <2>4. X86BootTypeOK'
      BY <1>0, <2>1, <2>3 DEF X86BootTypeOK
    <2>5. ASSUME Starting PROVE Starting'
      <3>1. next_cpu \in CPUs \ {0}
        BY <1>0, <2>3 DEF X86BootTypeOK
      <3>2. at[next_cpu] = "user" /\ ipi[next_cpu] = {}
        BY <2>1, <2>5, <3>1 DEF Starting, Waking
      <3>3. ASSUME NEW c \in CPUs \ {0}
            PROVE  /\ c < next_cpu' => at'[c] = "user" /\ ipi'[c] = {}
                   /\ c >= next_cpu' => at'[c] = "reset" /\ ipi'[c] = {}
        <4>1. CASE c = next_cpu
          BY <1>0, <2>1, <2>2, <3>2, <4>1
        <4>2. CASE c < next_cpu
          BY <1>0, <2>1, <2>2, <2>5, <4>2 DEF Starting
        <4>3. CASE c > next_cpu
          BY <1>0, <2>1, <2>2, <2>5, <4>3 DEF Starting
        <4>4. c = next_cpu \/ c < next_cpu \/ c > next_cpu
          BY <1>0
        <4>5. QED
          BY <4>1, <4>2, <4>3, <4>4
      <3>4. next_cpu' \in Nat /\ ipi'[0] = {}
        BY <1>0, <2>1, <2>5 DEF Starting
      <3>5. QED
        BY <2>1, <2>2, <3>3, <3>4 DEF Starting
    <2>6. ASSUME Stopping PROVE Stopping'
      BY <2>1, <2>2, <2>6 DEF Stopping, BootPath
    <2>7. QED
      BY <2>1, <2>2, <2>4, <2>5, <2>6 DEF BootInv
  <1>4. QED
    BY <1>1, <1>2, <1>3

(* A request reaches a CPU. *)
LEMMA DeliverStep == ASSUME BootInv, NEW c \in CPUs, Deliver(c) PROVE BootInv'
  <1> USE BootFacts
  <1>0. X86BootTypeOK
    BY DEF BootInv
  <1>1. UNCHANGED <<jmp_code, is_ap, ap_ready, next_cpu, stopped, power>> /\ ipi[c] # {}
    BY DEF Deliver
  <1>2. /\ at' \in [CPUs -> {"reset", "record", "spin", "bootstack", "percpu", "ready",
                              "main", "mpe", "poll", "user", "stop", "print"}]
        /\ at'[c] = (IF "INIT" \in ipi[c] THEN "reset"
                     ELSE IF at[c] = "reset" THEN "record" ELSE at[c])
        /\ \A d \in CPUs \ {c} : at'[d] = at[d] /\ ipi'[d] = ipi[d]
        /\ ipi' \in [CPUs -> SUBSET {"INIT", "STARTUP"}]
        /\ ipi'[c] = IF "INIT" \in ipi[c] THEN ipi[c] \ {"INIT"} ELSE {}
    <2>1. CASE "INIT" \in ipi[c]
      <3>1. /\ at' = [at EXCEPT ![c] = "reset"]
            /\ ipi' = [ipi EXCEPT ![c] = ipi[c] \ {"INIT"}]
        BY <2>1 DEF Deliver
      <3>2. QED
        BY <1>0, <2>1, <3>1 DEF X86BootTypeOK
    <2>2. CASE "INIT" \notin ipi[c]
      <3>1. /\ at' = [at EXCEPT ![c] = IF at[c] = "reset" THEN "record" ELSE at[c]]
            /\ ipi' = [ipi EXCEPT ![c] = {}]
        BY <2>2 DEF Deliver
      <3>2. QED
        BY <1>0, <2>2, <3>1 DEF X86BootTypeOK
    <2>3. QED
      BY <2>1, <2>2
  <1>3. X86BootTypeOK'
    BY <1>0, <1>1, <1>2 DEF X86BootTypeOK
  <1>4. ASSUME Starting PROVE Starting'
    <2>1. c = next_cpu /\ c # 0 /\ at[0] = "poll" /\ Waking(c)
      BY <1>0, <1>1, <1>4 DEF Starting, X86BootTypeOK
    <2>2. at[c] = "reset" /\ "STARTUP" \in ipi[c] /\ ap_ready = 0
      BY <1>1, <2>1 DEF Waking
    <2>3. Waking(c)'
      BY <1>1, <1>2, <2>2 DEF Waking
    <2>4. QED
      BY <1>1, <1>2, <1>4, <2>1, <2>3 DEF Starting
  <1>5. ASSUME Stopping PROVE Stopping'
    BY <1>2, <1>5 DEF Stopping, BootPath
  <1>6. QED
    BY <1>1, <1>2, <1>3, <1>4, <1>5 DEF BootInv

(* The boot record and the boot path. *)
LEMMA BootPathSteps ==
  ASSUME BootInv, NEW c \in CPUs,
         ExecuteRecord(c) \/ _start_c(c) \/ __am_percpu_init(c) \/ othercpu_entry(c)
  PROVE  BootInv'
  <1> USE BootFacts
  <1>0. X86BootTypeOK
    BY DEF BootInv
  <1>1. UNCHANGED <<ipi, jmp_code, is_ap, next_cpu, stopped, power>>
    BY DEF ExecuteRecord, _start_c, __am_percpu_init, othercpu_entry
  <1>2. at[c] \in {"record"} \cup BootPath
    BY DEF ExecuteRecord, _start_c, __am_percpu_init, othercpu_entry, Runs, BootPath
  <1>3. /\ at' \in [CPUs -> {"reset", "record", "spin", "bootstack", "percpu", "ready",
                              "main", "mpe", "poll", "user", "stop", "print"}]
        /\ \A d \in CPUs \ {c} : at'[d] = at[d]
        /\ \/ at[c] = "record" /\ at'[c] = (IF jmp_code = "boot" THEN "bootstack" ELSE "spin")
              /\ ap_ready' = ap_ready
           \/ at[c] = "bootstack" /\ at'[c] = (IF is_ap = 1 THEN "percpu" ELSE "main")
              /\ ap_ready' = ap_ready
           \/ at[c] = "percpu" /\ at'[c] = "ready" /\ ap_ready' = ap_ready
           \/ at[c] = "ready" /\ at'[c] = "user" /\ ap_ready' = 1
    BY <1>0 DEF ExecuteRecord, _start_c, __am_percpu_init, othercpu_entry, Runs, X86BootTypeOK
  <1>4. X86BootTypeOK'
    BY <1>0, <1>1, <1>3 DEF X86BootTypeOK
  <1>5. ASSUME Starting, jmp_code = "boot" PROVE Starting'
    <2>1. CASE c = 0
      <3>1. at[0] = "bootstack" /\ is_ap = 0 /\ at'[0] = "main" /\ ap_ready' = ap_ready
        BY <1>2, <1>3, <1>5, <2>1 DEF Starting, BootPath
      <3>2. QED
        BY <1>1, <1>3, <1>5, <2>1, <3>1 DEF Starting
    <2>2. CASE c # 0
      <3>1. c = next_cpu /\ at[0] = "poll" /\ Waking(c)
        BY <1>0, <1>2, <1>5, <2>2 DEF Starting, BootPath, X86BootTypeOK
      <3>2. is_ap = 1
        BY <3>1 DEF BootInv
      <3>3. Waking(c)'
        BY <1>1, <1>2, <1>3, <1>5, <3>1, <3>2 DEF Waking, BootPath
      <3>4. at'[0] = "poll"
        BY <1>3, <2>2, <3>1
      <3>5. QED
        BY <1>1, <1>3, <1>5, <2>2, <3>1, <3>3, <3>4 DEF Starting
    <2>3. QED
      BY <2>1, <2>2
  <1>6. ASSUME Stopping, jmp_code = "self" PROVE Stopping'
    BY <1>2, <1>3, <1>6 DEF Stopping, BootPath
  <1>7. /\ at'[0] = "poll" => at[0] = "poll"
        /\ c # 0 => /\ at'[c] \notin {"main", "mpe", "poll"}
                    /\ at'[c] = "bootstack" => is_ap = 1
    <2>1. c # 0 /\ at[c] = "record" /\ jmp_code = "boot" => is_ap = 1
      BY <1>0 DEF BootInv, Starting, X86BootTypeOK
    <2>2. QED
      BY <1>3, <2>1 DEF BootInv
  <1>8. QED
    BY <1>1, <1>3, <1>4, <1>5, <1>6, <1>7 DEF BootInv, X86BootTypeOK

(* halt, __am_stop_the_world and the power-off. *)
LEMMA HaltSteps ==
  ASSUME BootInv, NEW c \in CPUs,
         halt(c) \/ __am_stop_the_world(c) \/ PrintAndPowerOff(c)
  PROVE  BootInv'
  <1> USE BootFacts
  <1>0. X86BootTypeOK
    BY DEF BootInv
  <1>1. CASE halt(c)
    <2>1. /\ at[c] \in {"main", "user"} /\ at' = [at EXCEPT ![c] = "stop"]
          /\ jmp_code' = "self" /\ stopped' = [stopped EXCEPT ![c] = 0]
          /\ UNCHANGED <<ipi, is_ap, ap_ready, next_cpu, power>>
      BY <1>1 DEF halt, Runs
    <2>2. at'[c] = "stop" /\ \A d \in CPUs \ {c} : at'[d] = at[d]
      BY <1>0, <2>1 DEF X86BootTypeOK
    <2>3. X86BootTypeOK'
      BY <1>0, <2>1 DEF X86BootTypeOK
    <2>4. Stopping'
      <3>1. CASE jmp_code = "self"
        BY <2>1, <2>2, <3>1 DEF BootInv, Stopping, BootPath
      <3>2. CASE jmp_code = "boot"
        <4>1. Starting
          BY <3>2 DEF BootInv
        <4>2. c # 0 => at[0] \notin {"bootstack", "main"}
          BY <1>0, <2>1, <4>1 DEF BootInv, Starting, X86BootTypeOK
        <4>3. \A d \in CPUs : at'[d] \in BootPath => d = next_cpu
          BY <1>0, <2>1, <2>2, <4>1, <4>2 DEF Starting, BootPath, X86BootTypeOK
        <4>4. QED
          BY <2>2, <4>2, <4>3 DEF Stopping, BootPath
      <3>3. QED
        BY <1>0, <3>1, <3>2 DEF X86BootTypeOK
    <2>5. QED
      BY <2>1, <2>2, <2>3, <2>4 DEF BootInv
  <1>2. CASE __am_stop_the_world(c)
    <2>1. /\ at[c] = "stop"
          /\ at' = [at EXCEPT ![c] = IF stopped[c] < ncpu THEN "stop" ELSE "print"]
          /\ stopped' = IF stopped[c] < ncpu THEN [stopped EXCEPT ![c] = @ + 1] ELSE stopped
          /\ ipi' = IF stopped[c] \in CPUs \ {c}
                    THEN [ipi EXCEPT ![stopped[c]] = {"INIT", "STARTUP"}] ELSE ipi
          /\ UNCHANGED <<jmp_code, is_ap, ap_ready, next_cpu, power>>
      BY <1>2 DEF __am_stop_the_world, Runs, BootAp
    <2>2. at'[c] \in {"stop", "print"} /\ \A d \in CPUs \ {c} : at'[d] = at[d]
      BY <1>0, <2>1 DEF X86BootTypeOK
    <2>3. X86BootTypeOK'
      BY <1>0, <2>1 DEF X86BootTypeOK
    <2>4. jmp_code = "self"
      <3>1. Starting => at[c] # "stop"
        BY <1>0 DEF Starting, Waking, BootPath, X86BootTypeOK
      <3>2. QED
        BY <1>0, <2>1, <3>1 DEF BootInv, X86BootTypeOK
    <2>5. Stopping'
      BY <2>1, <2>2, <2>4 DEF BootInv, Stopping, BootPath
    <2>6. QED
      BY <2>1, <2>2, <2>3, <2>4, <2>5 DEF BootInv
  <1>3. CASE PrintAndPowerOff(c)
    <2>1. UNCHANGED <<at, ipi, jmp_code, is_ap, ap_ready, next_cpu, stopped>>
          /\ power' = "off"
      BY <1>3 DEF PrintAndPowerOff
    <2>2. QED
      BY <2>1 DEF BootInv, X86BootTypeOK, Starting, Stopping, Waking
  <1>4. QED
    BY <1>1, <1>2, <1>3

(* The invariant holds, whenever requests arrive and whoever halts. *)
LEMMA BootInvariant == X86BootSpec => []BootInv
  <1>1. BootInv /\ [X86BootNext]_bootVars => BootInv'
    <2> SUFFICES ASSUME BootInv, [X86BootNext]_bootVars PROVE BootInv'
      OBVIOUS
    <2>1. CASE X86BootNext
      BY <2>1, MpeSteps, DeliverStep, BootPathSteps, HaltSteps DEF X86BootNext, CpuStep
    <2>2. CASE UNCHANGED bootVars
      BY <2>2 DEF bootVars, BootInv, X86BootTypeOK, Starting, Stopping, Waking
    <2>3. QED
      BY <2>1, <2>2
  <1>2. QED
    BY <1>1, BootInitInv, PTL DEF X86BootSpec

(* CPUs start one after the other: no two are on the shared boot stack or  *)
(* at the I/O APIC at once, and the program starts on all of them unless   *)
(* somebody halts before, for every number of CPUs (mpe.c:16-31,           *)
(* trm.c:12-19).                                                           *)
THEOREM CpusStartOneByOne == X86BootSpec => [](X86BootTypeOK /\ BootPathExclusive)
  <1>1. BootInv => X86BootTypeOK /\ BootPathExclusive
    <2> SUFFICES ASSUME BootInv PROVE BootPathExclusive
      BY DEF BootInv
    <2>1. ASSUME NEW c \in InBootPath, NEW d \in InBootPath PROVE c = d
      <3>1. c \in CPUs /\ d \in CPUs /\ at[c] \in BootPath /\ at[d] \in BootPath
        BY DEF InBootPath, BootPath
      <3>2. CASE jmp_code = "self"
        BY <3>1, <3>2 DEF BootInv, Stopping
      <3>3. CASE jmp_code = "boot"
        BY <3>1, <3>3, BootFacts DEF BootInv, Starting, Waking, BootPath, X86BootTypeOK
      <3>4. QED
        BY <3>2, <3>3 DEF BootInv, X86BootTypeOK
    <2>2. Cardinality(InBootPath) <= 1
      <3>1. CASE InBootPath = {}
        BY <3>1, FS_EmptySet
      <3>2. ASSUME NEW c \in InBootPath PROVE Cardinality(InBootPath) <= 1
        <4>1. InBootPath = {c}
          BY <2>1
        <4>2. QED
          BY <4>1, FS_Singleton
      <3>3. QED
        BY <3>1, <3>2
    <2>3. at[0] = "user" => (\A c \in CPUs : at[c] = "user") \/ jmp_code = "self"
      <3>1. \A c \in CPUs : c < ncpu
        BY BootFacts DEF CPUs
      <3>2. QED
        BY <3>1 DEF BootInv, Starting, X86BootTypeOK
    <2>4. QED
      BY <2>2, <2>3 DEF BootPathExclusive
  <1>2. QED
    BY <1>1, BootInvariant, PTL

-----------------------------------------------------------------------------
(* The native machine *)

(* The condition: no space is used on two CPUs (two that do share its      *)
(* is_mapped flags but not their mappings: vme.c:37-62), pointers to       *)
(* spaces are not NULL, and no page frame is the absence of one.           *)
SpacesPinned ==
  /\ \A c \in Cpus : MayLoad(c) \subseteq Spaces
  /\ \A c, d \in Cpus : c # d => MayLoad(c) \cap MayLoad(d) = {}
  /\ NULL \notin Spaces
  /\ None \notin Frames

(* A CPU loads the spaces of its own threads only. *)
KeepsToOwn(c) ==
  /\ vm_head[c] \in MayLoad(c) \cup {NULL}
  /\ switch[c].to \in MayLoad(c) \cup {NULL}
  /\ switch[c] = NoSwitch \/ switch[c].phase \in {"unmap", "map"}

(* What the process of a CPU has mapped in each phase of __am_switch, and  *)
(* that the flags of the space it works on say so.                         *)
IdleView(c) ==
  switch[c] = NoSwitch =>
    /\ \A va \in Vas :
         hostmap[c][va] = IF va \in PagesOf(vm_head[c]) THEN page[vm_head[c]][va] ELSE None
    /\ \A va \in PagesOf(vm_head[c]) : is_mapped[vm_head[c]][va]

UnmapView(c) ==
  switch[c].phase = "unmap" =>
    /\ switch[c].todo \subseteq PagesOf(vm_head[c])
    /\ \A va \in Vas \ switch[c].todo : hostmap[c][va] = None
    /\ \A va \in switch[c].todo : is_mapped[vm_head[c]][va]

MapView(c) ==
  switch[c].phase = "map" =>
    /\ switch[c].todo \subseteq PagesOf(switch[c].to)
    /\ \A va \in Vas :
         hostmap[c][va] = IF va \in PagesOf(switch[c].to) \ switch[c].todo
                       THEN page[switch[c].to][va] ELSE None
    /\ \A va \in PagesOf(switch[c].to) \ switch[c].todo : is_mapped[switch[c].to][va]

CpuInv(c) == KeepsToOwn(c) /\ IdleView(c) /\ UnmapView(c) /\ MapView(c)

NativeInv == NativeTypeOK /\ \A c \in Cpus : CpuInv(c)

(* At the start nothing is mapped and no CPU switches (vme.c:30-62). *)
LEMMA NativeInitInv == NativeInit => NativeInv
  BY DEF NativeInit, NativeInv, NativeTypeOK, CpuInv, KeepsToOwn, IdleView, UnmapView,
         MapView, NoSwitch, PagesOf

(* What a step of a CPU leaves alone: the spaces of the others, and their  *)
(* processes.                                                              *)
StepOf(c) ==
  /\ \A as \in Spaces \ MayLoad(c) : page'[as] = page[as] /\ is_mapped'[as] = is_mapped[as]
  /\ \A d \in Cpus \ {c} : /\ vm_head'[d] = vm_head[d] /\ switch'[d] = switch[d]
                           /\ hostmap'[d] = hostmap[d]

(* A step of one CPU does not disturb another, because they share no space. *)
LEMMA OthersUndisturbed ==
  ASSUME SpacesPinned, NativeInv, NEW c \in Cpus, NEW d \in Cpus, c # d, StepOf(c)
  PROVE  CpuInv(d)'
  <1>1. vm_head'[d] = vm_head[d] /\ switch'[d] = switch[d] /\ hostmap'[d] = hostmap[d]
    BY DEF StepOf
  <1>2. CpuInv(d)
    BY DEF NativeInv
  <1>3. ASSUME NEW as \in MayLoad(d)
        PROVE  page'[as] = page[as] /\ is_mapped'[as] = is_mapped[as]
    <2>1. as \in Spaces \ MayLoad(c)
      BY DEF SpacesPinned
    <2>2. QED
      BY <2>1 DEF StepOf
  <1>4. PagesOf(NULL) = {}
    BY DEF PagesOf
  <1>5. KeepsToOwn(d)'
    BY <1>1, <1>2 DEF CpuInv, KeepsToOwn
  <1>6. vm_head[d] \in MayLoad(d) \cup {NULL} /\ switch[d].to \in MayLoad(d) \cup {NULL}
    BY <1>2 DEF CpuInv, KeepsToOwn
  <1>7. /\ PagesOf(vm_head[d])' = PagesOf(vm_head[d])
        /\ PagesOf(switch[d].to)' = PagesOf(switch[d].to)
    <2>1. \A as \in MayLoad(d) : page'[as] = page[as]
      BY <1>3
    <2>2. ASSUME NEW as \in MayLoad(d) \cup {NULL}
          PROVE  (IF as = NULL THEN {} ELSE {va \in Vas : page'[as][va] # None})
                 = IF as = NULL THEN {} ELSE {va \in Vas : page[as][va] # None}
      BY <2>1
    <2>3. QED
      BY <1>1, <1>6, <2>2 DEF PagesOf
  <1>8. /\ \A va \in PagesOf(vm_head[d]) : /\ page'[vm_head[d]][va] = page[vm_head[d]][va]
                                           /\ is_mapped'[vm_head[d]][va]
                                              = is_mapped[vm_head[d]][va]
        /\ \A va \in PagesOf(switch[d].to) :
             /\ page'[switch[d].to][va] = page[switch[d].to][va]
             /\ is_mapped'[switch[d].to][va] = is_mapped[switch[d].to][va]
    BY <1>3, <1>4, <1>6
  <1>9. IdleView(d)'
    BY <1>1, <1>2, <1>7, <1>8 DEF CpuInv, IdleView
  <1>10. UnmapView(d)'
    BY <1>1, <1>2, <1>7, <1>8 DEF CpuInv, UnmapView
  <1>11. MapView(d)'
    BY <1>1, <1>2, <1>7, <1>8 DEF CpuInv, MapView
  <1>12. QED
    BY <1>5, <1>9, <1>10, <1>11 DEF CpuInv

(* Mapping a page: it appears at once exactly if its space is loaded. *)
LEMMA MapStep ==
  ASSUME SpacesPinned, NativeInv, NEW c \in Cpus,
         NEW as \in MayLoad(c), NEW va \in Vas, NEW pa \in Frames, map(c, as, va, pa)
  PROVE  NativeTypeOK' /\ StepOf(c) /\ CpuInv(c)'
  <1>0. /\ as \in Spaces /\ as # NULL /\ pa # None /\ switch[c] = NoSwitch
        /\ NativeTypeOK /\ CpuInv(c)
    BY DEF SpacesPinned, map, NativeInv
  <1>1. /\ page' = [page EXCEPT ![as][va] = pa]
        /\ is_mapped' = [is_mapped EXCEPT ![as][va] = (vm_head[c] = as)]
        /\ hostmap' = IF vm_head[c] = as THEN [hostmap EXCEPT ![c][va] = pa] ELSE hostmap
        /\ vm_head' = vm_head /\ switch' = switch
    BY DEF map
  <1>2. NativeTypeOK'
    BY <1>0, <1>1 DEF NativeTypeOK
  <1>3. StepOf(c)
    BY <1>0, <1>1 DEF NativeTypeOK, StepOf
  <1>4. KeepsToOwn(c)'
    BY <1>0, <1>1 DEF CpuInv, KeepsToOwn
  <1>5. IdleView(c)'
    <2>1. CASE vm_head[c] = as
      <3>1. PagesOf(vm_head[c]) = {v \in Vas : page[as][v] # None}
        BY <1>0, <2>1 DEF PagesOf
      <3>2. PagesOf(vm_head[c])' = {v \in Vas : page'[as][v] # None}
        BY <1>0, <1>1, <2>1 DEF PagesOf
      <3>3. PagesOf(vm_head[c])' = PagesOf(vm_head[c]) \cup {va}
        BY <1>0, <1>1, <3>1, <3>2 DEF NativeTypeOK
      <3>4. ASSUME NEW v \in Vas
            PROVE  /\ hostmap'[c][v] = IF v = va THEN pa ELSE hostmap[c][v]
                   /\ page'[as][v] = IF v = va THEN pa ELSE page[as][v]
                   /\ is_mapped'[as][v] = IF v = va THEN TRUE ELSE is_mapped[as][v]
        BY <1>0, <1>1, <2>1 DEF NativeTypeOK
      <3>5. PagesOf(vm_head[c]) \subseteq Vas
        BY <3>1
      <3>6. /\ \A v \in Vas : hostmap[c][v] = IF v \in PagesOf(vm_head[c]) THEN page[as][v]
                                                                       ELSE None
            /\ \A v \in PagesOf(vm_head[c]) : is_mapped[as][v]
        BY <1>0, <2>1 DEF CpuInv, IdleView
      <3>7. /\ \A v \in Vas : hostmap'[c][v] = IF v \in PagesOf(vm_head[c])' THEN page'[as][v]
                                                                         ELSE None
            /\ \A v \in PagesOf(vm_head[c])' : is_mapped'[as][v]
        BY <3>3, <3>4, <3>5, <3>6
      <3>8. vm_head'[c] = as
        BY <1>1, <2>1
      <3>9. QED
        BY <3>7, <3>8 DEF IdleView
    <2>2. CASE vm_head[c] # as
      <3>1. vm_head[c] = NULL \/ vm_head[c] \in Spaces \ {as}
        BY <1>0, <2>2 DEF NativeTypeOK
      <3>2. /\ hostmap' = hostmap
            /\ vm_head[c] # NULL => /\ page'[vm_head[c]] = page[vm_head[c]]
                                    /\ is_mapped'[vm_head[c]] = is_mapped[vm_head[c]]
        BY <1>0, <1>1, <2>2, <3>1 DEF NativeTypeOK
      <3>3. PagesOf(vm_head[c])' = PagesOf(vm_head[c])
        BY <1>1, <3>2 DEF PagesOf
      <3>4. PagesOf(vm_head[c]) # {} => vm_head[c] # NULL
        BY DEF PagesOf
      <3>5. QED
        BY <1>0, <1>1, <3>2, <3>3, <3>4 DEF CpuInv, IdleView
    <2>3. QED
      BY <2>1, <2>2
  <1>6. UnmapView(c)' /\ MapView(c)'
    <2>1. switch'[c].phase = "idle"
      BY <1>0, <1>1 DEF NoSwitch
    <2>2. QED
      BY <2>1 DEF UnmapView, MapView
  <1>7. QED
    BY <1>2, <1>3, <1>4, <1>5, <1>6 DEF CpuInv

(* The steps of __am_switch that only turn to the next phase. *)
LEMMA PhaseStep ==
  ASSUME SpacesPinned, NativeInv, NEW c \in Cpus,
         \/ \E to \in MayLoad(c) \cup {NULL} : Begin(c, to)
         \/ Unmapped(c)
         \/ End(c)
  PROVE  NativeTypeOK' /\ StepOf(c) /\ CpuInv(c)'
  <1>0. NativeTypeOK /\ CpuInv(c) /\ NULL \notin Spaces /\ MayLoad(c) \subseteq Spaces
    BY DEF SpacesPinned, NativeInv
  <1>1. /\ page' = page /\ is_mapped' = is_mapped /\ hostmap' = hostmap
        /\ \A d \in Cpus \ {c} : vm_head'[d] = vm_head[d] /\ switch'[d] = switch[d]
    BY <1>0 DEF Begin, Unmapped, End, NativeTypeOK
  <1>2. StepOf(c)
    BY <1>1 DEF StepOf
  <1>3. \A as : PagesOf(as) \subseteq Vas
    BY DEF PagesOf
  <1>4. ASSUME NEW to \in MayLoad(c) \cup {NULL}, Begin(c, to)
        PROVE  NativeTypeOK' /\ CpuInv(c)'
    <2>1. /\ switch[c] = NoSwitch /\ vm_head' = vm_head
          /\ switch' = [switch EXCEPT ![c] =
                          [phase |-> "unmap", to |-> to, todo |-> PagesOf(vm_head[c])]]
      BY <1>4 DEF Begin
    <2>2. NativeTypeOK'
      BY <1>0, <1>1, <1>3, <2>1 DEF NativeTypeOK
    <2>3. switch'[c] = [phase |-> "unmap", to |-> to, todo |-> PagesOf(vm_head[c])]
      BY <1>0, <2>1 DEF NativeTypeOK
    <2>4. PagesOf(vm_head[c])' = PagesOf(vm_head[c])
      BY <1>1, <2>1 DEF PagesOf
    <2>5. KeepsToOwn(c)' /\ IdleView(c)' /\ MapView(c)'
      BY <1>0, <2>1, <2>3 DEF CpuInv, KeepsToOwn, IdleView, MapView, NoSwitch
    <2>6. UnmapView(c)'
      BY <1>0, <1>1, <2>1, <2>3, <2>4 DEF CpuInv, IdleView, UnmapView
    <2>7. QED
      BY <2>2, <2>5, <2>6 DEF CpuInv
  <1>5. CASE Unmapped(c)
    <2>1. /\ switch[c].phase = "unmap" /\ switch[c].todo = {} /\ vm_head' = vm_head
          /\ switch' = [switch EXCEPT ![c] = [phase |-> "map", to |-> switch[c].to,
                                               todo |-> PagesOf(switch[c].to)]]
      BY <1>5 DEF Unmapped
    <2>2. /\ switch'[c].phase = "map" /\ switch'[c].todo = PagesOf(switch[c].to)
          /\ switch'[c].to = switch[c].to
      BY <1>0, <2>1 DEF NativeTypeOK
    <2>3. NativeTypeOK'
      BY <1>0, <1>1, <1>3, <2>1 DEF NativeTypeOK
    <2>4. PagesOf(switch[c].to)' = PagesOf(switch[c].to)
      BY <1>1, <2>2 DEF PagesOf
    <2>5. KeepsToOwn(c)' /\ IdleView(c)' /\ UnmapView(c)'
      BY <1>0, <2>1, <2>2 DEF CpuInv, KeepsToOwn, IdleView, UnmapView, NoSwitch
    <2>6. MapView(c)'
      BY <1>0, <1>1, <2>1, <2>2, <2>4 DEF CpuInv, UnmapView, MapView
    <2>7. QED
      BY <1>2, <2>3, <2>5, <2>6 DEF CpuInv
  <1>6. CASE End(c)
    <2>1. /\ switch[c].phase = "map" /\ switch[c].todo = {}
          /\ vm_head' = [vm_head EXCEPT ![c] = switch[c].to]
          /\ switch' = [switch EXCEPT ![c] = NoSwitch]
      BY <1>6 DEF End
    <2>2. switch'[c] = NoSwitch /\ vm_head'[c] = switch[c].to
      BY <1>0, <2>1 DEF NativeTypeOK
    <2>3. NativeTypeOK'
      BY <1>0, <1>1, <2>1 DEF NativeTypeOK, NoSwitch
    <2>4. PagesOf(vm_head[c])' = PagesOf(switch[c].to)
      BY <1>1, <2>2 DEF PagesOf
    <2>5. KeepsToOwn(c)' /\ UnmapView(c)' /\ MapView(c)'
      BY <1>0, <2>2 DEF CpuInv, KeepsToOwn, UnmapView, MapView, NoSwitch
    <2>6. IdleView(c)'
      BY <1>0, <1>1, <2>1, <2>2, <2>4 DEF CpuInv, IdleView, MapView
    <2>7. QED
      BY <1>2, <2>3, <2>5, <2>6 DEF CpuInv
  <1>7. QED
    BY <1>2, <1>4, <1>5, <1>6

(* Unmapping one page of the space that is left. *)
LEMMA UnmapStep ==
  ASSUME SpacesPinned, NativeInv, NEW c \in Cpus, UnmapOne(c)
  PROVE  NativeTypeOK' /\ StepOf(c) /\ CpuInv(c)'
  <1>0. NativeTypeOK /\ CpuInv(c) /\ NULL \notin Spaces /\ MayLoad(c) \subseteq Spaces
    BY DEF SpacesPinned, NativeInv
  <1>1. PICK va \in switch[c].todo :
          /\ switch' = [switch EXCEPT ![c].todo = @ \ {va}]
          /\ IF is_mapped[vm_head[c]][va]
             THEN /\ hostmap' = [hostmap EXCEPT ![c][va] = None]
                  /\ is_mapped' = [is_mapped EXCEPT ![vm_head[c]][va] = FALSE]
             ELSE UNCHANGED <<hostmap, is_mapped>>
    BY DEF UnmapOne
  <1>2. switch[c].phase = "unmap" /\ page' = page /\ vm_head' = vm_head
    BY DEF UnmapOne
  <1>3. va \in PagesOf(vm_head[c]) /\ is_mapped[vm_head[c]][va]
    BY <1>0, <1>2 DEF CpuInv, UnmapView
  <1>4. va \in Vas /\ vm_head[c] \in MayLoad(c)
    BY <1>0, <1>3 DEF PagesOf, CpuInv, KeepsToOwn
  <1>5. /\ hostmap' = [hostmap EXCEPT ![c][va] = None]
        /\ is_mapped' = [is_mapped EXCEPT ![vm_head[c]][va] = FALSE]
    BY <1>1, <1>3
  <1>6. /\ switch'[c].phase = "unmap" /\ switch'[c].todo = switch[c].todo \ {va}
        /\ switch'[c].to = switch[c].to
    BY <1>0, <1>1, <1>2 DEF NativeTypeOK
  <1>7. NativeTypeOK'
    BY <1>0, <1>1, <1>2, <1>4, <1>5 DEF NativeTypeOK
  <1>8. StepOf(c)
    BY <1>0, <1>1, <1>2, <1>4, <1>5 DEF NativeTypeOK, StepOf
  <1>9. KeepsToOwn(c)' /\ IdleView(c)' /\ MapView(c)'
    BY <1>0, <1>2, <1>6 DEF CpuInv, KeepsToOwn, IdleView, MapView, NoSwitch
  <1>10. UnmapView(c)'
    <2>1. PagesOf(vm_head[c])' = PagesOf(vm_head[c])
      BY <1>2 DEF PagesOf
    <2>2. \A v \in Vas \ {va} : /\ hostmap'[c][v] = hostmap[c][v]
                                /\ is_mapped'[vm_head[c]][v] = is_mapped[vm_head[c]][v]
      BY <1>0, <1>4, <1>5 DEF NativeTypeOK
    <2>3. hostmap'[c][va] = None
      BY <1>0, <1>4, <1>5 DEF NativeTypeOK
    <2>4. switch[c].todo \subseteq Vas
      BY <1>0 DEF NativeTypeOK
    <2>5. QED
      BY <1>0, <1>2, <1>6, <2>1, <2>2, <2>3, <2>4 DEF CpuInv, UnmapView
  <1>11. QED
    BY <1>7, <1>8, <1>9, <1>10 DEF CpuInv

(* Mapping one page of the space that is entered. *)
LEMMA MapOneStep ==
  ASSUME SpacesPinned, NativeInv, NEW c \in Cpus, MapOne(c)
  PROVE  NativeTypeOK' /\ StepOf(c) /\ CpuInv(c)'
  <1>0. NativeTypeOK /\ CpuInv(c) /\ NULL \notin Spaces /\ MayLoad(c) \subseteq Spaces
    BY DEF SpacesPinned, NativeInv
  <1>1. PICK va \in switch[c].todo :
          /\ switch' = [switch EXCEPT ![c].todo = @ \ {va}]
          /\ hostmap' = [hostmap EXCEPT ![c][va] = page[switch[c].to][va]]
          /\ is_mapped' = [is_mapped EXCEPT ![switch[c].to][va] = TRUE]
    BY DEF MapOne
  <1>2. switch[c].phase = "map" /\ page' = page /\ vm_head' = vm_head
    BY DEF MapOne
  <1>3. va \in PagesOf(switch[c].to)
    BY <1>0, <1>2 DEF CpuInv, MapView
  <1>4. va \in Vas /\ switch[c].to \in MayLoad(c)
    BY <1>0, <1>3 DEF PagesOf, CpuInv, KeepsToOwn
  <1>5. /\ switch'[c].phase = "map" /\ switch'[c].todo = switch[c].todo \ {va}
        /\ switch'[c].to = switch[c].to
    BY <1>0, <1>1, <1>2 DEF NativeTypeOK
  <1>6. NativeTypeOK'
    <2>1. page[switch[c].to][va] \in Frames \cup {None}
      BY <1>0, <1>4 DEF NativeTypeOK
    <2>2. hostmap' \in [Cpus -> [Vas -> Frames \cup {None}]]
      BY <1>0, <1>1, <1>4, <2>1 DEF NativeTypeOK
    <2>3. is_mapped' \in [Spaces -> [Vas -> BOOLEAN]]
      BY <1>0, <1>1, <1>4 DEF NativeTypeOK
    <2>4. switch' \in [Cpus -> [phase : {"idle", "unmap", "map"},
                                to : Spaces \cup {NULL}, todo : SUBSET Vas]]
      BY <1>0, <1>1 DEF NativeTypeOK
    <2>5. QED
      BY <1>0, <1>2, <2>2, <2>3, <2>4 DEF NativeTypeOK
  <1>7. StepOf(c)
    BY <1>0, <1>1, <1>2, <1>4 DEF NativeTypeOK, StepOf
  <1>8. KeepsToOwn(c)' /\ IdleView(c)' /\ UnmapView(c)'
    BY <1>0, <1>2, <1>5 DEF CpuInv, KeepsToOwn, IdleView, UnmapView, NoSwitch
  <1>9. MapView(c)'
    <2>1. PagesOf(switch[c].to)' = PagesOf(switch[c].to)
      BY <1>2, <1>5 DEF PagesOf
    <2>2. \A v \in Vas \ {va} : /\ hostmap'[c][v] = hostmap[c][v]
                                /\ is_mapped'[switch[c].to][v] = is_mapped[switch[c].to][v]
      BY <1>0, <1>1, <1>4 DEF NativeTypeOK
    <2>3. hostmap'[c][va] = page[switch[c].to][va] /\ is_mapped'[switch[c].to][va]
      BY <1>0, <1>1, <1>4 DEF NativeTypeOK
    <2>4. PagesOf(switch[c].to) \subseteq Vas
      BY DEF PagesOf
    <2>5. QED
      BY <1>0, <1>2, <1>3, <1>5, <2>1, <2>2, <2>3, <2>4 DEF CpuInv, MapView
  <1>10. QED
    BY <1>6, <1>7, <1>8, <1>9 DEF CpuInv

(* The invariant holds, however the switches of the CPUs interleave. *)
LEMMA NativeInvariant == ASSUME SpacesPinned PROVE NativeSpec => []NativeInv
  <1>1. NativeInv /\ [NativeNext]_nativeVars => NativeInv'
    <2> SUFFICES ASSUME NativeInv, [NativeNext]_nativeVars PROVE NativeInv'
      OBVIOUS
    <2>1. CASE NativeNext
      <3>1. PICK c \in Cpus : NativeTypeOK' /\ StepOf(c) /\ CpuInv(c)'
        BY <2>1, MapStep, PhaseStep, UnmapStep, MapOneStep DEF NativeNext
      <3>2. \A d \in Cpus : CpuInv(d)'
        BY <3>1, OthersUndisturbed
      <3>3. QED
        BY <3>1, <3>2 DEF NativeInv
    <2>2. CASE UNCHANGED nativeVars
      BY <2>2 DEF nativeVars, NativeInv, NativeTypeOK, CpuInv, KeepsToOwn, IdleView,
                  UnmapView, MapView, PagesOf
    <2>3. QED
      BY <2>1, <2>2
  <1>2. QED
    BY <1>1, NativeInitInv, PTL DEF NativeSpec

(* A CPU that is not switching sees exactly the pages of the space it has  *)
(* loaded, for every machine whose threads keep to one CPU per space       *)
(* (native/vme.c:37-121).                                                  *)
THEOREM LoadedSpaceVisible ==
  ASSUME SpacesPinned PROVE NativeSpec => [](NativeTypeOK /\ SeesLoadedSpace)
  <1>1. NativeInv => NativeTypeOK /\ SeesLoadedSpace
    <2> SUFFICES ASSUME NativeInv, NEW c \in Cpus, switch[c] = NoSwitch
                 PROVE  hostmap[c] = IF vm_head[c] = NULL THEN [va \in Vas |-> None]
                                  ELSE page[vm_head[c]]
      BY DEF NativeInv, SeesLoadedSpace
    <2>1. /\ hostmap[c] \in [Vas -> Frames \cup {None}]
          /\ vm_head[c] # NULL => page[vm_head[c]] \in [Vas -> Frames \cup {None}]
      BY DEF NativeInv, NativeTypeOK
    <2>2. \A va \in Vas :
            hostmap[c][va] = IF va \in PagesOf(vm_head[c]) THEN page[vm_head[c]][va] ELSE None
      BY DEF NativeInv, CpuInv, IdleView
    <2>3. QED
      BY <2>1, <2>2 DEF PagesOf
  <1>2. QED
    BY <1>1, NativeInvariant, PTL

-----------------------------------------------------------------------------
(* The machines together *)

(* A behaviour of the composition is a behaviour of every part.            *)
LEMMA AmPartSpecs == Spec => HtifSpec /\ X86BootSpec /\ NativeSpec
  <1>1. Init => HtifInit /\ X86BootInit /\ NativeInit
    BY DEF Init
  <1>2. [Next]_vars => [HtifNext]_htifVars
    BY DEF Next, vars, HtifPart, BootPart, NativePart
  <1>3. [Next]_vars => [X86BootNext]_bootVars
    BY DEF Next, vars, HtifPart, BootPart, NativePart
  <1>4. [Next]_vars => [NativeNext]_nativeVars
    BY DEF Next, vars, HtifPart, BootPart, NativePart
  <1>5. QED
    BY <1>1, <1>2, <1>3, <1>4, PTL DEF Spec, HtifSpec, X86BootSpec, NativeSpec

(* The words that harts and host share, the boot record, what the CPUs     *)
(* execute and the mappings of the native machine stay within their types, *)
(* and the promises of the three machines hold together, for every number  *)
(* of harts, CPUs, characters, spaces and pages (htif.c, mpe.c, trm.c,     *)
(* native/vme.c).                                                          *)
THEOREM MachinesSafe ==
  ASSUME SpacesPinned
  PROVE  Spec => [](AmTypeOK /\ NoHartAborts /\ NoCharLost /\ BootPathExclusive /\ SeesLoadedSpace)
  <1>1. HtifTypeOK /\ X86BootTypeOK /\ NativeTypeOK => AmTypeOK
    BY DEF AmTypeOK
  <1>2. QED
    BY <1>1, AmPartSpecs, RepliesReachTheirCallers, ConsoleLosesNothing, CpusStartOneByOne,
       LoadedSpaceVisible, PTL
=============================================================================
