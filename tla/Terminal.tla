------------------------------- MODULE Terminal -------------------------------
(***************************************************************************)
(* The console's one shell (terminal.rs, pty.rs, terminal_route): a reader  *)
(* that fills a bounded buffer which counts every byte it ever saw, and     *)
(* browsers that ask for what came after the byte they have, one of them    *)
(* perhaps taking the session over.                                         *)
(*                                                                          *)
(* Sessions are numbered in the order they are opened; a pid that comes     *)
(* back is left out.  A byte stands for its place in what the shell wrote.  *)
(***************************************************************************)
EXTENDS Integers, Sequences, Faults

CONSTANTS
  Tabs,
  Opened,   \* bound: sessions opened
  Output,   \* bound: bytes a shell writes
  Kept      \* BUFFER_BYTES

ASSUME TerminalAssumption == {Opened, Output, Kept} \subseteq Nat \ {0}

VARIABLES
  slot,    \* CURRENT: the session, or none
  idle,    \* it was last polled more than IDLE_TIMEOUT ago
  writing, \* whose keystrokes are being written, the session lock held
  shells,  \* the processes
  buffer,  \* each session's: the offset of its first byte, its bytes, whether the shell is gone
  tab      \* a browser: the session it knows, the offset it asks from, the last byte it has, whether it missed one untold

terminal == <<slot, idle, writing, shells, buffer, tab>>

Shut  == 0
Nums  == 1..Opened
Empty == [base |-> 0, bytes |-> <<>>, finished |-> FALSE]
Away  == [at |-> "away", id |-> Shut, since |-> 0, last |-> 0, skipped |-> FALSE]

TerminalTypeOK ==
  /\ slot \in Nums \cup {Shut} /\ idle \in BOOLEAN /\ writing \subseteq Tabs
  /\ shells \in [Nums -> {"none", "live", "deaf-to-hangups", "exited", "reaped"}]
  /\ \A n \in Nums : buffer[n].base \in 0..Output /\ Len(buffer[n].bytes) <= Kept /\ buffer[n].finished \in BOOLEAN
  /\ tab \in [Tabs -> [at : {"away", "here", "polling"}, id : Nums \cup {Shut}, since : 0..Output, last : 0..Output, skipped : BOOLEAN]]

TerminalInit ==
  /\ slot = Shut /\ idle = FALSE /\ writing = {}
  /\ shells = [n \in Nums |-> "none"] /\ buffer = [n \in Nums |-> Empty]
  /\ tab = [b \in Tabs |-> Away]

End(n) == buffer[n].base + Len(buffer[n].bytes)
Typed(n) == IF buffer[n].bytes = <<>> THEN buffer[n].base ELSE buffer[n].bytes[Len(buffer[n].bytes)]

-----------------------------------------------------------------------------
(* The reader and the shell. *)

(* Mutant: what is dropped is not counted. *)
PushedUncounted(q, byte) ==
  LET all == Append(q.bytes, byte) IN
  [q EXCEPT !.bytes = IF Len(all) > Kept THEN Tail(all) ELSE all]

(* Buffer::push: the oldest goes, and the base with it. *)
Pushed(q, byte) ==
  LET all == Append(q.bytes, byte) IN
  IF Len(all) > Kept THEN [q EXCEPT !.bytes = Tail(all), !.base = @ + 1] ELSE [q EXCEPT !.bytes = all]

Reads(n) ==
  /\ shells[n] = "live" /\ Typed(n) < Output
  /\ buffer' = [buffer EXCEPT ![n] = Pushed(@, Typed(n) + 1)]
  /\ UNCHANGED <<slot, idle, writing, shells, tab>>

EndOfFile(n) ==
  /\ shells[n] \in {"exited", "reaped"} /\ ~buffer[n].finished
  /\ buffer' = [buffer EXCEPT ![n].finished = TRUE]
  /\ UNCHANGED <<slot, idle, writing, shells, tab>>

Exits(n) ==
  /\ shells[n] = "live"
  /\ shells' = [shells EXCEPT ![n] = "exited"]
  /\ UNCHANGED <<slot, idle, writing, buffer, tab>>

-----------------------------------------------------------------------------
(* Requests.  Each begins by ending a session that nobody polled for too long (terminal_route). *)

(* end: SIGHUP, and two seconds for the child to be reaped. *)
HungUp(n) == [shells EXCEPT ![n] = IF Happens("stubborn") /\ @ = "live" THEN "deaf-to-hangups" ELSE "reaped"]

Expire ==
  /\ idle /\ idle' = FALSE /\ writing = {}
  /\ shells' = HungUp(slot) /\ slot' = Shut
  /\ UNCHANGED <<writing, buffer, tab>>

(* A request that has the session lock, and finds the session it names. *)
MayAct == writing = {} /\ ~idle
Finds(b) == MayAct /\ tab[b].at = "here" /\ tab[b].id = slot

MayOpen(takeOver) == slot # Shut => takeOver \/ buffer[slot].finished

(* pty::spawn: a shell that leads a terminal of its own, or nothing where there is no terminal or no process to be had. *)
Spawned(left, n) == {[left EXCEPT ![n] = "live"]} \cup IF Happens("fail") THEN {left} ELSE {}

(* A session that was there has ended even where the new one cannot be started; a shell started whose reader
   cannot be is let go without being reaped. *)
OpenShell(b) == \E takeOver \in BOOLEAN, n \in Nums :
  /\ MayAct /\ MayOpen(takeOver) /\ shells[n] = "none" /\ \A m \in 1..(n - 1) : shells[m] # "none"
  /\ \E spawned \in Spawned(IF slot = Shut THEN shells ELSE HungUp(slot), n) :
     \/ /\ spawned[n] = "live" /\ slot' = n /\ shells' = spawned
        /\ tab' = [tab EXCEPT ![b] = [Away EXCEPT !.at = "here", !.id = n]]
     \/ /\ Happens("fail") /\ slot' = Shut /\ UNCHANGED tab
        /\ shells' = IF spawned[n] = "live" THEN [spawned EXCEPT ![n] = "exited"] ELSE spawned
  /\ UNCHANGED <<idle, writing, buffer>>

(* poll: it takes the session's buffer with it, and lets go of the session lock before it waits. *)
Poll(b) ==
  /\ Finds(b)
  /\ tab' = [tab EXCEPT ![b].at = "polling"]
  /\ UNCHANGED <<slot, idle, writing, shells, buffer>>

NoSuchSession(b) ==
  /\ MayAct /\ tab[b].at = "here" /\ tab[b].id # slot
  /\ tab' = [tab EXCEPT ![b] = Away]
  /\ UNCHANGED <<slot, idle, writing, shells, buffer>>

Lost(since, q) == since < q.base

(* Mutant: a poll waits until there is something. *)
WaitsForSomething(b) == FALSE

(* It waits for a byte, the end of the shell, or POLL_WAIT. *)
TimesOut(b) == TRUE

Answered(b) ==
  LET q == buffer[tab[b].id]
      from == IF tab[b].since > q.base THEN tab[b].since - q.base ELSE 0
      data == SubSeq(q.bytes, from + 1, Len(q.bytes)) IN
  /\ tab[b].at = "polling"
  /\ End(tab[b].id) > tab[b].since \/ q.finished \/ TimesOut(b)
  /\ tab' = [tab EXCEPT ![b].at = "here", ![b].since = End(tab[b].id),
                        ![b].last = IF data = <<>> THEN @ ELSE data[Len(data)],
                        ![b].skipped = @ \/ (~Lost(tab[b].since, q) /\ data # <<>> /\ data[1] # tab[b].last + 1)]
  /\ UNCHANGED <<slot, idle, writing, shells, buffer>>

(* input: written while the session lock is held, for ever if the shell does not read. *)
Input(b) ==
  /\ Finds(b) /\ Happens("input") /\ writing' = {b}
  /\ UNCHANGED <<slot, idle, shells, buffer, tab>>
InputTaken ==
  /\ writing # {} /\ writing' = {}
  /\ UNCHANGED <<slot, idle, shells, buffer, tab>>

Close(b) ==
  /\ Finds(b)
  /\ shells' = HungUp(slot) /\ slot' = Shut
  /\ tab' = [tab EXCEPT ![b] = Away]
  /\ UNCHANGED <<idle, writing, buffer>>

(* A tab is shut without a word; and nobody polls for five minutes, a tab that is asleep among them. *)
ShutTab(b) ==
  /\ tab[b].at = "here"
  /\ tab' = [tab EXCEPT ![b] = Away]
  /\ UNCHANGED <<slot, idle, writing, shells, buffer>>
FiveMinutes ==
  /\ slot # Shut /\ ~idle /\ writing = {} /\ \A b \in Tabs : tab[b].at = "polling" => tab[b].id # slot
  /\ idle' = TRUE
  /\ UNCHANGED <<slot, writing, shells, buffer, tab>>

TerminalNext ==
  \/ \E n \in Nums : Reads(n) \/ EndOfFile(n) \/ Exits(n)
  \/ \E b \in Tabs : OpenShell(b) \/ Poll(b) \/ NoSuchSession(b) \/ Answered(b) \/ Input(b) \/ Close(b) \/ ShutTab(b)
  \/ Expire \/ InputTaken \/ FiveMinutes

-----------------------------------------------------------------------------
(* "A client asking for everything after a position it already has cannot" lose what arrived between two polls:
   a browser has every byte the shell wrote, in order, up to where it is, unless it was told that some are gone. *)
NothingSkippedUntold == \A b \in Tabs : ~tab[b].skipped

(* No shell but the session's is left, running or unreaped, by taking over, closing, expiring or opening: as long
   as shells obey a hangup and descriptors can be duplicated. *)
NoShellLeft == ~Happens("stubborn") /\ ~Happens("fail") =>
  \A n \in Nums : shells[n] \in {"live", "exited"} => slot = n

(* A browser whose session is gone has not learned of it, if only because it was waiting for output when it went. *)
Unaware(b) == tab[b].at # "away" /\ tab[b].id # slot
=============================================================================
