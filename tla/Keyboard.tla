-------------------------------- MODULE Keyboard --------------------------------
(***************************************************************************)
(* Bytes in, keys out (dashboard/mod.rs, keys_from): an Escape and the      *)
(* start of an arrow are the same byte, and only the ticks of the screen's  *)
(* loop tell them apart.                                                    *)
(***************************************************************************)
EXTENDS Integers, Sequences, FiniteSetsExt, Faults

CONSTANT Strokes  \* bound: keys struck

ASSUME KeyboardAssumption == Strokes \in Nat

VARIABLES
  wire,     \* bytes of the keys struck that the loop has not seen yet
  pending,  \* the bytes it holds
  pass,     \* keys_from is turning them into keys, a tick having gone by with nothing more or not; or it is over
  strokes,  \* keys struck
  meant,    \* history: those of them that mean something
  heard     \* history: the keys made of them

keyboard == <<wire, pending, pass, strokes, meant, heard>>

Esc     == "esc"
Letters == {"A", "x"}
Digits  == {"3"}

(* What a key sends; the last three are of no meaning here. *)
Sends == [escape |-> <<Esc>>, up |-> <<Esc, "bracket", "A">>, x |-> <<"x">>,
          back_tab |-> <<Esc, "bracket", "x">>, delete |-> <<Esc, "bracket", "3", "tilde">>, alt_x |-> <<Esc, "x">>]

Meant(key) == key \in {"escape", "up", "x"}

Bytes == {Esc, "bracket", "tilde"} \cup Letters \cup Digits

KeyboardTypeOK ==
  /\ wire \in Seq(Bytes) /\ pending \in Seq(Bytes) /\ pass \in {"over", "settled", "more"}
  /\ pass = "over" => Len(pending) <= 3
  /\ strokes \in 0..Strokes /\ meant \in Seq(DOMAIN Sends) /\ heard \in Seq(Bytes \cup {"escape", "up"})

KeyboardInit == wire = <<>> /\ pending = <<>> /\ pass = "over" /\ strokes = 0 /\ meant = <<>> /\ heard = <<>>

(* A whole tick in which nothing more arrived. *)
NothingMore == pass = "settled"

Made(keys, used) ==
  /\ heard' = heard \o keys /\ pending' = SubSeq(pending, used + 1, Len(pending))
  /\ UNCHANGED <<wire, pass, strokes, meant>>
Held == pass' = "over" /\ UNCHANGED <<wire, pending, strokes, meant, heard>>

(* keys_from, one turn of its loop: what is made of the first bytes, until there is none or the rest is held on. *)
KeysFrom ==
  LET n == Len(pending)
      ends == {i \in 3..n : pending[i] \in Letters \cup {"tilde"}} IN
  /\ pass # "over"
  /\ \/ n = 0 /\ Held
     \/ n > 0 /\ pending[1] # Esc /\ Made(<<pending[1]>>, 1)
     \/ n = 1 /\ pending[1] = Esc /\ IF NothingMore THEN Made(<<"escape">>, 1) ELSE Held
     \/ n > 1 /\ pending[1] = Esc /\ pending[2] # "bracket" /\ Made(<<>>, 2)
     \/ n = 2 /\ pending = <<Esc, "bracket">> /\ IF NothingMore THEN Made(<<>>, 2) ELSE Held
     \/ /\ n > 2 /\ pending[1] = Esc /\ pending[2] = "bracket"
        /\ IF pending[3] = "A" THEN Made(<<"up">>, 3)
           ELSE IF pending[3] \notin Digits THEN Made(<<>>, 3)
           ELSE IF ends = {} THEN Held ELSE Made(<<>>, Min(ends))

(* Somebody in no hurry waits until the key before has been taken. *)
Strike(key) ==
  /\ strokes < Strokes /\ (wire # <<>> \/ pending # <<>> => Happens("hurry"))
  /\ wire' = wire \o Sends[key] /\ strokes' = strokes + 1
  /\ meant' = IF Meant(key) THEN Append(meant, key) ELSE meant
  /\ UNCHANGED <<pending, pass, heard>>

(* A tick of the loop: what has arrived of the wire, which is some of it at least where the line is not slow. *)
Collect == \E n \in 0..Len(wire) :
  /\ pass = "over" /\ (n = 0 /\ wire # <<>> => Happens("slow"))
  /\ pending' = pending \o SubSeq(wire, 1, n) /\ wire' = SubSeq(wire, n + 1, Len(wire))
  /\ pass' = IF n = 0 THEN "settled" ELSE "more"
  /\ UNCHANGED <<strokes, meant, heard>>

KeyboardNext == Collect \/ KeysFrom \/ \E key \in DOMAIN Sends : Strike(key)

Cancels(keys) == {i \in DOMAIN keys : keys[i] = "escape"}

(* However the bytes of a key are spread over the ticks, it is that key and no other; nothing but Escape cancels,
   even where keys follow each other at once and are lost for it. *)
HeardAsStruck == ~Happens("slow") =>
  /\ wire = <<>> /\ pending = <<>> /\ ~Happens("hurry") => heard = meant
  /\ Cardinality(Cancels(heard)) <= Cardinality(Cancels(meant))
=============================================================================
