------------------------------ MODULE Connections ------------------------------
(***************************************************************************)
(* One request to the console (http.rs): a thread per connection reads a    *)
(* head of bounded length, decides who is asking, and only then reads what  *)
(* was sent with it, into memory or, for the one route that takes a file,   *)
(* onto the disk.  A client sends what it likes and as slowly as it likes.  *)
(***************************************************************************)
EXTENDS Integers, Sequences, Faults

CONSTANTS
  Clients,
  MaxHead,   \* MAX_HEAD, MAX_BODY and MAX_UPLOAD, in the pieces a client sends
  MaxBody,
  MaxUpload,
  Rotations  \* bound: credentials

ASSUME ConnectionsAssumption == /\ {MaxHead, MaxBody, MaxUpload} \subseteq Nat \ {0} /\ MaxBody < MaxUpload
                                /\ Rotations \in Nat \ {0}

VARIABLES
  trusted,  \* auth::current: which credential is the device's; 0: none
  line      \* a connection: where its thread is, what has been sent and taken, what was answered

connections == <<trusted, line>>

Routes   == {"page", "open-route", "change", "upload"}
Lengths  == {-1, 0} \cup 1..(MaxUpload + 1)
NoLine   == [at |-> "closed", checks |-> 0, route |-> "page", presents |-> 0, length |-> -1, taken |-> 0, answer |-> "none"]

ConnectionsTypeOK ==
  /\ trusted \in 0..Rotations
  /\ line \in [Clients -> [at : {"closed", "head", "body", "file", "handler"}, checks : 0..Rotations, route : Routes,
                           presents : 0..Rotations, length : Lengths, taken : 0..(MaxHead + MaxUpload),
                           answer : {"none", "refused", "too-large", "malformed", "done", "hung-up"}]]

ConnectionsInit == trusted = 1 /\ line = [c \in Clients |-> NoLine]

Step(c, to) == line' = [line EXCEPT ![c] = to] /\ UNCHANGED trusted
Ends(c, answer) == Step(c, [line[c] EXCEPT !.at = "closed", !.answer = answer])

-----------------------------------------------------------------------------
(* serve: the credential is read as the connection's thread starts. *)
Accept(c) == line[c].at = "closed" /\ line[c].answer = "none" /\ Step(c, [NoLine EXCEPT !.at = "head", !.checks = trusted])

(* auth::install, by a rotation *)
Rotate == trusted < Rotations /\ trusted' = trusted + 1 /\ UNCHANGED line

TooLong(c) == line[c].taken >= MaxHead

(* read_head: a piece of it; up to MAX_HEAD in all. *)
MoreHead(c) ==
  /\ line[c].at = "head"
  /\ IF TooLong(c) THEN Ends(c, "too-large") ELSE Step(c, [line[c] EXCEPT !.taken = IF @ < MaxHead THEN @ + 1 ELSE @])

(* IO_TIMEOUT, or a client that is gone: read_exact and read_line fail, and nothing is answered. *)
HangsUp(c) == line[c].at \in {"head", "body", "file"} /\ Ends(c, "hung-up")

(* refusal *)
Refusal(c, route, presents) == route \in {"change", "upload"} /\ (line[c].checks = 0 \/ presents # line[c].checks)

(* The head is over, with its blank line or, as well, because the client sends no more; parse_request, refusal, and
   which of the two ways its body is read.  Content-Length -1: there is none, or none that is a number. *)
HeadEnds(c) == \E route \in Routes, presents \in 0..trusted, length \in Lengths :
  LET known == [line[c] EXCEPT !.route = route, !.presents = presents, !.length = length, !.taken = 0] IN
  /\ line[c].at = "head"
  /\ IF Refusal(c, route, presents) THEN Step(c, [known EXCEPT !.at = "closed", !.answer = "refused"])
     ELSE IF route = "upload"
       THEN \/ length = -1 /\ Step(c, [known EXCEPT !.at = "closed", !.answer = "malformed"])
            \/ (length = 0 \/ length > MaxUpload) /\ Step(c, [known EXCEPT !.at = "closed", !.answer = "too-large"])
            \/ length \in 1..MaxUpload /\ Step(c, [known EXCEPT !.at = "file"])
       ELSE \/ length \in {-1, 0} /\ Step(c, [known EXCEPT !.at = "handler"])
            \/ length = -1 /\ Step(c, [known EXCEPT !.at = "closed", !.answer = "malformed"])
            \/ length > MaxBody /\ Step(c, [known EXCEPT !.at = "closed", !.answer = "too-large"])
            \/ length \in 1..MaxBody /\ Step(c, [known EXCEPT !.at = "body"])

(* read_body and stream_body: up to the length that was announced, and no more. *)
MoreBody(c) ==
  /\ line[c].at \in {"body", "file"}
  /\ Step(c, [line[c] EXCEPT !.taken = @ + 1, !.at = IF line[c].taken + 1 = line[c].length THEN "handler" ELSE @])

Handled(c) == line[c].at = "handler" /\ Ends(c, "done")

(* The client goes, and may come again. *)
Leaves(c) == line[c].at = "closed" /\ line[c].answer # "none" /\ Step(c, NoLine)

ConnectionsNext == Rotate \/ \E c \in Clients :
  Accept(c) \/ MoreHead(c) \/ HangsUp(c) \/ HeadEnds(c) \/ MoreBody(c) \/ Handled(c) \/ Leaves(c)

-----------------------------------------------------------------------------
(* Nothing a client sends after its head is taken in unless it holds a credential this device trusts, or asked for
   nothing that changes the machine: the refusal comes before the eighty megabytes. *)
NothingTakenFromStrangers == \A c \in Clients : line[c].at \in {"body", "file", "handler"} /\ line[c].route \in {"change", "upload"} =>
  line[c].presents # 0 /\ line[c].presents <= trusted

(* A thread has a client, however slowly it sends and whatever it announced. *)
Served(c) == line[c].at # "closed"
=============================================================================
