---------------------------- MODULE Access_proofs ----------------------------
(***************************************************************************)
(* Proofs about Access, for any browsers, deadlines, capacities and bounds. *)
(***************************************************************************)
EXTENDS Access, FiniteSetTheorems, TLAPS

(* What each thread has in hand. *)
HandInv ==
  /\ up = "claiming" => file \in Tokens
  /\ \A b \in Rotating : thread[b].nr \in Tokens
  /\ \A b \in Browsers : thread[b].at = "paired" => thread[b].nr \in Codes
  /\ \A b \in Browsers : thread[b].at = "admitted" => thread[b].nr \in Sessions \cup {None}

(* A code is on offer, or in the hand of one thread, or spent on one session, or lost; an approval
   that let somebody in is used up. *)
GrantInv ==
  /\ offer.code <= offered
  /\ \A i \in Issued :
       /\ session[i].how \in Grants
       /\ session[i].how.by = "code" => session[i].how.nr <= offered /\ session[i].how.nr # offer.code
       /\ session[i].how.by = "ask"  => ask[session[i].how.nr].is \in {"consumed", "gone"}
  /\ \A b \in Browsers : thread[b].at = "paired" =>
       /\ thread[b].nr <= offered /\ thread[b].nr # offer.code
       /\ \A i \in Issued : session[i].how # [by |-> "code", nr |-> thread[b].nr]
       /\ \A c \in Browsers : thread[c].at = "paired" /\ thread[c].nr = thread[b].nr => c = b

(* In use: where the one rotation is, and what the next start will find. *)
TokenInv == Orderly =>
  /\ \A b, c \in Rotating : b = c
  /\ up # "up" => Rotating = {}
  /\ up = "down" => file \in known \/ (file = None /\ generated = None)
  /\ up = "up" /\ Rotating = {} => inForce = file /\ inForce \in known
  /\ \A b \in Rotating : thread[b].at # "writing" => file = thread[b].nr
  /\ \A b \in Rotating : thread[b].at \in {"installed", "revoked"} => inForce = thread[b].nr

(* The inductive invariant. *)
IInv == TypeOK /\ HandInv /\ GrantInv /\ AdmittedOnce /\ TokenInv

USE DeadlineAssumption, CapacityAssumption, HazardAssumption DEF None

-----------------------------------------------------------------------------
(* The numbers of secrets are positive, there is a first one, and they are finitely many. *)
LEMMA Numbers ==
  /\ Tokens \subseteq Nat \ {0} /\ Codes \subseteq Nat \ {0}
  /\ Asks \subseteq Nat \ {0} /\ Sessions \subseteq Nat \ {0}
  /\ 1 \in Tokens /\ IsFiniteSet(Asks) /\ IsFiniteSet(Sessions)
<1>1. \A numbers \in {Tokens, Codes, Asks, Sessions} :
        /\ numbers # {} /\ IsFiniteSet(numbers) /\ numbers = 1..Cardinality(numbers)
        /\ Cardinality(numbers) \in Nat
  BY NumberAssumption, FS_CardinalityType
<1>2. \A numbers \in {Tokens, Codes, Asks, Sessions} :
        numbers \subseteq Nat \ {0} /\ 1 \in numbers /\ IsFiniteSet(numbers)
  <2> SUFFICES ASSUME NEW numbers \in {Tokens, Codes, Asks, Sessions}
      PROVE numbers \subseteq Nat \ {0} /\ 1 \in numbers /\ IsFiniteSet(numbers)
    OBVIOUS
  <2>1. PICK n \in Nat : numbers = 1..n /\ numbers # {}
    BY <1>1
  <2> QED BY <1>1, <2>1
<1> QED BY <1>2

(* A store that only loses something is no fuller. *)
LEMMA Fewer ==
  ASSUME NEW S, NEW T, IsFiniteSet(T), S \subseteq T, NEW max \in Nat, Cardinality(T) <= max
  PROVE  Cardinality(S) <= max
  BY FS_Subset, FS_CardinalityType

(* The sessions that live, and the requests that stand, are finitely many. *)
LEMMA Finite == IsFiniteSet(Live) /\ IsFiniteSet(Held)
  BY Numbers, FS_Subset DEF Live, Held

(* One more, into a store with room. *)
LEMMA OneMore ==
  ASSUME NEW T, IsFiniteSet(T), NEW x, NEW max \in Nat, Cardinality(T) < max
  PROVE  Cardinality(T \cup {x}) <= max
<1>1. Cardinality(T) \in Nat
  BY FS_CardinalityType
<1>2. Cardinality(T \cup {x}) = Cardinality(T) \/ Cardinality(T \cup {x}) = Cardinality(T) + 1
  BY FS_AddElement, Zenon
<1> QED BY <1>1, <1>2

(* One in the place of another. *)
LEMMA Exchange ==
  ASSUME NEW T, IsFiniteSet(T), NEW x, NEW y \in T, NEW max \in Nat, Cardinality(T) <= max
  PROVE  Cardinality((T \ {y}) \cup {x}) <= max
<1>1. IsFiniteSet(T \ {y}) /\ Cardinality(T \ {y}) = Cardinality(T) - 1
  BY FS_RemoveElement
<1>2. Cardinality(T) \in Nat
  BY FS_CardinalityType
<1>3. Cardinality(T \ {y}) < max
  BY <1>1, <1>2
<1> QED BY <1>1, <1>3, OneMore

-----------------------------------------------------------------------------
(* The two stores, whatever else a step does. *)

SessionOK ==
  /\ session \in [Sessions -> SessionStates]
  /\ Cardinality(Live) <= MaxSessions
AskOK ==
  /\ ask \in [Asks -> AskStates]
  /\ Cardinality(Held) <= MaxPending

(* No session is issued, and none is issued for something else. *)
SameGrants == Issued' = Issued /\ \A i \in Issued : session'[i].how = session[i].how

(* What was used up stays used up. *)
UsedUp(r)  == ask[r].is \in {"consumed", "gone"}
StaysUsedUp == \A r \in Asks : UsedUp(r) => UsedUp(r)'

(* A session that ends remains what it was issued for. *)
LEMMA EndedIs ==
  ASSUME SessionOK, NEW i \in Sessions
  PROVE  /\ Ended(i) \in SessionStates
         /\ Ended(i).is # "live" /\ Ended(i).how = session[i].how
         /\ Ended(i).is = "unissued" <=> session[i].is = "unissued"
<1>1. CASE session[i].is # "live"
  BY <1>1 DEF SessionOK, Ended, Live
<1>2. CASE session[i].is = "live"
  <2>1. Ended(i) = [is |-> "ended", how |-> session[i].how, to |-> Nobody, made |-> 0, used |-> 0]
    BY <1>2 DEF Ended, Unissued, Live
  <2>2. session[i].how \in Grants \cup {NoGrant}
    BY DEF SessionOK, SessionStates
  <2> QED BY <1>2, <2>1, <2>2 DEF SessionStates
<1> QED BY <1>1, <1>2

(* A request that is withdrawn, or expires, is used up. *)
LEMMA GoneIs ==
  ASSUME AskOK, NEW r \in Asks
  PROVE  /\ Gone(r) \in AskStates
         /\ Gone(r).is \in {"unasked", "gone"}
         /\ Gone(r).is = "unasked" <=> ask[r].is = "unasked"
  BY DEF AskOK, AskStates, Gone, NoAsk, Held

(* Some sessions end, and those that stay may age or be used: a step of this form keeps the store. *)
LEMMA SessionsOnlyEnd ==
  ASSUME SessionOK,
         session' \in [Sessions -> SessionStates],
         \A i \in Sessions : /\ session'[i].how = session[i].how
                             /\ session'[i].is = "live" => session[i].is = "live"
                             /\ session'[i].is = "unissued" <=> session[i].is = "unissued"
  PROVE  SessionOK' /\ SameGrants
<1>1. Live' \subseteq Live /\ Issued' = Issued
  BY DEF Live, Issued
<1>2. Cardinality(Live') <= MaxSessions
  BY <1>1, Finite, Fewer DEF SessionOK
<1> QED BY <1>1, <1>2 DEF SessionOK, SameGrants, Issued

(* Every session ends. *)
LEMMA AllSessionsEnd ==
  ASSUME SessionOK, session' = [i \in Sessions |-> Ended(i)]
  PROVE  SessionOK' /\ SameGrants
  BY EndedIs, SessionsOnlyEnd

(* One session ends. *)
LEMMA OneSessionEnds ==
  ASSUME SessionOK, NEW i \in Sessions, session' = [session EXCEPT ![i] = Ended(i)]
  PROVE  SessionOK' /\ SameGrants
<1>1. session' \in [Sessions -> SessionStates]
  BY EndedIs DEF SessionOK
<1>2. \A j \in Sessions : session'[j] = session[j] \/ (j = i /\ session'[j] = Ended(i))
  BY DEF SessionOK
<1> QED BY <1>1, <1>2, EndedIs, SessionsOnlyEnd

(* A session is used. *)
LEMMA SessionUsed ==
  ASSUME SessionOK, NEW i \in Sessions, session' = Used(i)
  PROVE  SessionOK' /\ SameGrants
<1>1. session' \in [Sessions -> SessionStates]
  BY DEF SessionOK, SessionStates, Used
<1>2. \A j \in Sessions : session'[j].how = session[j].how /\ session'[j].is = session[j].is
  BY DEF SessionOK, SessionStates, Used
<1> QED BY <1>1, <1>2, SessionsOnlyEnd

(* Time passes for every session. *)
LEMMA SessionsAge ==
  ASSUME SessionOK, session' = [i \in Sessions |-> Older(i)]
  PROVE  SessionOK' /\ SameGrants
<1>1. ASSUME NEW i \in Sessions
      PROVE  /\ Older(i) \in SessionStates
             /\ Older(i).how = session[i].how
             /\ Older(i).is = "live" => session[i].is = "live"
             /\ Older(i).is = "unissued" <=> session[i].is = "unissued"
  <2>1. CASE i \notin Live
    BY <2>1 DEF Older, SessionOK, Live
  <2>2. CASE i \in Live /\ session[i].made + 1 < Absolute /\ session[i].used + 1 < Idle
    <3>1. session[i] \in SessionStates
      BY DEF SessionOK
    <3>2. Older(i) = [session[i] EXCEPT !.made = @ + 1, !.used = @ + 1]
      BY <2>2 DEF Older
    <3>3. session[i].made + 1 \in 0..Absolute - 1 /\ session[i].used + 1 \in 0..Idle - 1
      BY <2>2, <3>1 DEF SessionStates
    <3>4. Older(i) \in SessionStates
      BY <3>1, <3>2, <3>3, ZenonT(60) DEF SessionStates
    <3> QED BY <3>1, <3>2, <3>4 DEF SessionStates
  <2>3. CASE i \in Live /\ ~(session[i].made + 1 < Absolute /\ session[i].used + 1 < Idle)
    BY <2>3, EndedIs DEF Older, Live
  <2> QED BY <2>1, <2>2, <2>3
<1> QED BY <1>1, SessionsOnlyEnd

(* Requests end, or grow older, or are left: a step of this form keeps the store. *)
LEMMA AsksOnlyEnd ==
  ASSUME AskOK,
         ask' \in [Asks -> AskStates],
         \A r \in Asks : /\ ask'[r].is \in {"unasked", "gone"} \/ ask[r].is \notin {"unasked", "gone"}
                         /\ UsedUp(r) => UsedUp(r)'
  PROVE  AskOK' /\ StaysUsedUp
<1>1. Held' \subseteq Held
  BY DEF Held
<1>2. Cardinality(Held') <= MaxPending
  BY <1>1, Finite, Fewer DEF AskOK
<1> QED BY <1>1, <1>2 DEF AskOK, StaysUsedUp

(* Every request ends. *)
LEMMA AllAsksEnd ==
  ASSUME AskOK, ask' = [r \in Asks |-> Gone(r)]
  PROVE  AskOK' /\ StaysUsedUp
<1>1. \A r \in Asks : UsedUp(r) => UsedUp(r)'
  BY GoneIs DEF UsedUp, AskOK
<1> QED BY <1>1, GoneIs, AsksOnlyEnd

(* One request changes hands within the store, or leaves it. *)
LEMMA OneAskChanges ==
  ASSUME AskOK, NEW r \in Held,
         NEW new \in AskStates,
         ask[r].is = "consumed" => new.is = "gone",
         ask' = [ask EXCEPT ![r] = new]
  PROVE  AskOK' /\ StaysUsedUp
<1>1. ask' \in [Asks -> AskStates]
  BY DEF AskOK
<1>2. \A q \in Asks : ask'[q] = ask[q] \/ (q = r /\ ask'[q] = new)
  BY DEF AskOK
<1>3. r \in Asks /\ ask[r].is \notin {"unasked", "gone"}
  BY DEF Held
<1>4. ASSUME NEW q \in Asks
      PROVE  /\ ask'[q].is \in {"unasked", "gone"} \/ ask[q].is \notin {"unasked", "gone"}
             /\ UsedUp(q) => UsedUp(q)'
  <2>1. CASE ask'[q] = ask[q]
    BY <2>1 DEF UsedUp, AskOK
  <2>2. CASE q = r /\ ask'[q] = new
    BY <2>2, <1>3 DEF UsedUp
  <2> QED BY <2>1, <2>2, <1>2
<1> QED BY <1>1, <1>4, AsksOnlyEnd

(* Time passes for every request. *)
LEMMA AsksAge ==
  ASSUME AskOK, ask' = [r \in Asks |-> Staler(r)]
  PROVE  AskOK' /\ StaysUsedUp
<1>1. ASSUME NEW r \in Asks
      PROVE  /\ Staler(r) \in AskStates
             /\ Staler(r).is \in {"unasked", "gone"} \/ ask[r].is \notin {"unasked", "gone"}
             /\ UsedUp(r) => Staler(r).is \in {"consumed", "gone"}
  <2>1. CASE r \notin Held
    BY <2>1 DEF Staler, AskOK, AskStates, Held, UsedUp
  <2>2. CASE r \in Held /\ ask[r].age + 1 < Lifetime
    BY <2>2 DEF Staler, AskOK, AskStates, Held, UsedUp
  <2>3. CASE r \in Held /\ ~(ask[r].age + 1 < Lifetime)
    <3>1. Staler(r) = Gone(r) /\ ask[r].is \notin {"unasked", "gone"}
      BY <2>3 DEF Staler, Held
    <3>2. Gone(r).is = "gone"
      BY <3>1, GoneIs
    <3> QED BY <3>1, <3>2, GoneIs
  <2> QED BY <2>1, <2>2, <2>3
<1>2. \A r \in Asks : UsedUp(r) => UsedUp(r)'
  BY <1>1 DEF UsedUp
<1> QED BY <1>1, <1>2, AsksOnlyEnd

(* Nothing happens to the store of sessions, or of requests. *)
LEMMA SessionsStay ==
  ASSUME SessionOK, UNCHANGED session PROVE SessionOK' /\ SameGrants
  BY DEF SessionOK, SameGrants, Live, Issued
LEMMA AsksStay ==
  ASSUME AskOK, UNCHANGED ask PROVE AskOK' /\ StaysUsedUp
  BY DEF AskOK, StaysUsedUp, UsedUp, Held

(* A session is issued: to one that was not, for what it was asked for. *)
LEMMA Issues ==
  ASSUME SessionOK, NEW b \in Browsers, NEW grant \in Grants, Issue(b, grant)
  PROVE  /\ SessionOK'
         /\ \E i \in Sessions \ Issued :
              /\ Issued' = Issued \cup {i} /\ session'[i].how = grant
              /\ \A j \in Issued : session'[j].how = session[j].how
<1> DEFINE new == [is |-> "live", how |-> grant, to |-> b, made |-> 0, used |-> 0]
<1>1. PICK i \in Sessions \ Issued :
        \/ ~Full /\ session' = [session EXCEPT ![i] = new]
        \/ \E old \in LeastUsed : session' = [session EXCEPT ![i] = new, ![old] = Ended(old)]
  BY DEF Issue
<1>2. new \in SessionStates /\ new.is = "live" /\ new.how = grant
  BY DEF SessionStates
<1>3. session[i].is = "unissued" /\ i \notin Live
  BY DEF Issued, Live
<1> HIDE DEF new
<1>4. CASE ~Full /\ session' = [session EXCEPT ![i] = new]
  <2>1. session' \in [Sessions -> SessionStates]
    BY <1>2, <1>4 DEF SessionOK
  <2>2. \A j \in Sessions : session'[j] = IF j = i THEN new ELSE session[j]
    BY <1>4 DEF SessionOK
  <2>3. Live' = Live \cup {i}
    BY <1>2, <2>2 DEF Live
  <2>4. Cardinality(Live) \in Nat /\ Cardinality(Live) < MaxSessions
    BY <1>4, Finite, FS_CardinalityType DEF Full
  <2>5. Cardinality(Live') <= MaxSessions
    BY <2>3, <2>4, Finite, OneMore
  <2>6. Issued' = Issued \cup {i}
    BY <1>2, <2>2 DEF Issued
  <2>7. \A j \in Issued : session'[j].how = session[j].how
    BY <2>2 DEF Issued
  <2>8. session'[i].how = grant /\ SessionOK'
    BY <1>2, <2>1, <2>2, <2>5 DEF SessionOK
  <2> QED BY <2>6, <2>7, <2>8
<1>5. ASSUME NEW old \in LeastUsed, session' = [session EXCEPT ![i] = new, ![old] = Ended(old)]
      PROVE  /\ SessionOK'
             /\ Issued' = Issued \cup {i} /\ session'[i].how = grant
             /\ \A j \in Issued : session'[j].how = session[j].how
  <2>1. old \in Live /\ old \in Sessions /\ old # i /\ old \in Issued
    BY <1>3 DEF LeastUsed, Live, Issued
  <2>2. Ended(old) \in SessionStates /\ Ended(old).is # "live" /\ Ended(old).is # "unissued"
        /\ Ended(old).how = session[old].how
    BY <2>1, EndedIs DEF Issued
  <2>3. session' \in [Sessions -> SessionStates]
    BY <1>2, <1>5, <2>1, <2>2 DEF SessionOK
  <2>4. \A j \in Sessions : session'[j] = IF j = i THEN new ELSE IF j = old THEN Ended(old) ELSE session[j]
    BY <1>5, <2>1 DEF SessionOK
  <2>5. Live' = (Live \ {old}) \cup {i}
    BY <1>2, <2>1, <2>2, <2>4 DEF Live
  <2>6. Cardinality(Live') <= MaxSessions
    BY <2>1, <2>5, Finite, Exchange DEF SessionOK
  <2>7. Issued' = Issued \cup {i}
    BY <1>2, <2>1, <2>2, <2>4 DEF Issued
  <2>8. \A j \in Issued : session'[j].how = session[j].how
    BY <2>1, <2>2, <2>4 DEF Issued
  <2> QED BY <1>2, <2>3, <2>4, <2>6, <2>7, <2>8 DEF SessionOK
<1> QED BY <1>1, <1>4, <1>5

(* A request is opened, while there is room. *)
LEMMA Opens ==
  ASSUME AskOK, Cardinality(Held) < MaxPending, NEW b \in Browsers, NEW r \in Asks \ Asked,
         ask' = [ask EXCEPT ![r] = [is |-> "pending", from |-> b, age |-> 0]]
  PROVE  AskOK' /\ StaysUsedUp
<1> DEFINE new == [is |-> "pending", from |-> b, age |-> 0]
<1>1. new \in AskStates /\ new.is = "pending"
  BY DEF AskStates
<1>2. ask[r].is = "unasked"
  BY DEF Asked
<1> HIDE DEF new
<1>3. ask' \in [Asks -> AskStates] /\ \A q \in Asks : ask'[q] = IF q = r THEN new ELSE ask[q]
  BY <1>1 DEF AskOK, new
<1>4. Held' = Held \cup {r}
  BY <1>1, <1>3 DEF Held
<1>5. Cardinality(Held') <= MaxPending
  BY <1>4, Finite, OneMore, FS_CardinalityType
<1>6. StaysUsedUp
  BY <1>2, <1>3 DEF StaysUsedUp, UsedUp
<1> QED BY <1>3, <1>5, <1>6 DEF AskOK

-----------------------------------------------------------------------------
(* What a step does to codes and approvals is right if it moves no code and issues nothing. *)

(* Of the type invariant, what concerns the pairing code. *)
LEMMA CodesTyped ==
  ASSUME TypeOK
  PROVE  /\ offer \in [code : Codes \cup {None}, age : 0..Lifetime]
         /\ offered \in Codes \cup {None} /\ offered \in Nat
         /\ offer.code \in Codes \cup {None} /\ offer.code \in Nat
         /\ \A c \in Codes : c \in Nat \ {0}
<1>1. offer \in [code : Codes \cup {None}, age : 0..Lifetime] /\ offered \in Codes \cup {None}
  BY Zenon DEF TypeOK
<1>2. \A c \in Codes : c \in Nat \ {0}
  BY Numbers
<1>3. offer.code \in Codes \cup {None}
  BY <1>1
<1> QED BY <1>1, <1>2, <1>3

(* No thread comes to hold a code. *)
NobodyPairs == \A b \in Browsers : thread'[b].at = "paired" => thread'[b] = thread[b]

(* Nothing is offered, taken in hand or issued, and nothing used up comes back: what was let in on
   a code or an approval stays the only one. *)
LEMMA GrantsKept ==
  ASSUME TypeOK, HandInv, GrantInv, AdmittedOnce,
         SameGrants, StaysUsedUp, NobodyPairs,
         offer'.code \in {None, offer.code}, UNCHANGED offered
  PROVE  GrantInv' /\ AdmittedOnce'
<1>1. /\ offered \in Nat /\ offer.code \in Nat
      /\ \A c \in Codes : c \in Nat \ {0}
  BY CodesTyped
<1>2. offer'.code <= offered
  BY <1>1 DEF GrantInv
<1>3. ASSUME NEW i \in Issued'
      PROVE  /\ session'[i].how \in Grants
             /\ session'[i].how.by = "code" => session'[i].how.nr <= offered' /\ session'[i].how.nr # offer'.code
             /\ session'[i].how.by = "ask"  => ask'[session'[i].how.nr].is \in {"consumed", "gone"}
  <2>1. i \in Issued /\ session'[i].how = session[i].how
    BY DEF SameGrants
  <2>2. session[i].how \in Grants
    BY <2>1 DEF GrantInv
  <2>3. CASE session[i].how.by = "code"
    <3>1. session[i].how.nr \in Codes
      BY <2>2, <2>3 DEF Grants
    <3> QED BY <1>1, <2>1, <2>2, <2>3, <3>1 DEF GrantInv
  <2>4. CASE session[i].how.by = "ask"
    <3>1. session[i].how.nr \in Asks
      BY <2>2, <2>4 DEF Grants
    <3> QED BY <2>1, <2>2, <2>4, <3>1 DEF GrantInv, StaysUsedUp, UsedUp
  <2> QED BY <2>1, <2>2, <2>3, <2>4 DEF Grants
<1>4. ASSUME NEW b \in Browsers, thread'[b].at = "paired"
      PROVE  /\ thread'[b].nr <= offered' /\ thread'[b].nr # offer'.code
             /\ \A i \in Issued' : session'[i].how # [by |-> "code", nr |-> thread'[b].nr]
             /\ \A c \in Browsers : thread'[c].at = "paired" /\ thread'[c].nr = thread'[b].nr => c = b
  <2>1. thread'[b] = thread[b] /\ thread[b].at = "paired"
    BY <1>4 DEF NobodyPairs
  <2>2. thread[b].nr <= offered /\ thread[b].nr # offer.code
    BY <2>1 DEF GrantInv
  <2>3. \A i \in Issued : session[i].how # [by |-> "code", nr |-> thread[b].nr]
    BY <2>1 DEF GrantInv
  <2>4. \A c \in Browsers : thread[c].at = "paired" /\ thread[c].nr = thread[b].nr => c = b
    BY <2>1 DEF GrantInv
  <2>5. thread'[b].nr # None
    BY <2>1, <1>1 DEF HandInv
  <2> QED BY <2>1, <2>2, <2>3, <2>4, <2>5 DEF NobodyPairs, SameGrants
<1>5. AdmittedOnce'
  BY DEF AdmittedOnce, SameGrants
<1> QED BY <1>2, <1>3, <1>4, <1>5 DEF GrantInv

-----------------------------------------------------------------------------
(* What a step does to the threads. *)

Thread == [at : {"idle", "connected", "admitted", "paired", "writing", "written", "installed", "revoked"},
           nr : Tokens \cup Codes \cup Sessions \cup {None}]

(* The type invariant but for the two stores. *)
RestOK ==
  /\ up \in {"down", "claiming", "up"}
  /\ file \in Tokens \cup {None} /\ inForce \in Tokens \cup {None}
  /\ generated \in Tokens \cup {None} /\ known \subseteq Tokens
  /\ screen \in {"dashboard", "first_boot", "first_offer", "pairing"}
  /\ offer \in [code : Codes \cup {None}, age : 0..Lifetime] /\ offered \in Codes \cup {None}
  /\ thread \in [Browsers -> Thread]
  /\ hazards \in Environments

(* The type invariant is these three. *)
LEMMA Parts == TypeOK <=> RestOK /\ SessionOK /\ AskOK
  BY DEF TypeOK, RestOK, SessionOK, AskOK, Thread

(* The invariant is kept by a step that issues nothing, once it keeps what concerns threads and codes. *)
LEMMA Keeps ==
  ASSUME IInv, RestOK', SessionOK' /\ SameGrants, AskOK' /\ StaysUsedUp, NobodyPairs,
         offer'.code \in {None, offer.code}, UNCHANGED offered, HandInv', TokenInv'
  PROVE  IInv'
<1>1. TypeOK'
  BY DEF TypeOK, RestOK, SessionOK, AskOK, Thread
<1>2. GrantInv' /\ AdmittedOnce'
  BY GrantsKept DEF IInv
<1> QED BY <1>1, <1>2 DEF IInv

(* What an idle, connected, admitted or paired thread may have in hand. *)
CalmThread == [at : {"idle"}, nr : {None}] \cup [at : {"connected"}, nr : Tokens \cup {None}]
              \cup [at : {"admitted"}, nr : Sessions \cup {None}] \cup [at : {"paired"}, nr : Codes]

(* Every thread that moves is in no rotation, before or after. *)
CalmThreads == \A b \in Browsers : thread'[b] = thread[b] \/ (b \notin Rotating /\ thread'[b] \in CalmThread)

(* One such thread moves. *)
LEMMA OneThread ==
  ASSUME RestOK, NEW b \in Browsers, b \notin Rotating, NEW t \in CalmThread,
         thread' = [thread EXCEPT ![b] = t]
  PROVE  /\ thread' \in [Browsers -> Thread] /\ CalmThreads
         /\ t.at # "paired" => NobodyPairs
<1>1. t \in Thread
  BY DEF CalmThread, Thread
<1>2. thread \in [Browsers -> Thread]
  BY DEF RestOK
<1>3. thread' \in [Browsers -> Thread] /\ \A c \in Browsers : thread'[c] = IF c = b THEN t ELSE thread[c]
  BY <1>1, <1>2
<1> QED BY <1>3 DEF CalmThreads, NobodyPairs

(* None moves. *)
LEMMA NoThreadMoves ==
  ASSUME RestOK, UNCHANGED thread
  PROVE  thread' \in [Browsers -> Thread] /\ CalmThreads /\ NobodyPairs
  BY DEF RestOK, CalmThreads, NobodyPairs

(* Such steps leave rotations, and the device code, as they are. *)
LEMMA CalmHands ==
  ASSUME HandInv, TokenInv, CalmThreads, UNCHANGED <<up, device, hazards>>
  PROVE  HandInv' /\ TokenInv'
<1>1. \A b \in Browsers : thread'[b].at \in {"idle", "connected", "admitted", "paired"} \/ thread'[b] = thread[b]
  BY DEF CalmThreads, CalmThread
<1>2. \A b \in Rotating : thread'[b] = thread[b]
  BY DEF CalmThreads, Rotating
<1>3. Rotating' = Rotating
  BY <1>1, <1>2 DEF Rotating
<1>4. HandInv'
  <2>1. ASSUME NEW b \in Browsers
        PROVE  /\ thread'[b].at = "paired" => thread'[b].nr \in Codes
               /\ thread'[b].at = "admitted" => thread'[b].nr \in Sessions \cup {None}
    <3>1. CASE thread'[b] = thread[b]
      BY <3>1 DEF HandInv
    <3>2. CASE thread'[b] \in CalmThread
      BY <3>2 DEF CalmThread
    <3> QED BY <3>1, <3>2 DEF CalmThreads
  <2> QED BY <1>2, <1>3, <2>1 DEF HandInv, device
<1>5. TokenInv'
  <2>1. Orderly' = Orderly
    BY DEF Orderly
  <2> QED BY <1>2, <1>3, <2>1 DEF TokenInv, device
<1> QED BY <1>4, <1>5

-----------------------------------------------------------------------------
(* Steps that touch neither the device code nor a rotation, and issue nothing. *)

(* Such a step. *)
LEMMA Calm ==
  ASSUME IInv, SessionOK' /\ SameGrants, AskOK' /\ StaysUsedUp,
         thread' \in [Browsers -> Thread] /\ CalmThreads /\ NobodyPairs,
         UNCHANGED <<up, device, offered, hazards>>,
         screen' \in {"dashboard", "first_boot", "first_offer", "pairing"},
         offer' \in [code : {None, offer.code}, age : 0..Lifetime]
  PROVE  IInv'
<1>1. RestOK
  BY Parts DEF IInv
<1>2. offer'.code \in {None, offer.code}
  OBVIOUS
<1>3. offer' \in [code : Codes \cup {None}, age : 0..Lifetime]
  <2>1. offer.code \in Codes \cup {None}
    BY CodesTyped DEF IInv
  <2> QED BY <2>1
<1>4. RestOK'
  BY <1>1, <1>3 DEF RestOK, device
<1>5. HandInv' /\ TokenInv'
  BY CalmHands DEF IInv
<1> QED BY <1>2, <1>4, <1>5, Keeps

(* The offer withdrawn, or left. *)
LEMMA OffersLess ==
  ASSUME TypeOK
  PROVE  /\ NoOffer \in [code : {None, offer.code}, age : 0..Lifetime]
         /\ offer \in [code : {None, offer.code}, age : 0..Lifetime]
         /\ Offering => [offer EXCEPT !.age = @ + 1] \in [code : {None, offer.code}, age : 0..Lifetime]
<1>1. offer \in [code : Codes \cup {None}, age : 0..Lifetime]
  BY CodesTyped
<1> QED BY <1>1 DEF NoOffer, Offering

(* At the screen, but for a new code. *)
LEMMA ScreenInv ==
  ASSUME IInv, PressEscape \/ PressOther \/ OfferLeavesScreen
  PROVE  IInv'
<1>1. TypeOK /\ RestOK /\ SessionOK /\ AskOK
  BY Parts DEF IInv
<1>2. UNCHANGED <<up, device, offered, ask, session, thread, hazards>>
  BY DEF PressEscape, PressOther, OfferLeavesScreen
<1>3. screen' = "dashboard" /\ offer' \in {NoOffer, offer}
  BY DEF PressEscape, PressOther, OfferLeavesScreen
<1>4. offer' \in [code : {None, offer.code}, age : 0..Lifetime]
  BY <1>1, <1>3, OffersLess
<1> QED BY <1>1, <1>2, <1>3, <1>4, SessionsStay, AsksStay, NoThreadMoves, Calm

(* Time passes. *)
LEMMA TickInv ==
  ASSUME IInv, Tick
  PROVE  IInv'
<1>1. TypeOK /\ RestOK /\ SessionOK /\ AskOK
  BY Parts DEF IInv
<1>2. UNCHANGED <<up, device, screen, offered, thread, hazards>>
  BY DEF Tick
<1>3. offer' \in [code : {None, offer.code}, age : 0..Lifetime]
  BY <1>1, OffersLess DEF Tick
<1>4. SessionOK' /\ SameGrants
  BY <1>1, SessionsAge DEF Tick
<1>5. AskOK' /\ StaysUsedUp
  BY <1>1, AsksAge DEF Tick
<1>6. screen' \in {"dashboard", "first_boot", "first_offer", "pairing"}
  BY <1>1, <1>2 DEF RestOK
<1> QED BY <1>1, <1>2, <1>3, <1>4, <1>5, <1>6, NoThreadMoves, Calm

(* One thread moves, the screen and its offer stand. *)
LEMMA ThreadCalm ==
  ASSUME IInv, SessionOK' /\ SameGrants, AskOK' /\ StaysUsedUp,
         NEW b \in Browsers, b \notin Rotating, NEW t \in CalmThread, t.at # "paired",
         thread' = [thread EXCEPT ![b] = t],
         UNCHANGED <<up, device, panel, hazards>>
  PROVE  IInv'
<1>1. TypeOK /\ RestOK
  BY Parts DEF IInv
<1>2. thread' \in [Browsers -> Thread] /\ CalmThreads /\ NobodyPairs
  BY <1>1, OneThread
<1>3. UNCHANGED <<up, device, screen, offer, offered, hazards>>
  BY DEF panel
<1>4. offer' \in [code : {None, offer.code}, age : 0..Lifetime]
  BY <1>1, <1>3, OffersLess
<1>5. screen' \in {"dashboard", "first_boot", "first_offer", "pairing"}
  BY <1>1, <1>3 DEF RestOK
<1> QED BY <1>2, <1>3, <1>4, <1>5, Calm

(* Done: what every handler ends in. *)
LEMMA FinishCalm ==
  ASSUME IInv, SessionOK' /\ SameGrants, AskOK' /\ StaysUsedUp,
         NEW b \in Browsers, b \notin Rotating, Finish(b),
         UNCHANGED <<up, device, panel, hazards>>
  PROVE  IInv'
<1>1. NoThread \in CalmThread /\ NoThread.at # "paired"
  BY DEF NoThread, CalmThread
<1> QED BY <1>1, ThreadCalm DEF Finish

(* A connection is made, is admitted, is dropped. *)
LEMMA ConnectInv ==
  ASSUME IInv, NEW b \in Browsers, Connect(b) \/ AdmitByToken(b) \/ HangUp(b)
  PROVE  IInv'
<1>1. TypeOK /\ RestOK /\ SessionOK /\ AskOK
  BY Parts DEF IInv
<1>2. UNCHANGED <<up, device, panel, ask, session, hazards>> /\ b \notin Rotating
  BY DEF Connect, AdmitByToken, HangUp, At, Rotating
<1>3. SessionOK' /\ SameGrants /\ AskOK' /\ StaysUsedUp
  BY <1>1, <1>2, SessionsStay, AsksStay
<1>4. CASE Connect(b)
  <2> DEFINE t == [at |-> "connected", nr |-> inForce]
  <2>1. t \in CalmThread /\ t.at # "paired"
    BY <1>1 DEF RestOK, CalmThread
  <2> QED BY <1>2, <1>3, <1>4, <2>1, ThreadCalm DEF Connect
<1>5. CASE AdmitByToken(b)
  <2> DEFINE t == [at |-> "admitted", nr |-> None]
  <2>1. t \in CalmThread /\ t.at # "paired"
    BY DEF CalmThread
  <2> QED BY <1>2, <1>3, <1>5, <2>1, ThreadCalm DEF AdmitByToken
<1>6. CASE HangUp(b)
  BY <1>2, <1>3, <1>6, FinishCalm DEF HangUp
<1> QED BY <1>4, <1>5, <1>6

(* A session is used to administer. *)
LEMMA AdmitBySessionInv ==
  ASSUME IInv, NEW b \in Browsers, NEW i \in Sessions, AdmitBySession(b, i)
  PROVE  IInv'
<1>1. TypeOK /\ RestOK /\ SessionOK /\ AskOK
  BY Parts DEF IInv
<1>2. UNCHANGED <<up, device, panel, ask, hazards>> /\ b \notin Rotating
  BY DEF AdmitBySession, At, Rotating
<1>3. SessionOK' /\ SameGrants /\ AskOK' /\ StaysUsedUp
  BY <1>1, <1>2, SessionUsed, AsksStay DEF AdmitBySession
<1> DEFINE t == [at |-> "admitted", nr |-> i]
<1>4. t \in CalmThread /\ t.at # "paired"
  BY DEF CalmThread
<1> QED BY <1>2, <1>3, <1>4, ThreadCalm DEF AdmitBySession

(* A session is signed out of. *)
LEMMA SignOutInv ==
  ASSUME IInv, NEW b \in Browsers, SignOut(b)
  PROVE  IInv'
<1>1. TypeOK /\ RestOK /\ SessionOK /\ AskOK
  BY Parts DEF IInv
<1>2. UNCHANGED <<up, device, panel, ask, hazards>> /\ b \notin Rotating /\ Finish(b)
  BY DEF SignOut, At, Rotating
<1>3. thread[b].nr \in Sessions \cup {None}
  BY DEF IInv, HandInv, SignOut, At
<1>4. SessionOK' /\ SameGrants
  <2>1. CASE thread[b].nr = None
    BY <1>1, <2>1, SessionsStay DEF SignOut
  <2>2. CASE thread[b].nr # None
    BY <1>1, <1>3, <2>2, OneSessionEnds DEF SignOut
  <2> QED BY <2>1, <2>2
<1>5. AskOK' /\ StaysUsedUp
  BY <1>1, <1>2, AsksStay
<1> QED BY <1>2, <1>4, <1>5, FinishCalm

(* Only the stores change. *)
LEMMA StoresOnly ==
  ASSUME IInv, SessionOK' /\ SameGrants, AskOK' /\ StaysUsedUp,
         UNCHANGED <<up, device, panel, thread, hazards>>
  PROVE  IInv'
<1>1. TypeOK /\ RestOK
  BY Parts DEF IInv
<1>2. UNCHANGED <<up, device, screen, offer, offered, thread, hazards>>
  BY DEF panel
<1>3. offer' \in [code : {None, offer.code}, age : 0..Lifetime]
  BY <1>1, <1>2, OffersLess
<1>4. screen' \in {"dashboard", "first_boot", "first_offer", "pairing"}
  BY <1>1, <1>2 DEF RestOK
<1> QED BY <1>1, <1>2, <1>3, <1>4, NoThreadMoves, Calm

(* A code presented too late, and one that leads to no session. *)
LEMMA PairingEnds ==
  ASSUME IInv, NEW b \in Browsers, PairTooLate(b) \/ PairFails(b)
  PROVE  IInv'
<1>1. TypeOK /\ RestOK /\ SessionOK /\ AskOK
  BY Parts DEF IInv
<1>2. UNCHANGED <<up, device, screen, offered, ask, session, hazards>>
  BY DEF PairTooLate, PairFails, panel
<1>3. SessionOK' /\ SameGrants /\ AskOK' /\ StaysUsedUp
  BY <1>1, <1>2, SessionsStay, AsksStay
<1>4. CASE PairTooLate(b)
  <2>1. offer' \in [code : {None, offer.code}, age : 0..Lifetime] /\ UNCHANGED thread
    BY <1>1, <1>4, OffersLess DEF PairTooLate
  <2>2. screen' \in {"dashboard", "first_boot", "first_offer", "pairing"}
    BY <1>1, <1>2 DEF RestOK
  <2> QED BY <1>1, <1>2, <1>3, <2>1, <2>2, NoThreadMoves, Calm
<1>5. CASE PairFails(b)
  <2>1. b \notin Rotating /\ Finish(b) /\ UNCHANGED panel
    BY <1>5 DEF PairFails, At, Rotating
  <2> QED BY <1>2, <1>3, <2>1, FinishCalm
<1> QED BY <1>4, <1>5

(* A request is made. *)
LEMMA OpenInv ==
  ASSUME IInv, NEW b \in Browsers, Open(b)
  PROVE  IInv'
<1>1. TypeOK /\ RestOK /\ SessionOK /\ AskOK
  BY Parts DEF IInv
<1>2. UNCHANGED <<up, device, panel, session, thread, hazards>>
  BY DEF Open
<1>3. AskOK' /\ StaysUsedUp
  <2>1. PICK r \in Asks \ Asked : ask' = [ask EXCEPT ![r] = [is |-> "pending", from |-> b, age |-> 0]]
    BY DEF Open
  <2> QED BY <1>1, <2>1, Opens DEF Open
<1> QED BY <1>1, <1>2, <1>3, SessionsStay, StoresOnly

(* A request is decided. *)
LEMMA DecideInv ==
  ASSUME IInv, NEW b \in Browsers, NEW r \in Asks, NEW verdict \in {"approved", "denied"},
         Decide(b, r, verdict)
  PROVE  IInv'
<1>1. TypeOK /\ RestOK /\ SessionOK /\ AskOK
  BY Parts DEF IInv
<1>2. UNCHANGED <<up, device, panel, session, hazards>> /\ b \notin Rotating /\ Finish(b)
  BY DEF Decide, At, Rotating
<1> DEFINE new == [ask[r] EXCEPT !.is = verdict]
<1>3. r \in Held /\ ask[r].is # "consumed" /\ ask' = [ask EXCEPT ![r] = new]
  BY DEF Decide, Held
<1>4. new \in AskStates
  BY <1>1 DEF AskOK, AskStates
<1>5. AskOK' /\ StaysUsedUp
  BY <1>1, <1>3, <1>4, OneAskChanges
<1> QED BY <1>1, <1>2, <1>5, SessionsStay, FinishCalm

(* A request is withdrawn. *)
LEMMA WithdrawInv ==
  ASSUME IInv, NEW b \in Browsers, NEW r \in Asks, Withdraw(b, r)
  PROVE  IInv'
<1>1. TypeOK /\ RestOK /\ SessionOK /\ AskOK
  BY Parts DEF IInv
<1>2. UNCHANGED <<up, device, panel, session, thread, hazards>>
  BY DEF Withdraw
<1>3. r \in Held /\ ask' = [ask EXCEPT ![r] = Gone(r)]
  BY DEF Withdraw
<1>4. Gone(r) \in AskStates /\ Gone(r).is = "gone"
  BY <1>1, <1>3, GoneIs DEF Held
<1>5. AskOK' /\ StaysUsedUp
  BY <1>1, <1>3, <1>4, OneAskChanges
<1> QED BY <1>1, <1>2, <1>5, SessionsStay, StoresOnly

-----------------------------------------------------------------------------
(* Steps that make a code, take one in hand, or let somebody in. *)

(* A new code: nobody was let in on it, and no thread has it. *)
LEMMA Offered ==
  ASSUME IInv, FreshOffer, UNCHANGED <<up, device, ask, session, thread, hazards>>,
         screen' \in {"dashboard", "first_boot", "first_offer", "pairing"}
  PROVE  IInv'
<1>1. TypeOK /\ RestOK /\ SessionOK /\ AskOK
  BY Parts DEF IInv
<1>2. offered' = offered + 1 /\ offered' \in Codes
  BY DEF FreshOffer
<1>3. offer' \in [code : Codes \cup {None}, age : 0..Lifetime] /\ offer'.code = offered'
  <2>1. offer' = [code |-> offered', age |-> 0] /\ 0 \in 0..Lifetime
    BY DEF FreshOffer
  <2> QED BY <1>2, <2>1
<1>4. thread' \in [Browsers -> Thread] /\ CalmThreads
  BY <1>1, NoThreadMoves
<1>5. RestOK'
  BY <1>1, <1>2, <1>3, <1>4 DEF RestOK, device
<1>6. SessionOK' /\ SameGrants /\ AskOK'
  BY <1>1, SessionsStay, AsksStay
<1>7. TypeOK'
  BY <1>5, <1>6 DEF TypeOK, RestOK, SessionOK, AskOK, Thread
<1>8. HandInv' /\ TokenInv'
  BY <1>4, CalmHands DEF IInv
<1>9. offered \in Nat /\ \A c \in Codes : c \in Nat
  BY <1>1, CodesTyped
<1>10. GrantInv'
  <2>1. ASSUME NEW i \in Issued, session[i].how.by = "code"
        PROVE  session[i].how.nr <= offered' /\ session[i].how.nr # offered'
    <3>1. session[i].how \in Grants /\ session[i].how.nr <= offered
      BY <2>1 DEF IInv, GrantInv
    <3>2. session[i].how.nr \in Nat
      BY <3>1, <2>1, <1>9 DEF Grants
    <3> QED BY <1>2, <1>9, <3>1, <3>2
  <2>2. ASSUME NEW b \in Browsers, thread[b].at = "paired"
        PROVE  thread[b].nr <= offered' /\ thread[b].nr # offered'
    <3>1. thread[b].nr \in Nat /\ thread[b].nr <= offered
      BY <2>2, <1>9 DEF IInv, GrantInv, HandInv
    <3> QED BY <1>2, <1>9, <3>1
  <2>3. offer'.code <= offered'
    <3>1. offered' \in Nat
      BY <1>2, <1>9
    <3>2. offered' <= offered'
      BY <3>1
    <3> QED BY <1>3, <3>2
  <2>4. Issued' = Issued
    BY <1>6 DEF SameGrants
  <2> QED BY <1>3, <2>1, <2>2, <2>3, <2>4 DEF IInv, GrantInv
<1>11. AdmittedOnce'
  BY <1>6 DEF IInv, AdmittedOnce, SameGrants
<1> QED BY <1>7, <1>8, <1>10, <1>11 DEF IInv

(* P, and the screen of a first boot. *)
LEMMA OffersInv ==
  ASSUME IInv, PressP \/ OfferAtFirstBoot
  PROVE  IInv'
  BY Offered DEF PressP, OfferAtFirstBoot

(* The code on offer goes into the hand of one thread. *)
LEMMA PairInv ==
  ASSUME IInv, NEW b \in Browsers, Pair(b)
  PROVE  IInv'
<1>1. TypeOK /\ RestOK /\ SessionOK /\ AskOK
  BY Parts DEF IInv
<1> DEFINE t == [at |-> "paired", nr |-> offer.code]
<1>2. UNCHANGED <<up, device, screen, offered, ask, session, hazards>> /\ b \notin Rotating
      /\ offer' = NoOffer /\ thread' = [thread EXCEPT ![b] = t] /\ offer.code # None
  BY DEF Pair, At, Rotating, Offering
<1>3. /\ offered \in Nat /\ offer.code \in Codes /\ offer.code \in Nat
      /\ \A c \in Codes : c \in Nat \ {0}
  BY <1>1, <1>2, CodesTyped
<1>4. t \in CalmThread
  BY <1>3 DEF CalmThread
<1>5. thread' \in [Browsers -> Thread] /\ CalmThreads
  BY <1>1, <1>2, <1>4, OneThread, ZenonT(60)
<1>6. \A c \in Browsers : thread'[c] = IF c = b THEN t ELSE thread[c]
  BY <1>1, <1>2 DEF RestOK
<1>7. offer'.code = None /\ offer' \in [code : Codes \cup {None}, age : 0..Lifetime]
  BY <1>2 DEF NoOffer
<1>8. SessionOK' /\ SameGrants /\ AskOK'
  BY <1>1, <1>2, SessionsStay, AsksStay
<1>9. RestOK'
  BY <1>1, <1>2, <1>5, <1>7 DEF RestOK, device
<1>10. TypeOK'
  BY <1>8, <1>9 DEF TypeOK, RestOK, SessionOK, AskOK, Thread
<1>11. HandInv' /\ TokenInv'
  BY <1>2, <1>5, CalmHands DEF IInv
<1>12. GrantInv'
  <2>1. \A i \in Issued : session[i].how.by = "code" => session[i].how.nr # None
    <3> SUFFICES ASSUME NEW i \in Issued, session[i].how.by = "code" PROVE session[i].how.nr # None
      OBVIOUS
    <3>1. session[i].how \in Grants
      BY DEF IInv, GrantInv
    <3>2. session[i].how.nr \in Codes
      BY <3>1 DEF Grants
    <3> QED BY <3>2, <1>3
  <2>2. \A i \in Issued : session[i].how # [by |-> "code", nr |-> offer.code]
    BY DEF IInv, GrantInv
  <2>3. \A c \in Browsers : thread[c].at = "paired" => thread[c].nr # offer.code /\ thread[c].nr # None
    BY <1>3 DEF IInv, GrantInv, HandInv
  <2>4. offer.code <= offered /\ None <= offered
    BY <1>3 DEF IInv, GrantInv
  <2>5. ASSUME NEW c \in Browsers, thread'[c].at = "paired"
        PROVE  /\ thread'[c].nr <= offered /\ thread'[c].nr # None
               /\ \A i \in Issued : session[i].how # [by |-> "code", nr |-> thread'[c].nr]
               /\ \A d \in Browsers : thread'[d].at = "paired" /\ thread'[d].nr = thread'[c].nr => d = c
    <3>1. CASE c = b
      <4>1. thread'[c].nr = offer.code
        BY <1>6, <3>1
      <4> QED BY <1>2, <1>6, <2>2, <2>3, <2>4, <3>1, <4>1
    <3>2. CASE c # b
      <4>1. thread'[c] = thread[c]
        BY <1>6, <3>2
      <4>2. \A d \in Browsers : thread'[d].at = "paired" /\ thread'[d].nr = thread'[c].nr => d # b
        BY <1>6, <2>3, <2>5, <4>1
      <4>3. thread'[c].nr <= offered /\ \A i \in Issued : session[i].how # [by |-> "code", nr |-> thread'[c].nr]
        BY <2>5, <4>1 DEF IInv, GrantInv
      <4> QED BY <1>6, <2>3, <2>5, <4>1, <4>2, <4>3 DEF IInv, GrantInv
    <3> QED BY <3>1, <3>2
  <2>6. Issued' = Issued
    BY <1>8 DEF SameGrants
  <2> QED BY <1>2, <1>7, <2>1, <2>4, <2>5, <2>6 DEF IInv, GrantInv
<1>13. AdmittedOnce'
  BY <1>8 DEF IInv, AdmittedOnce, SameGrants
<1> QED BY <1>10, <1>11, <1>12, <1>13 DEF IInv

(* Somebody is let in, on what nobody was let in on, that is on offer no more, and that nobody has
   in hand. *)
LEMMA LetIn ==
  ASSUME IInv, RestOK', SessionOK', AskOK' /\ StaysUsedUp, NobodyPairs, UNCHANGED <<offer, offered>>,
         HandInv', TokenInv',
         NEW grant \in Grants,
         NEW i \in Sessions \ Issued, Issued' = Issued \cup {i}, session'[i].how = grant,
         \A j \in Issued : session'[j].how = session[j].how /\ session[j].how # grant,
         grant.by = "code" => grant.nr <= offered /\ grant.nr # offer.code,
         grant.by = "ask" => ask'[grant.nr].is \in {"consumed", "gone"},
         \A b \in Browsers : thread'[b].at = "paired" => grant # [by |-> "code", nr |-> thread'[b].nr]
  PROVE  IInv'
<1>1. TypeOK'
  BY DEF TypeOK, RestOK, SessionOK, AskOK, Thread
<1>2. GrantInv'
  <2>1. ASSUME NEW j \in Issued'
        PROVE  /\ session'[j].how \in Grants
               /\ session'[j].how.by = "code" => session'[j].how.nr <= offered /\ session'[j].how.nr # offer.code
               /\ session'[j].how.by = "ask"  => ask'[session'[j].how.nr].is \in {"consumed", "gone"}
    <3>1. CASE j = i
      BY <3>1
    <3>2. CASE j \in Issued
      <4>1. session'[j].how = session[j].how /\ session[j].how \in Grants
        BY <3>2 DEF IInv, GrantInv
      <4>2. session[j].how.by = "ask" => session[j].how.nr \in Asks
        BY <4>1 DEF Grants
      <4> QED BY <3>2, <4>1, <4>2 DEF IInv, GrantInv, StaysUsedUp, UsedUp
    <3> QED BY <3>1, <3>2
  <2>2. ASSUME NEW b \in Browsers, thread'[b].at = "paired"
        PROVE  /\ thread'[b].nr <= offered /\ thread'[b].nr # offer.code
               /\ \A j \in Issued' : session'[j].how # [by |-> "code", nr |-> thread'[b].nr]
               /\ \A c \in Browsers : thread'[c].at = "paired" /\ thread'[c].nr = thread'[b].nr => c = b
    <3>1. thread'[b] = thread[b] /\ thread[b].at = "paired"
      BY <2>2 DEF NobodyPairs
    <3>2. \A j \in Issued : session[j].how # [by |-> "code", nr |-> thread[b].nr]
      BY <3>1 DEF IInv, GrantInv
    <3>3. \A j \in Issued' : session'[j].how # [by |-> "code", nr |-> thread'[b].nr]
      BY <2>2, <3>1, <3>2
    <3> QED BY <3>1, <3>3 DEF IInv, GrantInv, NobodyPairs
  <2>3. offer.code <= offered
    BY DEF IInv, GrantInv
  <2> QED BY <2>1, <2>2, <2>3 DEF GrantInv
<1>3. AdmittedOnce'
  BY DEF IInv, AdmittedOnce
<1> QED BY <1>1, <1>2, <1>3 DEF IInv

(* A spent code becomes a session. *)
LEMMA PairIssuesInv ==
  ASSUME IInv, NEW b \in Browsers, PairIssues(b)
  PROVE  IInv'
<1>1. TypeOK /\ RestOK /\ SessionOK /\ AskOK
  BY Parts DEF IInv
<1>2. UNCHANGED <<up, device, screen, offer, offered, ask, hazards>> /\ b \notin Rotating /\ Finish(b)
  BY DEF PairIssues, At, Rotating, panel
<1> DEFINE grant == [by |-> "code", nr |-> thread[b].nr]
<1>3. thread[b].at = "paired" /\ thread[b].nr \in Codes
  BY DEF PairIssues, At, IInv, HandInv
<1>4. grant \in Grants /\ Issue(b, grant)
  BY <1>3 DEF Grants, PairIssues
<1>5. NoThread \in CalmThread /\ NoThread.at # "paired"
  BY DEF NoThread, CalmThread
<1>6. thread' \in [Browsers -> Thread] /\ CalmThreads /\ NobodyPairs
  BY <1>1, <1>2, <1>5, OneThread DEF Finish
<1>7. RestOK'
  BY <1>1, <1>2, <1>6 DEF RestOK, device
<1>8. HandInv' /\ TokenInv'
  BY <1>2, <1>6, CalmHands DEF IInv
<1>9. AskOK' /\ StaysUsedUp
  BY <1>1, <1>2, AsksStay
<1>10. SessionOK' /\ \E i \in Sessions \ Issued :
          /\ Issued' = Issued \cup {i} /\ session'[i].how = grant
          /\ \A j \in Issued : session'[j].how = session[j].how
  BY <1>1, <1>4, Issues
<1>11. \A j \in Issued : session[j].how # grant
  BY <1>3 DEF IInv, GrantInv
<1>12. thread[b].nr <= offered /\ thread[b].nr # offer.code
  BY <1>3 DEF IInv, GrantInv
<1>13. ASSUME NEW c \in Browsers, thread'[c].at = "paired"
       PROVE  grant # [by |-> "code", nr |-> thread'[c].nr]
  <2>1. c # b
    BY <1>1, <1>2, <1>5, <1>13 DEF Finish, RestOK
  <2>2. thread'[c] = thread[c]
    BY <1>6, <1>13 DEF NobodyPairs
  <2>3. thread[c].nr # thread[b].nr
    BY <1>3, <1>13, <2>1, <2>2 DEF IInv, GrantInv
  <2> QED BY <2>2, <2>3
<1> QED BY <1>2, <1>4, <1>6, <1>7, <1>8, <1>9, <1>10, <1>11, <1>12, <1>13, LetIn

(* An approval is spent, and becomes a session or nothing. *)
LEMMA RedeemInv ==
  ASSUME IInv, NEW b \in Browsers, NEW r \in Asks, Redeem(b, r)
  PROVE  IInv'
<1>1. TypeOK /\ RestOK /\ SessionOK /\ AskOK
  BY Parts DEF IInv
<1>2. UNCHANGED <<up, device, panel, thread, hazards>> /\ UNCHANGED <<screen, offer, offered>>
  BY DEF Redeem, panel
<1> DEFINE new == [ask[r] EXCEPT !.is = "consumed"]
           grant == [by |-> "ask", nr |-> r]
<1>3. r \in Held /\ ask[r].is = "approved" /\ ask' = [ask EXCEPT ![r] = new]
  BY DEF Redeem, Held
<1>4. new \in AskStates /\ ask'[r].is = "consumed"
  BY <1>1, <1>3 DEF AskOK, AskStates
<1>5. AskOK' /\ StaysUsedUp
  BY <1>1, <1>3, <1>4, OneAskChanges
<1>6. CASE UNCHANGED session
  BY <1>1, <1>2, <1>5, <1>6, SessionsStay, StoresOnly
<1>7. CASE Issue(b, grant)
  <2>1. grant \in Grants
    BY DEF Grants
  <2>2. thread' \in [Browsers -> Thread] /\ CalmThreads /\ NobodyPairs
    BY <1>1, <1>2, NoThreadMoves
  <2>3. RestOK'
    BY <1>1, <1>2, <2>2 DEF RestOK, device
  <2>4. HandInv' /\ TokenInv'
    BY <1>2, <2>2, CalmHands DEF IInv
  <2>5. SessionOK' /\ \E i \in Sessions \ Issued :
          /\ Issued' = Issued \cup {i} /\ session'[i].how = grant
          /\ \A j \in Issued : session'[j].how = session[j].how
    BY <1>1, <1>7, <2>1, Issues
  <2>6. \A j \in Issued : session[j].how # grant
    BY <1>3 DEF IInv, GrantInv
  <2>7. grant.by = "ask" /\ grant.nr = r
    OBVIOUS
  <2> HIDE DEF grant
  <2>8. \A c \in Browsers : grant # [by |-> "code", nr |-> thread'[c].nr]
    BY <2>7
  <2> QED BY <1>2, <1>4, <1>5, <2>1, <2>2, <2>3, <2>4, <2>5, <2>6, <2>7, <2>8, LetIn
<1> QED BY <1>6, <1>7 DEF Redeem

-----------------------------------------------------------------------------
(* plexosd starts and stops. *)

(* Its steps leave nothing in a thread's hand, and move no thread. *)
LEMMA StartInv ==
  ASSUME IInv, Start \/ Claim \/ Announce \/ ClaimFails
  PROVE  IInv'
<1>1. TypeOK /\ RestOK /\ SessionOK /\ AskOK /\ HandInv /\ TokenInv
  BY Parts DEF IInv
<1>2. UNCHANGED <<offer, offered, ask, session, thread, hazards>> /\ up # "up"
  BY DEF Start, Claim, Announce, ClaimFails, panel
<1>3. thread' \in [Browsers -> Thread] /\ CalmThreads /\ NobodyPairs
  BY <1>1, <1>2, NoThreadMoves
<1>4. SessionOK' /\ SameGrants /\ AskOK' /\ StaysUsedUp
  BY <1>1, <1>2, SessionsStay, AsksStay
<1>5. Rotating' = Rotating /\ (Orderly => Rotating = {}) /\ (Orderly' <=> Orderly)
  BY <1>1, <1>2 DEF Rotating, TokenInv, Orderly
<1>6. CASE Start
  <2>1. RestOK'
    BY <1>1, <1>2, <1>3, <1>6 DEF RestOK, Start, Serve
  <2>2. HandInv'
    BY <1>1, <1>2, <1>5, <1>6 DEF HandInv, Start, Serve
  <2>3. TokenInv'
    BY <1>1, <1>2, <1>5, <1>6 DEF TokenInv, Start, Serve
  <2> QED BY <1>2, <1>3, <1>4, <2>1, <2>2, <2>3, Keeps
<1>7. CASE Claim
  <2>1. RestOK'
    BY <1>1, <1>2, <1>3, <1>7 DEF RestOK, Claim, panel
  <2>2. HandInv'
    BY <1>1, <1>2, <1>5, <1>7 DEF HandInv, Claim
  <2>3. TokenInv'
    BY <1>1, <1>2, <1>5, <1>7 DEF TokenInv, Claim
  <2> QED BY <1>2, <1>3, <1>4, <2>1, <2>2, <2>3, Keeps
<1>8. CASE Announce
  <2>1. file \in Tokens
    BY <1>1, <1>8 DEF HandInv, Announce
  <2>2. RestOK'
    BY <1>1, <1>2, <1>3, <1>8, <2>1 DEF RestOK, Announce, Serve
  <2>3. HandInv'
    BY <1>1, <1>2, <1>5, <1>8 DEF HandInv, Announce, Serve
  <2>4. TokenInv'
    BY <1>1, <1>2, <1>5, <1>8 DEF TokenInv, Announce, Serve
  <2> QED BY <1>2, <1>3, <1>4, <2>2, <2>3, <2>4, Keeps
<1>9. CASE ClaimFails
  <2>1. RestOK'
    BY <1>1, <1>2, <1>3, <1>9 DEF RestOK, ClaimFails, Serve
  <2>2. HandInv'
    BY <1>1, <1>2, <1>5, <1>9 DEF HandInv, ClaimFails, Serve
  <2>3. ~Orderly
    <3> SUFFICES ASSUME Orderly PROVE FALSE
      OBVIOUS
    <3>1. generated + 1 \notin Tokens
      BY <1>9 DEF ClaimFails, Orderly
    <3>2. None \notin known /\ 0 + 1 \in Tokens
      BY <1>1, Numbers DEF RestOK
    <3>3. generated = None
      BY <1>1, <1>9, <3>2 DEF TokenInv, ClaimFails
    <3> QED BY <3>1, <3>2, <3>3
  <2>4. TokenInv'
    BY <1>5, <2>3 DEF TokenInv
  <2> QED BY <1>2, <1>3, <1>4, <2>1, <2>2, <2>4, Keeps
<1> QED BY <1>6, <1>7, <1>8, <1>9

(* A stop, in order or not: every store is empty, the file stays. *)
LEMMA StopInv ==
  ASSUME IInv, Stop
  PROVE  IInv'
<1>1. TypeOK /\ RestOK /\ SessionOK /\ AskOK /\ HandInv /\ TokenInv
  BY Parts DEF IInv
<1>2. /\ up' = "down" /\ inForce' = None /\ screen' = "dashboard" /\ offer' = NoOffer
      /\ thread' = [b \in Browsers |-> NoThread]
      /\ UNCHANGED <<file, generated, known, offered, hazards>>
  BY DEF Stop
<1>3. SessionOK' /\ SameGrants
  BY <1>1, AllSessionsEnd DEF Stop
<1>4. AskOK' /\ StaysUsedUp
  BY <1>1, AllAsksEnd DEF Stop
<1>5. \A b \in Browsers : thread'[b] = NoThread
  BY <1>2
<1>6. NoThread \in Thread /\ NoThread.at = "idle"
  BY DEF NoThread, Thread
<1>7. NobodyPairs /\ Rotating' = {} /\ thread' \in [Browsers -> Thread]
  BY <1>2, <1>5, <1>6 DEF NobodyPairs, Rotating
<1>8. offer'.code = None /\ offer' \in [code : Codes \cup {None}, age : 0..Lifetime]
  BY <1>2 DEF NoOffer
<1>9. RestOK'
  BY <1>1, <1>2, <1>7, <1>8 DEF RestOK
<1>10. HandInv'
  BY <1>2, <1>5, <1>6, <1>7 DEF HandInv
<1>11. TokenInv'
  <2> SUFFICES ASSUME Orderly PROVE file \in known
    BY <1>2, <1>7 DEF TokenInv, Orderly
  <2>1. up = "up" /\ Rotating = {}
    BY DEF Stop, Orderly
  <2> QED BY <1>1, <2>1 DEF TokenInv
<1> QED BY <1>2, <1>3, <1>4, <1>7, <1>8, <1>9, <1>10, <1>11, Keeps

-----------------------------------------------------------------------------
(* A rotation. *)

(* What the thread that rotates does to the threads. *)
LEMMA RotationMoves ==
  ASSUME RestOK, NEW b \in Browsers, NEW t \in Thread, t.at \notin {"paired", "admitted"},
         thread' = [thread EXCEPT ![b] = t]
  PROVE  /\ thread' \in [Browsers -> Thread] /\ NobodyPairs
         /\ \A c \in Browsers : thread'[c] = IF c = b THEN t ELSE thread[c]
<1>1. thread \in [Browsers -> Thread]
  BY DEF RestOK
<1>2. \A c \in Browsers : thread'[c] = IF c = b THEN t ELSE thread[c]
  BY <1>1
<1> QED BY <1>1, <1>2 DEF NobodyPairs

(* And to what they have in hand. *)
LEMMA RotationHands ==
  ASSUME HandInv, up = "up", UNCHANGED up, NEW b \in Browsers, NEW t, t.at \notin {"paired", "admitted"},
         t.at # "idle" => t.nr \in Tokens,
         \A c \in Browsers : thread'[c] = IF c = b THEN t ELSE thread[c]
  PROVE  HandInv'
<1>1. ASSUME NEW c \in Browsers
      PROVE  /\ c \in Rotating' => thread'[c].nr \in Tokens
             /\ thread'[c].at = "paired" => thread'[c].nr \in Codes
             /\ thread'[c].at = "admitted" => thread'[c].nr \in Sessions \cup {None}
  <2>1. CASE c = b
    BY <2>1 DEF Rotating
  <2>2. CASE c # b
    <3>1. thread'[c] = thread[c] /\ (c \in Rotating' <=> c \in Rotating)
      BY <2>2 DEF Rotating
    <3> QED BY <3>1 DEF HandInv
  <2> QED BY <2>1, <2>2
<1>2. up' # "claiming" /\ Rotating' \subseteq Browsers
  BY DEF Rotating
<1> QED BY <1>1, <1>2 DEF HandInv

(* Goto writes a whole thread. *)
LEMMA GotoIs ==
  ASSUME RestOK, NEW b \in Browsers, NEW step \in {"written", "installed", "revoked"}, Goto(b, step)
  PROVE  LET t == [at |-> step, nr |-> thread[b].nr] IN
         t \in Thread /\ thread' = [thread EXCEPT ![b] = t]
<1>1. thread \in [Browsers -> Thread] /\ thread[b] \in Thread
  BY DEF RestOK
<1>2. [thread[b] EXCEPT !.at = step] = [at |-> step, nr |-> thread[b].nr]
  BY <1>1 DEF Thread
<1> QED BY <1>1, <1>2 DEF Goto, Thread

(* The file is emptied. *)
LEMMA RotateInv ==
  ASSUME IInv, NEW b \in Browsers, Rotate(b)
  PROVE  IInv'
<1>1. TypeOK /\ RestOK /\ SessionOK /\ AskOK /\ HandInv /\ TokenInv
  BY Parts DEF IInv
<1>2. /\ file' = None /\ generated' = generated + 1 /\ generated' \in Tokens /\ up = "up"
      /\ UNCHANGED <<up, inForce, known, screen, offer, offered, ask, session, hazards>>
  BY DEF Rotate, At, panel
<1> DEFINE t == [at |-> "writing", nr |-> generated']
<1>3. t \in Thread /\ thread' = [thread EXCEPT ![b] = t]
  BY <1>2 DEF Thread, Rotate
<1>4. /\ thread' \in [Browsers -> Thread] /\ NobodyPairs
      /\ \A c \in Browsers : thread'[c] = IF c = b THEN t ELSE thread[c]
  BY <1>1, <1>3, RotationMoves
<1>5. Rotating' = Rotating \cup {b}
  BY <1>4 DEF Rotating
<1>6. RestOK'
  BY <1>1, <1>2, <1>4 DEF RestOK
<1>7. HandInv'
  BY <1>1, <1>2, <1>4, RotationHands
<1>8. TokenInv'
  <2> SUFFICES ASSUME Orderly PROVE TokenInv'
    BY <1>2 DEF TokenInv, Orderly
  <2>1. Rotating' = {b}
    BY <1>5 DEF Rotate, Orderly
  <2> QED BY <1>2, <1>4, <2>1 DEF TokenInv
<1> QED BY <1>1, <1>2, <1>4, <1>6, <1>7, <1>8, SessionsStay, AsksStay, Keeps

(* The file is filled, what is in force replaced, every session ended. *)
LEMMA RotationInv ==
  ASSUME IInv, NEW b \in Browsers, Written(b) \/ Install(b) \/ RevokeAll(b)
  PROVE  IInv'
<1>1. TypeOK /\ RestOK /\ SessionOK /\ AskOK /\ HandInv /\ TokenInv
  BY Parts DEF IInv
<1>2. UNCHANGED <<up, generated, known, screen, offer, offered, ask, hazards>> /\ up = "up" /\ b \in Rotating
  BY DEF Written, Install, RevokeAll, At, panel, device, Rotating
<1>3. PICK step \in {"written", "installed", "revoked"} :
        /\ Goto(b, step) /\ (step = "written" <=> Written(b)) /\ (step = "installed" <=> Install(b))
        /\ (step = "revoked" <=> RevokeAll(b))
  BY DEF Written, Install, RevokeAll, At
<1> DEFINE t == [at |-> step, nr |-> thread[b].nr]
<1>4. t \in Thread /\ thread' = [thread EXCEPT ![b] = t]
  BY <1>1, <1>3, GotoIs
<1>5. /\ thread' \in [Browsers -> Thread] /\ NobodyPairs
      /\ \A c \in Browsers : thread'[c] = IF c = b THEN t ELSE thread[c]
  BY <1>1, <1>4, RotationMoves
<1>6. Rotating' = Rotating
  BY <1>2, <1>5 DEF Rotating
<1>7. thread[b].nr \in Tokens
  BY <1>1, <1>2 DEF HandInv
<1>8. /\ Written(b)   => file' = thread[b].nr /\ UNCHANGED <<inForce, session>>
      /\ Install(b)   => inForce' = thread[b].nr /\ UNCHANGED <<file, session>> /\ thread[b].at = "written"
      /\ RevokeAll(b) => UNCHANGED <<file, inForce>> /\ thread[b].at = "installed"
  BY DEF Written, Install, RevokeAll, At, device
<1>9. SessionOK' /\ SameGrants /\ AskOK' /\ StaysUsedUp
  <2>1. CASE UNCHANGED session
    BY <1>1, <1>2, <2>1, SessionsStay, AsksStay
  <2>2. CASE RevokeAll(b)
    BY <1>1, <1>2, <2>2, AllSessionsEnd, AsksStay DEF RevokeAll
  <2> QED BY <2>1, <2>2, <1>8
<1>10. RestOK'
  BY <1>1, <1>2, <1>5, <1>7, <1>8 DEF RestOK
<1>11. HandInv'
  BY <1>1, <1>2, <1>5, <1>6, <1>7 DEF HandInv, Rotating
<1>12. TokenInv'
  <2> SUFFICES ASSUME Orderly PROVE TokenInv'
    BY <1>2 DEF TokenInv, Orderly
  <2>1. Rotating' = {b}
    BY <1>1, <1>2, <1>6 DEF TokenInv
  <2>2. thread'[b].nr = thread[b].nr /\ thread'[b].at = step
    BY <1>5
  <2>3. file' = thread[b].nr
    BY <1>1, <1>2, <1>8 DEF TokenInv
  <2>4. step \in {"installed", "revoked"} => inForce' = thread[b].nr
    BY <1>1, <1>2, <1>3, <1>8 DEF TokenInv
  <2> QED BY <1>2, <2>1, <2>2, <2>3, <2>4 DEF TokenInv
<1> QED BY <1>2, <1>5, <1>9, <1>10, <1>11, <1>12, Keeps

(* A rotation is over, or has failed. *)
LEMMA RotatedInv ==
  ASSUME IInv, NEW b \in Browsers, Rotated(b) \/ WriteFails(b)
  PROVE  IInv'
<1>1. TypeOK /\ RestOK /\ SessionOK /\ AskOK /\ HandInv /\ TokenInv
  BY Parts DEF IInv
<1>2. /\ UNCHANGED <<up, inForce, generated, screen, offered, ask, session, hazards>> /\ up = "up"
      /\ b \in Rotating /\ offer' \in {NoOffer, offer}
  BY DEF Rotated, WriteFails, At, panel, Rotating
<1>3. thread[b].nr \in Tokens
  BY <1>1, <1>2 DEF HandInv
<1>4. file' \in {file, thread[b].nr} /\ known \subseteq known' /\ known' \subseteq known \cup {thread[b].nr}
  BY DEF Rotated, WriteFails
<1>5. NoThread \in Thread /\ NoThread.at = "idle"
  BY DEF NoThread, Thread
<1>6. /\ thread' \in [Browsers -> Thread] /\ NobodyPairs
      /\ \A c \in Browsers : thread'[c] = IF c = b THEN NoThread ELSE thread[c]
  BY <1>1, <1>5, RotationMoves DEF Rotated, WriteFails, Finish
<1>7. Rotating' = Rotating \ {b}
  BY <1>5, <1>6 DEF Rotating
<1>8. offer' \in [code : Codes \cup {None}, age : 0..Lifetime] /\ offer'.code \in {None, offer.code}
  BY <1>1, <1>2, CodesTyped DEF NoOffer
<1>9. RestOK'
  BY <1>1, <1>2, <1>3, <1>4, <1>6, <1>8 DEF RestOK
<1>10. HandInv'
  BY <1>1, <1>2, <1>5, <1>6, RotationHands
<1>11. TokenInv'
  <2> SUFFICES ASSUME Orderly PROVE TokenInv'
    BY <1>2 DEF TokenInv, Orderly
  <2>1. Rotated(b)
    BY DEF WriteFails, Orderly
  <2>2. thread[b].at = "revoked" /\ file' = file /\ known' = known \cup {thread[b].nr}
    BY <2>1 DEF Rotated, At
  <2>3. Rotating' = {} /\ file = thread[b].nr /\ inForce = thread[b].nr
    BY <1>1, <1>2, <1>7, <2>2 DEF TokenInv
  <2> QED BY <1>2, <2>2, <2>3 DEF TokenInv
<1> QED BY <1>1, <1>2, <1>6, <1>8, <1>9, <1>10, <1>11, SessionsStay, AsksStay, Keeps

-----------------------------------------------------------------------------
(* A machine out of the box: nothing is claimed, offered, asked or issued. *)
LEMMA InitInv ==
  ASSUME Init
  PROVE  IInv
<1>1. /\ up = "down" /\ file = None /\ inForce = None /\ generated = None /\ known = {}
      /\ screen = "dashboard" /\ offer = NoOffer /\ offered = None
      /\ thread = [b \in Browsers |-> NoThread] /\ hazards \in Environments
  BY DEF Init
<1>2. NoThread \in Thread /\ NoThread.at = "idle" /\ \A b \in Browsers : thread[b] = NoThread
  BY <1>1 DEF NoThread, Thread
<1>3. NoOffer \in [code : Codes \cup {None}, age : 0..Lifetime] /\ NoOffer.code = None
  BY DEF NoOffer
<1>4. RestOK
  BY <1>1, <1>2, <1>3 DEF RestOK
<1>5. \A i \in Sessions : session[i] = Unissued
  BY DEF Init
<1>6. \A r \in Asks : ask[r] = NoAsk
  BY DEF Init
<1>7. Unissued \in SessionStates /\ Unissued.is = "unissued"
  BY DEF Unissued, SessionStates
<1>8. NoAsk \in AskStates /\ NoAsk.is = "unasked"
  BY DEF NoAsk, AskStates
<1>9. Live = {} /\ Issued = {} /\ Held = {} /\ Rotating = {}
  BY <1>2, <1>5, <1>6, <1>7, <1>8 DEF Live, Issued, Held, Rotating
<1>10. SessionOK
  BY <1>5, <1>7, <1>9, FS_EmptySet DEF Init, SessionOK
<1>11. AskOK
  BY <1>6, <1>8, <1>9, FS_EmptySet DEF Init, AskOK
<1>12. TypeOK
  BY <1>4, <1>10, <1>11, Parts
<1>13. HandInv
  BY <1>1, <1>2, <1>9 DEF HandInv
<1>14. GrantInv /\ AdmittedOnce
  BY <1>1, <1>2, <1>3, <1>9 DEF GrantInv, AdmittedOnce
<1>15. TokenInv
  BY <1>1, <1>9 DEF TokenInv
<1> QED BY <1>12, <1>13, <1>14, <1>15 DEF IInv

(* A step that changes nothing. *)
LEMMA StutterInv ==
  ASSUME IInv, UNCHANGED vars
  PROVE  IInv'
<1>1. SessionOK /\ AskOK
  BY Parts DEF IInv
<1>2. UNCHANGED <<up, device, panel, ask, session, thread, hazards>>
  BY DEF vars
<1> QED BY <1>1, <1>2, SessionsStay, AsksStay, StoresOnly

(* The inductive invariant is kept by every step. *)
LEMMA NextInv ==
  ASSUME IInv, [Next]_vars
  PROVE  IInv'
<1>1. CASE Start \/ Claim \/ Announce \/ ClaimFails
  BY <1>1, StartInv
<1>2. CASE Stop
  BY <1>2, StopInv
<1>3. CASE AtTheScreen
  BY <1>3, OffersInv, ScreenInv DEF AtTheScreen
<1>4. ASSUME NEW b \in Browsers,
             Connect(b) \/ HangUp(b) \/ Administration(b) \/ Rotation(b) \/ Pairing(b) \/ Asking(b)
      PROVE  IInv'
  <2>1. CASE Connect(b) \/ HangUp(b)
    BY <2>1, ConnectInv
  <2>2. CASE Administration(b)
    BY <2>2, ConnectInv, AdmitBySessionInv, SignOutInv, DecideInv DEF Administration
  <2>3. CASE Rotation(b)
    BY <2>3, RotateInv, RotationInv, RotatedInv DEF Rotation
  <2>4. CASE Pairing(b)
    BY <2>4, PairInv, PairingEnds, PairIssuesInv DEF Pairing
  <2>5. CASE Asking(b)
    BY <2>5, OpenInv, RedeemInv, WithdrawInv DEF Asking
  <2> QED BY <1>4, <2>1, <2>2, <2>3, <2>4, <2>5
<1>5. CASE Tick
  BY <1>5, TickInv
<1>6. CASE UNCHANGED vars
  BY <1>6, StutterInv
<1> QED BY <1>1, <1>2, <1>3, <1>4, <1>5, <1>6 DEF Next

(* It holds in every state of every behaviour. *)
THEOREM Invariance == Spec => []IInv
  BY InitInv, NextInv, PTL DEF Spec

(* The stores keep to their types and to their capacities, whatever is issued, evicted, ended,
   asked, withdrawn or expired, and in whatever order. *)
THEOREM TypeCorrect == Spec => []TypeOK
<1>1. IInv => TypeOK
  BY DEF IInv
<1> QED BY <1>1, Invariance, PTL

(* Nobody is let in twice on one pairing code or one approval. *)
THEOREM LetInOnce == Spec => []AdmittedOnce
<1>1. IInv => AdmittedOnce
  BY DEF IInv
<1> QED BY <1>1, Invariance, PTL

(* In orderly use, the device code somebody was told is the one on file and in force. *)
THEOREM TokenKept == Spec => []OrderlyTokenIsKept
<1>1. IInv => OrderlyTokenIsKept
  BY DEF IInv, TokenInv, OrderlyTokenIsKept
<1> QED BY <1>1, Invariance, PTL
==============================================================================
