----------------------------- MODULE Console_proofs -----------------------------
(***************************************************************************)
(* The console's smaller parts, proved for any packages, browsers, keys,    *)
(* networks and files.  The parts share nothing but the faults, so each has *)
(* an invariant of its own, and those are invariants of the sum.            *)
(***************************************************************************)
EXTENDS MCConsole, FiniteSetTheorems, SequenceTheorems, WellFoundedInduction, TLAPS

-----------------------------------------------------------------------------
(* Packages.  What may be offered, member by member. *)

Kinds == {"genuine", "added", "doubled", "altered", "relabeled", "longer", "lacking", "unsigned", "anothers", "reshaped",
          "garbled", "hollow", "crowded", "page"}
Documents == [by : {"nobody", "plex", "another"}, lists : SUBSET (UNION {EntriesFor(v) : v \in Releases}), shape : {"none", "whole", "no-list", "malformed"}]
Files == [as : Kinds, v : Releases, length : Nat] \cup {NoFile}

LEMMA KindsAre == \A v : DOMAIN Variants(v) = Kinds
BY DEF Variants, Kinds

Names == {"debian-binary", "control", "data", "extra", "_gpgplex"}
Membership == [name : Names, size : Nat, body : Releases \cup {Others}, document : Documents]

LEMMA EntriesThere == \A v : EntriesFor(v) # {}
BY DEF EntriesFor

LEMMA MemberIs ==
  ASSUME NEW name \in Names, NEW size \in Nat, NEW body \in Releases \cup {Others}
  PROVE  Member(name, size, body) \in Membership /\ Member(name, size, body).document = NoDocument
BY DEF Member, Membership, NoDocument, Documents

LEMMA SignatureHas ==
  ASSUME NEW signer, NEW lists, NEW shape
  PROVE  /\ Signature(signer, lists, shape) = [name |-> "_gpgplex", size |-> 1, body |-> Others, document |-> [by |-> signer, lists |-> lists, shape |-> shape]]
         /\ Signature(signer, lists, shape).name = "_gpgplex"
         /\ Signature(signer, lists, shape).document.by = signer /\ Signature(signer, lists, shape).document.lists = lists
         /\ Signature(signer, lists, shape).document.shape = shape
<1> DEFINE doc == [by |-> signer, lists |-> lists, shape |-> shape]
<1>1. Signature(signer, lists, shape) = [name |-> "_gpgplex", size |-> 1, body |-> Others, document |-> doc]
  <2>1. Signature(signer, lists, shape) = [[name |-> "_gpgplex", size |-> 1, body |-> Others, document |-> NoDocument] EXCEPT !.document = doc]
    BY Zenon DEF Signature, Member
  <2> HIDE DEF doc
  <2> QED
    BY <2>1
<1>2. doc.by = signer /\ doc.lists = lists /\ doc.shape = shape
  OBVIOUS
<1> HIDE DEF doc
<1>3. Signature(signer, lists, shape).name = "_gpgplex" /\ Signature(signer, lists, shape).document = doc
  BY <1>1
<1> QED
  BY <1>1, <1>2, <1>3 DEF doc

LEMMA SignatureIs ==
  ASSUME NEW v \in Releases, NEW signer \in {"plex", "another"}, NEW lists \in {{}, EntriesFor(v)}, NEW shape \in {"whole", "no-list", "malformed"}
  PROVE  Signature(signer, lists, shape) \in Membership
<1> DEFINE doc == [by |-> signer, lists |-> lists, shape |-> shape]
<1>1. doc \in Documents
  <2>1. lists \in SUBSET (UNION {EntriesFor(w) : w \in Releases})
    OBVIOUS
  <2>2. signer \in {"nobody", "plex", "another"} /\ shape \in {"none", "whole", "no-list", "malformed"}
    OBVIOUS
  <2> QED
    BY <2>1, <2>2, Zenon DEF Documents
<1>2. Others \in Releases \cup {Others} /\ "_gpgplex" \in Names /\ 1 \in Nat
  BY DEF Names
<1>3. Signature(signer, lists, shape) = [name |-> "_gpgplex", size |-> 1, body |-> Others, document |-> doc]
  BY SignatureHas
<1> HIDE DEF doc
<1>4. [name |-> "_gpgplex", size |-> 1, body |-> Others, document |-> doc] \in Membership
  BY <1>1, <1>2 DEF Membership
<1> QED
  BY <1>3, <1>4, Zenon

LEMMA GenuineIs ==
  ASSUME NEW v \in Releases
  PROVE  /\ Genuine(v) \in Seq(Membership) /\ Len(Genuine(v)) = 4
         /\ Genuine(v)[1] = Member("debian-binary", 1, v) /\ Genuine(v)[2] = Member("control", 1, v)
         /\ Genuine(v)[3] = Member("data", 2, v) /\ Genuine(v)[4] = Signature("plex", EntriesFor(v), "whole")
<1>1. /\ Member("debian-binary", 1, v) \in Membership /\ Member("control", 1, v) \in Membership
      /\ Member("data", 2, v) \in Membership
  <2>1. /\ v \in Releases \cup {Others} /\ 1 \in Nat /\ 2 \in Nat
        /\ "debian-binary" \in Names /\ "control" \in Names /\ "data" \in Names
    BY DEF Names
  <2> QED
    BY <2>1, MemberIs, Zenon
<1>2. Signature("plex", EntriesFor(v), "whole") \in Membership
  BY SignatureIs
<1> QED
  BY <1>1, <1>2 DEF Genuine

(* Of the documents Plex signed, the whole ones list the members of the release they come with. *)
Speaks(m, as, v) ==
  m.document.by = "plex" =>
    /\ m.document.shape = "whole" /\ m.document.lists # {} => m.document.lists = EntriesFor(v)
    /\ m.document.shape # "whole" => as \in {"reshaped", "garbled"} /\ m.document.shape \in {"no-list", "malformed"}
    /\ m.document.lists = {} => as \in {"reshaped", "garbled", "hollow"}

Known(as, v) == {m \in Membership : Speaks(m, as, v)}

LEMMA MemberKnown ==
  ASSUME NEW v \in Releases, NEW as, NEW name \in Names, NEW size \in Nat, NEW body \in Releases \cup {Others}
  PROVE  Member(name, size, body) \in Known(as, v)
<1>1. Member(name, size, body) \in Membership /\ Member(name, size, body).document = NoDocument
  BY MemberIs
<1>2. NoDocument.by # "plex"
  BY DEF NoDocument
<1> QED
  BY <1>1, <1>2 DEF Known, Speaks

LEMMA SignatureKnown ==
  ASSUME NEW v \in Releases, NEW as
  PROVE  /\ Signature("plex", EntriesFor(v), "whole") \in Known(as, v)
         /\ Signature("another", EntriesFor(v), "whole") \in Known(as, v)
         /\ as = "reshaped" => Signature("plex", {}, "no-list") \in Known(as, v)
         /\ as = "garbled" => Signature("plex", {}, "malformed") \in Known(as, v)
         /\ as = "hollow" => Signature("plex", {}, "whole") \in Known(as, v)
<1>1. \A m \in Membership : Speaks(m, as, v) => m \in Known(as, v)
  BY DEF Known
<1>2. Signature("plex", EntriesFor(v), "whole") \in Known(as, v)
  <2> DEFINE m == Signature("plex", EntriesFor(v), "whole")
  <2>1. m \in Membership
    BY SignatureIs
  <2>2. m.document.by = "plex" /\ m.document.lists = EntriesFor(v) /\ m.document.shape = "whole"
    BY SignatureHas
  <2> HIDE DEF m
  <2>3. Speaks(m, as, v)
    BY <2>2, EntriesThere DEF Speaks
  <2> QED
    BY <1>1, <2>1, <2>3 DEF m
<1>3. Signature("another", EntriesFor(v), "whole") \in Known(as, v)
  <2> DEFINE m == Signature("another", EntriesFor(v), "whole")
  <2>1. m \in Membership
    BY SignatureIs
  <2>2. m.document.by = "another" /\ m.document.lists = EntriesFor(v) /\ m.document.shape = "whole"
    BY SignatureHas
  <2> HIDE DEF m
  <2>3. Speaks(m, as, v)
    BY <2>2, EntriesThere DEF Speaks
  <2> QED
    BY <1>1, <2>1, <2>3 DEF m
<1>4. ASSUME as = "reshaped" PROVE Signature("plex", {}, "no-list") \in Known(as, v)
  <2> DEFINE m == Signature("plex", {}, "no-list")
  <2>1. m \in Membership
    BY SignatureIs
  <2>2. m.document.by = "plex" /\ m.document.lists = {} /\ m.document.shape = "no-list"
    BY SignatureHas
  <2> HIDE DEF m
  <2>3. Speaks(m, as, v)
    BY <1>4, <2>2, EntriesThere DEF Speaks
  <2> QED
    BY <1>1, <2>1, <2>3 DEF m
<1>5. ASSUME as = "garbled" PROVE Signature("plex", {}, "malformed") \in Known(as, v)
  <2> DEFINE m == Signature("plex", {}, "malformed")
  <2>1. m \in Membership
    BY SignatureIs
  <2>2. m.document.by = "plex" /\ m.document.lists = {} /\ m.document.shape = "malformed"
    BY SignatureHas
  <2> HIDE DEF m
  <2>3. Speaks(m, as, v)
    BY <1>5, <2>2, EntriesThere DEF Speaks
  <2> QED
    BY <1>1, <2>1, <2>3 DEF m
<1>6. ASSUME as = "hollow" PROVE Signature("plex", {}, "whole") \in Known(as, v)
  <2> DEFINE m == Signature("plex", {}, "whole")
  <2>1. m \in Membership
    BY SignatureIs
  <2>2. m.document.by = "plex" /\ m.document.lists = {} /\ m.document.shape = "whole"
    BY SignatureHas
  <2> HIDE DEF m
  <2>3. Speaks(m, as, v)
    BY <1>6, <2>2, EntriesThere DEF Speaks
  <2> QED
    BY <1>1, <2>1, <2>3 DEF m
<1> QED
  BY <1>2, <1>3, <1>4, <1>5, <1>6

LEMMA OtherwiseMember ==
  ASSUME NEW name, NEW size, NEW body
  PROVE  /\ \A other : [Member(name, size, body) EXCEPT !.body = other] = Member(name, size, other)
         /\ \A other : [Member(name, size, body) EXCEPT !.size = other] = Member(name, other, body)
BY DEF Member

(* What is made of four members of a kind by adding, changing or leaving out is of members of that kind. *)
LEMMA MadeOf ==
  ASSUME NEW K, NEW g \in Seq(K), Len(g) = 4, NEW x \in K, NEW more \in Seq(K)
  PROVE  /\ Append(g, x) \in Seq(K) /\ g \o more \in Seq(K) /\ SubSeq(g, 1, 3) \in Seq(K)
         /\ <<g[1], g[2], x, g[3], g[4]>> \in Seq(K) /\ <<g[1], g[3], g[4]>> \in Seq(K)
         /\ [g EXCEPT ![2] = x] \in Seq(K) /\ [g EXCEPT ![3] = x] \in Seq(K) /\ [g EXCEPT ![4] = x] \in Seq(K)
<1>1. g[1] \in K /\ g[2] \in K /\ g[3] \in K /\ g[4] \in K
  BY 1 \in 1..4, 2 \in 1..4, 3 \in 1..4, 4 \in 1..4, ElementOfSeq
<1>2. [g EXCEPT ![2] = x] \in Seq(K) /\ [g EXCEPT ![3] = x] \in Seq(K) /\ [g EXCEPT ![4] = x] \in Seq(K)
  BY 2 \in 1..4, 3 \in 1..4, 4 \in 1..4, ExceptSeq
<1>3. Append(g, x) \in Seq(K) /\ g \o more \in Seq(K) /\ SubSeq(g, 1, 3) \in Seq(K)
  <2>1. \A i \in 1..3 : g[i] \in K
    BY <1>1
  <2> QED
    BY <2>1, AppendProperties, ConcatProperties, SubSeqProperties
<1>4. <<g[1], g[2], x, g[3], g[4]>> \in Seq(K) /\ <<g[1], g[3], g[4]>> \in Seq(K)
  BY <1>1
<1> QED
  BY <1>2, <1>3, <1>4

LEMMA VariantsAre == ASSUME NEW v \in Releases, NEW as \in Kinds PROVE Variants(v)[as] \in Seq(Known(as, v))
<1> DEFINE g == Genuine(v)
<1> DEFINE K == Known(as, v)
<1>1. /\ Len(g) = 4 /\ g[1] = Member("debian-binary", 1, v) /\ g[2] = Member("control", 1, v)
      /\ g[3] = Member("data", 2, v) /\ g[4] = Signature("plex", EntriesFor(v), "whole")
  BY GenuineIs
<1>2. /\ Member("debian-binary", 1, v) \in K /\ Member("control", 1, v) \in K /\ Member("data", 2, v) \in K
      /\ Member("extra", 1, Others) \in K /\ Member("data", 2, Others) \in K /\ Member("control", 1, Others) \in K
      /\ Member("data", 3, v) \in K
  <2>1. Others \in Releases \cup {Others} /\ v \in Releases \cup {Others}
    OBVIOUS
  <2> HIDE DEF K
  <2>2. \A name \in Names, size \in Nat, body \in Releases \cup {Others} : Member(name, size, body) \in K
    BY MemberKnown DEF K
  <2> QED
    BY <2>1, <2>2 DEF Names
<1>3. Signature("plex", EntriesFor(v), "whole") \in K
  <2>1. EntriesFor(v) \in {{}, EntriesFor(v)} /\ EntriesFor(v) # {}
    BY EntriesThere
  <2> QED
    BY <2>1, SignatureKnown
<1>4. g \in Seq(K)
  <2>1. \A a \in K, b \in K, c \in K, d \in K : <<a, b, c, d>> \in Seq(K)
    <3> HIDE DEF K
    <3> QED
      OBVIOUS
  <2> QED
    BY <2>1, <1>2, <1>3, Zenon DEF Genuine
<1> HIDE DEF g, K
<1>5. \A x \in K, more \in Seq(K) :
        /\ Append(g, x) \in Seq(K) /\ g \o more \in Seq(K) /\ SubSeq(g, 1, 3) \in Seq(K)
        /\ <<g[1], g[2], x, g[3], g[4]>> \in Seq(K) /\ <<g[1], g[3], g[4]>> \in Seq(K)
        /\ [g EXCEPT ![2] = x] \in Seq(K) /\ [g EXCEPT ![3] = x] \in Seq(K) /\ [g EXCEPT ![4] = x] \in Seq(K)
  BY <1>1, <1>4, MadeOf
<1>6. <<>> \in Seq(K) /\ [i \in 1..MaxMembers |-> Member("extra", 1, Others)] \in Seq(K)
  BY <1>2, PackageAssumption
<1>7. \A w : Variants(v)[as] = w /\ w \in Seq(K) => Variants(v)[as] \in Seq(Known(as, v))
  BY DEF K
<1>8. CASE as = "genuine"
  BY <1>4, <1>8 DEF Variants, g, K
<1>9. CASE as = "added"
  <2>1. Variants(v)[as] = Append(g, Member("extra", 1, Others))
    BY <1>9 DEF Variants, g
  <2> QED
    BY <2>1, <1>2, <1>5, <1>6, <1>7
<1>10. CASE as = "doubled"
  <2>1. Variants(v)[as] = <<g[1], g[2], Member("data", 2, Others), g[3], g[4]>>
    BY <1>10 DEF Variants, g
  <2> QED
    BY <2>1, <1>2, <1>5, <1>6, <1>7
<1>11. CASE as = "altered"
  <2>1. Variants(v)[as] = [g EXCEPT ![3] = [g[3] EXCEPT !.body = Others]]
    BY <1>11, <1>1, <1>4 DEF Variants, g
  <2>2. [g[3] EXCEPT !.body = Others] \in K
    BY <1>1, <1>2, OtherwiseMember
  <2> QED
    BY <2>1, <2>2, <1>5, <1>6, <1>7
<1>12. CASE as = "relabeled"
  <2>1. Variants(v)[as] = [g EXCEPT ![2] = [g[2] EXCEPT !.body = Others]]
    BY <1>12, <1>1, <1>4 DEF Variants, g
  <2>2. [g[2] EXCEPT !.body = Others] \in K
    BY <1>1, <1>2, OtherwiseMember
  <2> QED
    BY <2>1, <2>2, <1>5, <1>6, <1>7
<1>13. CASE as = "longer"
  <2>1. Variants(v)[as] = [g EXCEPT ![3] = [g[3] EXCEPT !.size = 3]]
    BY <1>13, <1>1, <1>4 DEF Variants, g
  <2>2. [g[3] EXCEPT !.size = 3] \in K
    BY <1>1, <1>2, OtherwiseMember
  <2> QED
    BY <2>1, <2>2, <1>5, <1>6, <1>7
<1>14. CASE as = "lacking"
  <2>1. Variants(v)[as] = <<g[1], g[3], g[4]>>
    BY <1>14 DEF Variants, g
  <2> QED
    BY <2>1, <1>2, <1>5, <1>6, <1>7
<1>15. CASE as = "unsigned"
  <2>1. Variants(v)[as] = SubSeq(g, 1, 3)
    BY <1>15 DEF Variants, g
  <2> QED
    BY <2>1, <1>2, <1>5, <1>6, <1>7
<1>16. CASE as = "anothers"
  <2>1. Variants(v)[as] = [g EXCEPT ![4] = Signature("another", EntriesFor(v), "whole")]
    BY <1>16 DEF Variants, g
  <2>2. Signature("another", EntriesFor(v), "whole") \in K
    BY SignatureKnown DEF K
  <2> QED
    BY <2>1, <2>2, <1>5, <1>6, <1>7
<1>17. CASE as = "reshaped"
  <2>1. Variants(v)[as] = [g EXCEPT ![4] = Signature("plex", {}, "no-list")]
    BY <1>17 DEF Variants, g
  <2>2. Signature("plex", {}, "no-list") \in K
    BY <1>17, SignatureKnown DEF K
  <2> QED
    BY <2>1, <2>2, <1>5, <1>6, <1>7
<1>18. CASE as = "garbled"
  <2>1. Variants(v)[as] = [g EXCEPT ![4] = Signature("plex", {}, "malformed")]
    BY <1>18 DEF Variants, g
  <2>2. Signature("plex", {}, "malformed") \in K
    BY <1>18, SignatureKnown DEF K
  <2> QED
    BY <2>1, <2>2, <1>5, <1>6, <1>7
<1>19. CASE as = "hollow"
  <2>1. Variants(v)[as] = [g EXCEPT ![4] = Signature("plex", {}, "whole")]
    BY <1>19 DEF Variants, g
  <2>2. Signature("plex", {}, "whole") \in K
    BY <1>19, SignatureKnown DEF K
  <2> QED
    BY <2>1, <2>2, <1>5, <1>6, <1>7
<1>20. CASE as = "crowded"
  <2>1. Variants(v)[as] = g \o [i \in 1..MaxMembers |-> Member("extra", 1, Others)]
    BY <1>20 DEF Variants, g
  <2> QED
    BY <2>1, <1>2, <1>5, <1>6, <1>7
<1>21. CASE as = "page"
  BY <1>6, <1>7, <1>21 DEF Variants
<1> QED
  BY <1>8, <1>9, <1>10, <1>11, <1>12, <1>13, <1>14, <1>15, <1>16, <1>17, <1>18, <1>19, <1>20, <1>21 DEF Kinds

(* A file as it may be there: under what it was offered, and how much of it. *)
LEMMA MembersAre ==
  ASSUME NEW f \in Files
  PROVE  /\ Members(f) \in Seq(Membership)
         /\ \A i \in 1..Len(Members(f)) : Speaks(Members(f)[i], f.as, f.v)
         /\ Members(f) # <<>> => f.v \in Releases
<1>1. CASE f = NoFile
  <2>1. Members(f) = <<>>
    BY <1>1 DEF Members, NoFile, Variants
  <2> QED
    BY <2>1
<1>2. CASE f \in [as : Kinds, v : Releases, length : Nat]
  <2>1. Members(f) \in Seq(Known(f.as, f.v)) /\ f.v \in Releases
    BY <1>2, VariantsAre DEF Members
  <2>2. \A i \in 1..Len(Members(f)) : Members(f)[i] \in Known(f.as, f.v)
    BY <2>1, ElementOfSeq
  <2>3. \A m \in Known(f.as, f.v) : m \in Membership /\ Speaks(m, f.as, f.v)
    BY DEF Known
  <2>4. Members(f) \in Seq(Membership)
    BY <2>1, <2>3, SeqMonotonic
  <2> QED
    BY <2>1, <2>2, <2>3, <2>4
<1> QED
  BY <1>1, <1>2 DEF Files

LEMMA WholeIsPart ==
  ASSUME NEW f \in Files
  PROVE  Cardinality(Whole(f)) \in 0..Len(Members(f))
<1>1. Members(f) \in Seq(Membership)
  BY MembersAre
<1>2. DOMAIN Members(f) = 1..Len(Members(f)) /\ Len(Members(f)) \in Nat
  BY <1>1
<1>3. IsFiniteSet(1..Len(Members(f))) /\ Cardinality(1..Len(Members(f))) = Len(Members(f))
  <2> DEFINE n == Len(Members(f))
  <2>1. n \in Nat
    BY <1>2
  <2> HIDE DEF n
  <2>2. IsFiniteSet(1..n) /\ Cardinality(1..n) = n
    BY <2>1, FS_Interval
  <2> QED
    BY <2>2 DEF n
<1>4. Whole(f) \subseteq 1..Len(Members(f))
  BY <1>2 DEF Whole
<1> QED
  BY <1>2, <1>3, <1>4, FS_Subset, FS_CardinalityType

(* What is located is the first members of the file. *)
LEMMA LocatedIs ==
  ASSUME NEW f \in Files
  PROVE  LET d == Directory(f) IN
         /\ d.error \in ArchiveErrors \cup {"none"} /\ d.members \in Seq(Membership)
         /\ Len(d.members) <= Len(Members(f)) /\ \A i \in 1..Len(d.members) : d.members[i] = Members(f)[i]
<1> DEFINE d == Directory(f)
<1> DEFINE k == Cardinality(Whole(f))
<1>1. Members(f) \in Seq(Membership) /\ Len(Members(f)) \in Nat /\ k \in 0..Len(Members(f))
  BY MembersAre, WholeIsPart, LenProperties
<1>2. CASE d.error = "none"
  <2>1. d.members = SubSeq(Members(f), 1, k)
    BY <1>2 DEF Directory
  <2> HIDE DEF k, d
  <2>2. \A i \in 1..k : Members(f)[i] \in Membership
    BY <1>1, ElementOfSeq
  <2>3. SubSeq(Members(f), 1, k) \in Seq(Membership) /\ Len(SubSeq(Members(f), 1, k)) = k /\ \A i \in 1..k : SubSeq(Members(f), 1, k)[i] = Members(f)[i]
    BY <1>1, <2>2
  <2> QED
    BY <1>1, <1>2, <2>1, <2>3 DEF d
<1>3. CASE d.error # "none"
  <2>1. d.members = <<>> /\ d.error \in ArchiveErrors
    BY <1>3 DEF Directory, ArchiveErrors
  <2> HIDE DEF d
  <2> QED
    BY <1>1, <2>1 DEF d
<1> QED
  BY <1>2, <1>3

(* All of a file that is all there is located, and can be read. *)
LEMMA AllIsLocated ==
  ASSUME NEW f \in Files, Members(f) # <<>>, f.length = SizeOf(Members(f))
  PROVE  /\ f.length > 0 /\ \A i \in 1..Len(Members(f)) : EndOf(i) <= f.length
         /\ Directory(f).error \in {"none", "crowded"}
         /\ Directory(f).error = "none" => Directory(f).members = Members(f)
<1> DEFINE n == Len(Members(f))
<1>1. Members(f) \in Seq(Membership) /\ n \in Nat \ {0} /\ DOMAIN Members(f) = 1..n
  BY MembersAre, LenProperties, EmptySeq
<1>2. f.length = 2 + 4 * (n - 1) + 3
  BY DEF SizeOf, EndOf, StartOf, Magic, Extent, HeaderLen, Payload
<1>3. \A i \in 1..n : StartOf(i) = 2 + 4 * (i - 1) /\ EndOf(i) = 5 + 4 * (i - 1)
  BY <1>1 DEF EndOf, StartOf, Magic, Extent, HeaderLen, Payload
<1> HIDE DEF n
<1>4. Whole(f) = 1..n /\ Begun(f) = 1..n
  BY <1>1, <1>2, <1>3 DEF Whole, Begun, HeaderLen
<1>5. Cardinality(1..n) = n
  BY <1>1, FS_Interval
<1>6. SubSeq(Members(f), 1, n) = Members(f)
  BY <1>1, SubSeqFull DEF n
<1>7. f.length >= Magic
  BY <1>1, <1>2 DEF Magic
<1>8. Directory(f).error \in {"none", "crowded"} /\ (Directory(f).error = "none" => Directory(f).members = Members(f))
  <2>1. Cardinality(Whole(f)) = n /\ Begun(f) = Whole(f) /\ ~(f.length < Magic)
    BY <1>1, <1>2, <1>4, <1>5, <1>7 DEF Magic
  <2>2. Directory(f) = IF n > MaxMembers THEN [error |-> "crowded", members |-> <<>>]
                       ELSE [error |-> "none", members |-> SubSeq(Members(f), 1, n)]
    BY <2>1, Zenon DEF Directory
  <2> QED
    BY <1>6, <2>2
<1> QED
  BY <1>1, <1>2, <1>3, <1>8 DEF n

-----------------------------------------------------------------------------
(* An installation under way is alone, and holds what it located in the file, which nobody else touches. *)

Stages   == {"idle", "over", "supply", "tools", "catalogue", "download", "sum", "look", "open", "signature", "tie", "version", "build"}
Reading  == {"signature", "tie", "version", "build"}
Listings == SUBSET (UNION {EntriesFor(v) : v \in Releases})
Runs     == [at : Stages, source : {"none", "download", "supplied"}, dir : Seq(Membership), manifest : Listings,
             version : Releases \cup {Others}, error : Errors, wrote : BOOLEAN, sum : BOOLEAN]
Busy(r)  == r.at \notin {"idle", "over"}

OfferTyped ==
  /\ offered \in [as : Kinds, v : Releases] /\ file \in Files /\ claimed \in BOOLEAN /\ begun \in 0..Installs
  /\ run \in [Pages -> Runs]

OneRun == \A p \in Pages : Busy(run[p]) => claimed /\ \A q \in Pages : Busy(run[q]) => q = p

(* What was located is the file's; what is listed is what Plex signed for its release; what is unpacked is as listed. *)
Located(r) == Directory(file).error = "none" /\ r.dir = Directory(file).members
Listed(r)  ==
  /\ r.manifest = EntriesFor(file.v) /\ file.v \in Releases
  /\ \E i \in 1..Len(r.dir) : r.dir[i].name = "_gpgplex"
Tied(r)    == \A i \in 1..Len(r.dir) :
  r.dir[i].name # "_gpgplex" => Entry(r.dir[i].name, r.dir[i].size, r.dir[i].body) \in EntriesFor(file.v)
Follows(r) ==
  /\ r.at \in Reading => Located(r)
  /\ r.at \in {"tie", "version", "build"} => Listed(r)
  /\ r.at \in {"version", "build"} => Tied(r)
  /\ r.at = "build" => r.version = file.v

(* While nothing newer is published, the first installation has what was offered. *)
AsOffered ==
  /\ file.as = offered.as /\ file.v = offered.v
  /\ file.length <= SizeOf(Members(file)) /\ (file.length < SizeOf(Members(file)) => Happens("short"))
Complete1(r) == r.source = "download" /\ r.sum => file.length = SizeOf(Members(file))
Blamed(r) ==
  LET e == r.error IN
  /\ e = "image" => (Happens("no-tar") \/ Happens("no-lz4")) /\ (r.source = "download" => ~r.wrote)
  /\ e = "tar" => Happens("no-xz")
  /\ e # "no-version"
  /\ e = "transfer" => Happens("short")
  /\ e \in ManifestErrors => offered.as \in {"reshaped", "garbled", "hollow"}
  /\ e \in {"no-verifier", "no-keyring"} => (Happens("no-gpgv") \/ Happens("no-keyring"))
  /\ e \in {"mismatch", "rejected"} => offered.as # "genuine"
  /\ e \in {"unsigned", "read", "damaged", "no-archive", "nothing-supplied"} /\ offered.as = "genuine" =>
       Happens("short") /\ (r.source = "download" => ~r.sum)
Traced(r) ==
  /\ r.at \in {"tools", "catalogue", "download"} /\ r.source = "download" => ~r.wrote
  /\ Busy(r) => r.source # "none"
  /\ r.at \in {"supply", "look"} => r.source = "supplied"
  /\ r.at \in {"sum", "look", "open"} \cup Reading \/ (r.at = "tools" /\ r.source = "supplied") => AsOffered
  /\ r.at \in {"open"} \cup Reading => Complete1(r)
  /\ r.at = "over" => Blamed(r)

FirstRun ==
  /\ begun = 0 => \A p \in Pages : run[p] = NoRun
  /\ begun = 1 /\ ~Happens("newer") => \A p \in Pages : Traced(run[p])

PackageInv ==
  /\ OfferTyped /\ OneRun /\ (\A p \in Pages : Follows(run[p])) /\ FirstRun

LEMMA NoRunIs == NoRun \in Runs /\ NoRun.at = "idle" /\ NoRun.error = "none"
BY DEF NoRun, Runs, Stages, Listings, Errors

LEMMA PackageBegins == PackageInit => PackageInv
<1> SUFFICES ASSUME PackageInit PROVE PackageInv
  OBVIOUS
<1>1. offered \in [as : Kinds, v : Releases]
  <2>1. PICK w \in DOMAIN Variants(1) : offered = [as |-> w, v |-> CHOOSE v \in Releases : TRUE]
    BY DEF PackageInit
  <2>2. (CHOOSE v \in Releases : TRUE) \in Releases
    BY PackageAssumption DEF Releases
  <2> QED
    BY <2>1, <2>2, KindsAre
<1>2. \A p \in Pages : run[p] = NoRun
  BY DEF PackageInit
<1>3. OfferTyped
  <2>1. run \in [Pages -> Runs]
    BY <1>2, NoRunIs, Zenon DEF PackageInit
  <2>2. NoFile \in Files
    BY DEF Files
  <2>3. file = NoFile /\ claimed = FALSE /\ begun = 0
    BY DEF PackageInit
  <2>4. 0 \in 0..Installs
    BY PackageAssumption
  <2> QED
    BY <1>1, <2>1, <2>2, <2>3, <2>4, Zenon DEF OfferTyped
<1>4. OneRun /\ \A p \in Pages : Follows(run[p])
  BY <1>2, NoRunIs DEF OneRun, Busy, Follows, Reading
<1>5. FirstRun
  BY <1>2 DEF FirstRun, PackageInit
<1> QED
  BY <1>3, <1>4, <1>5 DEF PackageInv

(* One installation goes a step: of the others none is under way. *)
LEMMA OthersRest ==
  ASSUME PackageInv, NEW p \in Pages, Busy(run[p]), NEW r \in Runs, RunGoes(p, r)
  PROVE  /\ run' \in [Pages -> Runs] /\ run'[p] = r
         /\ \A q \in Pages : q # p => run'[q] = run[q] /\ ~Busy(run[q])
         /\ \A q \in Pages : q # p => Follows(run[q])'
<1>1. run \in [Pages -> Runs] /\ run' = [run EXCEPT ![p] = r]
  BY DEF PackageInv, OfferTyped, RunGoes
<1>2. \A q \in Pages : q # p => run'[q] = run[q] /\ ~Busy(run[q])
  BY <1>1 DEF PackageInv, OneRun
<1>3. \A q \in Pages : q # p => run[q]'.at \in {"idle", "over"}
  BY <1>2 DEF Busy
<1> QED
  BY <1>1, <1>2, <1>3 DEF Follows, Reading

(* It goes on, with the job still taken. *)
LEMMA GoesOn ==
  ASSUME PackageInv, NEW p \in Pages, Busy(run[p]), NEW r \in Runs, Busy(r), RunGoes(p, r), file' \in Files, UNCHANGED <<offered, claimed, begun>>,
         Follows(run[p])', begun = 1 /\ ~Happens("newer") => Traced(run[p])', UNCHANGED faults
  PROVE  PackageInv'
<1>1. /\ run' \in [Pages -> Runs] /\ run'[p] = r
      /\ \A q \in Pages : q # p => run'[q] = run[q] /\ ~Busy(run[q])
      /\ \A q \in Pages : q # p => Follows(run[q])'
  BY OthersRest
<1>2. OfferTyped'
  BY <1>1 DEF PackageInv, OfferTyped
<1>3. OneRun'
  BY <1>1 DEF PackageInv, OneRun, Busy
<1>4. \A q \in Pages : Follows(run[q])'
  BY <1>1
<1>5. begun # 0
  BY NoRunIs DEF PackageInv, FirstRun, Busy
<1>6. ASSUME begun = 1, ~Happens("newer"), NEW q \in Pages, q # p PROVE Traced(run[q])'
  <2>1. Traced(run[q]) /\ run'[q] = run[q] /\ run[q].at \in {"idle", "over"}
    BY <1>1, <1>6 DEF PackageInv, FirstRun, Busy
  <2>2. Blamed(run[q]) => Blamed(run[q])'
    BY <2>1 DEF Blamed, Happens
  <2> QED
    BY <2>1, <2>2 DEF Traced, Reading, Busy
<1>7. FirstRun'
  BY <1>5, <1>6 DEF FirstRun, Happens
<1> QED
  BY <1>2, <1>3, <1>4, <1>7 DEF PackageInv

(* Or it is over, and the job is given up. *)
LEMMA IsOver ==
  ASSUME PackageInv, NEW p \in Pages, Busy(run[p]), NEW error \in Errors, RunEnds(p, error), file' \in Files, UNCHANGED <<offered, begun, faults>>,
         begun = 1 /\ ~Happens("newer") => Blamed([NoRun EXCEPT !.at = "over", !.error = error, !.wrote = run[p].wrote, !.source = run[p].source, !.sum = run[p].sum])
  PROVE  PackageInv'
<1> DEFINE r == [NoRun EXCEPT !.at = "over", !.error = error, !.wrote = run[p].wrote, !.source = run[p].source, !.sum = run[p].sum]
<1>1. run[p] \in Runs /\ RunGoes(p, r) /\ claimed' = FALSE
  BY DEF RunEnds, PackageInv, OfferTyped
<1>2. r \in Runs /\ r.at = "over"
  BY <1>1, NoRunIs DEF Runs, Stages
<1> HIDE DEF r
<1>3. /\ run' \in [Pages -> Runs] /\ run'[p] = r
      /\ \A q \in Pages : q # p => run'[q] = run[q] /\ ~Busy(run[q])
      /\ \A q \in Pages : q # p => Follows(run[q])'
  BY <1>1, <1>2, OthersRest
<1>4. OfferTyped'
  BY <1>1, <1>3 DEF PackageInv, OfferTyped
<1>5. \A q \in Pages : run'[q].at \in {"idle", "over"}
  BY <1>2, <1>3 DEF Busy
<1>6. OneRun' /\ \A q \in Pages : Follows(run[q])'
  BY <1>5 DEF OneRun, Busy, Follows, Reading
<1>7. begun # 0
  BY NoRunIs DEF PackageInv, FirstRun, Busy
<1>8. ASSUME begun = 1, ~Happens("newer"), NEW q \in Pages PROVE Traced(run[q])'
  <2>1. Blamed(run[q])' \/ run'[q].at = "idle"
    <3>1. CASE q = p
      <4>1. Blamed(r)
        BY <1>8 DEF r
      <4> QED
        BY <1>3, <3>1, <4>1 DEF Blamed, Happens
    <3>2. CASE q # p
      BY <1>3, <1>5, <1>8, <3>2 DEF PackageInv, FirstRun, Traced, Blamed, Happens
    <3> QED
      BY <3>1, <3>2
  <2> QED
    BY <1>5, <2>1 DEF Traced, Reading, Busy
<1>9. FirstRun'
  BY <1>7, <1>8 DEF FirstRun, Happens
<1> QED
  BY <1>4, <1>6, <1>9 DEF PackageInv

(* What is located of the file is the first of its members, and each speaks for the release the file is of. *)
LEMMA WhatIsHeld ==
  ASSUME PackageInv, NEW p \in Pages, run[p].at \in Reading
  PROVE  LET dir == run[p].dir IN
         /\ dir \in Seq(Membership) /\ DOMAIN dir = 1..Len(dir) /\ Len(dir) \in 0..Len(Members(file)) /\ (Len(dir) > 0 => file.v \in Releases)
         /\ \A i \in 1..Len(dir) :
              /\ dir[i] = Members(file)[i] /\ dir[i] \in Membership /\ Speaks(dir[i], file.as, file.v)
              /\ BytesAt(dir, i) = dir[i].body /\ DocumentAt(dir, i) = dir[i].document
<1> DEFINE dir == run[p].dir
<1> DEFINE n == Len(Members(file))
<1>1. file \in Files /\ Located(run[p])
  BY DEF PackageInv, OfferTyped, Follows
<1>2. Members(file) \in Seq(Membership) /\ n \in Nat /\ DOMAIN Members(file) = 1..n
  BY <1>1, MembersAre, LenProperties
<1>3. dir \in Seq(Membership) /\ Len(dir) <= n /\ \A i \in 1..Len(dir) : dir[i] = Members(file)[i]
  BY <1>1, LocatedIs DEF Located
<1>4. Len(dir) \in Nat /\ DOMAIN dir = 1..Len(dir) /\ \A i \in 1..Len(dir) : dir[i] \in Membership
  BY <1>3, LenProperties, ElementOfSeq
<1>5. Members(file) # <<>> => file.v \in Releases
  BY <1>1, MembersAre
<1>6. n > 0 => Members(file) # <<>>
  BY <1>2, EmptySeq
<1>7. \A i \in 1..n : Speaks(Members(file)[i], file.as, file.v)
  BY <1>1, MembersAre
<1> HIDE DEF dir, n
<1>8. \A i \in 1..Len(dir) : i \in 1..n
  BY <1>2, <1>3, <1>4
<1>9. \A i \in 1..n : BytesAt(dir, i) = Members(file)[i].body /\ DocumentAt(dir, i) = Members(file)[i].document
  BY <1>2 DEF BytesAt, DocumentAt
<1>10. \A i \in 1..Len(dir) :
              /\ dir[i] = Members(file)[i] /\ dir[i] \in Membership /\ Speaks(dir[i], file.as, file.v)
              /\ BytesAt(dir, i) = dir[i].body /\ DocumentAt(dir, i) = dir[i].document
  BY <1>3, <1>4, <1>7, <1>8, <1>9, Zenon
<1>11. Len(dir) \in 0..n /\ (Len(dir) > 0 => file.v \in Releases)
  BY <1>2, <1>3, <1>4, <1>5, <1>6
<1> QED
  BY <1>3, <1>4, <1>10, <1>11 DEF dir, n

(* Of the first installation: whatever was genuine and is found wanting came short, and of no known sum. *)
LEMMA WhatIsWanting ==
  ASSUME PackageInv, NEW p \in Pages, run[p].at \in {"open"} \cup Reading, begun = 1, ~Happens("newer"), offered.as = "genuine",
         file.length # SizeOf(Members(file))
  PROVE  Happens("short") /\ (run[p].source = "download" => ~run[p].sum)
<1>1. AsOffered /\ Complete1(run[p])
  BY DEF PackageInv, FirstRun, Traced
<1>2. file \in Files
  BY DEF PackageInv, OfferTyped
<1>3. file.length \in Int /\ SizeOf(Members(file)) \in Int
  <2>1. file.length \in Int
    BY <1>2 DEF Files, NoFile
  <2>2. Len(Members(file)) \in Nat
    BY <1>2, MembersAre, LenProperties
  <2> QED
    BY <2>1, <2>2 DEF SizeOf, EndOf, StartOf, Magic, Extent, HeaderLen, Payload
<1>4. file.length < SizeOf(Members(file))
  BY <1>1, <1>3 DEF AsOffered
<1>5. run[p] \in Runs
  BY DEF PackageInv, OfferTyped
<1> QED
  BY <1>1, <1>4, <1>5 DEF AsOffered, Complete1, Runs

(* A genuine package, once the signature is among what was located, is there as Plex made it. *)
LEMMA WhatIsGenuine ==
  ASSUME PackageInv, NEW p \in Pages, run[p].at \in {"open"} \cup Reading, begun = 1, ~Happens("newer"), offered.as = "genuine"
  PROVE  /\ Members(file) = Genuine(file.v) /\ Members(file) # <<>> /\ Len(Members(file)) = 4 /\ file.v \in Releases
         /\ \A i \in 1..4 : (i = 4 <=> Members(file)[i].name = "_gpgplex") /\ (i < 4 => Members(file)[i].document = NoDocument)
         /\ Members(file)[4].document.by = "plex"
<1>1. AsOffered /\ offered.v \in Releases
  BY DEF PackageInv, FirstRun, Traced, OfferTyped
<1>2. Members(file) = Genuine(file.v) /\ file.v \in Releases
  BY <1>1 DEF AsOffered, Members, Variants
<1>3. /\ Genuine(file.v) \in Seq(Membership) /\ Len(Genuine(file.v)) = 4
      /\ Genuine(file.v)[1] = Member("debian-binary", 1, file.v) /\ Genuine(file.v)[2] = Member("control", 1, file.v)
      /\ Genuine(file.v)[3] = Member("data", 2, file.v) /\ Genuine(file.v)[4] = Signature("plex", EntriesFor(file.v), "whole")
  BY <1>2, GenuineIs
<1>4. Signature("plex", EntriesFor(file.v), "whole").name = "_gpgplex" /\ Signature("plex", EntriesFor(file.v), "whole").document.by = "plex"
  BY SignatureHas
<1>5. \A name \in {"debian-binary", "control", "data"} : \A size : Member(name, size, file.v).name = name /\ Member(name, size, file.v).document = NoDocument
  BY DEF Member
<1>6. Genuine(file.v) # <<>>
  BY <1>3, EmptySeq
<1>7. \A i \in 1..4 : i = 1 \/ i = 2 \/ i = 3 \/ i = 4
  OBVIOUS
<1> QED
  BY <1>2, <1>3, <1>4, <1>5, <1>6, <1>7

-----------------------------------------------------------------------------
(* Every step of an installation keeps it so. *)

LEMMA SizeIsNat == ASSUME NEW f \in Files PROVE SizeOf(Members(f)) \in Nat /\ f.length \in Int
<1>1. f.length \in Int
  BY DEF Files, NoFile
<1>2. Members(f) \in Seq(Membership) /\ Len(Members(f)) \in Nat
  BY MembersAre, LenProperties
<1>3. Members(f) # <<>> => Len(Members(f)) > 0
  BY <1>2, EmptySeq
<1> QED
  BY <1>1, <1>2, <1>3 DEF SizeOf, EndOf, StartOf, Magic, Extent, HeaderLen, Payload

LEMMA BeginKeeps ==
  ASSUME PackageInv, UNCHANGED faults, NEW p \in Pages, NEW source \in {"download", "supplied"}, Begin(p, source)
  PROVE  PackageInv'
<1> DEFINE r == [NoRun EXCEPT !.at = IF source = "download" THEN "tools" ELSE "supply", !.source = source]
<1>1. run \in [Pages -> Runs] /\ begun \in 0..Installs /\ begun < Installs /\ ~claimed
  <2>1. begun < (IF Happens("variants") THEN 1 ELSE Installs)
    BY DEF Begin, Allowed
  <2> QED
    BY <2>1, PackageAssumption DEF Begin, Free, PackageInv, OfferTyped
<1>2. run' = [run EXCEPT ![p] = r] /\ claimed' = TRUE /\ begun' = begun + 1 /\ UNCHANGED <<offered, file>>
  BY DEF Begin, RunGoes
<1>3. /\ r \in Runs /\ r.at \in {"tools", "supply"} /\ r.source = source /\ r.wrote = FALSE
      /\ r.at = "tools" <=> source = "download"
  BY NoRunIs DEF NoRun, Runs, Stages
<1> HIDE DEF r
<1>4. run' \in [Pages -> Runs] /\ run'[p] = r /\ \A q \in Pages : q # p => run'[q] = run[q] /\ ~Busy(run[q])
  BY <1>1, <1>2, <1>3 DEF PackageInv, OneRun
<1>5. OfferTyped'
  <2>1. begun + 1 \in 0..Installs
    BY <1>1, PackageAssumption
  <2> QED
    BY <1>2, <1>4, <2>1 DEF PackageInv, OfferTyped
<1>6. OneRun'
  BY <1>2, <1>4 DEF OneRun, Busy
<1>7. \A q \in Pages : run'[q].at \notin Reading
  BY <1>3, <1>4 DEF Busy, Reading
<1>8. \A q \in Pages : Follows(run[q])'
  BY <1>7 DEF Follows, Reading
<1>9. ASSUME begun' = 1, ~Happens("newer"), NEW q \in Pages PROVE Traced(run[q])'
  <2>1. begun = 0
    BY <1>1, <1>2, <1>9
  <2>2. q # p => run'[q] = NoRun
    BY <1>4, <2>1 DEF PackageInv, FirstRun
  <2>3. q = p => run'[q] = r
    BY <1>4
  <2>4. CASE q = p
    BY <1>3, <2>3, <2>4 DEF Traced, Busy, Reading
  <2>5. CASE q # p
    BY <2>2, <2>5 DEF Traced, NoRun, Busy, Reading
  <2> QED
    BY <2>4, <2>5
<1>10. FirstRun'
  BY <1>1, <1>2, <1>9 DEF FirstRun, Happens
<1> QED
  BY <1>5, <1>6, <1>8, <1>10 DEF PackageInv

LEMMA OffersKeeps ==
  ASSUME PackageInv, UNCHANGED faults, Offers
  PROVE  PackageInv'
<1>1. offered' \in [as : Kinds, v : Releases] /\ UNCHANGED <<file, claimed, run, begun>> /\ Happens("newer")
  BY DEF Offers, Kinds
<1>2. OfferTyped' /\ OneRun'
  BY <1>1 DEF PackageInv, OfferTyped, OneRun
<1>3. \A p \in Pages : Follows(run[p])'
  BY <1>1 DEF PackageInv, Follows, Located, Listed, Tied
<1>4. FirstRun'
  BY <1>1 DEF PackageInv, FirstRun, Happens
<1> QED
  BY <1>2, <1>3, <1>4 DEF PackageInv

LEMMA RunDiesKeeps ==
  ASSUME PackageInv, UNCHANGED faults, RunDies
  PROVE  PackageInv'
<1>1. claimed' = FALSE /\ run' = [p \in Pages |-> NoRun] /\ UNCHANGED <<offered, file, begun>>
  BY DEF RunDies
<1>2. \A p \in Pages : run'[p] = NoRun
  BY <1>1
<1>3. OfferTyped'
  BY <1>1, NoRunIs DEF PackageInv, OfferTyped
<1>4. OneRun' /\ \A p \in Pages : Follows(run[p])'
  BY <1>2, NoRunIs DEF OneRun, Busy, Follows, Reading
<1>5. \A p \in Pages : Traced(run[p])'
  BY <1>2 DEF Traced, NoRun, Busy, Reading
<1>6. FirstRun'
  BY <1>2, <1>5 DEF FirstRun
<1> QED
  BY <1>3, <1>4, <1>6 DEF PackageInv

LEMMA Offered1 ==
  ASSUME PackageInv, UNCHANGED <<offered, faults>>, NEW n \in 0..SizeOf(Members(offered)),
         n < SizeOf(Members(offered)) => Happens("short"), file' = [as |-> offered.as, v |-> offered.v, length |-> n]
  PROVE  file' \in Files /\ AsOffered'
<1>1. offered.as \in Kinds /\ offered.v \in Releases
  BY DEF PackageInv, OfferTyped
<1>2. [as |-> offered.as, v |-> offered.v, length |-> n] \in Files /\ n \in Nat
  <2>1. [as |-> offered.as, v |-> offered.v, length |-> 0] \in Files
    BY <1>1 DEF Files
  <2>2. Members([as |-> offered.as, v |-> offered.v, length |-> 0]) = Members(offered)
    BY DEF Members
  <2>3. n \in Nat
    BY <2>1, <2>2, SizeIsNat
  <2> QED
    BY <1>1, <2>3 DEF Files
<1>3. Members(file)' = Members(offered)
  BY DEF Members
<1>4. SizeOf(Members(file))' = SizeOf(Members(offered))
  BY <1>3 DEF SizeOf, EndOf, StartOf, Magic, Extent, HeaderLen, Payload
<1>5. SizeOf(Members(offered)) \in Nat
  <2>1. [as |-> offered.as, v |-> offered.v, length |-> n] \in Files
    BY <1>2
  <2>2. Members([as |-> offered.as, v |-> offered.v, length |-> n]) = Members(offered)
    BY DEF Members
  <2> QED
    BY <2>1, <2>2, SizeIsNat
<1> QED
  BY <1>2, <1>4, <1>5 DEF AsOffered, Happens

LEMMA NoFileIs == NoFile \in Files
BY DEF Files

LEMMA SupplyKeeps ==
  ASSUME PackageInv, UNCHANGED faults, NEW p \in Pages, Supply(p)
  PROVE  PackageInv'
<1>1. run[p].at = "supply" /\ Busy(run[p]) /\ UNCHANGED <<offered, begun>> /\ run[p] \in Runs
  BY DEF Supply, Holds, Busy, PackageInv, OfferTyped
<1>2. begun = 1 /\ ~Happens("newer") => run[p].source = "supplied"
  BY <1>1 DEF PackageInv, FirstRun, Traced
<1>3. CASE file' = NoFile /\ RunEnds(p, "fetch")
  <2>1. "fetch" \in Errors
    BY DEF Errors
  <2>2. Blamed([NoRun EXCEPT !.at = "over", !.error = "fetch", !.wrote = run[p].wrote, !.source = run[p].source, !.sum = run[p].sum])
    BY DEF Blamed, NoRun, ManifestErrors
  <2> QED
    BY <1>1, <1>3, <2>1, <2>2, IsOver, NoFileIs
<1>4. ASSUME NEW n \in 0..SizeOf(Members(offered)),
             file' = [as |-> offered.as, v |-> offered.v, length |-> n], n < SizeOf(Members(offered)) => Happens("short"),
             RunGoes(p, [run[p] EXCEPT !.at = "tools", !.wrote = TRUE]), UNCHANGED claimed
      PROVE  PackageInv'
  <2> DEFINE r == [run[p] EXCEPT !.at = "tools", !.wrote = TRUE]
  <2>1. file' \in Files /\ AsOffered'
    BY <1>1, <1>4, Offered1
  <2>2. r \in Runs /\ r.at = "tools" /\ r.source = run[p].source
    BY <1>1 DEF Runs, Stages
  <2>3. Busy(r) /\ RunGoes(p, r)
    BY <2>2, <1>4 DEF Busy
  <2> HIDE DEF r
  <2>4. run'[p] = r
    BY <1>1, <2>2, <2>3 DEF RunGoes, PackageInv, OfferTyped
  <2>5. Follows(run[p])'
    BY <2>2, <2>4 DEF Follows, Reading
  <2>6. begun = 1 /\ ~Happens("newer") => Traced(run[p])'
    BY <1>2, <2>1, <2>2, <2>4 DEF Traced, Reading, Busy
  <2> QED
    BY <1>1, <1>4, <2>1, <2>2, <2>3, <2>5, <2>6, GoesOn
<1> QED
  BY <1>3, <1>4 DEF Supply

LEMMA ToolsKeeps ==
  ASSUME PackageInv, UNCHANGED faults, NEW p \in Pages, Tools(p)
  PROVE  PackageInv'
<1>1. run[p].at = "tools" /\ Busy(run[p]) /\ UNCHANGED <<offered, begun, file>> /\ run[p] \in Runs /\ file' \in Files
  BY DEF Tools, Holds, Busy, PackageInv, OfferTyped
<1>2. begun = 1 /\ ~Happens("newer") => Traced(run[p])
  BY DEF PackageInv, FirstRun
<1>3. CASE (Happens("no-tar") \/ Happens("no-lz4")) /\ RunEnds(p, "image")
  <2>1. "image" \in Errors
    BY DEF Errors
  <2>2. begun = 1 /\ ~Happens("newer") =>
          Blamed([NoRun EXCEPT !.at = "over", !.error = "image", !.wrote = run[p].wrote, !.source = run[p].source, !.sum = run[p].sum])
    BY <1>1, <1>2, <1>3 DEF Blamed, NoRun, ManifestErrors, Traced
  <2> QED
    BY <1>1, <1>3, <2>1, <2>2, IsOver
<1>4. ASSUME RunAt(p, IF run[p].source = "download" THEN "catalogue" ELSE "look"), UNCHANGED claimed
      PROVE  PackageInv'
  <2> DEFINE r == [run[p] EXCEPT !.at = IF run[p].source = "download" THEN "catalogue" ELSE "look"]
  <2>1. r \in Runs /\ r.at = (IF run[p].source = "download" THEN "catalogue" ELSE "look") /\ r.source = run[p].source /\ r.wrote = run[p].wrote
    BY <1>1 DEF Runs, Stages
  <2>2. Busy(r) /\ RunGoes(p, r)
    BY <2>1, <1>4 DEF Busy, RunAt
  <2> HIDE DEF r
  <2>3. run'[p] = r
    BY <1>1, <2>1, <2>2 DEF RunGoes, PackageInv, OfferTyped
  <2>4. Follows(run[p])'
    BY <2>1, <2>3 DEF Follows, Reading
  <2>5. begun = 1 /\ ~Happens("newer") => Traced(run[p])'
    <3>1. ASSUME begun = 1, ~Happens("newer") PROVE Traced(run[p])'
      <4>1. run[p].source \in {"download", "supplied"}
        BY <1>1, <1>2, <3>1 DEF Traced, Runs
      <4>2. run[p].source = "supplied" => AsOffered'
        BY <1>1, <1>2, <3>1 DEF Traced, AsOffered, Happens
      <4>3. run[p].source = "download" => ~run[p].wrote
        BY <1>1, <1>2, <3>1 DEF Traced
      <4> QED
        BY <2>1, <2>3, <4>1, <4>2, <4>3 DEF Traced, Reading, Busy
    <3> QED
      BY <3>1
  <2> QED
    BY <1>1, <1>4, <2>1, <2>2, <2>4, <2>5, GoesOn
<1> QED
  BY <1>3, <1>4 DEF Tools

LEMMA PickKeeps ==
  ASSUME PackageInv, UNCHANGED faults, NEW p \in Pages, Pick(p)
  PROVE  PackageInv'
<1>1. run[p].at = "catalogue" /\ Busy(run[p]) /\ UNCHANGED <<offered, begun, file>> /\ run[p] \in Runs /\ file' \in Files
  BY DEF Pick, Holds, Busy, PackageInv, OfferTyped
<1>2. ASSUME NEW error \in {"no-curl", "fetch"} \cup CatalogueErrors, RunEnds(p, error) PROVE PackageInv'
  <2>1. error \in Errors
    BY DEF Errors, CatalogueErrors
  <2>2. Blamed([NoRun EXCEPT !.at = "over", !.error = error, !.wrote = run[p].wrote, !.source = run[p].source, !.sum = run[p].sum])
    BY DEF Blamed, NoRun, ManifestErrors, CatalogueErrors
  <2> QED
    BY <1>1, <1>2, <2>1, <2>2, IsOver
<1>3. ASSUME RunAt(p, "download"), UNCHANGED claimed PROVE PackageInv'
  <2> DEFINE r == [run[p] EXCEPT !.at = "download"]
  <2>1. r \in Runs /\ r.at = "download" /\ r.source = run[p].source /\ r.wrote = run[p].wrote
    BY <1>1 DEF Runs, Stages
  <2>2. Busy(r) /\ RunGoes(p, r)
    BY <2>1, <1>3 DEF Busy, RunAt
  <2> HIDE DEF r
  <2>3. run'[p] = r
    BY <1>1, <2>1, <2>2 DEF RunGoes, PackageInv, OfferTyped
  <2>4. Follows(run[p])'
    BY <2>1, <2>3 DEF Follows, Reading
  <2>5. begun = 1 /\ ~Happens("newer") => Traced(run[p])'
    BY <1>1, <2>1, <2>3 DEF PackageInv, FirstRun, Traced, Reading, Busy
  <2> QED
    BY <1>1, <1>3, <2>1, <2>2, <2>4, <2>5, GoesOn
<1> QED
  BY <1>2, <1>3 DEF Pick, CatalogueErrors

LEMMA DownloadKeeps ==
  ASSUME PackageInv, UNCHANGED faults, NEW p \in Pages, Download(p)
  PROVE  PackageInv'
<1>1. run[p].at = "download" /\ Busy(run[p]) /\ UNCHANGED <<offered, begun>> /\ run[p] \in Runs
  BY DEF Download, Holds, Busy, PackageInv, OfferTyped
<1>2. begun = 1 /\ ~Happens("newer") => run[p].source # "none"
  BY <1>1 DEF PackageInv, FirstRun, Traced
<1>3. CASE file' = NoFile /\ RunEnds(p, "fetch")
  <2>1. "fetch" \in Errors
    BY DEF Errors
  <2>2. Blamed([NoRun EXCEPT !.at = "over", !.error = "fetch", !.wrote = run[p].wrote, !.source = run[p].source, !.sum = run[p].sum])
    BY DEF Blamed, NoRun, ManifestErrors
  <2> QED
    BY <1>1, <1>3, <2>1, <2>2, IsOver, NoFileIs
<1>4. ASSUME NEW n \in 0..SizeOf(Members(offered)),
             file' = [as |-> offered.as, v |-> offered.v, length |-> n], n < SizeOf(Members(offered)) => Happens("short"),
             RunGoes(p, [run[p] EXCEPT !.at = "sum", !.wrote = TRUE, !.sum = ~Happens("no-sum")]), UNCHANGED claimed
      PROVE  PackageInv'
  <2> DEFINE r == [run[p] EXCEPT !.at = "sum", !.wrote = TRUE, !.sum = ~Happens("no-sum")]
  <2>1. file' \in Files /\ AsOffered'
    BY <1>1, <1>4, Offered1
  <2>2. r \in Runs /\ r.at = "sum" /\ r.source = run[p].source
    BY <1>1 DEF Runs, Stages
  <2>3. Busy(r) /\ RunGoes(p, r)
    BY <2>2, <1>4 DEF Busy
  <2> HIDE DEF r
  <2>4. run'[p] = r
    BY <1>1, <2>2, <2>3 DEF RunGoes, PackageInv, OfferTyped
  <2>5. Follows(run[p])'
    BY <2>2, <2>4 DEF Follows, Reading
  <2>6. begun = 1 /\ ~Happens("newer") => Traced(run[p])'
    BY <1>2, <2>1, <2>2, <2>4 DEF Traced, Reading, Busy
  <2> QED
    BY <1>1, <1>4, <2>1, <2>2, <2>3, <2>5, <2>6, GoesOn
<1> QED
  BY <1>3, <1>4 DEF Download

LEMMA SumKeeps ==
  ASSUME PackageInv, UNCHANGED faults, NEW p \in Pages, Sum(p)
  PROVE  PackageInv'
<1>1. run[p].at = "sum" /\ Busy(run[p]) /\ UNCHANGED <<offered, begun>> /\ run[p] \in Runs /\ file \in Files
  BY DEF Sum, Holds, Busy, PackageInv, OfferTyped
<1>2. begun = 1 /\ ~Happens("newer") => AsOffered /\ run[p].source # "none"
  BY <1>1 DEF PackageInv, FirstRun, Traced
<1>3. ASSUME ~Matches, file' = NoFile, RunEnds(p, "transfer") PROVE PackageInv'
  <2>1. "transfer" \in Errors
    BY DEF Errors
  <2>2. begun = 1 /\ ~Happens("newer") => Happens("short")
    BY <1>1, <1>2, <1>3, SizeIsNat DEF AsOffered, Matches
  <2>3. begun = 1 /\ ~Happens("newer") =>
          Blamed([NoRun EXCEPT !.at = "over", !.error = "transfer", !.wrote = run[p].wrote, !.source = run[p].source, !.sum = run[p].sum])
    BY <2>2 DEF Blamed, NoRun, ManifestErrors
  <2> QED
    BY <1>1, <1>3, <2>1, <2>3, IsOver, NoFileIs
<1>4. ASSUME run[p].sum => Matches, RunAt(p, "open"), UNCHANGED <<file, claimed>> PROVE PackageInv'
  <2> DEFINE r == [run[p] EXCEPT !.at = "open"]
  <2>1. r \in Runs /\ r.at = "open" /\ r.source = run[p].source /\ r.sum = run[p].sum
    BY <1>1 DEF Runs, Stages
  <2>2. Busy(r) /\ RunGoes(p, r)
    BY <2>1, <1>4 DEF Busy, RunAt
  <2> HIDE DEF r
  <2>3. run'[p] = r
    BY <1>1, <2>1, <2>2 DEF RunGoes, PackageInv, OfferTyped
  <2>4. Follows(run[p])'
    BY <2>1, <2>3 DEF Follows, Reading
  <2>5. begun = 1 /\ ~Happens("newer") => AsOffered'
    BY <1>1, <1>2, <1>4 DEF AsOffered, Happens
  <2>6. Complete1(run[p])'
    BY <2>1, <2>3, <1>4 DEF Complete1, Matches
  <2>7. begun = 1 /\ ~Happens("newer") => Traced(run[p])'
    BY <1>2, <2>1, <2>3, <2>5, <2>6 DEF Traced, Reading, Busy
  <2> QED
    BY <1>1, <1>4, <2>1, <2>2, <2>4, <2>7, GoesOn
<1> QED
  BY <1>3, <1>4 DEF Sum

LEMMA LookKeeps ==
  ASSUME PackageInv, UNCHANGED faults, NEW p \in Pages, LookSupplied(p)
  PROVE  PackageInv'
<1>1. run[p].at = "look" /\ Busy(run[p]) /\ UNCHANGED <<offered, begun, file>> /\ run[p] \in Runs /\ file \in Files /\ file' \in Files
  BY DEF LookSupplied, Holds, Busy, PackageInv, OfferTyped
<1>2. begun = 1 /\ ~Happens("newer") => AsOffered /\ run[p].source = "supplied"
  BY <1>1 DEF PackageInv, FirstRun, Traced
<1>3. ASSUME file.length <= 0, RunEnds(p, "nothing-supplied") PROVE PackageInv'
  <2>1. "nothing-supplied" \in Errors
    BY DEF Errors
  <2>2. begun = 1 /\ ~Happens("newer") /\ offered.as = "genuine" => Happens("short")
    <3>1. ASSUME begun = 1, ~Happens("newer"), offered.as = "genuine", file.length = SizeOf(Members(file)) PROVE FALSE
      <4>1. Members(file) = Genuine(file.v) /\ file.v = offered.v /\ offered.v \in Releases
        BY <1>2, <3>1 DEF AsOffered, Members, Variants, PackageInv, OfferTyped
      <4>2. Len(Genuine(file.v)) = 4
        BY <4>1, GenuineIs
      <4>3. Members(file) # <<>>
        BY <4>1, <4>2, EmptySeq
      <4> QED
        BY <1>1, <1>3, <3>1, <4>3, AllIsLocated, SizeIsNat
    <3> QED
      BY <1>1, <1>2, <3>1, SizeIsNat DEF AsOffered
  <2>3. begun = 1 /\ ~Happens("newer") =>
          Blamed([NoRun EXCEPT !.at = "over", !.error = "nothing-supplied", !.wrote = run[p].wrote, !.source = run[p].source, !.sum = run[p].sum])
    BY <1>2, <2>2 DEF Blamed, NoRun, ManifestErrors
  <2> QED
    BY <1>1, <1>3, <2>1, <2>3, IsOver
<1>4. ASSUME RunAt(p, "open"), UNCHANGED claimed PROVE PackageInv'
  <2> DEFINE r == [run[p] EXCEPT !.at = "open"]
  <2>1. r \in Runs /\ r.at = "open" /\ r.source = run[p].source
    BY <1>1 DEF Runs, Stages
  <2>2. Busy(r) /\ RunGoes(p, r)
    BY <2>1, <1>4 DEF Busy, RunAt
  <2> HIDE DEF r
  <2>3. run'[p] = r
    BY <1>1, <2>1, <2>2 DEF RunGoes, PackageInv, OfferTyped
  <2>4. Follows(run[p])'
    BY <2>1, <2>3 DEF Follows, Reading
  <2>5. begun = 1 /\ ~Happens("newer") => AsOffered'
    BY <1>1, <1>2 DEF AsOffered, Happens
  <2>6. begun = 1 /\ ~Happens("newer") => Traced(run[p])'
    BY <1>2, <2>1, <2>3, <2>5 DEF Traced, Reading, Busy, Complete1
  <2> QED
    BY <1>1, <1>4, <2>1, <2>2, <2>4, <2>6, GoesOn
<1> QED
  BY <1>3, <1>4 DEF LookSupplied

(* What is wanting of a genuine package: it came short. *)
LEMMA WantingIsBlamed ==
  ASSUME PackageInv, NEW p \in Pages, run[p].at \in {"open"} \cup Reading, NEW error \in {"unsigned", "read", "damaged", "no-archive"},
         begun = 1, ~Happens("newer"), offered.as = "genuine" => file.length # SizeOf(Members(file))
  PROVE  Blamed([NoRun EXCEPT !.at = "over", !.error = error, !.wrote = run[p].wrote, !.source = run[p].source, !.sum = run[p].sum])
<1>1. offered.as = "genuine" => Happens("short") /\ (run[p].source = "download" => ~run[p].sum)
  BY WhatIsWanting
<1> QED
  BY <1>1 DEF Blamed, NoRun, ManifestErrors

LEMMA OpenKeeps ==
  ASSUME PackageInv, UNCHANGED faults, NEW p \in Pages, Open(p)
  PROVE  PackageInv'
<1>1. run[p].at = "open" /\ Busy(run[p]) /\ UNCHANGED <<offered, begun, file>> /\ run[p] \in Runs /\ file \in Files /\ file' \in Files
  BY DEF Open, Holds, Busy, PackageInv, OfferTyped
<1>2. begun = 1 /\ ~Happens("newer") => AsOffered /\ Complete1(run[p]) /\ run[p].source # "none"
  BY <1>1 DEF PackageInv, FirstRun, Traced
<1>3. Directory(file).error \in ArchiveErrors \cup {"none"} /\ Directory(file).members \in Seq(Membership)
  BY <1>1, LocatedIs
<1>4. ASSUME Directory(file).error # "none", RunEnds(p, Directory(file).error) PROVE PackageInv'
  <2> DEFINE error == Directory(file).error
  <2>1. error \in Errors /\ error \in ArchiveErrors
    BY <1>3, <1>4 DEF Errors
  <2>2. ASSUME begun = 1, ~Happens("newer"), error # "crowded"
        PROVE  Blamed([NoRun EXCEPT !.at = "over", !.error = error, !.wrote = run[p].wrote, !.source = run[p].source, !.sum = run[p].sum])
    <3>1. error \in {"unsigned", "read", "damaged", "no-archive"}
      BY <2>1, <2>2 DEF ArchiveErrors
    <3>2. offered.as = "genuine" => file.length # SizeOf(Members(file))
      BY <1>1, <1>4, <2>2, AllIsLocated, WhatIsGenuine
    <3> HIDE DEF error
    <3> QED
      BY <1>1, <2>2, <3>1, <3>2, WantingIsBlamed
  <2>3. error = "crowded" =>
          Blamed([NoRun EXCEPT !.at = "over", !.error = error, !.wrote = run[p].wrote, !.source = run[p].source, !.sum = run[p].sum])
    <3> HIDE DEF error
    <3> QED
      BY DEF Blamed, NoRun, ManifestErrors
  <2>4. RunEnds(p, error)
    BY <1>4
  <2> HIDE DEF error
  <2> QED
    BY <1>1, <2>1, <2>2, <2>3, <2>4, IsOver
<1>5. ASSUME Directory(file).error = "none", RunGoes(p, [run[p] EXCEPT !.at = "signature", !.dir = Directory(file).members]), UNCHANGED claimed
      PROVE  PackageInv'
  <2> DEFINE d == Directory(file).members
  <2> DEFINE r == [run[p] EXCEPT !.at = "signature", !.dir = d]
  <2>0. d \in Seq(Membership) /\ d = Directory(file).members /\ RunGoes(p, r)
    BY <1>3, <1>5
  <2> HIDE DEF d
  <2>1. r \in Runs /\ r.at = "signature" /\ r.source = run[p].source /\ r.sum = run[p].sum /\ r.dir = d
    BY <1>1, <2>0 DEF Runs, Stages
  <2>2. Busy(r)
    BY <2>1 DEF Busy
  <2> HIDE DEF r
  <2>3. run'[p] = r
    BY <1>1, <2>0, <2>1 DEF RunGoes, PackageInv, OfferTyped
  <2>4. Located(run[p])'
    <3>1. Directory(file)' = Directory(file)
      BY <1>1, Zenon
    <3> QED
      BY <1>5, <2>0, <2>1, <2>3, <3>1 DEF Located
  <2>5. Follows(run[p])'
    BY <2>1, <2>3, <2>4 DEF Follows
  <2>6. begun = 1 /\ ~Happens("newer") => AsOffered'
    BY <1>1, <1>2 DEF AsOffered, Happens
  <2>7. begun = 1 /\ ~Happens("newer") => Complete1(run[p])'
    BY <1>1, <1>2, <2>1, <2>3 DEF Complete1
  <2>8. begun = 1 /\ ~Happens("newer") => Traced(run[p])'
    BY <1>2, <2>1, <2>3, <2>6, <2>7 DEF Traced, Reading, Busy
  <2> QED
    BY <1>1, <1>5, <2>0, <2>1, <2>2, <2>5, <2>8, GoesOn
<1> QED
  BY <1>4, <1>5 DEF Open

(* A step on within the reading: the file and what was located of it stay. *)
LEMMA ReadsOn ==
  ASSUME PackageInv, UNCHANGED <<offered, begun, file, claimed, faults>>, NEW p \in Pages, run[p].at \in Reading,
         NEW at \in Reading, NEW manifest \in Listings, NEW version \in Releases \cup {Others},
         RunGoes(p, [run[p] EXCEPT !.at = at, !.manifest = manifest, !.version = version]),
         at \in {"tie", "version", "build"} => manifest = EntriesFor(file.v) /\ file.v \in Releases /\ \E i \in 1..Len(run[p].dir) : run[p].dir[i].name = "_gpgplex",
         at \in {"version", "build"} => Tied(run[p]), at = "build" => version = file.v
  PROVE  PackageInv'
<1> DEFINE r == [run[p] EXCEPT !.at = at, !.manifest = manifest, !.version = version]
<1>1. run[p] \in Runs /\ Busy(run[p]) /\ file' \in Files
  BY DEF PackageInv, OfferTyped, Busy, Reading
<1>2. /\ r \in Runs /\ r.at = at /\ r.manifest = manifest /\ r.version = version
      /\ r.dir = run[p].dir /\ r.source = run[p].source /\ r.sum = run[p].sum
  BY <1>1 DEF Runs, Stages, Reading
<1>3. Busy(r) /\ RunGoes(p, r)
  BY <1>2 DEF Busy, Reading
<1> HIDE DEF r
<1>4. run'[p] = r
  BY <1>2, <1>3 DEF RunGoes, PackageInv, OfferTyped
<1>5. Located(run[p])'
  <2>1. Directory(file)' = Directory(file)
    BY Zenon
  <2> QED
    BY <1>2, <1>4, <2>1 DEF Located, PackageInv, Follows
<1>6. at \in {"tie", "version", "build"} => Listed(run[p])'
  BY <1>2, <1>4 DEF Listed
<1>7. at \in {"version", "build"} => Tied(run[p])'
  BY <1>2, <1>4 DEF Tied
<1>8. Follows(run[p])'
  BY <1>2, <1>4, <1>5, <1>6, <1>7 DEF Follows
<1>9. ASSUME begun = 1, ~Happens("newer") PROVE Traced(run[p])'
  <2>1. AsOffered /\ Complete1(run[p]) /\ run[p].source # "none"
    BY <1>9, <1>1 DEF PackageInv, FirstRun, Traced
  <2>2. AsOffered' /\ Complete1(run[p])'
    BY <1>2, <1>4, <2>1 DEF AsOffered, Complete1, Happens
  <2> QED
    BY <1>2, <1>4, <2>1, <2>2 DEF Traced, Reading, Busy
<1> QED
  BY <1>1, <1>2, <1>3, <1>8, <1>9, GoesOn

LEMMA NothingNew == \A r \in Runs : \A at : [r EXCEPT !.at = at, !.manifest = r.manifest, !.version = r.version] = [r EXCEPT !.at = at]
BY DEF Runs
LEMMA VersionKept == \A r \in Runs : \A at, m : [r EXCEPT !.at = at, !.manifest = m, !.version = r.version] = [r EXCEPT !.at = at, !.manifest = m]
BY DEF Runs
LEMMA ManifestKept == \A r \in Runs : \A at, v : [r EXCEPT !.at = at, !.manifest = r.manifest, !.version = v] = [r EXCEPT !.at = at, !.version = v]
BY DEF Runs

LEMMA VerifiedKeeps ==
  ASSUME PackageInv, UNCHANGED faults, NEW p \in Pages, Verified(p)
  PROVE  PackageInv'
<1> DEFINE dir == run[p].dir
<1>1. /\ run[p].at = "signature" /\ run[p].at \in Reading /\ Busy(run[p]) /\ UNCHANGED <<offered, begun, file>>
      /\ run[p] \in Runs /\ file \in Files /\ file' \in Files
  BY DEF Verified, Holds, Busy, Reading, PackageInv, OfferTyped
<1>2. begun = 1 /\ ~Happens("newer") => AsOffered
  BY <1>1 DEF PackageInv, FirstRun, Traced
<1>3. /\ DOMAIN dir = 1..Len(dir) /\ Len(dir) \in 0..Len(Members(file)) /\ (Len(dir) > 0 => file.v \in Releases)
      /\ \A i \in 1..Len(dir) :
           /\ dir[i] = Members(file)[i] /\ dir[i] \in Membership /\ Speaks(dir[i], file.as, file.v)
           /\ DocumentAt(dir, i) = dir[i].document
  BY <1>1, WhatIsHeld
<1>4. Located(run[p])
  BY <1>1 DEF PackageInv, Follows
<1>5. CASE Named(dir, "_gpgplex") = {} /\ RunEnds(p, "unsigned")
  <2>1. "unsigned" \in Errors
    BY DEF Errors
  <2>2. ASSUME begun = 1, ~Happens("newer"), offered.as = "genuine", file.length = SizeOf(Members(file)) PROVE FALSE
    <3>1. dir = Members(file)
      BY <1>1, <1>4, <2>2, AllIsLocated, WhatIsGenuine DEF Located
    <3>2. Len(Members(file)) = 4 /\ \A i \in 1..4 : i = 4 <=> Members(file)[i].name = "_gpgplex"
      BY <1>1, <2>2, WhatIsGenuine
    <3>3. 4 \in Named(dir, "_gpgplex")
      BY <1>3, <3>1, <3>2 DEF Named
    <3> QED
      BY <1>5, <3>3
  <2>3. begun = 1 /\ ~Happens("newer") =>
          Blamed([NoRun EXCEPT !.at = "over", !.error = "unsigned", !.wrote = run[p].wrote, !.source = run[p].source, !.sum = run[p].sum])
    BY <1>1, <2>2, WantingIsBlamed
  <2> QED
    BY <1>1, <1>5, <2>1, <2>3, IsOver
<1>6. ASSUME NEW i \in Named(dir, "_gpgplex"), ~Readable(i), RunEnds(p, "read") PROVE PackageInv'
  <2>1. "read" \in Errors
    BY DEF Errors
  <2>2. i \in 1..Len(Members(file))
    BY <1>3, <1>6 DEF Named
  <2>3. ASSUME begun = 1, ~Happens("newer"), offered.as = "genuine", file.length = SizeOf(Members(file)) PROVE FALSE
    BY <1>1, <1>6, <2>2, <2>3, AllIsLocated, WhatIsGenuine DEF Readable
  <2>4. begun = 1 /\ ~Happens("newer") =>
          Blamed([NoRun EXCEPT !.at = "over", !.error = "read", !.wrote = run[p].wrote, !.source = run[p].source, !.sum = run[p].sum])
    BY <1>1, <2>3, WantingIsBlamed
  <2> QED
    BY <1>1, <1>6, <2>1, <2>4, IsOver
<1>7. ASSUME NEW i \in Named(dir, "_gpgplex") PROVE
        /\ i \in 1..Len(dir) /\ dir[i].name = "_gpgplex" /\ DocumentAt(dir, i) = dir[i].document
        /\ dir[i] \in Membership /\ Speaks(dir[i], file.as, file.v) /\ file.v \in Releases /\ dir[i].document \in Documents
  <2>1. i \in 1..Len(dir) /\ dir[i].name = "_gpgplex"
    BY <1>3, <1>7 DEF Named
  <2>2. Len(dir) > 0
    BY <1>3, <2>1
  <2>3. dir[i] \in Membership
    BY <1>3, <2>1
  <2>4. dir[i].document \in Documents
    BY <2>3 DEF Membership
  <2> QED
    BY <1>3, <2>1, <2>2, <2>4
<1>8. ASSUME NEW i \in Named(dir, "_gpgplex"), NEW error, error = Clearsigned(dir[i].document), error # "none", RunEnds(p, error) PROVE PackageInv'
  <2>1. error \in {"no-verifier", "no-keyring", "rejected"} /\ (error = "rejected" => dir[i].document.by # "plex")
        /\ (error \in {"no-verifier", "no-keyring"} => Happens("no-gpgv") \/ Happens("no-keyring"))
    BY <1>8 DEF Clearsigned
  <2>2. error \in Errors
    BY <2>1 DEF Errors, SignatureErrors
  <2>3. ASSUME begun = 1, ~Happens("newer"), offered.as = "genuine", error = "rejected" PROVE FALSE
    <3>1. /\ Len(Members(file)) = 4 /\ Members(file)[4].document.by = "plex"
          /\ \A j \in 1..4 : j = 4 <=> Members(file)[j].name = "_gpgplex"
      BY <1>1, <2>3, WhatIsGenuine
    <3>2. i \in 1..4 /\ dir[i] = Members(file)[i] /\ dir[i].name = "_gpgplex"
      BY <1>3, <1>7, <1>8, <3>1
    <3> QED
      BY <2>1, <2>3, <3>1, <3>2
  <2>4. begun = 1 /\ ~Happens("newer") =>
          Blamed([NoRun EXCEPT !.at = "over", !.error = error, !.wrote = run[p].wrote, !.source = run[p].source, !.sum = run[p].sum])
    BY <2>1, <2>3 DEF Blamed, NoRun, ManifestErrors
  <2> QED
    BY <1>1, <1>8, <2>2, <2>4, IsOver
<1>9. ASSUME NEW i \in Named(dir, "_gpgplex"), Clearsigned(dir[i].document) = "none" PROVE dir[i].document.by = "plex"
  BY <1>9 DEF Clearsigned
<1>10. ASSUME NEW i \in Named(dir, "_gpgplex"), Clearsigned(dir[i].document) = "none",
              NEW error, error = Parsed(dir[i].document), error # "none", RunEnds(p, error) PROVE PackageInv'
  <2>1. dir[i].document.by = "plex" /\ Speaks(dir[i], file.as, file.v)
    BY <1>7, <1>9, <1>10
  <2>2. /\ error \in ManifestErrors
        /\ file.as \in {"reshaped", "garbled", "hollow"}
    BY <2>1, <1>10 DEF Speaks, Parsed, ManifestErrors
  <2>3. error \in Errors
    BY <2>2 DEF Errors
  <2>4. begun = 1 /\ ~Happens("newer") =>
          Blamed([NoRun EXCEPT !.at = "over", !.error = error, !.wrote = run[p].wrote, !.source = run[p].source, !.sum = run[p].sum])
    BY <1>2, <2>2 DEF Blamed, NoRun, ManifestErrors, AsOffered
  <2> QED
    BY <1>1, <1>10, <2>3, <2>4, IsOver
<1>11. ASSUME NEW i \in Named(dir, "_gpgplex"), Clearsigned(dir[i].document) = "none", Parsed(dir[i].document) = "none",
              RunGoes(p, [run[p] EXCEPT !.at = "tie", !.manifest = dir[i].document.lists]), UNCHANGED claimed PROVE PackageInv'
  <2>1. dir[i].document.by = "plex" /\ Speaks(dir[i], file.as, file.v) /\ file.v \in Releases
    BY <1>7, <1>9, <1>11
  <2>2. dir[i].document.lists = EntriesFor(file.v)
    BY <2>1, <1>11 DEF Speaks, Parsed
  <2>3. EntriesFor(file.v) \in Listings /\ "tie" \in Reading /\ run[p].version \in Releases \cup {Others}
    BY <1>1, <2>1 DEF Listings, Reading, Runs
  <2>4. RunGoes(p, [run[p] EXCEPT !.at = "tie", !.manifest = EntriesFor(file.v), !.version = run[p].version])
    BY <1>1, <1>11, <2>2, VersionKept
  <2>5. \E j \in 1..Len(run[p].dir) : run[p].dir[j].name = "_gpgplex"
    BY <1>7, <1>11
  <2> QED
    BY <1>1, <1>11, <2>1, <2>3, <2>4, <2>5, ReadsOn
<1>12. \A i \in Named(dir, "_gpgplex") : DocumentAt(dir, i) = dir[i].document
  BY <1>7
<1>13. CASE Named(dir, "_gpgplex") = {}
  BY <1>5, <1>13 DEF Verified
<1>14. CASE Named(dir, "_gpgplex") # {}
  <2>1. PICK i \in Named(dir, "_gpgplex") :
          IF ~Readable(i) THEN RunEnds(p, "read")
          ELSE LET document == DocumentAt(dir, i) IN
               IF Clearsigned(document) # "none" THEN RunEnds(p, Clearsigned(document))
               ELSE IF Parsed(document) # "none" THEN RunEnds(p, Parsed(document))
               ELSE RunGoes(p, [run[p] EXCEPT !.at = "tie", !.manifest = document.lists]) /\ UNCHANGED claimed
    BY <1>14 DEF Verified
  <2>2. DocumentAt(dir, i) = dir[i].document
    BY <1>12
  <2> QED
    BY <1>6, <1>8, <1>10, <1>11, <2>1, <2>2
<1> QED
  BY <1>13, <1>14

LEMMA MeasuredAre ==
  ASSUME PackageInv, NEW p \in Pages, run[p].at \in Reading
  PROVE  LET dir == run[p].dir IN
         {Entry(dir[i].name, dir[i].size, BytesAt(dir, i)) : i \in DOMAIN dir} = {Entry(dir[i].name, dir[i].size, dir[i].body) : i \in 1..Len(dir)}
BY WhatIsHeld

(* What agrees both ways is, but for the signature, what is listed. *)
LEMMA AgreesMeans ==
  ASSUME NEW measured, NEW signed, Problems(measured, signed) = {}, NEW m \in measured, m.name # "_gpgplex",
         NEW name, NEW size, NEW body, m = Entry(name, size, body), \A e \in signed : \E n, s, b : e = Entry(n, s, b)
  PROVE  m \in signed
<1>1. PICK e \in signed : e.name = m.name
  <2>1. "unlisted" \notin Problems(measured, signed)
    OBVIOUS
  <2> QED
    BY <2>1 DEF Problems, Mismatches
<1>2. e.size = m.size
  <2>1. "size" \notin Problems(measured, signed)
    OBVIOUS
  <2> QED
    BY <1>1, <2>1 DEF Problems, Mismatches
<1>3. e.body = m.body
  <2>1. "digest" \notin Problems(measured, signed)
    OBVIOUS
  <2> QED
    BY <1>1, <2>1 DEF Problems, Mismatches
<1>4. PICK n, s, b : e = Entry(n, s, b)
  OBVIOUS
<1>5. e = m
  BY <1>1, <1>2, <1>3, <1>4 DEF Entry
<1> QED
  BY <1>5

LEMMA EntriesAre == \A v : \A e \in EntriesFor(v) : (\E n, s, b : e = Entry(n, s, b)) /\ e.body = v /\ e.name # "_gpgplex"
BY DEF EntriesFor, Entry

LEMMA GenuineAgrees ==
  ASSUME NEW v, NEW g, g.name = "_gpgplex"
  PROVE  Problems(EntriesFor(v) \cup {g}, EntriesFor(v)) = {}
<1> DEFINE M == EntriesFor(v) \cup {g}
<1>1. {m \in M : m.name # "_gpgplex"} = EntriesFor(v)
  BY EntriesAre
<1>2. \A e \in EntriesFor(v), f \in EntriesFor(v) : e.name = f.name => e = f
  BY DEF EntriesFor, Entry
<1>3. \A p : p \notin Problems(M, EntriesFor(v))
  <2>1. ASSUME NEW p \in Problems(M, EntriesFor(v)) PROVE FALSE
    <3> DEFINE payload == {m \in M : m.name # "_gpgplex"}
    <3>1. \/ payload = M
          \/ \E m \in payload : {e \in EntriesFor(v) : e.name = m.name} = {}
          \/ \E m \in payload : \E e \in {e \in EntriesFor(v) : e.name = m.name} : e.size # m.size
          \/ \E m \in payload : \E e \in {e \in EntriesFor(v) : e.name = m.name} : e.body # m.body
          \/ \E e \in EntriesFor(v) : \A m \in M : m.name # e.name
      BY <2>1 DEF Problems
    <3>2. payload = EntriesFor(v) /\ g \in M /\ g \notin payload
      BY <1>1
    <3> HIDE DEF payload
    <3> QED
      BY <1>2, <3>1, <3>2 DEF M
  <2> QED
    BY <2>1
<1> QED
  BY <1>3

LEMMA TieKeeps ==
  ASSUME PackageInv, UNCHANGED faults, NEW p \in Pages, TieToPayload(p)
  PROVE  PackageInv'
<1> DEFINE dir == run[p].dir
<1> DEFINE measured == {Entry(dir[i].name, dir[i].size, dir[i].body) : i \in 1..Len(dir)}
<1>1. /\ run[p].at = "tie" /\ run[p].at \in Reading /\ Busy(run[p]) /\ UNCHANGED <<offered, begun, file>>
      /\ run[p] \in Runs /\ file \in Files /\ file' \in Files
  BY DEF TieToPayload, Holds, Busy, Reading, PackageInv, OfferTyped
<1>2. /\ DOMAIN dir = 1..Len(dir) /\ Len(dir) \in 0..Len(Members(file))
      /\ \A i \in 1..Len(dir) : dir[i] = Members(file)[i] /\ dir[i] \in Membership
  BY <1>1, WhatIsHeld
<1>3. Listed(run[p])
  BY <1>1 DEF PackageInv, Follows
<1>4. {Entry(dir[i].name, dir[i].size, BytesAt(dir, i)) : i \in DOMAIN dir} = measured
  BY <1>1, MeasuredAre
<1>5. ASSUME NEW i \in 1..Len(dir), ~Readable(i), RunEnds(p, "read") PROVE PackageInv'
  <2>1. "read" \in Errors
    BY DEF Errors
  <2>2. i \in 1..Len(Members(file))
    BY <1>2, <1>5
  <2>3. ASSUME begun = 1, ~Happens("newer"), offered.as = "genuine", file.length = SizeOf(Members(file)) PROVE FALSE
    BY <1>1, <1>5, <2>2, <2>3, AllIsLocated, WhatIsGenuine DEF Readable
  <2>4. begun = 1 /\ ~Happens("newer") =>
          Blamed([NoRun EXCEPT !.at = "over", !.error = "read", !.wrote = run[p].wrote, !.source = run[p].source, !.sum = run[p].sum])
    BY <1>1, <2>3, WantingIsBlamed
  <2> QED
    BY <1>1, <1>5, <2>1, <2>4, IsOver
<1>6. ASSUME Problems(measured, run[p].manifest) # {}, RunEnds(p, "mismatch") PROVE PackageInv'
  <2>1. "mismatch" \in Errors
    BY DEF Errors
  <2>2. ASSUME begun = 1, ~Happens("newer"), offered.as = "genuine" PROVE FALSE
    <3> DEFINE v == file.v
    <3>1. /\ Members(file) = Genuine(v) /\ Len(Members(file)) = 4 /\ v \in Releases
          /\ \A i \in 1..4 : i = 4 <=> Members(file)[i].name = "_gpgplex"
      BY <1>1, <2>2, WhatIsGenuine
    <3>2. PICK i \in 1..Len(dir) : dir[i].name = "_gpgplex"
      BY <1>3 DEF Listed
    <3>3. Len(dir) = 4
      BY <1>2, <3>1, <3>2
    <3>4. /\ Genuine(v)[1] = Member("debian-binary", 1, v) /\ Genuine(v)[2] = Member("control", 1, v)
          /\ Genuine(v)[3] = Member("data", 2, v) /\ Genuine(v)[4] = Signature("plex", EntriesFor(v), "whole")
      BY <3>1, GenuineIs
    <3> DEFINE g == Entry(dir[4].name, dir[4].size, dir[4].body)
    <3>5. \A n, s, b : Member(n, s, b).name = n /\ Member(n, s, b).size = s /\ Member(n, s, b).body = b
      BY DEF Member
    <3>6. /\ Entry(dir[1].name, dir[1].size, dir[1].body) = Entry("debian-binary", 1, v)
          /\ Entry(dir[2].name, dir[2].size, dir[2].body) = Entry("control", 1, v)
          /\ Entry(dir[3].name, dir[3].size, dir[3].body) = Entry("data", 2, v)
      BY <1>2, <3>1, <3>3, <3>4, <3>5
    <3>7. g.name = "_gpgplex"
      <4>1. dir[4].name = "_gpgplex"
        BY <1>2, <3>1, <3>3
      <4> QED
        BY <4>1 DEF Entry
    <3>8. measured = {Entry(dir[1].name, dir[1].size, dir[1].body), Entry(dir[2].name, dir[2].size, dir[2].body),
                      Entry(dir[3].name, dir[3].size, dir[3].body), g}
      <4>1. 1..Len(dir) = {1, 2, 3, 4}
        BY <3>3
      <4> HIDE DEF dir
      <4> QED
        BY <4>1
    <3> HIDE DEF g, measured, v
    <3>9. measured = EntriesFor(v) \cup {g}
      BY <3>6, <3>8 DEF EntriesFor
    <3>10. run[p].manifest = EntriesFor(v)
      BY <1>3 DEF Listed, v
    <3> QED
      BY <1>6, <3>7, <3>9, <3>10, GenuineAgrees
  <2>3. begun = 1 /\ ~Happens("newer") =>
          Blamed([NoRun EXCEPT !.at = "over", !.error = "mismatch", !.wrote = run[p].wrote, !.source = run[p].source, !.sum = run[p].sum])
    BY <2>2 DEF Blamed, NoRun, ManifestErrors
  <2> QED
    BY <1>1, <1>6, <2>1, <2>3, IsOver
<1>7. ASSUME Problems(measured, run[p].manifest) = {}, RunAt(p, "version"), UNCHANGED claimed PROVE PackageInv'
  <2>1. /\ "version" \in Reading /\ run[p].manifest \in Listings /\ run[p].version \in Releases \cup {Others}
        /\ run[p].manifest = EntriesFor(file.v) /\ file.v \in Releases /\ \E i \in 1..Len(dir) : dir[i].name = "_gpgplex"
    BY <1>1, <1>3 DEF Reading, Runs, Listed
  <2>2. RunGoes(p, [run[p] EXCEPT !.at = "version", !.manifest = run[p].manifest, !.version = run[p].version])
    BY <1>1, <1>7, NothingNew DEF RunAt
  <2>3. Tied(run[p])
    <3>1. SUFFICES ASSUME NEW i \in 1..Len(dir), dir[i].name # "_gpgplex"
                   PROVE  Entry(dir[i].name, dir[i].size, dir[i].body) \in EntriesFor(file.v)
      BY DEF Tied
    <3> DEFINE m == Entry(dir[i].name, dir[i].size, dir[i].body)
    <3>2. m \in measured /\ m.name # "_gpgplex"
      BY <3>1 DEF Entry
    <3>3. \A e \in EntriesFor(file.v) : \E n, s, b : e = Entry(n, s, b)
      BY EntriesAre
    <3>4. \A n, s, b : m = Entry(n, s, b) => m \in EntriesFor(file.v)
      <4>1. Problems(measured, EntriesFor(file.v)) = {}
        BY <1>7, <2>1
      <4> HIDE DEF m, measured, dir
      <4> QED
        BY <3>2, <3>3, <4>1, AgreesMeans
    <3> QED
      BY <3>4
  <2> QED
    BY <1>1, <1>7, <2>1, <2>2, <2>3, ReadsOn
<1>8. CASE \E i \in DOMAIN dir : ~Readable(i)
  <2>1. RunEnds(p, "read")
    BY <1>8 DEF TieToPayload
  <2> QED
    BY <1>2, <1>5, <1>8, <2>1
<1>9. CASE ~\E i \in DOMAIN dir : ~Readable(i)
  <2>1. IF Problems(measured, run[p].manifest) = {} THEN RunAt(p, "version") /\ UNCHANGED claimed ELSE RunEnds(p, "mismatch")
    BY <1>4, <1>9 DEF TieToPayload
  <2> HIDE DEF measured
  <2> QED
    BY <1>6, <1>7, <2>1
<1> QED
  BY <1>8, <1>9

LEMMA VersionKeeps ==
  ASSUME PackageInv, UNCHANGED faults, NEW p \in Pages, VersionOf(p)
  PROVE  PackageInv'
<1> DEFINE dir == run[p].dir
<1>1. /\ run[p].at = "version" /\ run[p].at \in Reading /\ Busy(run[p]) /\ UNCHANGED <<offered, begun, file>>
      /\ run[p] \in Runs /\ file \in Files /\ file' \in Files
  BY DEF VersionOf, Holds, Busy, Reading, PackageInv, OfferTyped
<1>2. DOMAIN dir = 1..Len(dir) /\ \A i \in 1..Len(dir) : BytesAt(dir, i) = dir[i].body
  BY <1>1, WhatIsHeld
<1>3. Listed(run[p]) /\ Tied(run[p])
  BY <1>1 DEF PackageInv, Follows
<1>4. CASE RunEnds(p, "no-control")
  <2>1. "no-control" \in Errors
    BY DEF Errors
  <2>2. Blamed([NoRun EXCEPT !.at = "over", !.error = "no-control", !.wrote = run[p].wrote, !.source = run[p].source, !.sum = run[p].sum])
    BY DEF Blamed, NoRun, ManifestErrors
  <2> QED
    BY <1>1, <1>4, <2>1, <2>2, IsOver
<1>6. ASSUME NEW i \in Named(dir, "control"), ~Readable(i), RunEnds(p, "read") PROVE PackageInv'
  <2>1. "read" \in Errors
    BY DEF Errors
  <2>2. i \in 1..Len(dir) /\ i \in 1..Len(Members(file))
    BY <1>1, <1>2, <1>6, WhatIsHeld DEF Named
  <2>3. ASSUME begun = 1, ~Happens("newer"), offered.as = "genuine", file.length = SizeOf(Members(file)) PROVE FALSE
    BY <1>1, <1>6, <2>2, <2>3, AllIsLocated, WhatIsGenuine DEF Readable
  <2>4. begun = 1 /\ ~Happens("newer") =>
          Blamed([NoRun EXCEPT !.at = "over", !.error = "read", !.wrote = run[p].wrote, !.source = run[p].source, !.sum = run[p].sum])
    BY <1>1, <2>3, WantingIsBlamed
  <2> QED
    BY <1>1, <1>6, <2>1, <2>4, IsOver
<1>7. ASSUME Happens("no-xz"), RunEnds(p, "tar") PROVE PackageInv'
  <2>1. "tar" \in Errors
    BY DEF Errors
  <2>2. Blamed([NoRun EXCEPT !.at = "over", !.error = "tar", !.wrote = run[p].wrote, !.source = run[p].source, !.sum = run[p].sum])
    BY <1>7 DEF Blamed, NoRun, ManifestErrors
  <2> QED
    BY <1>1, <1>7, <2>1, <2>2, IsOver
<1>5. ASSUME NEW i \in Named(dir, "control"), RunGoes(p, [run[p] EXCEPT !.at = "build", !.version = BytesAt(dir, i)]), UNCHANGED claimed
      PROVE  PackageInv'
  <2>1. i \in 1..Len(dir) /\ dir[i].name = "control" /\ BytesAt(dir, i) = dir[i].body
    BY <1>2, <1>5 DEF Named
  <2>2. Entry(dir[i].name, dir[i].size, dir[i].body) \in EntriesFor(file.v)
    BY <1>3, <2>1 DEF Tied
  <2>3. dir[i].body = file.v
    BY <2>2, EntriesAre DEF Entry
  <2>4. /\ "build" \in Reading /\ run[p].manifest \in Listings /\ file.v \in Releases \cup {Others}
        /\ run[p].manifest = EntriesFor(file.v) /\ file.v \in Releases /\ \E j \in 1..Len(dir) : dir[j].name = "_gpgplex"
    BY <1>1, <1>3 DEF Reading, Runs, Listed
  <2>5. RunGoes(p, [run[p] EXCEPT !.at = "build", !.manifest = run[p].manifest, !.version = file.v])
    BY <1>1, <1>5, <2>1, <2>3, ManifestKept
  <2> QED
    BY <1>1, <1>3, <1>5, <2>4, <2>5, ReadsOn
<1>8. ASSUME NEW i \in Named(dir, "control") PROVE BytesAt(dir, i) \in Releases
  <2>1. i \in 1..Len(dir) /\ dir[i].name = "control" /\ BytesAt(dir, i) = dir[i].body
    BY <1>2, <1>8 DEF Named
  <2>2. Entry(dir[i].name, dir[i].size, dir[i].body) \in EntriesFor(file.v)
    BY <1>3, <2>1 DEF Tied
  <2>3. dir[i].body = file.v
    BY <2>2, EntriesAre DEF Entry
  <2> QED
    BY <1>3, <2>1, <2>3 DEF Listed
<1> QED
  BY <1>4, <1>5, <1>6, <1>7, <1>8 DEF VersionOf

LEMMA BuildKeeps ==
  ASSUME PackageInv, UNCHANGED faults, NEW p \in Pages, Build(p)
  PROVE  /\ PackageInv'
         /\ \/ UNCHANGED <<made, store>>
            \/ \E v \in Releases : \E size, body :
                 /\ made' = made \cup {[version |-> v, body |-> body, size |-> size]} /\ Entry("data", size, body) \in EntriesFor(v)
                 /\ store' = [installed |-> (store.installed \ Superseded(v)) \cup {v}, current |-> v]
<1> DEFINE dir == run[p].dir
<1>1. /\ run[p].at = "build" /\ run[p].at \in Reading /\ Busy(run[p]) /\ UNCHANGED <<offered, begun>>
      /\ run[p] \in Runs /\ file \in Files
  BY DEF Build, Busy, Reading, PackageInv, OfferTyped
<1>2. DOMAIN dir = 1..Len(dir) /\ \A i \in 1..Len(dir) : BytesAt(dir, i) = dir[i].body
  BY <1>1, WhatIsHeld
<1>3. Listed(run[p]) /\ Tied(run[p]) /\ run[p].version = file.v
  BY <1>1 DEF PackageInv, Follows
<1>4. CASE RunEnds(p, "no-data") /\ UNCHANGED <<file, store, made>>
  <2>1. "no-data" \in Errors
    BY DEF Errors
  <2>2. Blamed([NoRun EXCEPT !.at = "over", !.error = "no-data", !.wrote = run[p].wrote, !.source = run[p].source, !.sum = run[p].sum])
    BY DEF Blamed, NoRun, ManifestErrors
  <2> QED
    BY <1>1, <1>4, <2>1, <2>2, IsOver
<1>5. ASSUME NEW i \in Named(dir, "data"),
             made' = made \cup {[version |-> run[p].version, body |-> BytesAt(dir, i), size |-> dir[i].size]},
             store' = [installed |-> {w \in store.installed : run[p].version \in Releases => w \notin Superseded(run[p].version)} \cup {run[p].version}, current |-> run[p].version],
             file' = NoFile, RunEnds(p, "none")
      PROVE  /\ PackageInv'
             /\ \E v \in Releases : \E size, body :
                 /\ made' = made \cup {[version |-> v, body |-> body, size |-> size]} /\ Entry("data", size, body) \in EntriesFor(v)
                 /\ store' = [installed |-> (store.installed \ Superseded(v)) \cup {v}, current |-> v]
  <2>1. i \in 1..Len(dir) /\ dir[i].name = "data" /\ BytesAt(dir, i) = dir[i].body
    BY <1>2, <1>5 DEF Named
  <2>2. Entry("data", dir[i].size, dir[i].body) \in EntriesFor(file.v) /\ file.v \in Releases
    BY <1>3, <2>1 DEF Tied, Listed
  <2>3. {w \in store.installed : file.v \in Releases => w \notin Superseded(file.v)} = store.installed \ Superseded(file.v)
    BY <2>2
  <2>4. "none" \in Errors
    BY DEF Errors
  <2>5. Blamed([NoRun EXCEPT !.at = "over", !.error = "none", !.wrote = run[p].wrote, !.source = run[p].source, !.sum = run[p].sum])
    BY DEF Blamed, NoRun, ManifestErrors
  <2>6. PackageInv'
    BY <1>1, <1>5, <2>4, <2>5, IsOver, NoFileIs
  <2>7. /\ made' = made \cup {[version |-> file.v, body |-> dir[i].body, size |-> dir[i].size]}
        /\ store' = [installed |-> (store.installed \ Superseded(file.v)) \cup {file.v}, current |-> file.v]
    BY <1>3, <1>5, <2>1, <2>3
  <2> QED
    BY <2>2, <2>6, <2>7
<1> QED
  BY <1>4, <1>5 DEF Build

-----------------------------------------------------------------------------
(* What an installation leaves of what was installed: by a version's numbers. *)

StoreTyped ==
  /\ store \in [installed : SUBSET Releases, current : Releases \cup {Others}] /\ IsFiniteSet(store.installed)
  /\ store.installed # {} => store.current \in store.installed

LEMMA Least == ASSUME NEW S \in SUBSET Nat, S # {} PROVE \E i \in S : \A j \in S : i <= j
<1>1. PICK i \in S : \A j \in S : ~(<<j, i>> \in OpToRel(<, Nat))
  BY NatLessThanWellFounded, WFMin
<1>2. OpToRel(<, Nat) = {ss \in Nat \X Nat : ss[1] < ss[2]}
  BY DEF OpToRel
<1>3. ASSUME NEW j \in S PROVE ~(j < i)
  <2>1. <<j, i>> \in Nat \X Nat
    OBVIOUS
  <2> QED
    BY <1>1, <1>2, <2>1
<1> QED
  BY <1>3

LEMMA PartIs ==
  ASSUME NEW v \in Releases
  PROVE  /\ Len(Numbers[v]) \in Nat /\ \A i \in Int : Part(v, i) \in Nat
         /\ \A i \in Nat \ {0} : Part(v, i) # 0 => i <= Len(Numbers[v])
<1>1. Numbers[v] \in Seq(Nat)
  BY PackageAssumption DEF Releases
<1> DEFINE s == Numbers[v]
<1>2. DOMAIN s = 1..Len(s) /\ Len(s) \in Nat /\ \A i \in 1..Len(s) : s[i] \in Nat
  BY <1>1, LenProperties, ElementOfSeq
<1> HIDE DEF s
<1>3. \A i \in Int : Part(v, i) = IF i \in 1..Len(s) THEN s[i] ELSE 0
  BY <1>2 DEF Part, s
<1>4. \A i \in Int : Part(v, i) \in Nat
  BY <1>2, <1>3
<1>5. \A i \in Nat \ {0} : Part(v, i) # 0 => i <= Len(s)
  BY <1>2, <1>3
<1> QED
  BY <1>2, <1>4, <1>5 DEF s

LEMMA OlderIs ==
  ASSUME NEW v \in Releases, NEW w \in Releases
  PROVE  OlderThan(v, w) <=> \E i \in Nat \ {0} : Part(v, i) < Part(w, i) /\ \A j \in 1..(i - 1) : Part(v, j) = Part(w, j)
<1> DEFINE a == Len(Numbers[v])
<1> DEFINE b == Len(Numbers[w])
<1>1. Len(Numbers[v] \o Numbers[w]) = a + b
  BY PackageAssumption, ConcatProperties DEF Releases
<1>2. a \in Nat /\ b \in Nat /\ (\A i \in Nat \ {0} : Part(w, i) # 0 => i <= b) /\ \A i \in Nat : Part(v, i) \in Nat /\ Part(w, i) \in Nat
  BY PartIs
<1>3. OlderThan(v, w) <=> \E i \in 1..(a + b) : Part(v, i) < Part(w, i) /\ \A j \in 1..(i - 1) : Part(v, j) = Part(w, j)
  BY <1>1 DEF OlderThan
<1> HIDE DEF a, b
<1>4. ASSUME NEW i \in Nat \ {0}, Part(v, i) < Part(w, i) PROVE i \in 1..(a + b)
  <2>1. i <= b
    BY <1>2, <1>4
  <2> QED
    BY <1>2, <2>1
<1>5. 1..(a + b) \subseteq Nat \ {0}
  BY <1>2
<1> QED
  BY <1>3, <1>4, <1>5

LEMMA OlderIsTransitive ==
  ASSUME NEW u \in Releases, NEW v \in Releases, NEW w \in Releases, OlderThan(u, v), OlderThan(v, w)
  PROVE  OlderThan(u, w)
<1>1. PICK i \in Nat \ {0} : Part(u, i) < Part(v, i) /\ \A j \in 1..(i - 1) : Part(u, j) = Part(v, j)
  BY OlderIs
<1>2. PICK k \in Nat \ {0} : Part(v, k) < Part(w, k) /\ \A j \in 1..(k - 1) : Part(v, j) = Part(w, j)
  BY OlderIs
<1>3. \A j \in Nat : Part(u, j) \in Nat /\ Part(v, j) \in Nat /\ Part(w, j) \in Nat
  BY PartIs
<1> DEFINE least == IF i <= k THEN i ELSE k
<1>4. least \in Nat \ {0} /\ Part(u, least) < Part(w, least) /\ \A j \in 1..(least - 1) : Part(u, j) = Part(w, j)
  <2>1. CASE i < k
    BY <1>1, <1>2, <1>3, <2>1
  <2>2. CASE i = k
    BY <1>1, <1>2, <1>3, <2>2
  <2>3. CASE k < i
    BY <1>1, <1>2, <1>3, <2>3
  <2> QED
    BY <2>1, <2>2, <2>3
<1> QED
  BY <1>4, OlderIs

LEMMA OlderIsNot == ASSUME NEW v \in Releases PROVE ~OlderThan(v, v)
<1>1. \A i \in Nat \ {0} : Part(v, i) \in Nat
  BY PartIs
<1> QED
  BY <1>1, OlderIs

(* The order by the first difference is the order of the program's comparison. *)
LEMMA NewerIs ==
  ASSUME NEW v \in Releases, NEW w \in Releases, Newer(v, w)
  PROVE  OlderThan(w, v)
<1> DEFINE all == 1..(Len(Numbers[v]) + Len(Numbers[w]))
<1> DEFINE differ == {i \in all : Part(v, i) # Part(w, i)}
<1>1. differ # {} /\ Part(v, Min(differ)) > Part(w, Min(differ))
  BY DEF Newer
<1>2. /\ all \subseteq Nat \ {0} /\ (\A i \in all : \A j \in 1..(i - 1) : j \in all /\ ~(i <= j))
      /\ \A i \in all : Part(v, i) \in Nat /\ Part(w, i) \in Nat
  <2> DEFINE n == Len(Numbers[v]) + Len(Numbers[w])
  <2>1. n \in Nat
    <3> DEFINE a == Len(Numbers[v])
    <3> DEFINE b == Len(Numbers[w])
    <3>1. a \in Nat /\ b \in Nat
      BY PartIs
    <3> HIDE DEF a, b
    <3>2. a + b \in Nat
      BY <3>1
    <3> QED
      BY <3>2 DEF a, b
  <2>2. all = 1..n
    OBVIOUS
  <2> HIDE DEF n, all
  <2>3. \A i \in Int : Part(v, i) \in Nat /\ Part(w, i) \in Nat
    BY PartIs
  <2>4. all \subseteq Nat \ {0} /\ all \subseteq Int
    BY <2>1, <2>2
  <2>5. ASSUME NEW i \in all, NEW j \in 1..(i - 1) PROVE j \in all /\ ~(i <= j)
    BY <2>1, <2>2, <2>5
  <2> QED
    BY <2>3, <2>4, <2>5
<1> HIDE DEF all
<1>3. differ \in SUBSET Nat /\ differ \subseteq all
  BY <1>2
<1>4. PICK least \in differ : \A j \in differ : least <= j
  BY <1>1, <1>3, Least
<1> DEFINE i == Min(differ)
<1>5. i \in differ /\ \A j \in differ : i <= j
  <2> HIDE DEF differ
  <2> QED
    BY <1>4 DEF Min
<1>6. i \in all /\ Part(w, i) < Part(v, i)
  <2>1. i \in all
    BY <1>3, <1>5
  <2> HIDE DEF differ
  <2>2. Part(v, i) > Part(w, i) /\ Part(v, i) \in Nat /\ Part(w, i) \in Nat
    BY <1>1, <1>2, <2>1
  <2> QED
    BY <2>1, <2>2
<1> HIDE DEF i
<1>7. \A j \in 1..(i - 1) : j \in all /\ j \notin differ
  <2> HIDE DEF differ
  <2> QED
    BY <1>2, <1>5, <1>6
<1>8. \A j \in 1..(i - 1) : Part(w, j) = Part(v, j)
  BY <1>7
<1>9. i \in Nat \ {0}
  BY <1>2, <1>6
<1> QED
  BY <1>6, <1>8, <1>9, OlderIs

(* Of the finitely many that are superseded one is older than none of them. *)
LEMMA NewestSuperseded ==
  ASSUME NEW T, IsFiniteSet(T), T \subseteq Releases, T # {}
  PROVE  \E w \in T : \A x \in T : ~OlderThan(w, x)
<1> DEFINE Above(w) == {x \in T : OlderThan(w, x)}
<1> DEFINE Counts == {Cardinality(Above(w)) : w \in T}
<1>1. \A w \in T : IsFiniteSet(Above(w)) /\ Cardinality(Above(w)) \in Nat
  BY FS_Subset, FS_CardinalityType
<1>2. Counts \in SUBSET Nat /\ Counts # {}
  BY <1>1
<1>3. PICK n \in Counts : \A k \in Counts : n <= k
  BY <1>2, Least
<1>4. PICK w \in T : n = Cardinality(Above(w))
  OBVIOUS
<1>5. ASSUME NEW x \in T, OlderThan(w, x) PROVE FALSE
  <2>1. Above(x) \in SUBSET Above(w) /\ x \in Above(w) /\ x \notin Above(x)
    BY <1>5, OlderIsTransitive, OlderIsNot
  <2>2. Cardinality(Above(x)) <= Cardinality(Above(w)) /\ Cardinality(Above(x)) # Cardinality(Above(w))
    <3> HIDE DEF Above
    <3> QED
      BY <1>1, <2>1, FS_Subset
  <2>3. n <= Cardinality(Above(x))
    BY <1>3, <1>5
  <2> HIDE DEF Above, Counts
  <2> QED
    BY <1>1, <1>4, <1>5, <2>2, <2>3
<1> QED
  BY <1>5

(* What an installation leaves: as many as are kept once there are so many, and none older than what is dropped. *)
LEMMA DropsTheOldest ==
  ASSUME StoreTyped, NEW v \in Releases, store' = [installed |-> (store.installed \ Superseded(v)) \cup {v}, current |-> v]
  PROVE  NewestIsKept /\ StoreTyped'
<1> DEFINE others == store.installed \ {v}
<1> DEFINE gone == Superseded(v)
<1> DEFINE Above(w) == {x \in others : OlderThan(w, x)}
<1>1. IsFiniteSet(store.installed) /\ store.installed \subseteq Releases /\ others \subseteq Releases /\ IsFiniteSet(others)
  <2>1. others \in SUBSET store.installed
    OBVIOUS
  <2> QED
    BY <2>1, FS_Subset DEF StoreTyped
<1>2. gone = {w \in others : Cardinality(Above(w)) >= KeptImages - 1}
  BY DEF Superseded
<1>3. KeptImages \in Nat \ {0}
  BY PackageAssumption
<1>4. \A w : IsFiniteSet(Above(w)) /\ Cardinality(Above(w)) \in Nat
  BY <1>1, FS_Subset, FS_CardinalityType
<1>5. store'.installed = (others \ gone) \cup {v} /\ store'.current = v
  BY <1>2
<1>6. IsFiniteSet(others \ gone) /\ IsFiniteSet(store'.installed) /\ Cardinality(store'.installed) = Cardinality(others \ gone) + 1 /\ Cardinality(others \ gone) \in Nat
  <2>1. IsFiniteSet(others \ gone) /\ v \notin others \ gone
    <3>1. others \ gone \in SUBSET others
      OBVIOUS
    <3> QED
      BY <1>1, <3>1, FS_Subset
  <2> DEFINE rest1 == others \ gone
  <2>2. IsFiniteSet(rest1) /\ v \notin rest1 /\ store'.installed = rest1 \cup {v}
    BY <1>5, <2>1
  <2> HIDE DEF rest1
  <2>3. IsFiniteSet(rest1 \cup {v}) /\ Cardinality(rest1 \cup {v}) = Cardinality(rest1) + 1 /\ Cardinality(rest1) \in Nat
    BY <2>2, FS_AddElement, FS_CardinalityType
  <2>4. IsFiniteSet(rest1) /\ IsFiniteSet(store'.installed) /\ Cardinality(store'.installed) = Cardinality(rest1) + 1 /\ Cardinality(rest1) \in Nat
    BY <2>2, <2>3
  <2> QED
    BY <2>4 DEF rest1
<1>7. StoreTyped'
  <2>1. store'.installed \in SUBSET Releases /\ store'.current \in Releases \cup {Others} /\ store'.current \in store'.installed
    BY <1>1, <1>5
  <2>2. store' \in [installed : SUBSET Releases, current : Releases \cup {Others}]
    BY <2>1
  <2> QED
    BY <1>6, <2>1, <2>2 DEF StoreTyped
<1> HIDE DEF gone, others
<1>8. ASSUME NEW w \in gone PROVE Cardinality(store'.installed) >= KeptImages
  <2>1. gone \subseteq others /\ gone \subseteq Releases /\ IsFiniteSet(gone)
    BY <1>1, <1>2, FS_Subset
  <2>2. PICK newest \in gone : \A x \in gone : ~OlderThan(newest, x)
    BY <1>8, <2>1, NewestSuperseded
  <2>3. Above(newest) \in SUBSET (others \ gone)
    BY <2>2
  <2>4. Cardinality(Above(newest)) <= Cardinality(others \ gone)
    BY <1>6, <2>3, FS_Subset
  <2>5. Cardinality(Above(newest)) >= KeptImages - 1
    BY <1>2
  <2>6. Cardinality(Above(newest)) \in Nat
    BY <1>4
  <2> HIDE DEF Above
  <2> DEFINE n == Cardinality(Above(newest))
  <2> DEFINE left == Cardinality(others \ gone)
  <2>7. n \in Nat /\ left \in Nat /\ n <= left /\ n >= KeptImages - 1 /\ Cardinality(store'.installed) = left + 1
    BY <1>6, <2>4, <2>5, <2>6
  <2> HIDE DEF n, left
  <2> QED
    BY <1>3, <2>7
<1>9. ASSUME NEW w \in gone, NEW x \in others \ gone, Newer(w, x) PROVE FALSE
  <2>1. OlderThan(x, w) /\ w \in Releases /\ x \in Releases
    BY <1>1, <1>2, <1>9, NewerIs
  <2>2. Above(w) \in SUBSET Above(x)
    BY <1>1, <2>1, OlderIsTransitive
  <2>3. Cardinality(Above(w)) <= Cardinality(Above(x))
    <3> HIDE DEF Above
    <3> QED
      BY <1>4, <2>2, FS_Subset
  <2>4. Cardinality(Above(w)) >= KeptImages - 1
    BY <1>2
  <2>5. Cardinality(Above(x)) >= KeptImages - 1
    <3> HIDE DEF Above
    <3> QED
      BY <1>3, <1>4, <2>3, <2>4
  <2> QED
    BY <1>2, <1>9, <2>5
<1>10. \A w \in store.installed \ store'.installed : w \in gone
  BY <1>5 DEF others
<1> QED
  BY <1>5, <1>7, <1>8, <1>9, <1>10 DEF NewestIsKept

LEMMA NothingDropped == UNCHANGED store => NewestIsKept
BY DEF NewestIsKept

-----------------------------------------------------------------------------
(* What the installations keep, and what follows of it. *)

PackageSafe == PackageInv /\ StoreTyped /\ InstalledIsSigned

LEMMA PackageStarts == PackageInit => PackageSafe
<1>1. PackageInit => StoreTyped
  BY FS_EmptySet DEF PackageInit, StoreTyped
<1>2. PackageInit => InstalledIsSigned
  BY DEF PackageInit, InstalledIsSigned
<1> QED
  BY <1>1, <1>2, PackageBegins DEF PackageSafe

LEMMA InvKept == PackageInv /\ UNCHANGED <<package, faults>> => PackageInv'
<1> SUFFICES ASSUME PackageInv, UNCHANGED <<package, faults>> PROVE PackageInv'
  OBVIOUS
<1>1. UNCHANGED <<offered, file, claimed, run, begun, faults>>
  BY DEF package
<1>2. OfferTyped' /\ OneRun'
  BY <1>1 DEF PackageInv, OfferTyped, OneRun
<1>3. \A p \in Pages : Follows(run[p])'
  BY <1>1 DEF PackageInv, Follows, Located, Listed, Tied
<1>4. FirstRun'
  BY <1>1 DEF PackageInv, FirstRun, Traced, AsOffered, Complete1, Blamed, Happens
<1> QED
  BY <1>2, <1>3, <1>4 DEF PackageInv

LEMMA PackageGoesOn == PackageSafe /\ [PackageNext]_package /\ UNCHANGED faults => PackageSafe' /\ [NewestIsKept]_package
<1> SUFFICES ASSUME PackageSafe, [PackageNext]_package, UNCHANGED faults PROVE PackageSafe' /\ NewestIsKept
  OBVIOUS
<1>1. ASSUME PackageInv', UNCHANGED <<store, made>> PROVE PackageSafe' /\ NewestIsKept
  BY <1>1, NothingDropped DEF PackageSafe, StoreTyped, InstalledIsSigned
<1>2. CASE UNCHANGED package
  <2>1. UNCHANGED <<store, made>> /\ PackageInv'
    BY <1>2, InvKept DEF package, PackageSafe
  <2> QED
    BY <1>1, <2>1
<1>3. CASE RunDies \/ Offers
  <2>1. UNCHANGED <<store, made>> /\ PackageInv'
    BY <1>3, RunDiesKeeps, OffersKeeps DEF RunDies, Offers, PackageSafe
  <2> QED
    BY <1>1, <2>1
<1>4. ASSUME NEW p \in Pages, NEW source \in {"download", "supplied"}, Begin(p, source) PROVE PackageSafe' /\ NewestIsKept
  <2>1. UNCHANGED <<store, made>> /\ PackageInv'
    BY <1>4, BeginKeeps DEF Begin, PackageSafe
  <2> QED
    BY <1>1, <2>1
<1>5. ASSUME NEW p \in Pages, Supply(p) \/ Tools(p) \/ Pick(p) \/ Download(p) \/ Sum(p) \/ LookSupplied(p)
      PROVE  PackageSafe' /\ NewestIsKept
  <2>1. UNCHANGED <<store, made>>
    BY <1>5 DEF Supply, Tools, Pick, Download, Sum, LookSupplied, Holds
  <2>2. PackageInv'
    BY <1>5, SupplyKeeps, ToolsKeeps, PickKeeps, DownloadKeeps, SumKeeps, LookKeeps DEF PackageSafe
  <2> QED
    BY <1>1, <2>1, <2>2
<1>6. ASSUME NEW p \in Pages, Open(p) \/ Verified(p) \/ TieToPayload(p) \/ VersionOf(p) PROVE PackageSafe' /\ NewestIsKept
  <2>1. UNCHANGED <<store, made>>
    BY <1>6 DEF Open, Verified, TieToPayload, VersionOf, Holds
  <2>2. PackageInv'
    BY <1>6, OpenKeeps, VerifiedKeeps, TieKeeps, VersionKeeps DEF PackageSafe
  <2> QED
    BY <1>1, <2>1, <2>2
<1>7. ASSUME NEW p \in Pages, Build(p) PROVE PackageSafe' /\ NewestIsKept
  <2>1. PackageInv'
    BY <1>7, BuildKeeps DEF PackageSafe
  <2>2. CASE UNCHANGED <<made, store>>
    BY <1>1, <2>1, <2>2
  <2>3. ASSUME NEW v \in Releases, NEW size, NEW body,
               made' = made \cup {[version |-> v, body |-> body, size |-> size]}, Entry("data", size, body) \in EntriesFor(v),
               store' = [installed |-> (store.installed \ Superseded(v)) \cup {v}, current |-> v]
        PROVE  PackageSafe' /\ NewestIsKept
    <3>1. StoreTyped' /\ NewestIsKept
      BY <2>3, DropsTheOldest DEF PackageSafe
    <3>2. InstalledIsSigned'
      BY <2>3 DEF PackageSafe, InstalledIsSigned
    <3> QED
      BY <2>1, <3>1, <3>2 DEF PackageSafe
  <2>4. \/ UNCHANGED <<made, store>>
        \/ \E v \in Releases : \E size, body :
             /\ made' = made \cup {[version |-> v, body |-> body, size |-> size]} /\ Entry("data", size, body) \in EntriesFor(v)
             /\ store' = [installed |-> (store.installed \ Superseded(v)) \cup {v}, current |-> v]
    BY <1>7, BuildKeeps DEF PackageSafe
  <2> QED
    BY <2>2, <2>3, <2>4
<1> QED
  BY <1>2, <1>3, <1>4, <1>5, <1>6, <1>7 DEF PackageNext

LEMMA PackageIsAsSaid == PackageSafe => PackageTypeOK /\ InstalledAsSigned
<1> SUFFICES ASSUME PackageSafe PROVE PackageTypeOK /\ InstalledAsSigned
  OBVIOUS
<1>1. file.length \in Nat \cup {-1}
  BY DEF PackageSafe, PackageInv, OfferTyped, Files, NoFile
<1>2. \A p \in Pages : run[p] \in Runs
  BY DEF PackageSafe, PackageInv, OfferTyped
<1>3. \A p \in Pages : run[p].error \in Errors
  BY <1>2 DEF Runs
<1>4. store \in [installed : SUBSET (Releases \cup {Others}), current : Releases \cup {Others}]
  BY DEF PackageSafe, StoreTyped
<1>5. PackageTypeOK
  BY <1>1, <1>3, <1>4 DEF PackageSafe, PackageInv, OfferTyped, StoreTyped, PackageTypeOK
<1>6. \A p \in Pages : run[p].at = "over" /\ begun = 1 /\ ~Happens("newer") => Blamed(run[p])
  BY DEF PackageSafe, PackageInv, FirstRun, Traced
<1>7. BlameIsRight
  BY <1>6 DEF BlameIsRight, Blamed
<1> QED
  BY <1>5, <1>7 DEF PackageSafe, InstalledAsSigned

-----------------------------------------------------------------------------
(* The sampler: what is told again is what was measured up to the baseline. *)

SamplerInv ==
  /\ SamplerTypeOK /\ FreshAndWide
  /\ last_rates # NoRates => last_rates.to = previous /\ last_rates.to - last_rates.from >= MinWindow /\ last_rates.from # Never

LEMMA SamplerStarts == SamplerInit => SamplerInv
<1> SUFFICES ASSUME SamplerInit PROVE SamplerInv
  OBVIOUS
<1>1. 0 \in 0..LastTick /\ Never \in Times /\ NoRates \in Answers
  BY SamplerAssumption DEF Times, Answers, NoRates, Never
<1>2. SamplerTypeOK
  BY <1>1 DEF SamplerInit, SamplerTypeOK
<1> QED
  BY <1>2 DEF SamplerInit, SamplerInv, FreshAndWide

LEMMA ToldIs ==
  ASSUME SamplerInv, NEW v \in Viewers, viewer[v].at = "read", NEW answer \in Answers, Tell(v, answer),
         answer # NoRates => answer.to - answer.from >= MinWindow /\ viewer[v].reading - answer.to < MinWindow
  PROVE  /\ viewer' \in [Viewers -> [at : {"idle", "read", "answered"}, reading : Times, told : Answers]]
         /\ FreshAndWide'
<1>1. viewer \in [Viewers -> [at : {"idle", "read", "answered"}, reading : Times, told : Answers]]
  BY DEF SamplerInv, SamplerTypeOK
<1>2. viewer' = [viewer EXCEPT ![v] = [viewer[v] EXCEPT !.at = "answered", !.told = answer]]
  BY <1>1 DEF Tell
<1> DEFINE x == [viewer[v] EXCEPT !.at = "answered", !.told = answer]
<1>3. x \in [at : {"idle", "read", "answered"}, reading : Times, told : Answers] /\ x.told = answer /\ x.reading = viewer[v].reading
  BY <1>1
<1> HIDE DEF x
<1>4. viewer' \in [Viewers -> [at : {"idle", "read", "answered"}, reading : Times, told : Answers]]
  BY <1>1, <1>2, <1>3 DEF x
<1>5. \A w \in Viewers : viewer'[w] = IF w = v THEN x ELSE viewer[w]
  BY <1>1, <1>2 DEF x
<1>6. ASSUME NEW w \in Viewers PROVE LET told == viewer'[w].told IN told # NoRates =>
        told.to - told.from >= MinWindow /\ viewer'[w].reading - told.to < MinWindow
  <2>1. CASE w = v
    BY <1>3, <1>5, <2>1
  <2>2. CASE w # v
    BY <1>5, <2>2 DEF SamplerInv, FreshAndWide
  <2> QED
    BY <2>1, <2>2
<1> QED
  BY <1>4, <1>6 DEF FreshAndWide

LEMMA WideIs ==
  ASSUME NEW before \in Times, NEW r \in Times
  PROVE  /\ Wide(before, r) => Compared(before, r) \in Answers /\ Compared(before, r) # NoRates
         /\ Wide(before, r) <=> before # Never /\ r - before >= MinWindow
         /\ Compared(before, r).to = r /\ Compared(before, r).from = before
<1>1. MinWindow \in Nat \ {0} /\ before \in Int /\ r \in Int
  BY SamplerAssumption DEF Times, Never
<1>2. Wide(before, r) <=> before # Never /\ r - before >= MinWindow
  BY <1>1 DEF Wide, Elapsed
<1> QED
  BY <1>2 DEF Wide, Compared, Answers, NoRates

LEMMA SamplerSteps == SamplerInv /\ [SamplerNext]_sampler => SamplerInv'
<1> SUFFICES ASSUME SamplerInv, [SamplerNext]_sampler PROVE SamplerInv'
  OBVIOUS
<1> USE DEF SamplerInv
<1>0. /\ MinWindow \in Nat \ {0} /\ LastTick \in Nat /\ clock \in 0..LastTick /\ previous \in Times /\ listed \in Times /\ last_rates \in Answers
      /\ Times \subseteq Int
      /\ viewer \in [Viewers -> [at : {"idle", "read", "answered"}, reading : Times, told : Answers]]
  BY SamplerAssumption DEF SamplerTypeOK, Times, Never
<1>1. CASE UNCHANGED sampler
  BY <1>1 DEF sampler, SamplerTypeOK, FreshAndWide
<1>2. CASE ClockTicks
  <2>1. clock + 1 \in 0..LastTick
    BY <1>0, <1>2 DEF ClockTicks
  <2> QED
    BY <1>2, <2>1 DEF ClockTicks, SamplerTypeOK, FreshAndWide
<1>3. ASSUME NEW v \in Viewers, Read(v) PROVE SamplerInv'
  <2> DEFINE x == [at |-> "read", reading |-> clock, told |-> NoRates]
  <2>1. viewer' = [viewer EXCEPT ![v] = x] /\ UNCHANGED <<clock, previous, last_rates, listed>>
    BY <1>3 DEF Read
  <2>2. x \in [at : {"idle", "read", "answered"}, reading : Times, told : Answers] /\ x.told = NoRates
    <3>1. clock \in Times /\ NoRates \in Answers
      BY <1>0 DEF Times, Answers, NoRates, Never
    <3> QED
      BY <3>1
  <2> HIDE DEF x
  <2>3. SamplerTypeOK'
    BY <1>0, <2>1, <2>2 DEF SamplerTypeOK
  <2>4. FreshAndWide'
    BY <1>0, <2>1, <2>2 DEF FreshAndWide
  <2> QED
    BY <2>1, <2>3, <2>4
<1>4. ASSUME NEW v \in Viewers, Sample(v) PROVE SamplerInv'
  <2> DEFINE r == viewer[v].reading
  <2> DEFINE rates == IF Wide(previous, r) THEN Compared(previous, r) ELSE last_rates
  <2>1. /\ viewer[v].at = "read" /\ Tell(v, rates) /\ previous' = Baseline(previous, r) /\ last_rates' = rates
        /\ UNCHANGED <<clock, listed>>
    BY <1>4 DEF Sample
  <2>2. r \in Times
    BY <1>0
  <2> HIDE DEF r
  <2>3. CASE Wide(previous, r)
    <3>1. rates = Compared(previous, r) /\ rates \in Answers /\ rates.to = r /\ rates.from = previous /\ previous # Never /\ r - previous >= MinWindow
      BY <1>0, <2>2, <2>3, WideIs
    <3>2. previous' = r
      BY <2>1, <2>3 DEF Baseline
    <3> HIDE DEF rates
    <3>3. r - r < MinWindow
      BY <1>0, <2>2
    <3>4. FreshAndWide' /\ viewer' \in [Viewers -> [at : {"idle", "read", "answered"}, reading : Times, told : Answers]]
      <4>1. rates # NoRates => rates.to - rates.from >= MinWindow /\ viewer[v].reading - rates.to < MinWindow
        BY <3>1, <3>3 DEF r
      <4> QED
        BY <2>1, <3>1, <4>1, ToldIs
    <3>5. SamplerTypeOK'
      BY <1>0, <2>1, <2>2, <3>1, <3>2, <3>4 DEF SamplerTypeOK
    <3> QED
      BY <2>1, <3>1, <3>2, <3>4, <3>5
  <2>4. CASE ~Wide(previous, r)
    <3>1. rates = last_rates
      BY <2>4
    <3>2. previous' = IF previous = Never THEN r ELSE previous
      BY <2>1, <2>4 DEF Baseline
    <3> HIDE DEF rates
    <3>3. last_rates # NoRates => previous # Never
      <4>1. last_rates # NoRates => last_rates.from \in Times /\ last_rates.to = previous /\ last_rates.to - last_rates.from >= MinWindow
        BY <1>0 DEF Answers
      <4>2. \A t \in Times : t \in Int /\ t >= -1
        BY SamplerAssumption DEF Times, Never
      <4>3. ASSUME NEW low \in Times, previous - low >= MinWindow PROVE previous # -1
        <5>1. low \in Int /\ low >= -1 /\ previous \in Int /\ MinWindow \in Nat \ {0}
          BY <1>0, <4>2
        <5> QED
          BY <4>3, <5>1
      <4> QED
        BY <4>1, <4>3 DEF Never
    <3>4. last_rates # NoRates => r - last_rates.to < MinWindow
      BY <1>0, <2>2, <2>4, <3>3, WideIs
    <3>5. FreshAndWide' /\ viewer' \in [Viewers -> [at : {"idle", "read", "answered"}, reading : Times, told : Answers]]
      <4>1. rates # NoRates => rates.to - rates.from >= MinWindow /\ viewer[v].reading - rates.to < MinWindow
        BY <3>1, <3>4 DEF r
      <4> QED
        BY <1>0, <2>1, <3>1, <4>1, ToldIs
    <3>6. SamplerTypeOK'
      BY <1>0, <2>1, <2>2, <3>1, <3>2, <3>5 DEF SamplerTypeOK
    <3> QED
      BY <2>1, <3>1, <3>2, <3>3, <3>5, <3>6
  <2> QED
    BY <2>3, <2>4
<1>5. ASSUME NEW v \in Viewers, List(v) PROVE SamplerInv'
  <2> DEFINE r == viewer[v].reading
  <2> DEFINE answer == IF Wide(listed, r) THEN Compared(listed, r) ELSE NoRates
  <2>1. viewer[v].at = "read" /\ Tell(v, answer) /\ listed' = r /\ UNCHANGED <<clock, previous, last_rates>>
    BY <1>5 DEF List
  <2>2. r \in Times
    BY <1>0
  <2> HIDE DEF r
  <2>3. answer \in Answers /\ (answer # NoRates => answer.to = r /\ answer.from = listed /\ r - listed >= MinWindow)
    <3>1. NoRates \in Answers
      BY SamplerAssumption DEF NoRates, Answers, Times, Never
    <3> QED
      BY <1>0, <2>2, <3>1, WideIs
  <2> HIDE DEF answer
  <2>4. r - r < MinWindow
    BY <1>0, <2>2
  <2>5. FreshAndWide' /\ viewer' \in [Viewers -> [at : {"idle", "read", "answered"}, reading : Times, told : Answers]]
    <3>1. answer # NoRates => answer.to - answer.from >= MinWindow /\ viewer[v].reading - answer.to < MinWindow
      BY <2>3, <2>4 DEF r
    <3> QED
      BY <2>1, <2>3, <3>1, ToldIs
  <2>6. SamplerTypeOK'
    BY <1>0, <2>1, <2>2, <2>5 DEF SamplerTypeOK
  <2> QED
    BY <2>1, <2>5, <2>6
<1> QED
  BY <1>1, <1>2, <1>3, <1>4, <1>5 DEF SamplerNext

-----------------------------------------------------------------------------
(* Connections: a thread goes by the credential it read as it started, which was the device's. *)

Lines == [at : {"closed", "head", "body", "file", "handler"}, checks : 0..Rotations, route : Routes,
          presents : 0..Rotations, length : Lengths, taken : 0..(MaxHead + MaxUpload),
          answer : {"none", "refused", "too-large", "malformed", "done", "hung-up"}]

Within(l) ==
  /\ l.checks <= trusted /\ l.presents <= trusted
  /\ l.at = "head" => l.taken <= MaxHead
  /\ l.at \in {"body", "file"} => l.taken < l.length /\ l.length <= MaxUpload
  /\ l.at \in {"body", "file", "handler"} /\ l.route \in {"change", "upload"} => l.presents = l.checks /\ l.checks # 0

ConnectionsInv == trusted \in 0..Rotations /\ line \in [Clients -> Lines] /\ \A c \in Clients : Within(line[c])

LEMMA NoLineIs == NoLine \in Lines /\ NoLine.at = "closed" /\ NoLine.checks = 0 /\ NoLine.presents = 0 /\ NoLine.taken = 0
<1>1. 0 \in 0..Rotations /\ 0 \in 0..(MaxHead + MaxUpload) /\ -1 \in Lengths /\ "page" \in Routes
  BY ConnectionsAssumption DEF Lengths, Routes
<1> QED
  BY <1>1 DEF NoLine, Lines

LEMMA ConnectionsStart == ConnectionsInit => ConnectionsInv
<1> SUFFICES ASSUME ConnectionsInit PROVE ConnectionsInv
  OBVIOUS
<1>1. trusted \in 0..Rotations /\ trusted = 1
  BY ConnectionsAssumption DEF ConnectionsInit
<1>2. \A c \in Clients : line[c] = NoLine
  BY DEF ConnectionsInit
<1>3. line \in [Clients -> Lines]
  BY NoLineIs, Zenon DEF ConnectionsInit
<1> QED
  BY <1>1, <1>2, <1>3, NoLineIs DEF ConnectionsInv, Within

LEMMA LineSteps ==
  ASSUME ConnectionsInv, NEW c \in Clients, NEW l \in Lines, Within(l), Step(c, l)
  PROVE  ConnectionsInv'
<1>1. line' = [line EXCEPT ![c] = l] /\ trusted' = trusted /\ line \in [Clients -> Lines]
  BY DEF Step, ConnectionsInv
<1>2. line' \in [Clients -> Lines] /\ \A d \in Clients : line'[d] = IF d = c THEN l ELSE line[d]
  BY <1>1
<1>3. ASSUME NEW d \in Clients PROVE Within(line[d])'
  BY <1>1, <1>2 DEF Within, ConnectionsInv
<1> QED
  BY <1>1, <1>2, <1>3 DEF ConnectionsInv

LEMMA LineEnds ==
  ASSUME ConnectionsInv, NEW c \in Clients, NEW answer \in {"none", "refused", "too-large", "malformed", "done", "hung-up"}, Ends(c, answer)
  PROVE  ConnectionsInv'
<1> DEFINE l == [line[c] EXCEPT !.at = "closed", !.answer = answer]
<1>1. line[c] \in Lines /\ Within(line[c]) /\ Step(c, l)
  BY DEF ConnectionsInv, Ends
<1>2. l \in Lines /\ l.at = "closed" /\ l.checks = line[c].checks /\ l.presents = line[c].presents
  BY <1>1 DEF Lines
<1> HIDE DEF l
<1>3. Within(l)
  BY <1>1, <1>2 DEF Within
<1> QED
  BY <1>1, <1>2, <1>3, LineSteps

LEMMA HeadEndsKeeps ==
  ASSUME ConnectionsInv, NEW c \in Clients, HeadEnds(c)
  PROVE  ConnectionsInv'
<1>1. PICK route \in Routes, presents \in 0..trusted, length \in Lengths :
        LET known == [line[c] EXCEPT !.route = route, !.presents = presents, !.length = length, !.taken = 0] IN
        /\ line[c].at = "head"
        /\ IF Refusal(c, route, presents) THEN Step(c, [known EXCEPT !.at = "closed", !.answer = "refused"])
           ELSE IF route = "upload"
             THEN \/ length = -1 /\ Step(c, [known EXCEPT !.at = "closed", !.answer = "malformed"])
                  \/ (length = 0 \/ length > MaxUpload) /\ Step(c, [known EXCEPT !.at = "closed", !.answer = "too-large"])
                  \/ length \in 1..MaxUpload /\ Step(c, [known EXCEPT !.at = "file"])
             ELSE \/ length \in {-1, 0} /\ Step(c, [known EXCEPT !.at = "handler"])
                  \/ length = -1 /\ Step(c, [known EXCEPT !.at = "closed", !.answer = "malformed"])
                  \/ length > MaxBody /\ Step(c, [known EXCEPT !.at = "closed", !.answer = "too-large"])
                  \/ length \in 1..MaxBody /\ Step(c, [known EXCEPT !.at = "body"])
  BY DEF HeadEnds
<1> DEFINE known == [line[c] EXCEPT !.route = route, !.presents = presents, !.length = length, !.taken = 0]
<1>2. /\ line[c] \in Lines /\ Within(line[c]) /\ trusted \in 0..Rotations /\ Rotations \in Nat \ {0}
      /\ MaxHead \in Nat \ {0} /\ MaxBody \in Nat \ {0} /\ MaxUpload \in Nat \ {0} /\ MaxBody < MaxUpload
  BY ConnectionsAssumption DEF ConnectionsInv
<1>3. presents \in 0..Rotations /\ presents <= trusted /\ 0 \in 0..(MaxHead + MaxUpload)
  BY <1>2
<1>4. /\ known \in Lines /\ known.route = route /\ known.presents = presents /\ known.length = length /\ known.taken = 0
      /\ known.checks = line[c].checks /\ known.checks <= trusted
  BY <1>2, <1>3 DEF Lines, Within
<1> HIDE DEF known
<1>5. ASSUME NEW answer \in {"refused", "too-large", "malformed"}, Step(c, [known EXCEPT !.at = "closed", !.answer = answer])
      PROVE  ConnectionsInv'
  <2> DEFINE l == [known EXCEPT !.at = "closed", !.answer = answer]
  <2>1. l \in Lines /\ l.at = "closed" /\ l.checks = known.checks /\ l.presents = known.presents
    BY <1>4 DEF Lines
  <2>2. Step(c, l)
    BY <1>5
  <2> HIDE DEF l
  <2>3. Within(l)
    BY <1>3, <1>4, <2>1 DEF Within
  <2> QED
    BY <2>1, <2>2, <2>3, LineSteps
<1>6. ASSUME NEW at \in {"body", "file", "handler"}, Step(c, [known EXCEPT !.at = at]), ~Refusal(c, route, presents),
             at \in {"body", "file"} => length \in 1..MaxUpload
      PROVE  ConnectionsInv'
  <2> DEFINE l == [known EXCEPT !.at = at]
  <2>1. /\ l \in Lines /\ l.at = at /\ l.checks = known.checks /\ l.presents = known.presents /\ l.route = known.route
        /\ l.length = known.length /\ l.taken = known.taken
    BY <1>4 DEF Lines
  <2>2. Step(c, l)
    BY <1>6
  <2> HIDE DEF l
  <2>3. route \in {"change", "upload"} => presents = known.checks /\ known.checks # 0
    BY <1>4, <1>6 DEF Refusal
  <2>4. Within(l)
    BY <1>2, <1>3, <1>4, <1>6, <2>1, <2>3 DEF Within
  <2> QED
    BY <2>1, <2>2, <2>4, LineSteps
<1>7. 1..MaxBody \subseteq 1..MaxUpload
  BY <1>2
<1> QED
  BY <1>1, <1>5, <1>6, <1>7 DEF known

LEMMA MoreBodyKeeps ==
  ASSUME ConnectionsInv, NEW c \in Clients, MoreBody(c)
  PROVE  ConnectionsInv'
<1> DEFINE l == [line[c] EXCEPT !.taken = @ + 1, !.at = IF line[c].taken + 1 = line[c].length THEN "handler" ELSE @]
<1>1. line[c] \in Lines /\ Within(line[c]) /\ line[c].at \in {"body", "file"} /\ Step(c, l)
  BY DEF ConnectionsInv, MoreBody
<1>2. /\ l.at = (IF line[c].taken + 1 = line[c].length THEN "handler" ELSE line[c].at) /\ l.taken = line[c].taken + 1
      /\ l.checks = line[c].checks /\ l.presents = line[c].presents /\ l.route = line[c].route /\ l.length = line[c].length
  BY <1>1 DEF Lines
<1>3. line[c].taken \in Nat /\ line[c].length \in Int /\ line[c].taken < line[c].length /\ line[c].length <= MaxUpload /\ MaxHead \in Nat /\ MaxUpload \in Nat
  BY <1>1, ConnectionsAssumption DEF Lines, Lengths, Within
<1>4. line[c].taken + 1 \in 0..(MaxHead + MaxUpload)
  BY <1>3
<1>5. l \in Lines
  BY <1>1, <1>4 DEF Lines
<1> HIDE DEF l
<1>6. Within(l)
  BY <1>1, <1>2, <1>3 DEF Within
<1> QED
  BY <1>1, <1>5, <1>6, LineSteps

LEMMA ConnectionsGoOn == ConnectionsInv /\ [ConnectionsNext]_connections => ConnectionsInv'
<1> SUFFICES ASSUME ConnectionsInv, [ConnectionsNext]_connections PROVE ConnectionsInv'
  OBVIOUS
<1>0. /\ line \in [Clients -> Lines] /\ trusted \in 0..Rotations /\ Rotations \in Nat \ {0} /\ MaxHead \in Nat \ {0} /\ MaxUpload \in Nat \ {0}
      /\ \A c \in Clients : line[c] \in Lines /\ Within(line[c])
  BY ConnectionsAssumption DEF ConnectionsInv
<1>1. CASE UNCHANGED connections
  BY <1>1 DEF connections, ConnectionsInv, Within
<1>2. CASE Rotate
  <2>1. trusted + 1 \in 0..Rotations /\ trusted' = trusted + 1 /\ line' = line
    BY <1>0, <1>2 DEF Rotate
  <2>2. \A c \in Clients : line[c].checks \in Int /\ line[c].presents \in Int
    BY <1>0 DEF Lines
  <2> QED
    BY <1>0, <2>1, <2>2 DEF ConnectionsInv, Within
<1>3. ASSUME NEW c \in Clients, Accept(c) PROVE ConnectionsInv'
  <2> DEFINE l == [NoLine EXCEPT !.at = "head", !.checks = trusted]
  <2>1. l \in Lines /\ l.at = "head" /\ l.checks = trusted /\ l.presents = 0 /\ l.taken = 0
    BY <1>0, NoLineIs DEF Lines
  <2>2. Step(c, l)
    BY <1>3 DEF Accept
  <2> HIDE DEF l
  <2> QED
    BY <1>0, <2>1, <2>2, LineSteps DEF Within
<1>4. ASSUME NEW c \in Clients, MoreHead(c) PROVE ConnectionsInv'
  <2>1. CASE TooLong(c)
    BY <1>4, <2>1, LineEnds DEF MoreHead
  <2>2. CASE ~TooLong(c)
    <3> DEFINE l == [line[c] EXCEPT !.taken = IF @ < MaxHead THEN @ + 1 ELSE @]
    <3>1. Step(c, l) /\ line[c].at = "head" /\ line[c] \in Lines /\ Within(line[c])
      BY <1>0, <1>4, <2>2 DEF MoreHead
    <3>2. line[c].taken \in Nat /\ line[c].taken < MaxHead
      BY <1>0, <2>2, <3>1 DEF TooLong, Lines
    <3>3. line[c].taken + 1 \in 0..(MaxHead + MaxUpload) /\ line[c].taken + 1 <= MaxHead
      BY <1>0, <3>2
    <3>4. /\ l \in Lines /\ l.at = "head" /\ l.checks = line[c].checks /\ l.presents = line[c].presents /\ l.taken <= MaxHead
      BY <3>1, <3>2, <3>3 DEF Lines
    <3> HIDE DEF l
    <3> QED
      BY <3>1, <3>4, LineSteps DEF Within
  <2> QED
    BY <2>1, <2>2
<1>5. ASSUME NEW c \in Clients, HangsUp(c) \/ Handled(c) PROVE ConnectionsInv'
  BY <1>5, LineEnds DEF HangsUp, Handled
<1>6. ASSUME NEW c \in Clients, Leaves(c) PROVE ConnectionsInv'
  <2>1. Within(NoLine)
    BY <1>0, NoLineIs DEF Within
  <2> QED
    BY <1>6, <2>1, NoLineIs, LineSteps DEF Leaves
<1> QED
  BY <1>1, <1>2, <1>3, <1>4, <1>5, <1>6, HeadEndsKeeps, MoreBodyKeeps DEF ConnectionsNext

LEMMA ConnectionsAre == ConnectionsInv => ConnectionsTypeOK /\ NothingTakenFromStrangers
<1>1. ConnectionsInv => ConnectionsTypeOK
  BY DEF ConnectionsInv, ConnectionsTypeOK, Lines
<1>2. ConnectionsInv => NothingTakenFromStrangers
  BY DEF ConnectionsInv, NothingTakenFromStrangers, Within
<1> QED
  BY <1>1, <1>2

-----------------------------------------------------------------------------
(* The terminal: a buffer holds what its shell wrote, from its base on, without a gap. *)

Shelled == {"none", "live", "deaf-to-hangups", "exited", "reaped"}
WithinOutput(q) ==
  /\ q.base \in Nat /\ q.bytes \in Seq(Nat) /\ q.finished \in BOOLEAN
  /\ Len(q.bytes) <= Kept /\ (q.base > 0 => Len(q.bytes) = Kept) /\ q.base + Len(q.bytes) <= Output
  /\ \A i \in 1..Len(q.bytes) : q.bytes[i] = q.base + i
Buffers == {q \in [base : Nat, bytes : Seq(Nat), finished : BOOLEAN] : WithinOutput(q)}
Views   == [at : {"away", "here", "polling"}, id : Nums \cup {Shut}, since : 0..Output, last : 0..Output, skipped : BOOLEAN]

(* A browser has what it asks from, and there is no more of it than was written. *)
Follow(t) ==
  /\ t.last = t.since /\ ~t.skipped
  /\ t.at # "away" => t.id \in Nums
  /\ t.id \in Nums => t.since <= End(t.id)

TerminalInv ==
  /\ slot \in Nums \cup {Shut} /\ idle \in BOOLEAN /\ writing \subseteq Tabs
  /\ shells \in [Nums -> Shelled] /\ buffer \in [Nums -> Buffers] /\ tab \in [Tabs -> Views]
  /\ \A b \in Tabs : Follow(tab[b])
  /\ NoShellLeft

LEMMA BoundsAre == Opened \in Nat \ {0} /\ Output \in Nat \ {0} /\ Kept \in Nat \ {0} /\ Nums \subseteq Nat \ {0} /\ Shut \notin Nums
BY TerminalAssumption DEF Nums, Shut

LEMMA EmptyIs == Empty \in Buffers
<1>1. /\ Empty.base = 0 /\ Empty.bytes = <<>> /\ Empty.finished = FALSE /\ Empty \in [base : Nat, bytes : Seq(Nat), finished : BOOLEAN]
  BY DEF Empty
<1>2. Len(<<>>) = 0
  OBVIOUS
<1>3. WithinOutput(Empty)
  BY <1>1, <1>2, BoundsAre DEF WithinOutput
<1> QED
  BY <1>1, <1>3 DEF Buffers

LEMMA AwayIs == Away \in Views /\ Away.at = "away" /\ Away.id = Shut /\ Away.last = 0 /\ Away.since = 0 /\ ~Away.skipped
BY BoundsAre DEF Away, Views

LEMMA AwayFollows == Follow(Away)
BY AwayIs, BoundsAre DEF Follow

LEMMA TerminalStarts == TerminalInit => TerminalInv
<1> SUFFICES ASSUME TerminalInit PROVE TerminalInv
  OBVIOUS
<1>1. buffer \in [Nums -> Buffers] /\ tab \in [Tabs -> Views]
  BY EmptyIs, AwayIs DEF TerminalInit
<1>2. \A b \in Tabs : Follow(tab[b])
  BY AwayFollows DEF TerminalInit
<1>3. shells \in [Nums -> Shelled] /\ \A n \in Nums : shells[n] = "none"
  BY DEF TerminalInit, Shelled
<1>4. NoShellLeft
  BY <1>3 DEF NoShellLeft
<1> QED
  BY <1>1, <1>2, <1>3, <1>4 DEF TerminalInit, TerminalInv

(* What follows of a buffer. *)
LEMMA EndIs ==
  ASSUME TerminalInv, NEW n \in Nums
  PROVE  /\ buffer[n] \in Buffers /\ WithinOutput(buffer[n]) /\ Len(buffer[n].bytes) \in Nat
         /\ End(n) = buffer[n].base + Len(buffer[n].bytes) /\ End(n) \in 0..Output /\ Typed(n) = End(n)
<1>1. buffer[n] \in Buffers /\ WithinOutput(buffer[n])
  BY DEF TerminalInv, Buffers
<1> DEFINE s == buffer[n].bytes
<1>2. s \in Seq(Nat) /\ Len(s) \in Nat /\ (s = <<>> <=> Len(s) = 0) /\ (s # <<>> => Len(s) \in 1..Len(s))
  <2>1. s \in Seq(Nat)
    BY <1>1 DEF WithinOutput
  <2> HIDE DEF s
  <2> QED
    BY <2>1, LenProperties, EmptySeq
<1>3. End(n) = buffer[n].base + Len(s)
  BY DEF End
<1>4. Typed(n) = IF s = <<>> THEN buffer[n].base ELSE s[Len(s)]
  BY DEF Typed
<1>5. buffer[n].base \in Nat /\ buffer[n].base + Len(s) <= Output /\ \A i \in 1..Len(s) : s[i] = buffer[n].base + i
  BY <1>1 DEF WithinOutput
<1>6. Len(s) \in Nat
  BY <1>2
<1> HIDE DEF s
<1>7. End(n) \in 0..Output /\ Typed(n) = End(n)
  BY <1>2, <1>3, <1>4, <1>5, BoundsAre
<1> QED
  BY <1>1, <1>3, <1>6, <1>7 DEF s

LEMMA PushedIs ==
  ASSUME NEW q \in Buffers, q.base + Len(q.bytes) < Output
  PROVE  /\ Pushed(q, q.base + Len(q.bytes) + 1) \in Buffers
         /\ LET r == Pushed(q, q.base + Len(q.bytes) + 1) IN r.base + Len(r.bytes) = q.base + Len(q.bytes) + 1
<1> DEFINE s == q.bytes
<1> DEFINE n == Len(s)
<1> DEFINE byte == q.base + n + 1
<1> DEFINE all == Append(s, byte)
<1> DEFINE r == Pushed(q, byte)
<1>1. /\ q \in [base : Nat, bytes : Seq(Nat), finished : BOOLEAN] /\ q.base \in Nat /\ s \in Seq(Nat) /\ q.finished \in BOOLEAN
      /\ n <= Kept /\ (q.base > 0 => n = Kept) /\ q.base + n < Output
      /\ \A i \in 1..n : s[i] = q.base + i
  BY DEF Buffers, WithinOutput
<1>2. n \in Nat
  BY <1>1, LenProperties
<1> HIDE DEF s
<1>3. byte \in Nat
  BY <1>1, <1>2
<1>4. all \in Seq(Nat) /\ Len(all) = n + 1 /\ (\A i \in 1..n : all[i] = s[i]) /\ all[n + 1] = byte
  <2> HIDE DEF byte
  <2> QED
    BY <1>1, <1>3, AppendProperties
<1>5. \A i \in 1..(n + 1) : all[i] = q.base + i
  <2> HIDE DEF all
  <2>1. byte = q.base + n + 1
    OBVIOUS
  <2> HIDE DEF byte, n
  <2> QED
    BY <1>1, <1>2, <1>4, <2>1
<1> HIDE DEF all, byte, n
<1>6. CASE n + 1 > Kept
  <2>1. r = [q EXCEPT !.bytes = Tail(all), !.base = q.base + 1]
    BY <1>1, <1>4, <1>6 DEF Pushed, all, s
  <2>2. Tail(all) \in Seq(Nat) /\ Len(Tail(all)) = n /\ \A i \in 1..n : Tail(all)[i] = all[i + 1]
    <3>1. all # <<>>
      BY <1>2, <1>4, EmptySeq
    <3> QED
      BY <1>2, <1>4, <3>1, HeadTailProperties
  <2>3. n = Kept
    BY <1>1, <1>2, <1>6, BoundsAre
  <2> HIDE DEF r
  <2>4. r \in [base : Nat, bytes : Seq(Nat), finished : BOOLEAN] /\ r.base = q.base + 1 /\ r.bytes = Tail(all) /\ r.finished = q.finished
    <3> DEFINE t == Tail(all)
    <3> DEFINE k == q.base + 1
    <3>1. t \in Seq(Nat) /\ k \in Nat
      BY <1>1, <2>2
    <3>2. r = [q EXCEPT !.bytes = t, !.base = k]
      BY <2>1
    <3> HIDE DEF t, k
    <3>3. r \in [base : Nat, bytes : Seq(Nat), finished : BOOLEAN] /\ r.base = k /\ r.bytes = t /\ r.finished = q.finished
      BY <1>1, <3>1, <3>2
    <3> QED
      BY <3>3 DEF t, k
  <2>5. \A i \in 1..n : Tail(all)[i] = q.base + 1 + i
    BY <1>1, <1>2, <1>5, <2>2
  <2> DEFINE t == Tail(all)
  <2>6. /\ t \in Seq(Nat) /\ Len(t) = n /\ r.bytes = t /\ r.base = q.base + 1 /\ r.finished \in BOOLEAN
        /\ \A i \in 1..Len(t) : t[i] = r.base + i
    BY <1>1, <2>2, <2>4, <2>5
  <2> HIDE DEF t
  <2>7. r.base \in Nat /\ Len(t) <= Kept /\ Len(t) = Kept /\ r.base + Len(t) <= Output /\ r.base + Len(t) = q.base + n + 1
    BY <1>1, <1>2, <2>3, <2>6, BoundsAre
  <2>8. WithinOutput(r) /\ r.base + Len(r.bytes) = q.base + n + 1
    BY <2>6, <2>7 DEF WithinOutput
  <2> QED
    BY <2>4, <2>8 DEF Buffers, r, byte, n, s
<1>7. CASE ~(n + 1 > Kept)
  <2>1. r = [q EXCEPT !.bytes = all]
    BY <1>1, <1>4, <1>7 DEF Pushed, all, s
  <2>2. q.base = 0 /\ n + 1 <= Kept
    BY <1>1, <1>2, <1>7, BoundsAre
  <2>3. r \in [base : Nat, bytes : Seq(Nat), finished : BOOLEAN] /\ r.base = q.base /\ r.bytes = all /\ r.finished = q.finished
    BY <1>1, <1>4, <2>1
  <2> HIDE DEF r
  <2>4. WithinOutput(r) /\ r.base + Len(r.bytes) = q.base + n + 1
    BY <1>1, <1>2, <1>4, <1>5, <2>2, <2>3, BoundsAre DEF WithinOutput
  <2> QED
    BY <2>3, <2>4 DEF Buffers, r, byte, n, s
<1> QED
  BY <1>6, <1>7

(* What a browser has follows its buffer, which only grows. *)
LEMMA BufferGrows ==
  ASSUME TerminalInv, buffer' \in [Nums -> Buffers], \A n \in Nums : buffer'[n].base + Len(buffer'[n].bytes) >= End(n),
         UNCHANGED <<slot, idle, writing, shells, tab, faults>>
  PROVE  TerminalInv'
<1>1. ASSUME NEW b \in Tabs PROVE Follow(tab[b])'
  <2>1. tab[b] \in Views /\ Follow(tab[b]) /\ tab'[b] = tab[b]
    BY DEF TerminalInv
  <2>2. ASSUME tab[b].id \in Nums PROVE tab[b].since <= End(tab[b].id)'
    <3> DEFINE n == tab[b].id
    <3>1. n \in Nums /\ tab[b].since <= End(n) /\ tab[b].since \in Nat /\ End(n) \in Nat
      BY <2>1, <2>2, EndIs, BoundsAre DEF Follow, Views
    <3>2. buffer'[n] \in Buffers
      BY <3>1
    <3>3. End(n)' = buffer'[n].base + Len(buffer'[n].bytes) /\ buffer'[n].base \in Nat /\ Len(buffer'[n].bytes) \in Nat
      BY <3>2, LenProperties DEF Buffers, End
    <3> HIDE DEF n
    <3>4. End(n)' \in Nat
      BY <3>3
    <3>5. End(n) <= End(n)'
      BY <3>1, <3>3
    <3>6. tab[b].since <= End(n)'
      BY <3>1, <3>4, <3>5
    <3> QED
      BY <3>6 DEF n
  <2> QED
    BY <2>1, <2>2 DEF Follow
<1>2. NoShellLeft'
  BY DEF TerminalInv, NoShellLeft, Happens
<1> QED
  BY <1>1, <1>2 DEF TerminalInv

(* A browser's view goes a step, and the shells with it. *)
LEMMA ViewSteps ==
  ASSUME TerminalInv, UNCHANGED <<buffer, faults>>, NEW T, T \subseteq Tabs,
         tab' \in [Tabs -> Views], \A b \in T : Follow(tab'[b]), \A b \in Tabs \ T : tab'[b] = tab[b],
         slot' \in Nums \cup {Shut}, idle' \in BOOLEAN, writing' \subseteq Tabs, shells' \in [Nums -> Shelled], NoShellLeft'
  PROVE  TerminalInv'
<1>1. \A b \in Tabs : Follow(tab'[b])
  BY DEF TerminalInv
<1>2. \A b \in Tabs : Follow(tab[b])'
  <2>1. \A n : End(n)' = End(n)
    BY DEF End
  <2> QED
    BY <1>1, <2>1 DEF Follow
<1> QED
  BY <1>2 DEF TerminalInv

LEMMA ShellSteps ==
  ASSUME TerminalInv, buffer' = buffer, faults' = faults, tab' = tab,
         slot' \in Nums \cup {Shut}, idle' \in BOOLEAN, writing' \subseteq Tabs, shells' \in [Nums -> Shelled], NoShellLeft'
  PROVE  TerminalInv'
<1> DEFINE T == {}
<1>1. tab' \in [Tabs -> Views] /\ (\A b \in T : Follow(tab'[b])) /\ (\A b \in Tabs \ T : tab'[b] = tab[b]) /\ T \subseteq Tabs
  BY DEF TerminalInv
<1> HIDE DEF T
<1> QED
  BY <1>1, ViewSteps

LEMMA TabSteps ==
  ASSUME TerminalInv, buffer' = buffer, faults' = faults, NEW b \in Tabs, NEW t \in Views, tab' = [tab EXCEPT ![b] = t], Follow(t),
         slot' \in Nums \cup {Shut}, idle' \in BOOLEAN, writing' \subseteq Tabs, shells' \in [Nums -> Shelled], NoShellLeft'
  PROVE  TerminalInv'
<1>0. tab \in [Tabs -> Views]
  BY DEF TerminalInv
<1> DEFINE T == {b}
<1>1. tab' \in [Tabs -> Views] /\ (\A c \in T : Follow(tab'[c])) /\ (\A c \in Tabs \ T : tab'[c] = tab[c]) /\ T \subseteq Tabs
  BY <1>0
<1> HIDE DEF T
<1> QED
  BY <1>1, ViewSteps

LEMMA ReaderKeeps ==
  ASSUME TerminalInv, UNCHANGED faults, NEW n \in Nums, Reads(n) \/ EndOfFile(n) \/ Exits(n)
  PROVE  TerminalInv'
<1>0. buffer \in [Nums -> Buffers] /\ shells \in [Nums -> Shelled] /\ \A m \in Nums : buffer[m] \in Buffers
  BY DEF TerminalInv
<1>1. CASE Reads(n)
  <2> DEFINE byte == buffer[n].base + Len(buffer[n].bytes) + 1
  <2>1. End(n) < Output /\ Typed(n) = End(n) /\ End(n) = buffer[n].base + Len(buffer[n].bytes)
    BY <1>1, EndIs DEF Reads
  <2>2. buffer' = [buffer EXCEPT ![n] = Pushed(buffer[n], Typed(n) + 1)] /\ UNCHANGED <<slot, idle, writing, shells, tab>>
    BY <1>0, <1>1 DEF Reads
  <2>3. Typed(n) + 1 = byte
    BY <2>1
  <2> DEFINE r == Pushed(buffer[n], byte)
  <2>4. r \in Buffers /\ r.base + Len(r.bytes) = byte
    BY <1>0, <2>1, PushedIs
  <2>5. buffer' = [buffer EXCEPT ![n] = r]
    BY <2>2, <2>3
  <2> HIDE DEF r
  <2>6. buffer' \in [Nums -> Buffers] /\ \A m \in Nums : buffer'[m] = IF m = n THEN r ELSE buffer[m]
    BY <1>0, <2>4, <2>5
  <2>7. ASSUME NEW m \in Nums PROVE buffer'[m].base + Len(buffer'[m].bytes) >= End(m)
    <3>1. CASE m = n
      <4>1. End(n) \in Nat /\ byte = End(n) + 1
        BY <2>1, EndIs
      <4> HIDE DEF byte
      <4>2. buffer'[m].base + Len(buffer'[m].bytes) = byte
        BY <2>4, <2>6, <3>1
      <4> QED
        BY <3>1, <4>1, <4>2
    <3>2. CASE m # n
      BY <2>6, <3>2, EndIs
    <3> QED
      BY <3>1, <3>2
  <2> QED
    BY <2>2, <2>6, <2>7, BufferGrows
<1>2. CASE EndOfFile(n)
  <2> DEFINE r == [buffer[n] EXCEPT !.finished = TRUE]
  <2>1. buffer' = [buffer EXCEPT ![n] = r] /\ UNCHANGED <<slot, idle, writing, shells, tab>>
    BY <1>0, <1>2 DEF EndOfFile
  <2>2. r \in Buffers /\ r.base = buffer[n].base /\ r.bytes = buffer[n].bytes
    BY <1>0 DEF Buffers, WithinOutput
  <2> HIDE DEF r
  <2>3. buffer' \in [Nums -> Buffers] /\ \A m \in Nums : buffer'[m] = IF m = n THEN r ELSE buffer[m]
    BY <1>0, <2>1, <2>2
  <2>4. \A m \in Nums : buffer'[m].base + Len(buffer'[m].bytes) >= End(m)
    BY <2>2, <2>3, EndIs
  <2> QED
    BY <2>1, <2>3, <2>4, BufferGrows
<1>3. CASE Exits(n)
  <2>1. shells' = [shells EXCEPT ![n] = "exited"] /\ shells[n] = "live" /\ UNCHANGED <<slot, idle, writing, buffer, tab>>
    BY <1>3 DEF Exits
  <2>2. shells' \in [Nums -> Shelled] /\ \A m \in Nums : shells'[m] = IF m = n THEN "exited" ELSE shells[m]
    BY <1>0, <2>1 DEF Shelled
  <2>3. NoShellLeft'
    BY <2>1, <2>2 DEF TerminalInv, NoShellLeft, Happens
  <2> QED
    BY <2>1, <2>2, <2>3, ShellSteps, Zenon DEF TerminalInv
<1> QED
  BY <1>1, <1>2, <1>3

(* A hangup leaves no shell of the session, unless there are shells that ignore it. *)
LEMMA HungUpIs ==
  ASSUME TerminalInv
  PROVE  /\ HungUp(slot) \in [Nums -> Shelled]
         /\ ~Happens("stubborn") /\ ~Happens("fail") => \A n \in Nums : HungUp(slot)[n] \notin {"live", "exited"}
<1>1. shells \in [Nums -> Shelled] /\ slot \in Nums \cup {Shut} /\ NoShellLeft
  BY DEF TerminalInv
<1> DEFINE left == IF Happens("stubborn") /\ shells[slot] = "live" THEN "deaf-to-hangups" ELSE "reaped"
<1>2. HungUp(slot) = [shells EXCEPT ![slot] = left]
  BY DEF HungUp
<1>3. left \in Shelled /\ (~Happens("stubborn") => left = "reaped")
  BY DEF Shelled
<1> HIDE DEF left
<1>4. HungUp(slot) \in [Nums -> Shelled] /\ \A n \in Nums : HungUp(slot)[n] = IF n = slot THEN left ELSE shells[n]
  BY <1>1, <1>2, <1>3
<1> QED
  BY <1>1, <1>3, <1>4 DEF NoShellLeft

LEMMA OpenKeepsShells ==
  ASSUME TerminalInv, UNCHANGED faults, NEW b \in Tabs, OpenShell(b)
  PROVE  TerminalInv'
<1>1. PICK takeOver \in BOOLEAN, n \in Nums :
        /\ MayAct /\ MayOpen(takeOver) /\ shells[n] = "none"
        /\ \E spawned \in Spawned(IF slot = Shut THEN shells ELSE HungUp(slot), n) :
           \/ /\ spawned[n] = "live" /\ slot' = n /\ shells' = spawned
              /\ tab' = [tab EXCEPT ![b] = [Away EXCEPT !.at = "here", !.id = n]]
           \/ /\ Happens("fail") /\ slot' = Shut /\ UNCHANGED tab
              /\ shells' = IF spawned[n] = "live" THEN [spawned EXCEPT ![n] = "exited"] ELSE spawned
  BY DEF OpenShell
<1>2. UNCHANGED <<idle, writing, buffer>>
  BY DEF OpenShell
<1> DEFINE left == IF slot = Shut THEN shells ELSE HungUp(slot)
<1>3. left \in [Nums -> Shelled] /\ (~Happens("stubborn") /\ ~Happens("fail") => \A m \in Nums : left[m] \notin {"live", "exited"})
  BY HungUpIs, BoundsAre DEF TerminalInv, NoShellLeft
<1> HIDE DEF left
<1>4. PICK spawned \in Spawned(left, n) :
           \/ /\ spawned[n] = "live" /\ slot' = n /\ shells' = spawned
              /\ tab' = [tab EXCEPT ![b] = [Away EXCEPT !.at = "here", !.id = n]]
           \/ /\ Happens("fail") /\ slot' = Shut /\ UNCHANGED tab
              /\ shells' = IF spawned[n] = "live" THEN [spawned EXCEPT ![n] = "exited"] ELSE spawned
  BY <1>1 DEF left
<1>5. /\ spawned \in [Nums -> Shelled]
      /\ ~Happens("fail") => \A m \in Nums : spawned[m] = IF m = n THEN "live" ELSE left[m]
  BY <1>3 DEF Spawned, Shelled
<1>6. CASE /\ spawned[n] = "live" /\ slot' = n /\ shells' = spawned
           /\ tab' = [tab EXCEPT ![b] = [Away EXCEPT !.at = "here", !.id = n]]
  <2> DEFINE t == [Away EXCEPT !.at = "here", !.id = n]
  <2>1. t \in Views /\ t.at = "here" /\ t.id = n /\ t.since = 0 /\ t.last = 0 /\ ~t.skipped
    BY AwayIs DEF Views
  <2> HIDE DEF t
  <2>2. Follow(t)
    BY <2>1, EndIs DEF Follow
  <2>3. tab' \in [Tabs -> Views] /\ tab'[b] = t /\ \A c \in Tabs \ {b} : tab'[c] = tab[c]
    BY <1>6, <2>1 DEF TerminalInv, t
  <2>4. NoShellLeft'
    BY <1>3, <1>5, <1>6 DEF NoShellLeft, Happens
  <2> QED
    <3>1. tab' = [tab EXCEPT ![b] = t]
      BY <1>6 DEF t
    <3>2. slot' \in Nums \cup {Shut} /\ idle' \in BOOLEAN /\ writing' \subseteq Tabs /\ shells' \in [Nums -> Shelled] /\ {b} \subseteq Tabs
      BY <1>2, <1>5, <1>6 DEF TerminalInv
    <3> QED
      BY <1>2, <2>1, <2>2, <2>4, <3>1, <3>2, TabSteps
<1>7. CASE /\ Happens("fail") /\ slot' = Shut /\ UNCHANGED tab
           /\ shells' = IF spawned[n] = "live" THEN [spawned EXCEPT ![n] = "exited"] ELSE spawned
  <2>1. shells' \in [Nums -> Shelled]
    BY <1>5, <1>7 DEF Shelled
  <2>2. NoShellLeft'
    BY <1>7 DEF NoShellLeft, Happens
  <2>3. slot' \in Nums \cup {Shut} /\ idle' \in BOOLEAN /\ writing' \subseteq Tabs /\ tab' \in [Tabs -> Views] /\ tab' = tab
    BY <1>2, <1>7 DEF TerminalInv
  <2> QED
    BY <1>2, <2>1, <2>2, <2>3, ShellSteps
<1> QED
  BY <1>4, <1>6, <1>7

(* An answer is of what came after the byte the browser has, or says that some is gone. *)
LEMMA AnsweredKeeps ==
  ASSUME TerminalInv, UNCHANGED faults, NEW b \in Tabs, Answered(b)
  PROVE  TerminalInv'
<1> DEFINE n == tab[b].id
<1> DEFINE q == buffer[n]
<1> DEFINE from == IF tab[b].since > q.base THEN tab[b].since - q.base ELSE 0
<1> DEFINE data == SubSeq(q.bytes, from + 1, Len(q.bytes))
<1>1. /\ tab[b].at = "polling" /\ UNCHANGED <<slot, idle, writing, shells, buffer>>
      /\ tab' = [tab EXCEPT ![b].at = "here", ![b].since = End(n),
                            ![b].last = IF data = <<>> THEN @ ELSE data[Len(data)],
                            ![b].skipped = @ \/ (~Lost(tab[b].since, q) /\ data # <<>> /\ data[1] # tab[b].last + 1)]
  BY DEF Answered
<1>2. tab[b] \in Views /\ Follow(tab[b]) /\ tab \in [Tabs -> Views]
  BY DEF TerminalInv
<1>3. n \in Nums /\ tab[b].last = tab[b].since /\ ~tab[b].skipped /\ tab[b].since <= End(n) /\ tab[b].since \in 0..Output
  BY <1>1, <1>2 DEF Follow, Views
<1>4. WithinOutput(q) /\ Len(q.bytes) \in Nat /\ End(n) = q.base + Len(q.bytes) /\ End(n) \in 0..Output
  BY <1>3, EndIs
<1> DEFINE since == tab[b].since
<1> DEFINE size == Len(q.bytes)
<1> HIDE DEF n, q, since, size
<1>5. /\ q.base \in Nat /\ q.bytes \in Seq(Nat) /\ size \in Nat /\ size = Len(q.bytes) /\ since \in Nat /\ since <= q.base + size
      /\ (q.base > 0 => size > 0) /\ \A i \in 1..size : q.bytes[i] = q.base + i
  BY <1>3, <1>4, BoundsAre DEF WithinOutput, n, q, since, size
<1>6. from = (IF since > q.base THEN since - q.base ELSE 0) /\ from \in 0..size
  BY <1>5 DEF since
<1>7. data = SubSeq(q.bytes, from + 1, size)
  BY DEF size
<1> HIDE DEF from
<1>8. data \in Seq(Nat) /\ Len(data) = size - from /\ \A i \in 1..(size - from) : data[i] = q.bytes[from + i]
  <2>1. \A i \in (from + 1)..size : q.bytes[i] \in Nat
    BY <1>5, <1>6
  <2>2. from \in Nat /\ size \in Nat /\ from <= size
    BY <1>5, <1>6
  <2> DEFINE m == from + 1
  <2>3. /\ m \in Int /\ size \in Int /\ (IF m <= size THEN size - m + 1 ELSE 0) = size - from /\ size - m + 1 = size - from
        /\ \A i \in Int : m + i - 1 = from + i
    BY <2>2
  <2> HIDE DEF m
  <2>4. /\ SubSeq(q.bytes, m, size) \in Seq(Nat)
        /\ Len(SubSeq(q.bytes, m, size)) = (IF m <= size THEN size - m + 1 ELSE 0)
        /\ \A i \in 1..(size - m + 1) : SubSeq(q.bytes, m, size)[i] = q.bytes[m + i - 1]
    <3>1. \A i \in m..size : q.bytes[i] \in Nat
      BY <2>1 DEF m
    <3> QED
      BY <2>3, <3>1, SubSeqProperties
  <2>5. data = SubSeq(q.bytes, m, size)
    BY <1>7 DEF m
  <2> HIDE DEF data
  <2>6. data \in Seq(Nat) /\ Len(data) = size - from
    BY <2>3, <2>4, <2>5
  <2>7. ASSUME NEW i \in 1..(size - from) PROVE data[i] = q.bytes[from + i]
    <3>1. i \in 1..(size - m + 1) /\ m + i - 1 = from + i
      BY <2>3
    <3> QED
      BY <2>4, <2>5, <3>1
  <2> QED
    BY <2>6, <2>7
<1> HIDE DEF data
<1>9. \A i \in 1..(size - from) : data[i] = q.base + from + i
  <2>1. ASSUME NEW i \in 1..(size - from) PROVE data[i] = q.base + from + i
    <3>0. from \in Nat /\ size \in Nat /\ q.base \in Nat /\ i \in Nat /\ i >= 1 /\ i <= size - from
      BY <1>5, <1>6
    <3>1. from + i \in 1..size
      BY <3>0
    <3>2. q.bytes[from + i] = q.base + (from + i)
      BY <1>5, <3>1
    <3>3. data[i] = q.bytes[from + i]
      BY <1>8
    <3> QED
      BY <3>0, <3>2, <3>3
  <2> QED
    BY <2>1
<1>10. data = <<>> <=> size = from
  <2>1. data = <<>> <=> Len(data) = 0
    BY <1>8, EmptySeq
  <2> QED
    BY <1>5, <1>6, <1>8, <2>1
<1> DEFINE last == IF data = <<>> THEN tab[b].last ELSE data[Len(data)]
<1> DEFINE skipped == tab[b].skipped \/ (~Lost(tab[b].since, q) /\ data # <<>> /\ data[1] # tab[b].last + 1)
<1>11. last = End(n)
  <2>1. CASE data = <<>>
    <3>1. size = from /\ last = since
      BY <1>3, <1>10, <2>1 DEF since, n
    <3>2. since = q.base + size
      BY <1>5, <1>6, <3>1
    <3> QED
      BY <1>4, <3>1, <3>2 DEF n, q, size
  <2>2. CASE data # <<>>
    <3>1. size - from \in 1..(size - from)
      BY <1>5, <1>6, <1>10, <2>2
    <3>2. last = q.base + from + (size - from)
      BY <1>8, <1>9, <2>2, <3>1
    <3>3. last = q.base + size
      BY <1>5, <1>6, <3>2
    <3> QED
      BY <1>4, <3>3 DEF n, q, size
  <2> QED
    BY <2>1, <2>2
<1>12. skipped = FALSE
  <2>1. ASSUME ~Lost(tab[b].since, q), data # <<>> PROVE data[1] = tab[b].last + 1
    <3>1. since >= q.base
      BY <1>5, <2>1 DEF Lost, since
    <3>2. from = since - q.base
      BY <1>5, <1>6, <3>1
    <3>3. 1 \in 1..(size - from)
      BY <1>5, <1>6, <1>10, <2>1
    <3>4. data[1] = q.base + from + 1
      BY <1>9, <3>3
    <3>5. data[1] = since + 1
      BY <1>5, <3>2, <3>4
    <3> QED
      BY <1>3, <3>5 DEF since, n
  <2> QED
    BY <1>3, <2>1 DEF n
<1> DEFINE t == [tab[b] EXCEPT !.at = "here", !.since = End(n), !.last = last, !.skipped = skipped]
<1>13. tab' = [tab EXCEPT ![b] = t]
  BY <1>1, <1>2 DEF data, from, n, q
<1> HIDE DEF last, skipped
<1>14. /\ t \in Views /\ t.at = "here" /\ t.since = End(n) /\ t.last = End(n) /\ ~t.skipped /\ t.id = n
  <2>1. End(n) \in 0..Output
    BY <1>4
  <2>2. tab[b].id = n
    BY DEF n
  <2> QED
    BY <1>2, <1>11, <1>12, <2>1, <2>2 DEF Views
<1> HIDE DEF t
<1>15. Follow(t)
  BY <1>3, <1>4, <1>14 DEF Follow
<1>16. /\ slot' \in Nums \cup {Shut} /\ idle' \in BOOLEAN /\ writing' \subseteq Tabs /\ shells' \in [Nums -> Shelled] /\ NoShellLeft'
       /\ {b} \subseteq Tabs
  BY <1>1 DEF TerminalInv, NoShellLeft, Happens
<1> QED
  BY <1>1, <1>13, <1>14, <1>15, <1>16, TabSteps

LEMMA TabKeeps ==
  ASSUME TerminalInv, UNCHANGED faults, NEW b \in Tabs, Poll(b) \/ NoSuchSession(b) \/ ShutTab(b) \/ Input(b) \/ Close(b)
  PROVE  TerminalInv'
<1>1. tab[b] \in Views /\ Follow(tab[b]) /\ slot \in Nums \cup {Shut} /\ idle \in BOOLEAN /\ writing \subseteq Tabs /\ shells \in [Nums -> Shelled] /\ NoShellLeft
  BY DEF TerminalInv
<1>2. UNCHANGED <<slot, shells>> => NoShellLeft'
  BY <1>1 DEF NoShellLeft, Happens
<1>3. CASE Poll(b)
  <2> DEFINE t == [tab[b] EXCEPT !.at = "polling"]
  <2>1. tab' = [tab EXCEPT ![b] = t] /\ UNCHANGED <<slot, idle, writing, shells, buffer>> /\ tab[b].at = "here"
    BY <1>3 DEF Poll, Finds, TerminalInv
  <2>2. t \in Views /\ t.at = "polling" /\ t.id = tab[b].id /\ t.since = tab[b].since /\ t.last = tab[b].last /\ t.skipped = tab[b].skipped
    BY <1>1 DEF Views
  <2> HIDE DEF t
  <2>3. Follow(t)
    BY <1>1, <2>1, <2>2 DEF Follow
  <2> QED
    BY <1>1, <1>2, <2>1, <2>2, <2>3, TabSteps
<1>4. CASE NoSuchSession(b) \/ ShutTab(b)
  <2>1. tab' = [tab EXCEPT ![b] = Away] /\ UNCHANGED <<slot, idle, writing, shells, buffer>>
    BY <1>4 DEF NoSuchSession, ShutTab
  <2> QED
    BY <1>1, <1>2, <2>1, AwayIs, AwayFollows, TabSteps
<1>5. CASE Input(b)
  <2>1. writing' = {b} /\ UNCHANGED <<slot, idle, shells, buffer, tab>>
    BY <1>5 DEF Input
  <2> QED
    BY <1>1, <1>2, <2>1, ShellSteps
<1>6. CASE Close(b)
  <2>1. shells' = HungUp(slot) /\ slot' = Shut /\ tab' = [tab EXCEPT ![b] = Away] /\ UNCHANGED <<idle, writing, buffer>>
    BY <1>6 DEF Close
  <2>2. shells' \in [Nums -> Shelled] /\ NoShellLeft'
    BY <2>1, HungUpIs DEF NoShellLeft, Happens
  <2> QED
    BY <1>1, <2>1, <2>2, AwayIs, AwayFollows, TabSteps
<1> QED
  BY <1>3, <1>4, <1>5, <1>6

LEMMA TerminalGoesOn == TerminalInv /\ [TerminalNext]_terminal /\ UNCHANGED faults => TerminalInv'
<1> SUFFICES ASSUME TerminalInv, [TerminalNext]_terminal, UNCHANGED faults PROVE TerminalInv'
  OBVIOUS
<1>1. slot \in Nums \cup {Shut} /\ idle \in BOOLEAN /\ writing \subseteq Tabs /\ shells \in [Nums -> Shelled] /\ NoShellLeft
  BY DEF TerminalInv
<1>2. UNCHANGED <<slot, shells>> => NoShellLeft'
  BY <1>1 DEF NoShellLeft, Happens
<1>3. CASE UNCHANGED terminal
  BY <1>1, <1>2, <1>3, ShellSteps DEF terminal
<1>4. CASE Expire
  <2>1. idle' = FALSE /\ shells' = HungUp(slot) /\ slot' = Shut /\ UNCHANGED <<writing, buffer, tab>>
    BY <1>4 DEF Expire
  <2>2. shells' \in [Nums -> Shelled] /\ NoShellLeft'
    BY <2>1, HungUpIs DEF NoShellLeft, Happens
  <2> QED
    BY <1>1, <2>1, <2>2, ShellSteps
<1>5. CASE InputTaken \/ FiveMinutes
  <2>1. /\ idle' \in BOOLEAN /\ writing' \subseteq Tabs /\ UNCHANGED <<slot, shells, buffer, tab>>
    BY <1>1, <1>5 DEF InputTaken, FiveMinutes
  <2> QED
    BY <1>1, <1>2, <2>1, ShellSteps
<1> QED
  BY <1>3, <1>4, <1>5, ReaderKeeps, OpenKeepsShells, AnsweredKeeps, TabKeeps DEF TerminalNext

LEMMA TerminalIsAsSaid == TerminalInv => TerminalTypeOK /\ NothingSkippedUntold /\ NoShellLeft
<1> SUFFICES ASSUME TerminalInv PROVE TerminalTypeOK /\ NothingSkippedUntold /\ NoShellLeft
  OBVIOUS
<1>1. \A n \in Nums : buffer[n].base \in 0..Output /\ Len(buffer[n].bytes) <= Kept /\ buffer[n].finished \in BOOLEAN
  <2>1. ASSUME NEW n \in Nums PROVE buffer[n].base \in 0..Output /\ Len(buffer[n].bytes) <= Kept /\ buffer[n].finished \in BOOLEAN
    <3>1. buffer[n].base \in Nat /\ Len(buffer[n].bytes) \in Nat /\ buffer[n].base + Len(buffer[n].bytes) <= Output
      BY <2>1, EndIs DEF WithinOutput
    <3>2. buffer[n].base \in 0..Output
      BY <3>1, BoundsAre
    <3> QED
      BY <2>1, <3>2, EndIs DEF WithinOutput
  <2> QED
    BY <2>1
<1>2. \A b \in Tabs : ~tab[b].skipped
  BY DEF TerminalInv, Follow
<1> QED
  BY <1>1, <1>2 DEF TerminalInv, TerminalTypeOK, NothingSkippedUntold, Shelled, Views

-----------------------------------------------------------------------------
(* The screen: what a key can mean where it is struck, and what the last screen is. *)

Displays == [shows : Shows, about : Ssids \cup Actions \cup {Nothing}]

ScreenTyped ==
  /\ ScreenTypeOK
  /\ display.shows = "key" => display.about \in Ssids
  /\ display.shows \in {"power", "confirm", "going"} => display.about \in Actions

(* The recovery code is on the screen before anything else was, and what a pairing leaves is nowhere without one. *)
Early == code => going = Nothing /\ asked = 0 /\ typed = 0 /\ display.shows \in {"first-boot", "dashboard"}
Paired == ~Happens("pairs") => display.shows \notin {"pairing", "paired", "expired"}
Carded ==
  /\ display.shows \in Wireless => Happens("wireless") /\ sight.wireless
  /\ ~Happens("unplug") => sight.wireless
Noticed == notice /\ ~Happens("pairs") => Happens("wireless") /\ (display.shows = "joined" \/ Happens("unplug"))

(* The last screen is the last, and was painted while somebody looked. *)
LastOfAll ==
  Undisturbed =>
    /\ asked <= 1
    /\ going # Nothing => display.shows = "going" /\ asked = 0 /\ awake = TRUE /\ (tick = "act" => painted = "going")
    /\ asked = 1 => display.shows = "going" /\ going = Nothing

ScreenInv == ScreenTyped /\ Early /\ Paired /\ Carded /\ Noticed /\ TypedWhileTyping /\ LastOfAll

LEMMA ScreenStarts == ScreenInit => ScreenInv
<1> SUFFICES ASSUME ScreenInit PROVE ScreenInv
  OBVIOUS
<1>1. /\ tick = "keys" /\ painted = Nothing /\ awake = TRUE /\ notice = FALSE /\ invited = FALSE /\ code \in BOOLEAN
      /\ display = (IF code THEN [shows |-> "first-boot", about |-> Nothing] ELSE Dashboard)
      /\ rows = {} /\ typed = 0 /\ going = Nothing /\ wish = Nothing /\ offering = "none" /\ asked = 0
      /\ sight = [address |-> ~Happens("first-boot"), wireless |-> TRUE]
      /\ radio = [phase |-> "idle", about |-> Nothing, found |-> {}]
  BY DEF ScreenInit, Happens
<1>2. display \in Displays /\ display.shows \in {"first-boot", "dashboard"}
  BY <1>1 DEF Displays, Shows, Dashboard
<1>3. typed \in 0..Longest
  BY <1>1, SsidsAssumption
<1>4. sight \in [address : BOOLEAN, wireless : BOOLEAN] /\ sight.wireless = TRUE
  <2> DEFINE looked == ~Happens("first-boot")
  <2>1. looked \in BOOLEAN
    OBVIOUS
  <2>2. sight = [address |-> looked, wireless |-> TRUE]
    BY <1>1
  <2> HIDE DEF looked
  <2> QED
    BY <2>1, <2>2
<1>5. radio \in [phase : AtWork \cup {"idle", "connected", "failed"}, about : Ssids \cup {Nothing}, found : SUBSET Ssids]
  BY <1>1
<1>6. ScreenTyped
  <2>1. /\ tick \in {"keys", "paint", "act"} /\ display \in Displays /\ painted \in Shows \cup {Nothing}
        /\ rows \subseteq Ssids
        /\ going \in Actions \cup {Nothing} /\ wish \in Ssids \cup {"scan", Nothing}
        /\ offering \in {"none", "standing", "expired", "used"} /\ asked \in 0..2
    BY <1>1, <1>2
  <2>3. awake \in BOOLEAN /\ notice \in BOOLEAN /\ code \in BOOLEAN /\ invited \in BOOLEAN
    BY <1>1
  <2>4. {awake, notice, code, invited} \subseteq BOOLEAN
    BY <2>3, Zenon
  <2>2. display.shows \notin {"key", "power", "confirm", "going"}
    BY <1>2
  <2> QED
    BY <1>3, <1>4, <1>5, <2>1, <2>2, <2>4 DEF ScreenTyped, ScreenTypeOK, Displays
<1> QED
  BY <1>1, <1>2, <1>4, <1>6 DEF ScreenInv, Early, Paired, Carded, Noticed, TypedWhileTyping, LastOfAll, Wireless

LEMMA ScreenIs ==
  ASSUME ScreenInv
  PROVE  /\ tick \in {"keys", "paint", "act"} /\ display \in Displays /\ painted \in Shows \cup {Nothing}
         /\ awake \in BOOLEAN /\ notice \in BOOLEAN /\ code \in BOOLEAN /\ invited \in BOOLEAN
         /\ rows \subseteq Ssids /\ typed \in 0..Longest /\ Longest \in Nat \ {0} /\ typed \in Nat
         /\ going \in Actions \cup {Nothing} /\ wish \in Ssids \cup {"scan", Nothing} /\ sight \in [address : BOOLEAN, wireless : BOOLEAN]
         /\ offering \in {"none", "standing", "expired", "used"}
         /\ radio \in [phase : AtWork \cup {"idle", "connected", "failed"}, about : Ssids \cup {Nothing}, found : SUBSET Ssids]
         /\ asked \in 0..2
<1>1. ScreenTypeOK /\ Longest \in Nat \ {0}
  BY SsidsAssumption DEF ScreenInv, ScreenTyped
<1> QED
  BY <1>1 DEF ScreenTypeOK, Displays

(* What a screen is made of: its kind, and what it is about. *)
LEMMA ShowIs ==
  ASSUME NEW what \in Shows, NEW about \in Ssids \cup Actions \cup {Nothing}, Show(what, about)
  PROVE  display' \in Displays /\ display'.shows = what /\ display'.about = about
BY DEF Show, Displays

LEMMA DashboardIs == Dashboard \in Displays /\ Dashboard.shows = "dashboard"
BY DEF Dashboard, Displays, Shows

(* A key that goes from one of the quiet screens to another. *)
LEMMA KeyKeeps ==
  ASSUME ScreenInv, UNCHANGED faults, Struck, ~code, code' = FALSE, invited' = invited,
         display' \in Displays, display'.shows = "key" => display'.about \in Ssids,
         display'.shows \in {"power", "confirm", "going"} => display'.about \in Actions,
         display'.shows \in {"pairing", "paired", "expired"} => Happens("pairs"),
         display'.shows \in Wireless => Happens("wireless") /\ sight.wireless,
         display.shows # "going",
         notice' \in BOOLEAN, notice' => notice /\ (display.shows = "joined" => display'.shows = "joined"),
         typed' \in 0..Longest, typed' > 0 /\ Undisturbed => display'.shows = "key",
         wish' \in Ssids \cup {"scan", Nothing}, offering' \in {"none", "standing", "expired", "used"},
         \/ going' = going /\ display'.shows # "going"
         \/ going' \in Actions /\ display'.shows = "going" 
  PROVE  ScreenInv'
<1>1. /\ tick = "keys" /\ awake' = TRUE /\ painted' = Nothing /\ UNCHANGED <<tick, rows, sight, radio, asked>>
  BY DEF Struck
<1>2. ScreenTyped'
  <2>1. going' \in Actions \cup {Nothing} /\ code' \in BOOLEAN /\ awake' \in BOOLEAN
    BY <1>1, ScreenIs
  <2> QED
    BY <1>1, <2>1, ScreenIs DEF ScreenTyped, ScreenTypeOK, Displays
<1>3. Early' /\ Paired' /\ Carded'
  BY <1>1 DEF ScreenInv, Early, Paired, Carded, Happens
<1>4. Noticed' /\ TypedWhileTyping'
  BY <1>1 DEF ScreenInv, Noticed, TypedWhileTyping, Undisturbed, Happens
<1>5. LastOfAll'
  <2> SUFFICES ASSUME Undisturbed PROVE (/\ asked <= 1 /\ (asked # 1 \/ (display.shows = "going" /\ going = Nothing))
                                         /\ (going # Nothing => display.shows = "going" /\ asked = 0 /\ awake = TRUE /\ tick # "act"))'
    BY <1>1 DEF LastOfAll, Undisturbed, Happens
  <2>1. asked <= 1 /\ asked # 1 /\ going = Nothing /\ asked \in 0..2
    BY ScreenIs DEF ScreenInv, LastOfAll
  <2>2. asked' = 0
    BY <1>1, <2>1
  <2> QED
    BY <1>1, <2>1, <2>2
<1> QED
  BY <1>2, <1>3, <1>4, <1>5 DEF ScreenInv

LEMMA KeysKeep ==
  ASSUME ScreenInv, UNCHANGED faults, Keys
  PROVE  ScreenInv'
<1> USE DEF Elsewhere, On
<1>0. /\ display \in Displays /\ notice \in BOOLEAN /\ typed \in 0..Longest /\ typed \in Nat /\ Longest \in Nat \ {0} /\ code \in BOOLEAN
      /\ wish \in Ssids \cup {"scan", Nothing} /\ going \in Actions \cup {Nothing} /\ rows \subseteq Ssids
      /\ offering \in {"none", "standing", "expired", "used"} /\ sight.wireless \in BOOLEAN
  BY ScreenIs
<1>1. /\ display.shows = "key" => display.about \in Ssids
      /\ display.shows \in {"power", "confirm", "going"} => display.about \in Actions
      /\ typed > 0 /\ Undisturbed => display.shows = "key"
      /\ display.shows \in Wireless => Happens("wireless") /\ sight.wireless
  BY DEF ScreenInv, ScreenTyped, TypedWhileTyping, Carded
<1>2. CASE AnyKey
  <2>1. /\ Struck /\ code' = FALSE /\ offering' = "none" /\ display' = Dashboard /\ UNCHANGED <<notice, invited, typed, going, wish>>
        /\ display.shows \in {"first-boot", "dashboard"} /\ typed = 0 /\ going = Nothing /\ asked = 0
    BY <1>2 DEF AnyKey, ScreenInv, Early
  <2>2. /\ tick = "keys" /\ awake' = TRUE /\ painted' = Nothing /\ UNCHANGED <<tick, rows, sight, radio, asked>>
    BY <2>1 DEF Struck
  <2>3. ScreenTyped'
    BY <1>0, <2>1, <2>2, DashboardIs, ScreenIs DEF ScreenTyped, ScreenTypeOK, Displays
  <2>4. Early' /\ Paired' /\ Carded'
    BY <2>1, <2>2, DashboardIs DEF ScreenInv, Early, Paired, Carded, Happens, Wireless
  <2>5. Noticed' /\ TypedWhileTyping'
    BY <2>1, <2>2, DashboardIs DEF ScreenInv, Noticed, TypedWhileTyping, Undisturbed, Happens
  <2>6. LastOfAll'
    BY <2>1, <2>2, DashboardIs DEF ScreenInv, LastOfAll, Undisturbed, Happens
  <2> QED
    BY <2>3, <2>4, <2>5, <2>6 DEF ScreenInv
<1>3. CASE KeyP
  <2>1. Struck /\ ~code /\ Show("pairing", Nothing) /\ Happens("pairs") /\ offering' = "standing" /\ notice' = FALSE
        /\ UNCHANGED <<code, invited, typed, going, wish>> /\ display.shows \notin {"going", "joined", "key"}
    BY <1>3 DEF KeyP
  <2>2. display' \in Displays /\ display'.shows = "pairing"
    BY <2>1, ShowIs DEF Shows
  <2> QED
    BY <1>0, <1>1, <2>1, <2>2, KeyKeeps DEF Wireless
<1>4. CASE PressO
  <2>1. Struck /\ ~code /\ Show("power", "restart") /\ UNCHANGED <<code, invited, typed, going, wish, offering, notice>>
        /\ display.shows \notin {"going", "joined", "key"}
    BY <1>4 DEF PressO
  <2>2. display' \in Displays /\ display'.shows = "power" /\ display'.about \in Actions
    BY <2>1, ShowIs DEF Shows, Actions
  <2> QED
    BY <1>0, <1>1, <2>1, <2>2, KeyKeeps DEF Wireless
<1>5. CASE PressW
  <2>1. Struck /\ ~code /\ Show("list", Nothing) /\ UNCHANGED <<code, invited, typed, going, offering, notice>> /\ wish' = "scan"
        /\ display.shows \notin {"going", "joined", "key"} /\ Happens("wireless") /\ sight.wireless
    BY <1>5 DEF PressW
  <2>2. display' \in Displays /\ display'.shows = "list"
    BY <2>1, ShowIs DEF Shows
  <2> QED
    BY <1>0, <1>1, <2>1, <2>2, KeyKeeps DEF Wireless
<1>6. CASE KeyOther
  <2>1. Struck /\ ~code /\ UNCHANGED <<code, invited, typed, going, wish, offering, notice>>
        /\ display.shows \notin {"going", "joined", "key"} /\ (Show("details", Nothing) \/ Show("help", Nothing))
    BY <1>6 DEF KeyOther
  <2>2. display' \in Displays /\ display'.shows \in {"details", "help"}
    BY <2>1, ShowIs DEF Shows
  <2> QED
    BY <1>0, <1>1, <2>1, <2>2, KeyKeeps DEF Wireless
<1>7. CASE KeyEscape
  <2>1. Struck /\ ~code /\ display' = Dashboard /\ notice' = FALSE /\ UNCHANGED <<code, invited, typed, going, wish>>
        /\ display.shows \notin {"going", "joined", "key"} /\ offering' \in {"none", "standing", "expired", "used"}
    BY <1>0, <1>7 DEF KeyEscape
  <2> QED
    BY <1>0, <1>1, <2>1, DashboardIs, KeyKeeps DEF Wireless
<1>8. CASE PowerKey
  <2>1. Struck /\ ~code /\ display.shows = "power" /\ UNCHANGED <<code, invited, notice, typed, going, wish, offering>>
        /\ ((\E a \in Actions \ {display.about} : Show("power", a)) \/ Show("confirm", display.about) \/ display' = Dashboard)
    BY <1>8 DEF PowerKey
  <2>2. display' \in Displays /\ (\/ display'.shows \in {"power", "confirm"} /\ display'.about \in Actions
                                  \/ display'.shows = "dashboard")
    <3>1. ASSUME NEW a \in Actions, Show("power", a) PROVE display' \in Displays /\ display'.shows = "power" /\ display'.about \in Actions
      BY <3>1, ShowIs DEF Shows
    <3>2. ASSUME Show("confirm", display.about) PROVE display' \in Displays /\ display'.shows = "confirm" /\ display'.about \in Actions
      BY <1>1, <2>1, <3>2, ShowIs DEF Shows
    <3> QED
      BY <2>1, <3>1, <3>2, DashboardIs
  <2> QED
    BY <1>0, <1>1, <2>1, <2>2, KeyKeeps DEF Wireless
<1>9. CASE ConfirmKey
  <2>1. Struck /\ ~code /\ display.shows = "confirm" /\ UNCHANGED <<code, invited, notice, typed, wish, offering>>
    BY <1>9 DEF ConfirmKey
  <2>2. CASE going' = display.about /\ Show("going", display.about)
    <3>1. display' \in Displays /\ display'.shows = "going" /\ display'.about \in Actions /\ going' \in Actions
      BY <1>1, <2>1, <2>2, ShowIs DEF Shows
    <3> QED
      BY <1>0, <1>1, <2>1, <3>1, KeyKeeps DEF Wireless
  <2>3. CASE Show("power", display.about) /\ UNCHANGED going
    <3>1. display' \in Displays /\ display'.shows = "power" /\ display'.about \in Actions
      BY <1>1, <2>1, <2>3, ShowIs DEF Shows
    <3> QED
      BY <1>0, <1>1, <2>1, <2>3, <3>1, KeyKeeps DEF Wireless
  <2>4. (going' = display.about /\ Show("going", display.about)) \/ (Show("power", display.about) /\ UNCHANGED going)
    BY <1>9 DEF ConfirmKey
  <2> QED
    BY <2>2, <2>3, <2>4
<1>10. CASE NetworkKey
  <2>1. Struck /\ ~code /\ display.shows = "list" /\ UNCHANGED <<code, invited, notice, going, offering>>
    BY <1>10 DEF NetworkKey
  <2>2. Happens("wireless") /\ sight.wireless
    BY <1>1, <2>1 DEF Wireless
  <2>3. CASE wish' = "scan" /\ UNCHANGED <<display, typed>>
    BY <1>0, <1>1, <2>1, <2>2, <2>3, KeyKeeps
  <2>4. ASSUME NEW s \in rows \ Barred, Show("key", s), typed' = 0, UNCHANGED wish PROVE ScreenInv'
    <3>0. typed' \in 0..Longest /\ ~(typed' > 0)
      BY <1>0, <2>4
    <3>1. display' \in Displays /\ display'.shows = "key" /\ display'.about \in Ssids
      BY <1>0, <2>4, ShowIs DEF Shows
    <3> QED
      BY <1>0, <1>1, <2>1, <2>2, <2>4, <3>0, <3>1, KeyKeeps
  <2>5. CASE display' = Dashboard /\ UNCHANGED <<typed, wish>>
    BY <1>0, <1>1, <2>1, <2>5, DashboardIs, KeyKeeps DEF Wireless
  <2> QED
    BY <1>10, <2>3, <2>4, <2>5 DEF NetworkKey
<1>11. CASE Typing
  <2>1. Struck /\ ~code /\ display.shows = "key" /\ UNCHANGED <<code, invited, notice, going, offering>> /\ display.about \in Ssids
    BY <1>1, <1>11 DEF Typing
  <2>2. Happens("wireless") /\ sight.wireless
    BY <1>1, <2>1 DEF Wireless
  <2>3. ASSUME typed' \in 0..Longest, UNCHANGED <<display, wish>> PROVE ScreenInv'
    BY <1>0, <2>1, <2>2, <2>3, KeyKeeps
  <2>4. CASE typed < Longest /\ typed' = typed + 1 /\ UNCHANGED <<display, wish>>
    <3>1. typed' \in 0..Longest
      BY <1>0, <2>4
    <3> QED
      BY <2>3, <2>4, <3>1
  <2>5. CASE typed > 0 /\ typed' = typed - 1 /\ UNCHANGED <<display, wish>>
    <3>1. typed' \in 0..Longest
      BY <1>0, <2>5
    <3> QED
      BY <2>3, <2>5, <3>1
  <2>6. CASE Leave /\ UNCHANGED wish
    <3>0. typed' \in 0..Longest /\ ~(typed' > 0)
      BY <1>0, <2>6 DEF Leave
    <3>1. display' \in Displays /\ display'.shows = "list" /\ typed' = 0
      BY <2>6, ShowIs DEF Shows, Leave
    <3> QED
      BY <1>0, <2>1, <2>2, <2>6, <3>0, <3>1, KeyKeeps
  <2>7. CASE wish' = display.about /\ typed' = 0 /\ Show("joining", display.about)
    <3>0. typed' \in 0..Longest /\ ~(typed' > 0) /\ wish' \in Ssids \cup {"scan", Nothing}
      BY <1>0, <2>1, <2>7
    <3>1. display' \in Displays /\ display'.shows = "joining"
      BY <2>1, <2>7, ShowIs DEF Shows
    <3> QED
      BY <1>0, <2>1, <2>2, <2>7, <3>0, <3>1, KeyKeeps
  <2> QED
    BY <1>11, <2>4, <2>5, <2>6, <2>7 DEF Typing
<1>12. CASE JoiningKey
  <2>1. Struck /\ ~code /\ display.shows = "joining" /\ Show("list", Nothing) /\ UNCHANGED <<code, invited, notice, typed, going, wish, offering>>
    BY <1>12 DEF JoiningKey
  <2>2. display' \in Displays /\ display'.shows = "list" /\ Happens("wireless") /\ sight.wireless
    BY <1>1, <2>1, ShowIs DEF Shows, Wireless
  <2> QED
    BY <1>0, <1>1, <2>1, <2>2, KeyKeeps
<1>13. CASE JoinedKey
  <2>1. Struck /\ ~code /\ display.shows = "joined" /\ display' = Dashboard /\ notice' = FALSE /\ UNCHANGED <<code, invited, typed, going, wish, offering>>
    BY <1>13 DEF JoinedKey
  <2> QED
    BY <1>0, <1>1, <2>1, DashboardIs, KeyKeeps DEF Wireless
<1> QED
  BY <1>2, <1>3, <1>4, <1>5, <1>6, <1>7, <1>8, <1>9, <1>10, <1>11, <1>12, <1>13 DEF Keys

(* What a tick comes to, of a display as it was or of the dashboard. *)
LEMMA AdvancedIs ==
  ASSUME ScreenInv, NEW s \in {display, Dashboard}
  PROVE  /\ Advanced(s) \in Displays
         /\ \/ Advanced(s) = s
            \/ s = display /\ s.shows = "pairing" /\ Advanced(s).shows \in {"expired", "paired"}
            \/ s = display /\ s.shows = "joining" /\ Advanced(s).shows = "joined"
<1>1. s \in Displays
  BY ScreenIs, DashboardIs
<1>2. CASE s.shows = "pairing" /\ offering # "standing"
  <2>1. Advanced(s) = [shows |-> IF offering = "expired" THEN "expired" ELSE "paired", about |-> Nothing]
    BY <1>2 DEF Advanced
  <2>2. Advanced(s) \in Displays /\ Advanced(s).shows \in {"expired", "paired"}
    BY <2>1 DEF Displays, Shows
  <2>3. s = display
    BY <1>2, DashboardIs
  <2> QED
    BY <1>2, <2>2, <2>3
<1>3. CASE s.shows = "joining" /\ radio.phase = "connected"
  <2>1. Advanced(s) = [shows |-> "joined", about |-> s.about]
    BY <1>3 DEF Advanced, Answer
  <2>2. Advanced(s) \in Displays /\ Advanced(s).shows = "joined"
    BY <1>1, <2>1 DEF Displays, Shows
  <2>3. s = display
    BY <1>3, DashboardIs
  <2> QED
    BY <1>3, <2>2, <2>3
<1>4. CASE ~(s.shows = "pairing" /\ offering # "standing") /\ ~(s.shows = "joining" /\ radio.phase = "connected")
  <2>1. Advanced(s) = s
    BY <1>4 DEF Advanced, Answer
  <2> QED
    BY <1>1, <2>1
<1> QED
  BY <1>2, <1>3, <1>4

LEMMA LookKeepsScreen ==
  ASSUME ScreenInv, UNCHANGED faults, Look
  PROVE  ScreenInv'
<1>1. /\ tick = "keys" /\ tick' = "paint" /\ UNCHANGED <<painted, awake, code, going, wish, radio, asked>>
      /\ sight' \in [address : {sight.address, TRUE}, wireless : IF Happens("unplug") THEN BOOLEAN ELSE {sight.wireless}]
  BY DEF Look
<1>2. PICK over \in {notice, FALSE} :
       LET before == IF over THEN Dashboard ELSE display
           after  == Advanced(before)
           gone   == ~sight'.wireless /\ after.shows \in Wireless
       IN /\ display' = IF gone THEN Dashboard ELSE after
          /\ typed'  = IF gone THEN 0 ELSE typed
          /\ notice' = IF after # before /\ after.shows \in {"paired", "expired", "joined"} THEN TRUE ELSE notice /\ ~over
          /\ rows'   = IF after.shows = "list" THEN radio.found ELSE {}
          /\ IF before.shows = "first-boot" /\ ~invited /\ sight'.address /\ offering # "standing"
             THEN invited' = TRUE /\ offering' = "standing"
             ELSE UNCHANGED <<invited, offering>>
  BY DEF Look
<1> DEFINE before == IF over THEN Dashboard ELSE display
<1> DEFINE after == Advanced(before)
<1> DEFINE gone == ~sight'.wireless /\ after.shows \in Wireless
<1>3. /\ display' = (IF gone THEN Dashboard ELSE after) /\ typed' = (IF gone THEN 0 ELSE typed)
      /\ notice' = (IF after # before /\ after.shows \in {"paired", "expired", "joined"} THEN TRUE ELSE notice /\ ~over)
      /\ rows' = IF after.shows = "list" THEN radio.found ELSE {}
  BY <1>2
<1>4. invited' \in BOOLEAN /\ offering' \in {"none", "standing", "expired", "used"}
  BY <1>2, ScreenIs
<1>5. over \in BOOLEAN /\ (over => notice) /\ before \in {display, Dashboard} /\ (over => before = Dashboard) /\ (~over => before = display)
  <2>1. notice \in BOOLEAN
    BY ScreenIs
  <2>2. over = notice \/ over = FALSE
    OBVIOUS
  <2>4. over \in BOOLEAN /\ (over => notice)
    <3>1. CASE over = notice
      <4>1. over => notice
        BY <3>1, Zenon
      <4> QED
        BY <2>1, <3>1, <4>1
    <3>2. CASE over = FALSE
      BY <3>2
    <3> QED
      BY <2>2, <3>1, <3>2, Zenon
  <2>3. before \in {display, Dashboard} /\ (over => before = Dashboard) /\ (~over => before = display)
    BY Zenon
  <2> QED
    BY <2>4, <2>3, Zenon
<1>6. /\ after \in Displays
      /\ \/ after = before
         \/ before = display /\ before.shows = "pairing" /\ after.shows \in {"expired", "paired"}
         \/ before = display /\ before.shows = "joining" /\ after.shows = "joined"
  BY <1>5, AdvancedIs
<1>7. /\ sight' \in [address : BOOLEAN, wireless : BOOLEAN]
      /\ (~Happens("unplug") => sight'.wireless = sight.wireless)
  <2>1. sight.address \in BOOLEAN /\ sight.wireless \in BOOLEAN
    BY ScreenIs
  <2> QED
    BY <1>1, <2>1
<1> HIDE DEF before, after, gone
<1>8. gone => ~sight'.wireless /\ after.shows \in Wireless
  BY DEF gone
<1>9. ~gone => sight'.wireless \/ after.shows \notin Wireless
  BY DEF gone
<1>10. notice' \in BOOLEAN /\ rows' \subseteq Ssids /\ typed' \in 0..Longest /\ display' \in Displays
  <2>1. notice \in BOOLEAN /\ radio.found \subseteq Ssids /\ 0 \in 0..Longest /\ typed \in 0..Longest
    BY ScreenIs
  <2>2. notice' \in BOOLEAN
    BY <1>3, <2>1
  <2>3. rows' \subseteq Ssids
    BY <1>3, <2>1
  <2> QED
    BY <1>3, <1>6, <2>1, <2>2, <2>3, DashboardIs
(* What is shown afterwards: the dashboard, what was shown, or what came of waiting. *)
<1>11. \/ display'.shows = "dashboard"
       \/ display' = display
       \/ display.shows = "pairing" /\ display'.shows \in {"expired", "paired"}
       \/ display.shows = "joining" /\ display'.shows = "joined"
  BY <1>3, <1>5, <1>6, DashboardIs
<1>12. ScreenTyped'
  <2>1. ScreenTypeOK'
    BY <1>1, <1>4, <1>7, <1>10, ScreenIs DEF ScreenTypeOK, Displays
  <2>2. (display.shows = "key" => display.about \in Ssids) /\ (display.shows \in {"power", "confirm", "going"} => display.about \in Actions)
    BY DEF ScreenInv, ScreenTyped
  <2> QED
    BY <1>11, <2>1, <2>2 DEF ScreenTyped
<1>13. Early'
  <2>1. ASSUME code PROVE going = Nothing /\ asked = 0 /\ typed = 0 /\ display.shows \in {"first-boot", "dashboard"}
    BY <2>1 DEF ScreenInv, Early
  <2>2. code => typed' = 0 /\ display'.shows \in {"first-boot", "dashboard"}
    BY <1>3, <1>11, <2>1
  <2> QED
    BY <1>1, <2>1, <2>2 DEF Early
<1>14. Paired'
  BY <1>11 DEF ScreenInv, Paired, Happens
<1>15. Carded'
  <2>1. (display.shows \in Wireless => Happens("wireless") /\ sight.wireless) /\ (~Happens("unplug") => sight.wireless)
    BY DEF ScreenInv, Carded
  <2>2. display'.shows \in Wireless => sight'.wireless
    BY <1>3, <1>9, DashboardIs DEF Wireless
  <2>3. display'.shows \in Wireless => display.shows \in Wireless
    BY <1>11 DEF Wireless
  <2> QED
    BY <1>7, <2>1, <2>2, <2>3 DEF Carded, Happens
<1>16. Noticed'
  <2>1. ASSUME notice', ~Happens("pairs") PROVE Happens("wireless") /\ (display'.shows = "joined" \/ Happens("unplug"))
    <3>1. (display.shows \in Wireless => Happens("wireless")) /\ (gone => Happens("unplug"))
      BY <1>7, <1>8 DEF ScreenInv, Carded
    <3>2. CASE after # before /\ after.shows \in {"paired", "expired", "joined"}
      <4>1. display.shows = "joining" /\ after.shows = "joined"
        BY <1>6, <2>1, <3>2 DEF ScreenInv, Paired
      <4> QED
        BY <1>3, <3>1, <4>1 DEF Wireless
    <3>3. CASE ~(after # before /\ after.shows \in {"paired", "expired", "joined"})
      <4>1. notice /\ ~over
        BY <1>3, <2>1, <3>3
      <4>2. Happens("wireless") /\ (display.shows = "joined" \/ Happens("unplug"))
        BY <2>1, <4>1 DEF ScreenInv, Noticed
      <4>3. before = display /\ (display.shows = "joined" => after = display)
        BY <1>5, <1>6, <4>1
      <4> QED
        BY <1>3, <3>1, <4>2, <4>3
    <3> QED
      BY <3>2, <3>3
  <2> QED
    BY <2>1 DEF Noticed, Happens
<1>17. TypedWhileTyping'
  <2>1. ASSUME typed' > 0, Undisturbed PROVE display'.shows = "key"
    <3>1. ~gone /\ typed' = typed
      <4>1. gone => typed' = 0
        BY <1>3
      <4> QED
        BY <1>3, <2>1, <4>1
    <3>2. display.shows = "key"
      BY <2>1, <3>1 DEF ScreenInv, TypedWhileTyping
    <3>3. Happens("wireless")
      BY <3>2 DEF ScreenInv, Carded, Wireless
    <3>4. ~notice
      BY <2>1, <3>2, <3>3 DEF ScreenInv, Noticed, Undisturbed
    <3>5. before = display
      BY <1>5, <3>4
    <3>6. after = before
      BY <1>6, <3>2, <3>5
    <3> QED
      BY <1>3, <3>1, <3>2, <3>5, <3>6
  <2> QED
    BY <2>1 DEF TypedWhileTyping, Undisturbed, Happens
<1>18. LastOfAll'
  <2>1. ASSUME Undisturbed, display.shows = "going" PROVE display'.shows = "going"
    <3>1. ~Happens("pairs") /\ ~(Happens("wireless") /\ Happens("unplug"))
      BY <2>1 DEF Undisturbed
    <3>2. ~notice
      BY <2>1, <3>1 DEF ScreenInv, Noticed, Carded
    <3>3. before = display
      BY <1>5, <3>2
    <3>4. after = display
      BY <1>6, <2>1, <3>3
    <3>5. ~gone
      BY <1>8, <2>1, <3>4 DEF Wireless
    <3> QED
      BY <1>3, <2>1, <3>4, <3>5
  <2> QED
    BY <1>1, <2>1 DEF ScreenInv, LastOfAll, Undisturbed, Happens
<1> QED
  BY <1>12, <1>13, <1>14, <1>15, <1>16, <1>17, <1>18 DEF ScreenInv

LEMMA PaintActKeep ==
  ASSUME ScreenInv, UNCHANGED faults, Paint \/ Act
  PROVE  ScreenInv' /\ SeenBeforeItGoes
<1>1. CASE Paint
  <2>1. /\ tick = "paint" /\ tick' = "act" /\ painted' = (IF awake THEN display.shows ELSE painted)
        /\ UNCHANGED <<display, awake, notice, code, invited, rows, typed, going, wish, sight, offering, radio, asked>>
    BY <1>1 DEF Paint
  <2>2. painted' \in Shows \cup {Nothing}
    BY <2>1, ScreenIs DEF Displays
  <2>3. ScreenTyped'
    BY <2>1, <2>2 DEF ScreenInv, ScreenTyped, ScreenTypeOK
  <2>4. Early' /\ Paired' /\ Carded' /\ Noticed' /\ TypedWhileTyping'
    BY <2>1 DEF ScreenInv, Early, Paired, Carded, Noticed, TypedWhileTyping, Undisturbed, Happens
  <2>5. LastOfAll'
    BY <2>1, ScreenIs DEF ScreenInv, LastOfAll, Undisturbed, Happens
  <2>6. ~(asked' > asked)
    BY <2>1, ScreenIs
  <2> QED
    BY <2>3, <2>4, <2>5, <2>6 DEF ScreenInv, SeenBeforeItGoes
<1>2. CASE Act
  <2>1. /\ tick = "act" /\ tick' = "keys" /\ asked' = (IF going # Nothing /\ asked < 2 THEN asked + 1 ELSE asked)
        /\ going' = Nothing /\ wish' = Nothing /\ awake' \in {awake, FALSE}
        /\ UNCHANGED <<display, painted, notice, code, invited, rows, typed, sight, offering>>
    BY <1>2 DEF Act
  <2>2. radio' \in [phase : AtWork \cup {"idle", "connected", "failed"}, about : Ssids \cup {Nothing}, found : SUBSET Ssids]
    <3>1. radio' = IF wish = Nothing \/ radio.phase \in AtWork THEN radio
              ELSE [radio EXCEPT !.phase = IF wish = "scan" THEN "scanning" ELSE "joining",
                                 !.about = IF wish = "scan" THEN Nothing ELSE wish]
      BY <1>2 DEF Act
    <3>2. wish # Nothing /\ wish # "scan" => wish \in Ssids
      BY ScreenIs
    <3> QED
      BY <3>1, <3>2, ScreenIs DEF AtWork
  <2>3. asked' \in 0..2
    BY <2>1, ScreenIs
  <2>4. ScreenTyped'
    <3>1. awake' \in BOOLEAN
      BY <2>1, ScreenIs
    <3> QED
      BY <2>1, <2>2, <2>3, <3>1 DEF ScreenInv, ScreenTyped, ScreenTypeOK
  <2>5. Early' /\ Paired' /\ Carded' /\ Noticed' /\ TypedWhileTyping'
    BY <2>1 DEF ScreenInv, Early, Paired, Carded, Noticed, TypedWhileTyping, Undisturbed, Happens
  <2>6. ASSUME Undisturbed PROVE asked' <= 1 /\ (asked' = 1 => display.shows = "going") /\ (asked' > asked => painted = "going")
    BY <2>1, <2>6, ScreenIs DEF ScreenInv, LastOfAll
  <2>7. LastOfAll' /\ SeenBeforeItGoes
    BY <2>1, <2>6 DEF LastOfAll, Undisturbed, Happens, SeenBeforeItGoes
  <2> QED
    BY <2>4, <2>5, <2>7 DEF ScreenInv
<1> QED
  BY <1>1, <1>2

LEMMA AroundKeeps ==
  ASSUME ScreenInv, UNCHANGED faults, JobEnds \/ PageJoins \/ OfferEnds \/ UNCHANGED attached
  PROVE  ScreenInv' /\ asked' = asked
<1>1. UNCHANGED <<tick, display, painted, awake, notice, code, invited, rows, typed, going, wish, sight, asked>>
  BY DEF JobEnds, PageJoins, OfferEnds, attached
<1>2. radio' \in [phase : AtWork \cup {"idle", "connected", "failed"}, about : Ssids \cup {Nothing}, found : SUBSET Ssids]
  <2>1. radio \in [phase : AtWork \cup {"idle", "connected", "failed"}, about : Ssids \cup {Nothing}, found : SUBSET Ssids]
    BY ScreenIs
  <2>2. CASE JobEnds
    BY <2>1, <2>2 DEF JobEnds, AtWork
  <2>3. CASE PageJoins
    BY <2>1, <2>3 DEF PageJoins, AtWork
  <2>4. CASE OfferEnds \/ UNCHANGED attached
    BY <2>1, <2>4 DEF OfferEnds, attached
  <2> QED
    BY <2>2, <2>3, <2>4
<1>3. offering' \in {"none", "standing", "expired", "used"}
  BY ScreenIs DEF JobEnds, PageJoins, OfferEnds, attached
<1>4. ScreenTyped'
  BY <1>1, <1>2, <1>3 DEF ScreenInv, ScreenTyped, ScreenTypeOK
<1>5. Early' /\ Paired' /\ Carded' /\ Noticed' /\ TypedWhileTyping' /\ LastOfAll'
  BY <1>1 DEF ScreenInv, Early, Paired, Carded, Noticed, TypedWhileTyping, LastOfAll, Undisturbed, Happens
<1> QED
  BY <1>1, <1>4, <1>5 DEF ScreenInv

LEMMA ScreenGoesOn == ScreenInv /\ [ScreenNext]_attached /\ UNCHANGED faults => ScreenInv' /\ SeenBeforeItGoes
<1> SUFFICES ASSUME ScreenInv, [ScreenNext]_attached, UNCHANGED faults PROVE ScreenInv' /\ SeenBeforeItGoes
  OBVIOUS
<1>1. asked' = asked => SeenBeforeItGoes
  BY ScreenIs DEF SeenBeforeItGoes
<1>2. CASE Keys
  <2>1. asked' = asked
    BY <1>2 DEF Keys, AnyKey, KeyP, PressO, PressW, KeyOther, KeyEscape, PowerKey, ConfirmKey, NetworkKey, Typing, JoiningKey, JoinedKey, Elsewhere, On, Struck
  <2> QED
    BY <1>1, <1>2, <2>1, KeysKeep
<1>3. CASE Look
  <2>1. asked' = asked
    BY <1>3 DEF Look
  <2> QED
    BY <1>1, <1>3, <2>1, LookKeepsScreen
<1>4. CASE Paint \/ Act
  BY <1>4, PaintActKeep
<1>5. CASE JobEnds \/ PageJoins \/ OfferEnds \/ UNCHANGED attached
  BY <1>1, <1>5, AroundKeeps
<1> QED
  BY <1>2, <1>3, <1>4, <1>5 DEF ScreenNext, Loop

LEMMA ScreenIsAsSaid == ScreenInv => ScreenTypeOK /\ AskedOnce /\ TypedWhileTyping
BY DEF ScreenInv, ScreenTyped, LastOfAll, AskedOnce

-----------------------------------------------------------------------------
(* Activity.  A request holds, while it asks, everything that was so of the machine since it began. *)

Sessions == [key : Items, decision : {"direct-play", "direct-stream", "transcode", "unknown"}, source : Int, hardware : {"yes", "no", "not-known"}]
Plexes   == [installed : BOOLEAN, prefs : {"none", "no-token", "token"}, listening : BOOLEAN, claimed : BOOLEAN, playing : BOOLEAN]
Requests == [at : {"idle", "prefs", "claimed", "ask", "enrich", "push", "answered"}, state : States \cup {"none"},
             shown : SUBSET Sessions, asked : SUBSET (Items \cup 0..Versions), poster : Int]
Remembered == [key : Items, version : 0..Versions, old : BOOLEAN]
Libraries  == [now : 0..Versions, settled : 0..Versions, poster : Nat]

ActTyped ==
  /\ plex \in Plexes
  /\ files \in [Items -> Libraries] /\ \A i \in Items : files[i].settled <= files[i].now
  /\ sources \in Seq(Remembered) /\ Len(sources) <= SourceCache
  /\ watcher \in [Watchers -> Requests]
  /\ held \in [Watchers -> SUBSET States]

PrefsFirst == plex.prefs = "none" => ~plex.listening

(* What is remembered is not older than half an hour, or is marked so. *)
CacheFits == \A n \in DOMAIN sources : sources[n].old \/ sources[n].version >= files[sources[n].key].settled

Asking(w)  == w.at \notin {"idle", "answered"}
Since(w, h)   == Asking(w) => plex.installed /\ So(plex) \subseteq h
Unsigned(w, h) == w.at = "claimed" => plex.prefs = "no-token" \/ "no-token" \in h
NoneYet(w) == w.at \in {"prefs", "claimed", "ask"} => w.shown = {}
OneShown(w, h) == w.at \in {"enrich", "push"} => w.state = "playing" /\ "playing" \in h /\ \E s \in Sessions : w.shown = {s} /\ s.source = -1
OneAsked(w) == w.at = "push" => \E n \in 0..Versions : w.asked = {n} /\ \A s \in w.shown : n >= files[s.key].settled
Truly(w, h) == w.at = "answered" /\ w.state # "none" => w.state \in h \/ (w.state = "not-claimed" /\ "not-running" \in h)
Recent(w) == w.at = "answered" => \A s \in w.shown : s.source = -1 \/ s.source >= files[s.key].settled

InStep(w, h) == Since(w, h) /\ Unsigned(w, h) /\ NoneYet(w) /\ OneShown(w, h) /\ OneAsked(w) /\ Truly(w, h) /\ Recent(w)

ActivityInv == ActTyped /\ PrefsFirst /\ CacheFits /\ \A v \in Watchers : InStep(watcher[v], held[v])

LEMMA CacheIs == SourceCache \in Nat \ {0} /\ MaxArtwork \in Nat /\ Heading \in Nat \ {0} /\ Versions \in Nat
BY ActivityAssumption

LEMMA QuietIs == Quiet \in Requests /\ Quiet.at = "idle" /\ Quiet.state = "none" /\ Quiet.shown = {}
BY DEF Quiet, Requests

LEMMA QuietFits == \A h : InStep(Quiet, h) /\ InStep(Quiet, h)'
BY QuietIs DEF InStep, Since, Asking, Unsigned, NoneYet, OneShown, OneAsked, Truly, Recent, Quiet

LEMMA SessionIs == ASSUME NEW entry \in Entries PROVE SessionOf(entry) \in Sessions /\ SessionOf(entry).source = -1
<1>1. entry.key \in Items
  BY DEF Entries
<1>2. \A word : Decision(word) \in {"direct-play", "direct-stream", "transcode", "unknown"}
  BY DEF Decision
<1>3. Overall(entry.node, entry.stream) \in {"direct-play", "direct-stream", "transcode", "unknown"}
  BY <1>2 DEF Overall, StreamDecision
<1>4. (IF entry.node # NoNode /\ StreamDecision(entry.node, entry.stream) = "transcode" THEN Hardware(entry.node) ELSE "not-known")
      \in {"yes", "no", "not-known"}
  BY DEF Hardware
<1>5. -1 \in Int
  OBVIOUS
<1> QED
  BY <1>1, <1>3, <1>4, <1>5 DEF SessionOf, Sessions

LEMMA ActivityStarts == ActivityInit => ActivityInv
<1> SUFFICES ASSUME ActivityInit PROVE ActivityInv
  OBVIOUS
<1>1. plex \in Plexes /\ PrefsFirst
  BY DEF ActivityInit, Plexes, PrefsFirst
<1>2. files \in [Items -> Libraries] /\ \A i \in Items : files[i].settled <= files[i].now
  BY CacheIs DEF ActivityInit, Libraries
<1>3. sources = <<>> /\ sources \in Seq(Remembered) /\ Len(sources) <= SourceCache /\ CacheFits
  BY CacheIs DEF ActivityInit, CacheFits
<1>4. watcher \in [Watchers -> Requests] /\ held \in [Watchers -> SUBSET States] /\ \A v \in Watchers : watcher[v] = Quiet
  BY QuietIs DEF ActivityInit
<1> QED
  BY <1>1, <1>2, <1>3, <1>4, QuietFits DEF ActivityInv, ActTyped

(* One request goes on, and the rest is as it was. *)
LEMMA RequestSteps ==
  ASSUME ActivityInv, UNCHANGED faults, NEW v \in Watchers, NEW to \in Requests, NEW h \in SUBSET States,
         watcher' = [watcher EXCEPT ![v] = to], held' = [held EXCEPT ![v] = h], UNCHANGED <<plex, files>>,
         sources' \in Seq(Remembered), Len(sources') <= SourceCache, CacheFits', InStep(to, h)
  PROVE  ActivityInv'
<1>1. watcher' \in [Watchers -> Requests] /\ held' \in [Watchers -> SUBSET States]
  BY DEF ActivityInv, ActTyped
<1>2. ASSUME NEW o \in Watchers PROVE InStep(watcher'[o], held'[o])
  BY <1>1 DEF ActivityInv, ActTyped
<1>3. ASSUME NEW w, NEW g, InStep(w, g) PROVE InStep(w, g)'
  BY <1>3 DEF InStep, Since, Asking, Unsigned, NoneYet, OneShown, OneAsked, Truly, Recent, So, Happens
<1>4. \A o \in Watchers : InStep(watcher[o], held[o])'
  BY <1>2, <1>3 DEF InStep, Since, Asking, Unsigned, NoneYet, OneShown, OneAsked, Truly, Recent, So, Happens
<1> QED
  BY <1>1, <1>4 DEF ActivityInv, ActTyped, PrefsFirst

LEMMA RequestIs ==
  ASSUME ActivityInv, NEW v \in Watchers
  PROVE  /\ watcher[v] \in Requests /\ held[v] \in SUBSET States /\ InStep(watcher[v], held[v])
         /\ plex \in Plexes /\ sources \in Seq(Remembered) /\ Len(sources) <= SourceCache
BY DEF ActivityInv, ActTyped

(* A request that answers out of what it held all along. *)
LEMMA SaysKeeps ==
  ASSUME ActivityInv, UNCHANGED faults, NEW v \in Watchers, NEW s \in States, Moves(v, Says(v, s)), UNCHANGED sources,
         watcher[v].at \in {"prefs", "claimed", "ask"},
         s \in held[v] \/ (s = "not-claimed" /\ "not-running" \in held[v])
  PROVE  ActivityInv'
<1> DEFINE to == Says(v, s)
<1>1. to \in Requests /\ to.at = "answered" /\ to.state = s /\ to.shown = {}
  BY RequestIs DEF Says, Requests, InStep, NoneYet
<1> HIDE DEF to
<1>2. InStep(to, held[v])
  BY <1>1 DEF InStep, Since, Asking, Unsigned, NoneYet, OneShown, OneAsked, Truly, Recent
<1>3. watcher' = [watcher EXCEPT ![v] = to] /\ UNCHANGED <<plex, files, held>>
  BY DEF Moves, to
<1>4. held' = [held EXCEPT ![v] = held[v]]
  BY <1>3 DEF ActivityInv, ActTyped
<1>5. sources' \in Seq(Remembered) /\ Len(sources') <= SourceCache /\ CacheFits'
  BY <1>3 DEF ActivityInv, ActTyped, CacheFits
<1> QED
  BY <1>1, <1>2, <1>3, <1>4, <1>5, RequestIs, RequestSteps

(* A request that goes to where it asks next. *)
LEMMA MovesKeeps ==
  ASSUME ActivityInv, UNCHANGED faults, NEW v \in Watchers, NEW to \in Requests, Moves(v, to), UNCHANGED sources, InStep(to, held[v])
  PROVE  ActivityInv'
<1>3. watcher' = [watcher EXCEPT ![v] = to] /\ UNCHANGED <<plex, files, held>>
  BY DEF Moves
<1>4. held' = [held EXCEPT ![v] = held[v]]
  BY <1>3 DEF ActivityInv, ActTyped
<1>5. sources' \in Seq(Remembered) /\ Len(sources') <= SourceCache /\ CacheFits'
  BY <1>3 DEF ActivityInv, ActTyped, CacheFits
<1> QED
  BY <1>3, <1>4, <1>5, RequestIs, RequestSteps

LEMMA LookInstalledKeeps ==
  ASSUME ActivityInv, UNCHANGED faults, NEW v \in Watchers, LookInstalled(v)
  PROVE  ActivityInv'
<1> DEFINE to == IF plex.installed THEN [Quiet EXCEPT !.at = "prefs"] ELSE [Quiet EXCEPT !.at = "answered", !.state = "not-provisioned"]
<1>1. /\ to \in Requests /\ to.shown = {}
      /\ \/ plex.installed /\ to.at = "prefs" /\ to.state = "none"
         \/ ~plex.installed /\ to.at = "answered" /\ to.state = "not-provisioned"
  <2>1. plex.installed => to = [Quiet EXCEPT !.at = "prefs"]
    OBVIOUS
  <2>2. ~plex.installed => to = [Quiet EXCEPT !.at = "answered", !.state = "not-provisioned"]
    OBVIOUS
  <2> HIDE DEF to
  <2>3. ASSUME to = [Quiet EXCEPT !.at = "prefs"] PROVE to \in Requests /\ to.shown = {} /\ to.at = "prefs" /\ to.state = "none"
    BY <2>3, QuietIs DEF Requests
  <2>4. ASSUME to = [Quiet EXCEPT !.at = "answered", !.state = "not-provisioned"]
        PROVE  to \in Requests /\ to.shown = {} /\ to.at = "answered" /\ to.state = "not-provisioned"
    BY <2>4, QuietIs DEF Requests, States
  <2> QED
    BY <2>1, <2>2, <2>3, <2>4
<1>2. watcher' = [watcher EXCEPT ![v] = to] /\ held' = [held EXCEPT ![v] = So(plex)] /\ UNCHANGED <<plex, files, sources>>
  BY DEF LookInstalled
<1>3. So(plex) \in SUBSET States /\ (~plex.installed => "not-provisioned" \in So(plex))
  BY DEF So, States
<1> HIDE DEF to
<1>4. InStep(to, So(plex))
  BY <1>1, <1>3 DEF InStep, Since, Asking, Unsigned, NoneYet, OneShown, OneAsked, Truly, Recent
<1>5. sources' \in Seq(Remembered) /\ Len(sources') <= SourceCache /\ CacheFits'
  BY <1>2 DEF ActivityInv, ActTyped, CacheFits
<1> QED
  BY <1>1, <1>2, <1>3, <1>4, <1>5, RequestSteps

LEMMA LookForTokenKeeps ==
  ASSUME ActivityInv, UNCHANGED faults, NEW v \in Watchers, LookForToken(v)
  PROVE  ActivityInv'
<1>1. watcher[v].at = "prefs" /\ UNCHANGED sources
  BY DEF LookForToken
<1>2. plex.installed /\ So(plex) \subseteq held[v] /\ watcher[v].shown = {} /\ plex.prefs \in {"none", "no-token", "token"}
  BY <1>1, RequestIs DEF InStep, Since, Asking, NoneYet, Plexes
<1>3. CASE plex.prefs = "none"
  <2>1. Moves(v, Says(v, "not-running"))
    BY <1>3 DEF LookForToken
  <2>2. "not-running" \in So(plex)
    BY <1>2, <1>3 DEF So, States, ActivityInv, PrefsFirst
  <2> QED
    BY <1>1, <1>2, <2>1, <2>2, SaysKeeps DEF States
<1>4. CASE plex.prefs = "no-token"
  <2> DEFINE to == [watcher[v] EXCEPT !.at = "claimed"]
  <2>1. Moves(v, to)
    BY <1>4 DEF LookForToken
  <2>2. to \in Requests /\ to.at = "claimed" /\ to.shown = {}
    BY <1>2, RequestIs DEF Requests
  <2> HIDE DEF to
  <2>3. InStep(to, held[v])
    BY <1>2, <1>4, <2>2 DEF InStep, Since, Asking, Unsigned, NoneYet, OneShown, OneAsked, Truly, Recent
  <2> QED
    BY <1>1, <2>1, <2>2, <2>3, MovesKeeps
<1>5. CASE plex.prefs = "token"
  <2> DEFINE to == [watcher[v] EXCEPT !.at = "ask"]
  <2>1. Moves(v, to)
    BY <1>5 DEF LookForToken
  <2>2. to \in Requests /\ to.at = "ask" /\ to.shown = {}
    BY <1>2, RequestIs DEF Requests
  <2> HIDE DEF to
  <2>3. InStep(to, held[v])
    BY <1>2, <2>2 DEF InStep, Since, Asking, Unsigned, NoneYet, OneShown, OneAsked, Truly, Recent
  <2> QED
    BY <1>1, <2>1, <2>2, <2>3, MovesKeeps
<1> QED
  BY <1>2, <1>3, <1>4, <1>5

LEMMA AskOwnerKeeps ==
  ASSUME ActivityInv, UNCHANGED faults, NEW v \in Watchers, AskOwner(v)
  PROVE  ActivityInv'
<1>1. watcher[v].at = "claimed" /\ UNCHANGED sources /\ Moves(v, Says(v, IF IsClaimed THEN "no-token" ELSE "not-claimed"))
  BY DEF AskOwner
<1>2. plex.installed /\ So(plex) \subseteq held[v] /\ (plex.prefs = "no-token" \/ "no-token" \in held[v])
  BY <1>1, RequestIs DEF InStep, Since, Asking, Unsigned
<1>3. CASE IsClaimed
  <2>1. "no-token" \in held[v]
    BY <1>2, <1>3 DEF IsClaimed, So, States
  <2> QED
    BY <1>1, <1>3, <2>1, SaysKeeps DEF States
<1>4. CASE ~IsClaimed
  <2>1. "not-claimed" \in held[v] \/ "not-running" \in held[v]
    BY <1>2, <1>4 DEF IsClaimed, So, States
  <2> QED
    BY <1>1, <1>4, <2>1, SaysKeeps DEF States
<1> QED
  BY <1>3, <1>4

LEMMA AskPlexKeeps ==
  ASSUME ActivityInv, UNCHANGED faults, NEW v \in Watchers, AskPlex(v)
  PROVE  ActivityInv'
<1>1. watcher[v].at = "ask" /\ UNCHANGED sources
  BY DEF AskPlex
<1>2. plex.installed /\ So(plex) \subseteq held[v] /\ watcher[v].shown = {}
  BY <1>1, RequestIs DEF InStep, Since, Asking, NoneYet
<1>3. CASE ~plex.listening /\ Moves(v, Says(v, "not-running"))
  <2>1. "not-running" \in held[v]
    BY <1>2, <1>3 DEF So, States
  <2> QED
    BY <1>1, <1>3, <2>1, SaysKeeps DEF States
<1>4. CASE plex.listening /\ Happens("unwell") /\ \E s \in {"unreachable", "refused", "unreadable"} : Moves(v, Says(v, s))
  <2>1. PICK s \in {"unreachable", "refused", "unreadable"} : Moves(v, Says(v, s))
    BY <1>4
  <2>2. s \in held[v] /\ s \in States
    BY <1>2, <1>4 DEF So, States
  <2> QED
    BY <1>1, <2>1, <2>2, SaysKeeps
<1>5. CASE plex.listening /\ ~plex.playing /\ Moves(v, Says(v, "idle"))
  <2>1. "idle" \in held[v]
    BY <1>2, <1>5 DEF So, States
  <2> QED
    BY <1>1, <1>5, <2>1, SaysKeeps DEF States
<1>6. ASSUME plex.listening, plex.playing, NEW entry \in Entries,
             Moves(v, [Says(v, "playing") EXCEPT !.at = IF SessionOf(entry).decision = "direct-play" THEN "answered" ELSE "enrich",
                                                 !.shown = {SessionOf(entry)}])
      PROVE  ActivityInv'
  <2> DEFINE session == SessionOf(entry)
  <2> DEFINE at == IF session.decision = "direct-play" THEN "answered" ELSE "enrich"
  <2> DEFINE to == [Says(v, "playing") EXCEPT !.at = at, !.shown = {session}]
  <2>1. session \in Sessions /\ session.source = -1 /\ at \in {"answered", "enrich"}
    BY SessionIs
  <2>2. Moves(v, to)
    BY <1>6
  <2>3. "playing" \in held[v]
    BY <1>2, <1>6 DEF So, States
  <2> HIDE DEF session, at
  <2>4. to \in Requests /\ to.at = at /\ to.state = "playing" /\ to.shown = {session}
    BY <2>1, RequestIs DEF Requests, Says, States
  <2> HIDE DEF to
  <2>5. InStep(to, held[v])
    BY <1>2, <2>1, <2>3, <2>4 DEF InStep, Since, Asking, Unsigned, NoneYet, OneShown, OneAsked, Truly, Recent
  <2> QED
    BY <1>1, <2>2, <2>4, <2>5, MovesKeeps
<1> QED
  BY <1>3, <1>4, <1>5, <1>6 DEF AskPlex

LEMMA KeyIs == ASSUME NEW v \in Watchers, NEW s, watcher[v].shown = {s} PROVE Key(v) = s.key
<1>1. (CHOOSE t \in watcher[v].shown : TRUE) = s
  OBVIOUS
<1> QED
  BY <1>1, Zenon DEF Key

(* What a request answers once it knows the file it shows. *)
LEMMA FilledIs ==
  ASSUME ActivityInv, NEW v \in Watchers, watcher[v].at \in {"enrich", "push"}, NEW s \in Sessions, watcher[v].shown = {s},
         NEW n \in 0..Versions, n >= files[s.key].settled
  PROVE  Filled(v, n) \in Requests /\ InStep(Filled(v, n), held[v])
<1> DEFINE w == watcher[v]
<1> DEFINE full == [s EXCEPT !.source = n]
<1>1. full \in Sessions /\ full.source = n /\ full.key = s.key
  BY CacheIs DEF Sessions
<1> HIDE DEF full
<1>2. w \in Requests /\ w.shown = {s}
  BY RequestIs
<1>3. Filled(v, n) = [w EXCEPT !.at = "answered", !.shown = {[t EXCEPT !.source = n] : t \in w.shown}, !.asked = {}]
  BY DEF Filled
<1>4. {[t EXCEPT !.source = n] : t \in w.shown} = {full}
  BY <1>2 DEF full
<1>5. w.state = "playing" /\ "playing" \in held[v]
  BY RequestIs DEF InStep, OneShown
<1> HIDE DEF w
<1>6. Filled(v, n) = [w EXCEPT !.at = "answered", !.shown = {full}, !.asked = {}]
  BY <1>3, <1>4, Zenon
<1> DEFINE to == [w EXCEPT !.at = "answered", !.shown = {full}, !.asked = {}]
<1>7. to \in Requests /\ to.at = "answered" /\ to.state = "playing" /\ to.shown = {full}
  BY <1>1, <1>2, <1>5 DEF Requests
<1> HIDE DEF to
<1>8. InStep(to, held[v])
  BY <1>1, <1>5, <1>7 DEF InStep, Since, Asking, Unsigned, NoneYet, OneShown, OneAsked, Truly, Recent
<1> QED
  BY <1>6, <1>7, <1>8 DEF to

LEMMA LibrarySourceKeeps ==
  ASSUME ActivityInv, UNCHANGED faults, NEW v \in Watchers, LibrarySource(v)
  PROVE  ActivityInv'
<1>1. PICK n \in 0..Len(sources) :
        LET kept == SubSeq(sources, n + 1, Len(sources))
            hits == {m \in DOMAIN kept : kept[m].key = Key(v)} IN
        /\ watcher[v].at = "enrich"
        /\ \A i \in DOMAIN sources : Trusted(sources[i]) <=> i > n
        /\ sources' = kept
        /\ \/ hits # {} /\ Moves(v, Filled(v, kept[Min(hits)].version))
           \/ hits = {} /\ plex.listening /\ Moves(v, [watcher[v] EXCEPT !.at = "push", !.asked = {files[Key(v)].now}])
           \/ hits = {} /\ (~plex.listening \/ Happens("unwell")) /\ Moves(v, [watcher[v] EXCEPT !.at = "answered"])
  BY DEF LibrarySource
<1> DEFINE kept == SubSeq(sources, n + 1, Len(sources))
<1> DEFINE hits == {m \in DOMAIN kept : kept[m].key = Key(v)}
<1>2. watcher[v].at = "enrich" /\ sources' = kept /\ \A i \in DOMAIN sources : Trusted(sources[i]) <=> i > n
  BY <1>1
<1>3. \/ hits # {} /\ Moves(v, Filled(v, kept[Min(hits)].version))
      \/ hits = {} /\ plex.listening /\ Moves(v, [watcher[v] EXCEPT !.at = "push", !.asked = {files[Key(v)].now}])
      \/ hits = {} /\ (~plex.listening \/ Happens("unwell")) /\ Moves(v, [watcher[v] EXCEPT !.at = "answered"])
  BY <1>1
<1>4. Moves(v, watcher'[v]) /\ UNCHANGED <<plex, files, held>>
  BY <1>3, RequestIs DEF Moves, ActivityInv, ActTyped
<1>5. kept \in Seq(Remembered) /\ Len(kept) = Len(sources) - n /\ \A i \in 1..(Len(sources) - n) : kept[i] = sources[i + n]
  BY RequestIs
<1>6. Len(kept) \in Nat /\ Len(kept) <= SourceCache /\ DOMAIN kept = 1..Len(kept) /\ Len(sources) \in Nat
  BY <1>5, RequestIs, CacheIs
<1>7. \A i \in DOMAIN kept : kept[i] \in Remembered /\ ~kept[i].old /\ kept[i].version >= files[kept[i].key].settled
  <2> SUFFICES ASSUME NEW i \in DOMAIN kept PROVE kept[i] \in Remembered /\ ~kept[i].old /\ kept[i].version >= files[kept[i].key].settled
    OBVIOUS
  <2>1. i \in Nat /\ i + n \in DOMAIN sources /\ i + n > n /\ kept[i] = sources[i + n]
    BY <1>5, <1>6, RequestIs
  <2>2. Trusted(sources[i + n])
    BY <1>2, <2>1
  <2> QED
    BY <1>5, <2>1, <2>2 DEF Trusted, ActivityInv, CacheFits
<1> HIDE DEF kept
<1>8. CacheFits'
  BY <1>2, <1>4, <1>7 DEF CacheFits
<1>9. PICK s \in Sessions : watcher[v].shown = {s} /\ s.source = -1
  BY <1>2, RequestIs DEF InStep, OneShown
<1>10. Key(v) = s.key /\ s.key \in Items
  BY <1>9, KeyIs DEF Sessions
<1>11. /\ plex.installed /\ So(plex) \subseteq held[v] /\ watcher[v].state = "playing" /\ "playing" \in held[v]
       /\ files[s.key] \in Libraries /\ files[s.key].settled <= files[s.key].now
  BY <1>2, <1>10, RequestIs DEF InStep, Since, Asking, OneShown, ActivityInv, ActTyped
<1>12. ASSUME NEW to \in Requests, Moves(v, to), InStep(to, held[v]) PROVE ActivityInv'
  <2>1. held' = [held EXCEPT ![v] = held[v]]
    BY <1>4 DEF ActivityInv, ActTyped
  <2> QED
    BY <1>2, <1>4, <1>5, <1>6, <1>8, <1>12, <2>1, RequestIs, RequestSteps DEF Moves
<1>13. CASE hits # {} /\ Moves(v, Filled(v, kept[Min(hits)].version))
  <2>1. Min(hits) \in hits
    <3>1. hits \in SUBSET Nat
      BY <1>6
    <3>2. PICK i \in hits : \A j \in hits : i <= j
      BY <1>13, <3>1, Least
    <3> HIDE DEF hits
    <3> QED
      BY <3>2, Zenon DEF Min
  <2> DEFINE m == Min(hits)
  <2>2. m \in DOMAIN kept /\ kept[m].key = s.key
    BY <1>10, <2>1
  <2> HIDE DEF m, hits
  <2>3. kept[m].version \in 0..Versions /\ kept[m].version >= files[s.key].settled
    BY <1>7, <2>2 DEF Remembered
  <2>4. Moves(v, Filled(v, kept[m].version))
    BY <1>13 DEF m
  <2> QED
    BY <1>2, <1>9, <1>12, <2>3, <2>4, FilledIs
<1>14. CASE Moves(v, [watcher[v] EXCEPT !.at = "push", !.asked = {files[Key(v)].now}])
  <2> DEFINE now == files[s.key].now
  <2> DEFINE to == [watcher[v] EXCEPT !.at = "push", !.asked = {now}]
  <2>1. now \in 0..Versions /\ now >= files[s.key].settled
    BY <1>11, CacheIs DEF Libraries
  <2>2. Moves(v, to)
    BY <1>10, <1>14
  <2> HIDE DEF now
  <2>3. to \in Requests /\ to.at = "push" /\ to.asked = {now} /\ to.shown = {s} /\ to.state = "playing"
    BY <1>9, <1>11, <2>1, RequestIs DEF Requests
  <2> HIDE DEF to
  <2>4. InStep(to, held[v])
    BY <1>9, <1>11, <2>1, <2>3 DEF InStep, Since, Asking, Unsigned, NoneYet, OneShown, OneAsked, Truly, Recent
  <2> QED
    BY <1>12, <2>2, <2>3, <2>4
<1>15. CASE Moves(v, [watcher[v] EXCEPT !.at = "answered"])
  <2> DEFINE to == [watcher[v] EXCEPT !.at = "answered"]
  <2>1. to \in Requests /\ to.at = "answered" /\ to.shown = {s} /\ to.state = "playing"
    BY <1>9, <1>11, RequestIs DEF Requests
  <2> HIDE DEF to
  <2>2. InStep(to, held[v])
    BY <1>9, <1>11, <2>1 DEF InStep, Since, Asking, Unsigned, NoneYet, OneShown, OneAsked, Truly, Recent
  <2> QED
    BY <1>12, <1>15, <2>1, <2>2 DEF to
<1> QED
  BY <1>3, <1>13, <1>14, <1>15

LEMMA RememberKeeps ==
  ASSUME ActivityInv, UNCHANGED faults, NEW v \in Watchers, Remember(v)
  PROVE  ActivityInv'
<1> DEFINE version == CHOOSE n \in watcher[v].asked : TRUE
<1>1. /\ watcher[v].at = "push" /\ Moves(v, Filled(v, version))
      /\ sources' = Append(Room(sources), [key |-> Key(v), version |-> version, old |-> FALSE])
  BY DEF Remember
<1>2. PICK s \in Sessions : watcher[v].shown = {s} /\ s.source = -1
  BY <1>1, RequestIs DEF InStep, OneShown
<1>3. PICK n \in 0..Versions : watcher[v].asked = {n} /\ n >= files[s.key].settled
  BY <1>1, <1>2, RequestIs DEF InStep, OneAsked
<1>4. version = n /\ Key(v) = s.key /\ s.key \in Items
  BY <1>2, <1>3, KeyIs DEF Sessions
<1> HIDE DEF version
<1>5. Filled(v, n) \in Requests /\ InStep(Filled(v, n), held[v])
  BY <1>1, <1>2, <1>3, FilledIs
<1> DEFINE new == [key |-> s.key, version |-> n, old |-> FALSE]
<1> DEFINE room == Room(sources)
<1>6. new \in Remembered /\ new.version = n /\ new.key = s.key
  BY <1>4 DEF Remembered
<1>7. sources' = Append(room, new)
  BY <1>1, <1>4
<1> HIDE DEF new
<1>8. room \in Seq(Remembered) /\ Len(room) < SourceCache /\ \A i \in DOMAIN room : \E j \in DOMAIN sources : room[i] = sources[j]
  <2>1. CASE Len(sources) >= SourceCache
    <3>1. room = Tail(sources) /\ Len(sources) > 0 /\ sources # <<>>
      BY <2>1, CacheIs, RequestIs DEF Room
    <3> HIDE DEF room
    <3>2. room \in Seq(Remembered) /\ Len(room) = Len(sources) - 1 /\ \A i \in 1..Len(room) : room[i] = sources[i + 1]
      BY <3>1, RequestIs
    <3> QED
      BY <3>1, <3>2, CacheIs, RequestIs
  <2>2. CASE ~(Len(sources) >= SourceCache)
    BY <2>2, CacheIs, RequestIs DEF Room
  <2> QED
    BY <2>1, <2>2
<1> HIDE DEF room
<1>9. /\ sources' \in Seq(Remembered) /\ Len(sources') = Len(room) + 1
      /\ \A i \in DOMAIN sources' : sources'[i] = new \/ \E j \in DOMAIN sources : sources'[i] = sources[j]
  BY <1>6, <1>7, <1>8
<1>10. UNCHANGED <<plex, files, held>> /\ watcher' = [watcher EXCEPT ![v] = Filled(v, n)]
  BY <1>1, <1>4 DEF Moves
<1>11. CacheFits'
  <2>1. \A i \in DOMAIN sources' : sources'[i].old \/ sources'[i].version >= files[sources'[i].key].settled
    BY <1>3, <1>6, <1>9 DEF ActivityInv, CacheFits
  <2> QED
    BY <1>10, <2>1 DEF CacheFits
<1>12. held' = [held EXCEPT ![v] = held[v]]
  BY <1>10 DEF ActivityInv, ActTyped
<1>13. Len(sources') <= SourceCache
  BY <1>8, <1>9, CacheIs
<1> QED
  BY <1>5, <1>9, <1>10, <1>11, <1>12, <1>13, RequestIs, RequestSteps

LEMMA PosterKeeps ==
  ASSUME ActivityInv, UNCHANGED faults, NEW v \in Watchers, NEW i \in Items, Poster(v, i)
  PROVE  ActivityInv'
<1> DEFINE read == PosterRead(files[i].poster)
<1> DEFINE poster == IF read > MaxArtwork THEN 0 ELSE read
<1> DEFINE to == [Quiet EXCEPT !.at = "answered", !.asked = {i}, !.poster = poster]
<1>1. UNCHANGED sources /\ Moves(v, to)
  BY DEF Poster
<1>2. poster \in Int
  <2>1. files[i].poster \in Nat
    BY DEF ActivityInv, ActTyped, Libraries
  <2> QED
    BY <2>1, CacheIs DEF PosterRead
<1> HIDE DEF poster
<1>3. to \in Requests /\ to.at = "answered" /\ to.state = "none" /\ to.shown = {}
  BY <1>2 DEF Quiet, Requests
<1> HIDE DEF to
<1>4. InStep(to, held[v])
  BY <1>3 DEF InStep, Since, Asking, Unsigned, NoneYet, OneShown, OneAsked, Truly, Recent
<1> QED
  BY <1>1, <1>3, <1>4, MovesKeeps

(* The machine changes: what is so of it then is so at a moment of every request that asks. *)
LEMMA MachineKeeps ==
  ASSUME ActivityInv, UNCHANGED faults, NEW p \in Plexes, Machine(p),
         plex.installed => p.installed,
         p.prefs = "none" => ~p.listening,
         plex.prefs = "no-token" => p.prefs = "no-token" \/ "no-token" \in So(plex)
  PROVE  ActivityInv'
<1>1. /\ plex' = p /\ UNCHANGED <<files, sources, watcher>>
      /\ held' = [v \in Watchers |-> IF AsksPlex(v) THEN held[v] \cup So(p) ELSE held[v]]
  BY DEF Machine
<1>2. So(p) \in SUBSET States /\ So(plex') = So(p)
  BY <1>1 DEF So
<1>3. held' \in [Watchers -> SUBSET States]
  BY <1>1, <1>2, RequestIs
<1>4. CacheFits'
  BY <1>1 DEF ActivityInv, CacheFits
<1>5. ASSUME NEW w, NEW h, NEW g, InStep(w, h), h \subseteq g, Asking(w) => g = h \cup So(p) PROVE InStep(w, g)'
  <2>1. Since(w, g)'
    BY <1>1, <1>2, <1>5 DEF InStep, Since, Asking, So, Happens
  <2>2. Unsigned(w, g)'
    <3>1. w.at = "claimed" => So(plex) \subseteq h /\ (plex.prefs = "no-token" \/ "no-token" \in h)
      BY <1>5 DEF InStep, Since, Asking, Unsigned
    <3> QED
      BY <1>1, <1>5, <3>1 DEF Unsigned
  <2>3. NoneYet(w)' /\ OneShown(w, g)' /\ OneAsked(w)' /\ Recent(w)' /\ Truly(w, g)'
    BY <1>1, <1>5 DEF InStep, NoneYet, OneShown, OneAsked, Recent, Truly
  <2> QED
    BY <2>1, <2>2, <2>3 DEF InStep
<1>6. ASSUME NEW v \in Watchers
      PROVE  /\ InStep(watcher'[v], held[v]) /\ held[v] \subseteq held'[v]
             /\ Asking(watcher'[v]) => held'[v] = held[v] \cup So(p)
  BY <1>1, RequestIs DEF Asking, AsksPlex
<1>7. ASSUME NEW v \in Watchers PROVE InStep(watcher[v], held[v])'
  <2>1. PICK w, h, g : w = watcher'[v] /\ h = held[v] /\ g = held'[v]
    OBVIOUS
  <2>2. InStep(w, g)'
    BY <1>5, <1>6, <2>1
  <2>3. Since(watcher[v], held[v])'
    BY <2>1, <2>2 DEF InStep, Since, Asking
  <2>4. Unsigned(watcher[v], held[v])' /\ NoneYet(watcher[v])' /\ OneShown(watcher[v], held[v])' /\ OneAsked(watcher[v])'
    BY <2>1, <2>2 DEF InStep, Unsigned, NoneYet, OneShown, OneAsked
  <2>5. Truly(watcher[v], held[v])' /\ Recent(watcher[v])'
    BY <2>1, <2>2 DEF InStep, Truly, Recent
  <2> QED
    BY <2>3, <2>4, <2>5 DEF InStep
<1> QED
  BY <1>1, <1>3, <1>4, <1>7 DEF ActivityInv, ActTyped, PrefsFirst

LEMMA PlexKeeps ==
  ASSUME ActivityInv, UNCHANGED faults, Provisioning \/ PlexStarts \/ PlexStops \/ OwnerSignsIn \/ SaveToken \/ OwnerSignsOut \/ Play
  PROVE  ActivityInv'
<1>0. plex \in Plexes /\ (plex.prefs = "none" => ~plex.listening) /\ plex.prefs \in {"none", "no-token", "token"}
  BY DEF ActivityInv, ActTyped, PrefsFirst, Plexes
<1>1. CASE Provisioning
  <2> DEFINE p == [plex EXCEPT !.installed = TRUE]
  <2>1. p \in Plexes /\ p.installed /\ p.prefs = plex.prefs /\ p.listening = plex.listening
    BY <1>0 DEF Plexes
  <2>2. Machine(p)
    BY <1>1 DEF Provisioning
  <2> HIDE DEF p
  <2> QED
    BY <1>0, <2>1, <2>2, MachineKeeps
<1>2. CASE PlexStarts
  <2> DEFINE prefs == IF plex.prefs = "none" THEN "no-token" ELSE plex.prefs
  <2> DEFINE p == [plex EXCEPT !.listening = TRUE, !.prefs = prefs]
  <2>1. prefs \in {"no-token", "token"} /\ (plex.prefs = "no-token" => prefs = "no-token")
    BY <1>0
  <2>2. Machine(p) /\ plex.installed
    BY <1>2 DEF PlexStarts
  <2> HIDE DEF prefs
  <2>3. p \in Plexes /\ p.installed = plex.installed /\ p.prefs = prefs
    BY <1>0, <2>1 DEF Plexes
  <2> HIDE DEF p
  <2> QED
    BY <1>0, <2>1, <2>2, <2>3, MachineKeeps
<1>3. CASE PlexStops
  <2> DEFINE p == [plex EXCEPT !.listening = FALSE, !.playing = FALSE]
  <2>1. p \in Plexes /\ p.installed = plex.installed /\ p.prefs = plex.prefs /\ ~p.listening
    BY <1>0 DEF Plexes
  <2>2. Machine(p)
    BY <1>3 DEF PlexStops
  <2> HIDE DEF p
  <2> QED
    BY <1>0, <2>1, <2>2, MachineKeeps
<1>4. CASE OwnerSignsIn
  <2> DEFINE p == [plex EXCEPT !.claimed = TRUE]
  <2>1. p \in Plexes /\ p.installed = plex.installed /\ p.prefs = plex.prefs /\ p.listening = plex.listening
    BY <1>0 DEF Plexes
  <2>2. Machine(p)
    BY <1>4 DEF OwnerSignsIn
  <2> HIDE DEF p
  <2> QED
    BY <1>0, <2>1, <2>2, MachineKeeps
<1>5. CASE SaveToken
  <2> DEFINE p == [plex EXCEPT !.prefs = "token"]
  <2>1. p \in Plexes /\ p.installed = plex.installed /\ p.prefs = "token"
    BY <1>0 DEF Plexes
  <2>2. Machine(p) /\ plex.claimed
    BY <1>5 DEF SaveToken
  <2>3. plex.prefs = "no-token" => "no-token" \in So(plex)
    BY <2>2 DEF So, States
  <2> HIDE DEF p
  <2> QED
    BY <1>0, <2>1, <2>2, <2>3, MachineKeeps
<1>6. CASE OwnerSignsOut
  <2> DEFINE p == [plex EXCEPT !.claimed = FALSE, !.prefs = "no-token"]
  <2>1. p \in Plexes /\ p.installed = plex.installed /\ p.prefs = "no-token"
    BY <1>0 DEF Plexes
  <2>2. Machine(p)
    BY <1>6 DEF OwnerSignsOut
  <2> HIDE DEF p
  <2> QED
    BY <1>0, <2>1, <2>2, MachineKeeps
<1>7. CASE Play
  <2> DEFINE p == [plex EXCEPT !.playing = ~@]
  <2>1. p \in Plexes /\ p.installed = plex.installed /\ p.prefs = plex.prefs /\ p.listening = plex.listening
    BY <1>0 DEF Plexes
  <2>2. Machine(p)
    BY <1>7 DEF Play
  <2> HIDE DEF p
  <2> QED
    BY <1>0, <2>1, <2>2, MachineKeeps
<1> QED
  BY <1>1, <1>2, <1>3, <1>4, <1>5, <1>6, <1>7

LEMMA ReplaceKeeps ==
  ASSUME ActivityInv, UNCHANGED faults, NEW i \in Items, Replace(i)
  PROVE  ActivityInv'
<1>1. PICK size \in 1..(MaxArtwork + 1) : files' = [files EXCEPT ![i].now = @ + 1, ![i].poster = size]
  BY DEF Replace
<1>2. files[i].now < Versions /\ UNCHANGED <<plex, sources, watcher, held>>
  BY DEF Replace
<1>3. files \in [Items -> Libraries] /\ files[i] \in Libraries /\ size \in Nat
  BY CacheIs DEF ActivityInv, ActTyped
<1> DEFINE next == [files[i] EXCEPT !.now = @ + 1, !.poster = size]
<1>4. files' = [files EXCEPT ![i] = next]
  BY <1>1, <1>3
<1>5. next \in Libraries /\ next.settled = files[i].settled /\ next.now = files[i].now + 1
  <2> DEFINE now == files[i].now + 1
  <2>1. now \in 0..Versions
    BY <1>2, <1>3, CacheIs DEF Libraries
  <2>2. next = [files[i] EXCEPT !.now = now, !.poster = size]
    BY <1>3 DEF Libraries
  <2> HIDE DEF now, next
  <2>3. next \in Libraries /\ next.settled = files[i].settled /\ next.now = now
    BY <1>3, <2>1, <2>2 DEF Libraries
  <2> QED
    BY <2>3 DEF now
<1> HIDE DEF next
<1>6. /\ files' \in [Items -> Libraries] /\ \A j \in Items : files'[j].settled = files[j].settled
      /\ \A j \in Items : files'[j].settled <= files'[j].now
  <2>1. files[i].settled <= files[i].now /\ files[i].settled \in Nat /\ files[i].now \in Nat
    BY <1>3, CacheIs DEF ActivityInv, ActTyped, Libraries
  <2>2. next.settled <= next.now
    BY <1>5, <2>1
  <2> QED
    BY <1>3, <1>4, <1>5, <2>2 DEF ActivityInv, ActTyped
<1>7. CacheFits'
  <2>1. \A n \in DOMAIN sources : sources[n] \in Remembered
    BY RequestIs DEF ActivityInv, ActTyped
  <2> QED
    BY <1>2, <1>6, <2>1 DEF ActivityInv, CacheFits, Remembered
<1>8. ASSUME NEW v \in Watchers PROVE InStep(watcher[v], held[v])'
  <2>1. InStep(watcher[v], held[v]) /\ \A s \in watcher[v].shown : s.key \in Items
    BY RequestIs DEF Requests, Sessions
  <2>2. Since(watcher[v], held[v])' /\ Unsigned(watcher[v], held[v])' /\ NoneYet(watcher[v])' /\ OneShown(watcher[v], held[v])' /\ Truly(watcher[v], held[v])'
    BY <1>2, <2>1 DEF InStep, Since, Asking, Unsigned, NoneYet, OneShown, Truly, So, Happens
  <2>3. OneAsked(watcher[v])' /\ Recent(watcher[v])'
    BY <1>2, <1>6, <2>1 DEF InStep, OneAsked, Recent
  <2> QED
    BY <2>2, <2>3 DEF InStep
<1> QED
  BY <1>2, <1>6, <1>7, <1>8 DEF ActivityInv, ActTyped, PrefsFirst

LEMMA HalfAnHourKeeps ==
  ASSUME ActivityInv, UNCHANGED faults, HalfAnHour
  PROVE  ActivityInv'
<1>1. /\ sources' = [n \in DOMAIN sources |-> [sources[n] EXCEPT !.old = TRUE]]
      /\ files' = [i \in Items |-> [files[i] EXCEPT !.settled = files[i].now]]
      /\ watcher' = [v \in Watchers |-> Quiet] /\ UNCHANGED <<plex, held>>
  BY DEF HalfAnHour
<1>2. files' \in [Items -> Libraries] /\ \A i \in Items : files'[i].settled <= files'[i].now
  <2>1. \A f \in Libraries : [f EXCEPT !.settled = f.now] \in Libraries /\ [f EXCEPT !.settled = f.now].settled <= [f EXCEPT !.settled = f.now].now
    BY CacheIs DEF Libraries
  <2> QED
    BY <1>1, <2>1 DEF ActivityInv, ActTyped
<1>3. sources' \in Seq(Remembered) /\ Len(sources') = Len(sources) /\ \A n \in DOMAIN sources' : sources'[n].old
  <2>1. \A s \in Remembered : [s EXCEPT !.old = TRUE] \in Remembered /\ [s EXCEPT !.old = TRUE].old
    BY DEF Remembered
  <2>2. Len(sources) \in Nat /\ DOMAIN sources = 1..Len(sources) /\ \A n \in DOMAIN sources : sources[n] \in Remembered
    BY RequestIs DEF ActivityInv, ActTyped
  <2>3. sources' \in [1..Len(sources) -> Remembered] /\ \A n \in DOMAIN sources' : sources'[n].old
    BY <1>1, <2>1, <2>2
  <2> QED
    BY <2>2, <2>3
<1>4. \A v \in Watchers : InStep(watcher[v], held[v])'
  BY <1>1, QuietFits, QuietIs DEF InStep, Since, Asking, Unsigned, NoneYet, OneShown, OneAsked, Truly, Recent, So, Happens
<1>5. watcher' \in [Watchers -> Requests]
  BY <1>1, QuietIs
<1> QED
  BY <1>1, <1>2, <1>3, <1>4, <1>5 DEF ActivityInv, ActTyped, PrefsFirst, CacheFits

LEMMA ActivityGoesOn == ActivityInv /\ [ActivityNext]_activity /\ UNCHANGED faults => ActivityInv'
<1> SUFFICES ASSUME ActivityInv, [ActivityNext]_activity, UNCHANGED faults PROVE ActivityInv'
  OBVIOUS
<1>1. CASE Provisioning \/ PlexStarts \/ PlexStops \/ OwnerSignsIn \/ SaveToken \/ OwnerSignsOut \/ Play
  BY <1>1, PlexKeeps
<1>2. CASE HalfAnHour
  BY <1>2, HalfAnHourKeeps
<1>3. ASSUME NEW i \in Items, Replace(i) PROVE ActivityInv'
  BY <1>3, ReplaceKeeps
<1>4. ASSUME NEW v \in Watchers, LookInstalled(v) \/ LookForToken(v) \/ AskOwner(v) \/ AskPlex(v) \/ LibrarySource(v) \/ Remember(v) PROVE ActivityInv'
  BY <1>4, LookInstalledKeeps, LookForTokenKeeps, AskOwnerKeeps, AskPlexKeeps, LibrarySourceKeeps, RememberKeeps
<1>5. ASSUME NEW v \in Watchers, NEW i \in Items, Poster(v, i) PROVE ActivityInv'
  BY <1>5, PosterKeeps
<1>6. CASE UNCHANGED activity
  <2>1. UNCHANGED <<plex, files, sources, watcher, held>>
    BY <1>6 DEF activity
  <2>2. \A v \in Watchers : InStep(watcher[v], held[v])'
    BY <2>1 DEF ActivityInv, InStep, Since, Asking, Unsigned, NoneYet, OneShown, OneAsked, Truly, Recent, So, Happens
  <2> QED
    BY <2>1, <2>2 DEF ActivityInv, ActTyped, PrefsFirst, CacheFits
<1> QED
  BY <1>1, <1>2, <1>3, <1>4, <1>5, <1>6 DEF ActivityNext

LEMMA ActivityIsAsSaid == ActivityInv => ActivityTypeOK /\ StateWasTrue /\ SourceIsRecent
<1> SUFFICES ASSUME ActivityInv PROVE ActivityTypeOK /\ StateWasTrue /\ SourceIsRecent
  OBVIOUS
<1>1. \A i \in Items : files[i].now \in 0..Versions /\ files[i].settled \in 0..files[i].now
  BY CacheIs DEF ActivityInv, ActTyped, Libraries
<1>2. \A v \in Watchers : watcher[v] \in Requests /\ held[v] \subseteq States /\ Truly(watcher[v], held[v]) /\ Recent(watcher[v])
  BY RequestIs DEF InStep
<1>3. StateWasTrue
  BY <1>2 DEF StateWasTrue, Truly
<1>4. SourceIsRecent
  BY <1>2 DEF SourceIsRecent, Recent
<1> QED
  BY <1>1, <1>2, <1>3, <1>4 DEF ActivityInv, ActTyped, ActivityTypeOK, Plexes, Requests

-----------------------------------------------------------------------------
(* Standing.  A note names a release that was undone, or one the machine has not fallen below. *)

Machines == [var : BOOLEAN, usr : {"verity", "writable", "plain", "none"}, apps : BOOLEAN, mounted : BOOLEAN,
             answering : BOOLEAN, claimed : BOOLEAN, up : SUBSET ToSet(Ports), configured : BOOLEAN, library : BOOLEAN,
             route : BOOLEAN, resolver : Resolvers, upstream : Upstreams]
Slots == [running : 1..Newest, other : 1..Newest, tries : 0..Tries]

StandTyped == release \in Slots /\ note \in NoRecord..Newest /\ undone \subseteq 1..Newest /\ machine \in Machines

Noted ==
  /\ release.other <= release.running
  /\ ~Happens("unstamped") => note # Nameless
  /\ ~Happens("unstamped") => note = NoRecord \/ note \in undone \/ note <= release.other \/ note = release.running

Results == {"pass", "fail", "n/a"}

(* What a request has found so far was said of the machine while it was made. *)
OnScreen(r, s) ==
  /\ r.at = "var" => r.usr \in {"pass", "fail"} /\ <<"usr", r.usr>> \in s
  /\ r.at = "plex" => r.var \in {"pass", "fail"} /\ r.usr \in {"pass", "fail"} /\ <<"var", r.var>> \in s /\ <<"usr", r.usr>> \in s
  /\ r.at = "addresses" => /\ r.checks \in [var : {"pass", "fail"}, usr : {"pass", "fail"}, plex : Results]
                           /\ <<"var", r.checks.var>> \in s /\ <<"usr", r.checks.usr>> \in s /\ <<"plex", r.checks.plex>> \in s
InWizard(r, s) ==
  /\ r.at \in {"settings", "installed", "claimed"} => r.answering \in BOOLEAN /\ <<"answering", Word(r.answering)>> \in s
  /\ r.at \in {"installed", "claimed"} => r.configured \in BOOLEAN /\ r.library \in BOOLEAN
  /\ r.at = "claimed" => r.installed \in BOOLEAN /\ <<"mounted", Word(r.installed)>> \in s
InDiagnosis(r, s) ==
  /\ r.at \in {"route", "lookup"} => r.resolver \in Resolvers /\ <<"resolver", r.resolver>> \in s
  /\ r.at = "lookup" => r.route \in BOOLEAN /\ <<"route", Word(r.route)>> \in s

Half(r, s) ==
  /\ r = NoReader \/ r.what \in {"screen", "wizard", "diagnosis"}
  /\ r.what = "screen" => OnScreen(r, s)
  /\ r.what = "wizard" => InWizard(r, s)
  /\ r.what = "diagnosis" => InDiagnosis(r, s)

Watched == reader # NoReader => Sayings(machine) \subseteq seen

StandingInv == StandTyped /\ Noted /\ Watched /\ Half(reader, seen) /\ HeadlineIsTrue /\ SetupIsHonest /\ FirstThingFirst

LEMMA NewestIs == Newest \in Nat \ {0} /\ Tries \in Nat \ {0} /\ Ports \in Seq(ToSet(Ports))
BY StandingAssumption

LEMMA NoReaderIs == NoReader.what = "none" /\ NoReader.at = "idle"
BY DEF NoReader

LEMMA NobodyAsks ==
  /\ \A s : Half(NoReader, s)
  /\ reader = NoReader => HeadlineIsTrue /\ SetupIsHonest /\ FirstThingFirst /\ Watched
  /\ reader' = NoReader => HeadlineIsTrue' /\ SetupIsHonest' /\ FirstThingFirst' /\ Watched'
BY NoReaderIs DEF Half, HeadlineIsTrue, SetupIsHonest, FirstThingFirst, Watched

LEMMA StandingStarts == StandingInit => StandingInv
<1> SUFFICES ASSUME StandingInit PROVE StandingInv
  OBVIOUS
<1>1. release \in Slots /\ note \in NoRecord..Newest /\ undone \subseteq 1..Newest
  BY NewestIs DEF StandingInit, Slots, NoRecord
<1>2. machine \in Machines
  BY DEF StandingInit, Machines, Resolvers, Upstreams, Happens
<1>3. Noted
  BY DEF StandingInit, Noted, NoRecord, Nameless
<1> QED
  BY <1>1, <1>2, <1>3, NobodyAsks DEF StandingInv, StandTyped, StandingInit

LEMMA SaidIs ==
  ASSUME NEW m \in Machines
  PROVE  /\ <<"var", CheckVar(m)>> \in Sayings(m) /\ <<"plex", PlexCheck(m)>> \in Sayings(m)
         /\ <<"usr", Found(m, "usr")>> \in Sayings(m) /\ Found(m, "usr") \in {"pass", "fail"}
         /\ <<"address", Word(m.up # {})>> \in Sayings(m)
         /\ <<"mounted", Word(m.mounted)>> \in Sayings(m) /\ <<"answering", Word(m.answering)>> \in Sayings(m)
         /\ <<"claimed", Word(m.claimed)>> \in Sayings(m) /\ <<"route", Word(m.route)>> \in Sayings(m)
         /\ <<"resolver", m.resolver>> \in Sayings(m) /\ <<"upstream", m.upstream>> \in Sayings(m)
<1>1. Found(m, "var") = CheckVar(m) /\ Found(m, "plex") = PlexCheck(m) /\ Found(m, "usr") \in {"pass", "fail"}
  BY DEF Found
<1>2. \A c \in Checks : <<c, Found(m, c)>> \in Sayings(m)
  BY DEF Sayings
<1>3. <<"address", Word(m.up # {})>> \in Sayings(m)
  BY DEF Sayings
<1>4. \A f \in {"mounted", "answering", "claimed", "route"} : <<f, Word(m[f])>> \in Sayings(m)
  BY DEF Sayings
<1>5. \A f \in {"resolver", "upstream"} : <<f, m[f]>> \in Sayings(m)
  BY DEF Sayings
<1>6. m["mounted"] = m.mounted /\ m["answering"] = m.answering /\ m["claimed"] = m.claimed /\ m["route"] = m.route /\ m["resolver"] = m.resolver
      /\ m["upstream"] = m.upstream
  OBVIOUS
<1> QED
  BY <1>1, <1>2, <1>3, <1>4, <1>5, <1>6 DEF Checks

(* The releases change, and whoever was reading starts again. *)
LEMMA ReleasesKeep ==
  ASSUME StandingInv, UNCHANGED faults, (\E v \in 1..Newest : Updated(v)) \/ GateFails \/ DiesEarly
  PROVE  StandingInv'
<1>1. /\ release \in Slots /\ note \in NoRecord..Newest /\ undone \subseteq 1..Newest /\ machine \in Machines
      /\ release.running \in 1..Newest /\ release.other \in 1..Newest /\ release.tries \in 0..Tries /\ Tries \in Nat
  BY NewestIs DEF StandingInv, StandTyped, Slots
<1>2. machine' = Settles(machine) /\ reader' = NoReader /\ seen' = {}
  BY DEF Updated, GateFails, DiesEarly, Fresh
<1>3. Settles(machine) \in Machines
  BY <1>1 DEF Settles, Machines
<1>4. ASSUME release' \in Slots, note' \in NoRecord..Newest, undone' \subseteq 1..Newest, Noted' PROVE StandingInv'
  BY <1>2, <1>3, <1>4, NobodyAsks DEF StandingInv, StandTyped
<1>5. ASSUME NEW v \in 1..Newest, Updated(v) PROVE StandingInv'
  <2>1. release' = [running |-> v, other |-> release.running, tries |-> Tries] /\ v > release.running /\ UNCHANGED <<note, undone>>
    BY <1>5 DEF Updated
  <2>2. release' \in Slots /\ release'.running = v /\ release'.other = release.running
    BY <1>1, <2>1 DEF Slots
  <2>3. Noted'
    BY <1>1, <2>1, <2>2, NewestIs DEF StandingInv, Noted, NoRecord, Nameless, Happens
  <2> QED
    BY <1>1, <1>4, <2>1, <2>2, <2>3
<1>6. ASSUME release.tries > 0, FallsBack(release.tries - 1), note' \in {note, NoRecord, Record} PROVE StandingInv'
  <2> DEFINE left == release.tries - 1
  <2>0. left \in 0..Tries
    BY <1>1, <1>6
  <2>1. \/ release' = [release EXCEPT !.tries = left] /\ UNCHANGED undone
        \/ release' = [running |-> release.other, other |-> release.other, tries |-> 0] /\ undone' = undone \cup {release.running}
    BY <1>6 DEF FallsBack
  <2> HIDE DEF left
  <2>2. /\ release' \in Slots /\ undone' \subseteq 1..Newest
        /\ \/ release'.running = release.running /\ release'.other = release.other /\ undone' = undone
           \/ release'.running = release.other /\ release'.other = release.other /\ undone' = undone \cup {release.running}
    <3>1. CASE release' = [release EXCEPT !.tries = left] /\ UNCHANGED undone
      BY <1>1, <2>0, <3>1 DEF Slots
    <3>2. CASE release' = [running |-> release.other, other |-> release.other, tries |-> 0] /\ undone' = undone \cup {release.running}
      <4>1. 0 \in 0..Tries
        BY NewestIs
      <4> QED
        BY <1>1, <3>2, <4>1 DEF Slots
    <3> QED
      BY <2>1, <3>1, <3>2
  <2>3. note' \in NoRecord..Newest
    BY <1>1, <1>6, NewestIs DEF Record, Nameless, NoRecord
  <2>4. ~Happens("unstamped") => note' \in {note, NoRecord, release.running}
    BY <1>6 DEF Record
  <2>5. Noted'
    <3>1. release'.other <= release'.running
      BY <1>1, <2>2 DEF StandingInv, Noted
    <3>2. ASSUME ~Happens("unstamped")
          PROVE  note' # Nameless /\ (note' = NoRecord \/ note' \in undone' \/ note' <= release'.other \/ note' = release'.running)
      BY <1>1, <2>2, <2>3, <2>4, <3>2, NewestIs DEF StandingInv, Noted, NoRecord, Nameless
    <3> QED
      BY <3>1, <3>2 DEF Noted, Happens
  <2> QED
    BY <1>4, <2>2, <2>3, <2>5
<1>7. CASE GateFails
  BY <1>6, <1>7 DEF GateFails, Written
<1>8. CASE DiesEarly
  BY <1>6, <1>8 DEF DiesEarly
<1> QED
  BY <1>5, <1>7, <1>8

LEMMA FoundStays == \A r, s, t : Half(r, s) /\ s \subseteq t => Half(r, t)
BY DEF Half, OnScreen, InWizard, InDiagnosis

(* A machine that changes says more of itself to whoever is reading, and unsays nothing. *)
LEMMA BecomesKeeps ==
  ASSUME StandingInv, UNCHANGED faults, NEW m \in Machines, Becomes(m)
  PROVE  StandingInv'
<1>1. machine' = m /\ seen' = (IF reader = NoReader THEN {} ELSE seen \cup Sayings(m)) /\ UNCHANGED <<release, note, undone, reader>>
  BY DEF Becomes
<1>2. StandTyped' /\ Noted'
  BY <1>1 DEF StandingInv, StandTyped, Noted, Happens
<1>3. CASE reader = NoReader
  BY <1>1, <1>2, <1>3, NobodyAsks DEF StandingInv
<1>4. CASE reader # NoReader
  <2>1. seen \subseteq seen' /\ Sayings(m) \subseteq seen'
    BY <1>1, <1>4
  <2>2. Watched'
    BY <1>1, <2>1 DEF Watched
  <2>3. Half(reader, seen)'
    BY <1>1, <2>1, FoundStays DEF StandingInv
  <2>4. HeadlineIsTrue' /\ SetupIsHonest' /\ FirstThingFirst'
    <3>1. HeadlineIsTrue'
      BY <1>1, <2>1 DEF StandingInv, HeadlineIsTrue, Was, Happens, Nameable
    <3>2. SetupIsHonest'
      BY <1>1, <2>1 DEF StandingInv, SetupIsHonest, Was
    <3>3. FirstThingFirst'
      BY <1>1, <2>1 DEF StandingInv, FirstThingFirst, Was
    <3> QED
      BY <3>1, <3>2, <3>3
  <2> QED
    BY <1>2, <2>2, <2>3, <2>4 DEF StandingInv
<1> QED
  BY <1>3, <1>4

LEMMA ChangesKeep == ASSUME StandingInv, UNCHANGED faults, Changes PROVE StandingInv'
<1>1. machine \in Machines
  BY DEF StandingInv, StandTyped
<1>2. PICK m : Becomes(m) /\ m \in Machines
  <2>1. CASE \E b \in BOOLEAN : Becomes([machine EXCEPT !.var = b])
    <3>1. \A b \in BOOLEAN : [machine EXCEPT !.var = b] \in Machines
      BY <1>1 DEF Machines
    <3> QED
      BY <2>1, <3>1
  <2>2. CASE \E u \in {"verity", "writable", "none"} : Becomes([machine EXCEPT !.usr = u])
    <3>1. \A u \in {"verity", "writable", "none"} : [machine EXCEPT !.usr = u] \in Machines
      BY <1>1 DEF Machines
    <3> QED
      BY <2>2, <3>1
  <2>3. CASE Becomes([machine EXCEPT !.apps = TRUE])
    <3>1. [machine EXCEPT !.apps = TRUE] \in Machines
      BY <1>1 DEF Machines
    <3> QED
      BY <2>3, <3>1
  <2>4. CASE \E b \in BOOLEAN : machine.apps /\ Becomes([machine EXCEPT !.mounted = b, !.answering = @ /\ b])
    <3>1. ASSUME NEW b \in BOOLEAN PROVE [machine EXCEPT !.mounted = b, !.answering = @ /\ b] \in Machines
      <4>1. (machine.answering /\ b) \in BOOLEAN
        BY Zenon
      <4> DEFINE now == machine.answering /\ b
      <4>2. [machine EXCEPT !.mounted = b, !.answering = @ /\ b] = [machine EXCEPT !.mounted = b, !.answering = now]
        BY <1>1, Zenon DEF Machines
      <4> HIDE DEF now
      <4>3. [machine EXCEPT !.mounted = b, !.answering = now] \in Machines
        BY <1>1, <4>1 DEF Machines, now
      <4> QED
        BY <4>2, <4>3
    <3> QED
      BY <2>4, <3>1
  <2>5. CASE \E b \in BOOLEAN : machine.mounted /\ Becomes([machine EXCEPT !.answering = b])
    <3>1. \A b \in BOOLEAN : [machine EXCEPT !.answering = b] \in Machines
      BY <1>1 DEF Machines
    <3> QED
      BY <2>5, <3>1
  <2>6. CASE \E b \in BOOLEAN : machine.answering /\ Becomes([machine EXCEPT !.claimed = b])
    <3>1. \A b \in BOOLEAN : [machine EXCEPT !.claimed = b] \in Machines
      BY <1>1 DEF Machines
    <3> QED
      BY <2>6, <3>1
  <2>7. CASE \E up \in SUBSET ToSet(Ports) : Becomes([machine EXCEPT !.up = up])
    <3>1. \A up \in SUBSET ToSet(Ports) : [machine EXCEPT !.up = up] \in Machines
      BY <1>1 DEF Machines
    <3> QED
      BY <2>7, <3>1
  <2>8. CASE Becomes([machine EXCEPT !.configured = TRUE]) \/ \E b \in BOOLEAN : Becomes([machine EXCEPT !.library = b])
    <3>1. [machine EXCEPT !.configured = TRUE] \in Machines /\ \A b \in BOOLEAN : [machine EXCEPT !.library = b] \in Machines
      BY <1>1 DEF Machines
    <3> QED
      BY <2>8, <3>1
  <2>9. CASE \E b \in BOOLEAN : Becomes([machine EXCEPT !.route = b])
    <3>1. \A b \in BOOLEAN : [machine EXCEPT !.route = b] \in Machines
      BY <1>1 DEF Machines
    <3> QED
      BY <2>9, <3>1
  <2>10. CASE \E r \in Resolvers : Becomes([machine EXCEPT !.resolver = r])
    <3>1. \A r \in Resolvers : [machine EXCEPT !.resolver = r] \in Machines
      BY <1>1 DEF Machines
    <3> QED
      BY <2>10, <3>1
  <2>11. CASE \E u \in Upstreams : Becomes([machine EXCEPT !.upstream = u])
    <3>1. \A u \in Upstreams : [machine EXCEPT !.upstream = u] \in Machines
      BY <1>1 DEF Machines
    <3> QED
      BY <2>11, <3>1
  <2> HIDE DEF Becomes
  <2> QED
    BY <2>1, <2>2, <2>3, <2>4, <2>5, <2>6, <2>7, <2>8, <2>9, <2>10, <2>11 DEF Changes
<1> QED
  BY <1>2, BecomesKeeps

(* The gate passes, or a request is made, or answered. *)
LEMMA RequestsKeep ==
  ASSUME StandingInv, UNCHANGED faults,
         GatePasses \/ Asks("screen", "mounts") \/ Asks("wizard", "answering") \/ Asks("diagnosis", "resolver") \/ Asked
  PROVE  StandingInv'
<1>1. CASE GatePasses
  <2>1. release' = [release EXCEPT !.tries = 0] /\ UNCHANGED <<note, undone, machine, reader, seen>>
    BY <1>1 DEF GatePasses
  <2>2. release' \in Slots /\ release'.running = release.running /\ release'.other = release.other
    BY <2>1, NewestIs DEF StandingInv, StandTyped, Slots
  <2>3. StandTyped' /\ Noted' /\ Watched' /\ Half(reader, seen)'
    BY <2>1, <2>2 DEF StandingInv, StandTyped, Noted, Watched, Happens, Half, OnScreen, InWizard, InDiagnosis
  <2>4. HeadlineIsTrue'
    BY <2>1, <2>2 DEF StandingInv, HeadlineIsTrue, Was, Happens, Nameable
  <2>5. SetupIsHonest' /\ FirstThingFirst'
    BY <2>1 DEF StandingInv, SetupIsHonest, FirstThingFirst, Was
  <2> QED
    BY <2>3, <2>4, <2>5 DEF StandingInv
<1>2. ASSUME NEW what \in {"screen", "wizard", "diagnosis"}, NEW at \in {"mounts", "answering", "resolver"}, Asks(what, at) PROVE StandingInv'
  <2>1. reader' = [what |-> what, at |-> at] /\ seen' = Sayings(machine) /\ UNCHANGED <<release, note, undone, machine>>
    BY <1>2 DEF Asks
  <2>2. reader'.what = what /\ reader'.at = at
    BY <2>1
  <2>3. StandTyped' /\ Noted' /\ Watched'
    BY <2>1 DEF StandingInv, StandTyped, Noted, Watched, Happens
  <2>4. Half(reader, seen)' /\ HeadlineIsTrue' /\ SetupIsHonest' /\ FirstThingFirst'
    BY <2>2 DEF Half, OnScreen, InWizard, InDiagnosis, HeadlineIsTrue, SetupIsHonest, FirstThingFirst
  <2> QED
    BY <2>3, <2>4 DEF StandingInv
<1>3. CASE Asked
  BY <1>3, NobodyAsks DEF Asked, StandingInv, StandTyped, Noted, Happens
<1> QED
  BY <1>1, <1>2, <1>3

(* A request goes on with what it found, and nothing else moves. *)
LEMMA ReaderStands ==
  ASSUME StandingInv, UNCHANGED faults, NEW r, ReaderGoes(r), reader # NoReader, r.what \in {"screen", "wizard", "diagnosis"}, Half(r, seen),
         HeadlineIsTrue', SetupIsHonest', FirstThingFirst'
  PROVE  StandingInv'
<1>1. reader' = r /\ UNCHANGED <<release, note, undone, machine, seen>>
  BY DEF ReaderGoes
<1> QED
  BY <1>1 DEF StandingInv, StandTyped, Noted, Watched, Happens, Half, OnScreen, InWizard, InDiagnosis

LEMMA ReaderGoesOn ==
  ASSUME StandingInv, UNCHANGED faults, NEW r, ReaderGoes(r), reader # NoReader, r.what \in {"screen", "wizard", "diagnosis"}, Half(r, seen),
         r.at \notin {"verdict", "steps", "remedies"}
  PROVE  StandingInv'
<1>1. reader' = r
  BY DEF ReaderGoes
<1>2. HeadlineIsTrue' /\ SetupIsHonest' /\ FirstThingFirst'
  BY <1>1 DEF HeadlineIsTrue, SetupIsHonest, FirstThingFirst
<1> QED
  BY <1>2, ReaderStands

LEMMA SaidNow ==
  ASSUME StandingInv, reader # NoReader
  PROVE  machine \in Machines /\ Sayings(machine) \subseteq seen /\ Half(reader, seen)
BY DEF StandingInv, StandTyped, Watched

LEMMA GatherKeeps == ASSUME StandingInv, UNCHANGED faults, Gather PROVE StandingInv'
<1>1. reader # NoReader /\ reader.what = "screen"
  BY NoReaderIs DEF Gather
<1>2. CASE reader.at = "mounts" /\ ReaderGoes([what |-> "screen", at |-> "var", usr |-> Found(machine, "usr")])
  <2> DEFINE r == [what |-> "screen", at |-> "var", usr |-> Found(machine, "usr")]
  <2>1. r.what = "screen" /\ r.at = "var" /\ r.usr = Found(machine, "usr")
    OBVIOUS
  <2> HIDE DEF r
  <2>2. Half(r, seen)
    BY <1>1, <2>1, SaidNow, SaidIs DEF Half, OnScreen
  <2> QED
    BY <1>1, <1>2, <2>1, <2>2, ReaderGoesOn DEF r
<1>3. CASE reader.at = "var" /\ ReaderGoes([what |-> "screen", at |-> "plex", var |-> CheckVar(machine), usr |-> reader.usr])
  <2> DEFINE r == [what |-> "screen", at |-> "plex", var |-> CheckVar(machine), usr |-> reader.usr]
  <2>1. r.what = "screen" /\ r.at = "plex" /\ r.var = CheckVar(machine) /\ r.usr = reader.usr
    OBVIOUS
  <2> HIDE DEF r
  <2>2. OnScreen(reader, seen) /\ CheckVar(machine) \in {"pass", "fail"}
    BY <1>1, SaidNow DEF Half, CheckVar
  <2>3. Half(r, seen)
    BY <1>1, <1>3, <2>1, <2>2, SaidNow, SaidIs DEF Half, OnScreen
  <2> QED
    BY <1>1, <1>3, <2>1, <2>3, ReaderGoesOn DEF r
<1>4. CASE reader.at = "plex" /\ ReaderGoes([what |-> "screen", at |-> "addresses", checks |-> [var |-> reader.var, usr |-> reader.usr, plex |-> PlexCheck(machine)]])
  <2> DEFINE checks == [var |-> reader.var, usr |-> reader.usr, plex |-> PlexCheck(machine)]
  <2> DEFINE r == [what |-> "screen", at |-> "addresses", checks |-> checks]
  <2>1. OnScreen(reader, seen) /\ PlexCheck(machine) \in Results
    BY <1>1, SaidNow DEF Half, PlexCheck, Results
  <2>2. checks \in [var : {"pass", "fail"}, usr : {"pass", "fail"}, plex : Results]
    BY <1>4, <2>1 DEF OnScreen
  <2>3. <<"var", checks.var>> \in seen /\ <<"usr", checks.usr>> \in seen /\ <<"plex", checks.plex>> \in seen
    BY <1>1, <1>4, <2>1, SaidNow, SaidIs DEF OnScreen
  <2> HIDE DEF checks
  <2>4. r.what = "screen" /\ r.at = "addresses" /\ r.checks = checks
    OBVIOUS
  <2> HIDE DEF r
  <2>5. Half(r, seen)
    BY <2>2, <2>3, <2>4 DEF Half, OnScreen
  <2> QED
    BY <1>1, <1>4, <2>4, <2>5, ReaderGoesOn DEF r, checks
<1> QED
  BY <1>2, <1>3, <1>4 DEF Gather

LEMMA ObserveKeeps == ASSUME StandingInv, UNCHANGED faults, Observe PROVE StandingInv'
<1>1. reader # NoReader /\ reader.what = "wizard"
  BY NoReaderIs DEF Observe
<1>2. InWizard(reader, seen) /\ Sayings(machine) \subseteq seen /\ machine \in Machines
  BY <1>1, SaidNow DEF Half
<1>3. CASE ReaderGoes([what |-> "wizard", at |-> "settings", answering |-> machine.answering])
  <2> DEFINE r == [what |-> "wizard", at |-> "settings", answering |-> machine.answering]
  <2>1. r.what = "wizard" /\ r.at = "settings" /\ r.answering = machine.answering
    OBVIOUS
  <2> HIDE DEF r
  <2>2. Half(r, seen)
    <3>1. machine.answering \in BOOLEAN
      BY <1>2 DEF Machines
    <3> QED
      BY <1>2, <2>1, <3>1, SaidIs DEF Half, InWizard
  <2> QED
    BY <1>1, <1>3, <2>1, <2>2, ReaderGoesOn DEF r
<1>4. CASE reader.at = "settings" /\ ReaderGoes([what |-> "wizard", at |-> "installed", answering |-> reader.answering,
                                                configured |-> machine.configured, library |-> machine.library])
  <2> DEFINE r == [what |-> "wizard", at |-> "installed", answering |-> reader.answering,
                   configured |-> machine.configured, library |-> machine.library]
  <2>1. r.what = "wizard" /\ r.at = "installed" /\ r.answering = reader.answering /\ r.configured = machine.configured /\ r.library = machine.library
    OBVIOUS
  <2> HIDE DEF r
  <2>2. Half(r, seen)
    <3>1. machine.configured \in BOOLEAN /\ machine.library \in BOOLEAN
      BY <1>2 DEF Machines
    <3> QED
      BY <1>2, <1>4, <2>1, <3>1, SaidIs DEF Half, InWizard
  <2> QED
    BY <1>1, <1>4, <2>1, <2>2, ReaderGoesOn DEF r
<1>5. CASE reader.at = "installed" /\ ReaderGoes([what |-> "wizard", at |-> "claimed", answering |-> reader.answering, configured |-> reader.configured,
              library |-> reader.library, installed |-> machine.mounted])
  <2> DEFINE r == [what |-> "wizard", at |-> "claimed", answering |-> reader.answering, configured |-> reader.configured,
              library |-> reader.library, installed |-> machine.mounted]
  <2>1. /\ r.what = "wizard" /\ r.at = "claimed" /\ r.answering = reader.answering /\ r.configured = reader.configured
        /\ r.library = reader.library /\ r.installed = machine.mounted
    OBVIOUS
  <2> HIDE DEF r
  <2>2. Half(r, seen)
    <3>1. machine.mounted \in BOOLEAN
      BY <1>2 DEF Machines
    <3> QED
      BY <1>2, <1>5, <2>1, <3>1, SaidIs DEF Half, InWizard
  <2> QED
    BY <1>1, <1>5, <2>1, <2>2, ReaderGoesOn DEF r
<1> QED
  BY <1>3, <1>4, <1>5 DEF Observe

LEMMA ReadsKeep == ASSUME StandingInv, UNCHANGED faults, ReadResolver \/ ReadRoute PROVE StandingInv'
<1>1. reader # NoReader /\ reader.what = "diagnosis"
  BY NoReaderIs DEF ReadResolver, ReadRoute
<1>2. InDiagnosis(reader, seen) /\ Sayings(machine) \subseteq seen /\ machine \in Machines
  BY <1>1, SaidNow DEF Half
<1>3. CASE ReadResolver
  <2> DEFINE r == [what |-> "diagnosis", at |-> "route", resolver |-> machine.resolver]
  <2>1. r.what = "diagnosis" /\ r.at = "route" /\ r.resolver = machine.resolver /\ ReaderGoes(r)
    BY <1>3 DEF ReadResolver
  <2> HIDE DEF r
  <2>2. Half(r, seen)
    <3>1. machine.resolver \in Resolvers
      BY <1>2 DEF Machines
    <3> QED
      BY <1>2, <2>1, <3>1, SaidIs DEF Half, InDiagnosis
  <2> QED
    BY <1>1, <2>1, <2>2, ReaderGoesOn
<1>4. CASE ReadRoute
  <2> DEFINE r == [what |-> "diagnosis", at |-> "lookup", resolver |-> reader.resolver, route |-> machine.route]
  <2>1. r.what = "diagnosis" /\ r.at = "lookup" /\ r.resolver = reader.resolver /\ r.route = machine.route /\ ReaderGoes(r) /\ reader.at = "route"
    BY <1>4 DEF ReadRoute
  <2> HIDE DEF r
  <2>2. Half(r, seen)
    <3>1. machine.route \in BOOLEAN
      BY <1>2 DEF Machines
    <3> QED
      BY <1>2, <2>1, <3>1, SaidIs DEF Half, InDiagnosis
  <2> QED
    BY <1>1, <2>1, <2>2, ReaderGoesOn
<1> QED
  BY <1>3, <1>4

LEMMA ChecksAre ==
  ASSUME NEW checks \in [var : {"pass", "fail"}, usr : {"pass", "fail"}, plex : Results]
  PROVE  /\ (Failures(checks) = {"plex"}) => checks.plex = "fail" /\ checks.var = "pass" /\ checks.usr = "pass"
         /\ (Failures(checks) # {"plex"} /\ Failures(checks) # {}) => checks.var = "fail" \/ checks.usr = "fail"
         /\ (Failures(checks) = {}) => checks.var = "pass" /\ checks.usr = "pass" /\ checks.plex # "fail" /\ IsHealthy(checks)
<1>1. checks["var"] = checks.var /\ checks["usr"] = checks.usr /\ checks["plex"] = checks.plex
  OBVIOUS
<1>2. /\ ("var" \in Failures(checks) <=> checks.var = "fail") /\ ("usr" \in Failures(checks) <=> checks.usr = "fail")
      /\ ("plex" \in Failures(checks) <=> checks.plex = "fail") /\ Failures(checks) \subseteq {"var", "usr", "plex"}
  BY <1>1 DEF Failures, Checks
<1>3. checks.var \in {"pass", "fail"} /\ checks.usr \in {"pass", "fail"}
  OBVIOUS
<1>4. checks.var = "pass" /\ Failures(checks) = {} => IsHealthy(checks)
  BY <1>1 DEF IsHealthy, Checks
<1> QED
  BY <1>2, <1>3, <1>4

LEMMA AddressesAre ==
  ASSUME machine \in Machines
  PROVE  /\ Addresses(machine) \subseteq Nat
         /\ (Addresses(machine) = {}) <=> (machine.up = {})
         /\ Nameable(Addresses(machine)) # {} => PreferCovered(Addresses(machine)) \in Nameable(Addresses(machine))
<1>1. DOMAIN Ports \subseteq Nat /\ machine.up \subseteq ToSet(Ports)
  BY NewestIs DEF Machines
<1>2. Addresses(machine) \subseteq Nat /\ Nameable(Addresses(machine)) \in SUBSET Nat
  BY <1>1 DEF Addresses, Nameable
<1>3. (Addresses(machine) = {}) <=> (machine.up = {})
  BY <1>1 DEF Addresses, ToSet
<1>4. ASSUME NEW S \in SUBSET Nat, S # {} PROVE Min(S) \in S
  <2>1. PICK i \in S : \A j \in S : i <= j
    BY <1>4, Least
  <2> QED
    BY <2>1, Zenon DEF Min
<1> QED
  BY <1>2, <1>3, <1>4 DEF PreferCovered

LEMMA DrawnKeeps == ASSUME StandingInv, UNCHANGED faults, Drawn PROVE StandingInv'
<1> DEFINE addresses == Addresses(machine)
<1> DEFINE first == IF addresses = {} THEN 0 ELSE PreferCovered(addresses)
<1> DEFINE checks == reader.checks
<1> DEFINE verdict == Verdict(checks, addresses)
<1> DEFINE healthy == IsHealthy(checks)
<1> DEFINE interface == IF first = 0 THEN 0 ELSE InterfaceOf(machine, Address[Ports[first]])
<1> DEFINE r == [what |-> "screen", at |-> "verdict", verdict |-> verdict, healthy |-> healthy, addresses |-> addresses, first |-> first,
                 interface |-> interface, failed |-> note]
<1>1. reader.what = "screen" /\ reader.at = "addresses" /\ reader # NoReader /\ ReaderGoes(r)
  BY NoReaderIs DEF Drawn
<1>2. /\ machine \in Machines /\ Sayings(machine) \subseteq seen
      /\ checks \in [var : {"pass", "fail"}, usr : {"pass", "fail"}, plex : Results]
      /\ <<"var", checks.var>> \in seen /\ <<"usr", checks.usr>> \in seen /\ <<"plex", checks.plex>> \in seen
  BY <1>1, SaidNow DEF Half, OnScreen
<1> HIDE DEF checks
<1>3. /\ Recovered => verdict = "recovered"
      /\ ~Recovered /\ addresses = {} => verdict = "no-network"
      /\ ~Recovered /\ addresses # {} /\ Failures(checks) = {"plex"} => verdict = "plex-down"
      /\ ~Recovered /\ addresses # {} /\ Failures(checks) # {"plex"} /\ Failures(checks) # {} => verdict = "unhealthy"
      /\ ~Recovered /\ addresses # {} /\ Failures(checks) = {} => verdict = IF checks.plex \in {"pass", "fail"} THEN "working" ELSE "needs-setup"
  BY DEF Verdict, OnlyPlexFailed, PlexIs
<1>4. (addresses = {} => machine.up = {}) /\ (addresses # {} => machine.up # {}) /\ (Nameable(addresses) # {} => first \in Nameable(addresses))
  BY <1>2, AddressesAre DEF Nameable
<1>5. <<"address", Word(machine.up # {})>> \in seen
  BY <1>2, SaidIs
<1>6. r.what = "screen" /\ r.at = "verdict" /\ r.verdict = verdict /\ r.healthy = healthy /\ r.addresses = addresses /\ r.first = first
  <2> HIDE DEF verdict, healthy, addresses, first, interface
  <2> QED
    OBVIOUS
<1>7. ~Happens("unstamped") => (Recovered <=> \E v \in undone : note = v /\ release.running < v)
  <2> SUFFICES ASSUME ~Happens("unstamped") PROVE Recovered <=> \E v \in undone : note = v /\ release.running < v
    OBVIOUS
  <2>1. release.running \in Nat /\ release.other \in Nat /\ note \in Int /\ undone \subseteq 1..Newest /\ note # Nameless
    BY NewestIs DEF StandingInv, StandTyped, Slots, NoRecord, Noted
  <2>2. note = NoRecord \/ note \in undone \/ note <= release.other \/ note = release.running
    BY DEF StandingInv, Noted
  <2>3. release.other <= release.running
    BY DEF StandingInv, Noted
  <2>4. Recovered <=> note # NoRecord /\ release.running < note
    BY <2>1 DEF Recovered, StillCurrent
  <2> QED
    BY <2>1, <2>2, <2>3, <2>4, NewestIs DEF NoRecord
<1> HIDE DEF r, first, healthy, interface
<1>8. /\ verdict = "recovered" <=> Recovered
      /\ verdict = "no-network" => addresses = {}
      /\ verdict \notin {"recovered", "no-network"} => addresses # {}
      /\ verdict = "plex-down" => Failures(checks) = {"plex"}
      /\ verdict = "unhealthy" => Failures(checks) # {"plex"} /\ Failures(checks) # {}
      /\ verdict = "needs-setup" => Failures(checks) = {} /\ checks.plex \notin {"pass", "fail"}
      /\ verdict = "working" => Failures(checks) = {} /\ checks.plex \in {"pass", "fail"}
      /\ verdict \in {"recovered", "no-network", "plex-down", "unhealthy", "needs-setup", "working"}
  <2> HIDE DEF verdict, addresses
  <2> QED
    BY <1>3
<1> HIDE DEF verdict
<1>9. HeadlineIsTrue'
  <2>1. reader' = r /\ UNCHANGED <<release, note, undone, machine, seen>>
    BY <1>1 DEF ReaderGoes
  <2>2. ~Happens("unstamped") => ((verdict = "recovered") <=> (\E v \in undone : note = v /\ release.running < v))
    BY <1>7, <1>8
  <2>3. verdict = "no-network" => <<"address", "no">> \in seen
    BY <1>4, <1>5, <1>8 DEF Word
  <2>4. verdict \notin {"recovered", "no-network"} => <<"address", "yes">> \in seen
    BY <1>4, <1>5, <1>8 DEF Word
  <2>5. verdict = "plex-down" => <<"plex", "fail">> \in seen /\ <<"var", "pass">> \in seen /\ <<"usr", "pass">> \in seen
    BY <1>2, <1>8, ChecksAre
  <2>6. verdict = "unhealthy" => (<<"var", "fail">> \in seen \/ <<"usr", "fail">> \in seen)
    BY <1>2, <1>8, ChecksAre
  <2>7. verdict = "needs-setup" => <<"plex", "n/a">> \in seen /\ healthy
    BY <1>2, <1>8, ChecksAre DEF healthy, Results
  <2>8. Mark(verdict) = "good" => healthy /\ \A c \in Checks : <<c, "pass">> \in seen
    <3>1. Mark(verdict) = "good" => verdict = "working"
      BY DEF Mark
    <3>2. verdict = "working" => healthy /\ checks.var = "pass" /\ checks.usr = "pass" /\ checks.plex = "pass"
      BY <1>2, <1>8, ChecksAre DEF healthy
    <3> QED
      BY <1>2, <3>1, <3>2 DEF Checks
  <2> HIDE DEF addresses
  <2> QED
    BY <1>4, <1>6, <2>1, <2>2, <2>3, <2>4, <2>5, <2>6, <2>7, <2>8 DEF HeadlineIsTrue, Was, Happens, Nameable
<1>10. SetupIsHonest' /\ FirstThingFirst'
  BY <1>1, <1>6 DEF ReaderGoes, SetupIsHonest, FirstThingFirst
<1>11. Half(r, seen)
  BY <1>6 DEF Half, OnScreen
<1> QED
  BY <1>1, <1>6, <1>9, <1>10, <1>11, ReaderStands

LEMMA ReportedKeeps == ASSUME StandingInv, UNCHANGED faults, Reported PROVE StandingInv'
<1> DEFINE facts == [configured |-> reader.configured, library |-> reader.library, installed |-> reader.installed, claimed |-> Claimed]
<1> DEFINE steps == Marked(facts)
<1> DEFINE complete == Complete(steps)
<1> DEFINE r == [what |-> "wizard", at |-> "steps", steps |-> steps, complete |-> complete]
<1>1. reader.what = "wizard" /\ reader.at = "claimed" /\ reader # NoReader /\ ReaderGoes(r)
  BY NoReaderIs DEF Reported
<1>2. /\ machine \in Machines /\ Sayings(machine) \subseteq seen
      /\ reader.answering \in BOOLEAN /\ <<"answering", Word(reader.answering)>> \in seen
      /\ reader.installed \in BOOLEAN /\ <<"mounted", Word(reader.installed)>> \in seen
  BY <1>1, SaidNow DEF Half, InWizard
<1>3. <<"answering", Word(machine.answering)>> \in seen /\ <<"claimed", Word(machine.claimed)>> \in seen
  BY <1>2, SaidIs
<1>4. DOMAIN Steps = 1..5 /\ Steps[1] = "network" /\ Steps[2] = "identity" /\ Steps[3] = "shares" /\ Steps[4] = "plex" /\ Steps[5] = "claim-plex"
  BY DEF Steps
<1>5. facts.installed = reader.installed /\ facts.claimed = Claimed
  OBVIOUS
<1> HIDE DEF facts
<1>6. /\ DOMAIN steps = 1..5
      /\ \A i \in 1..5 : steps[i] = IF Done(facts, Steps[i]) THEN "done" ELSE IF \E j \in 1..(i - 1) : ~Done(facts, Steps[j]) THEN "later" ELSE "next"
  BY <1>4 DEF Marked
<1> HIDE DEF steps
<1>7. \A i \in 1..5 : (steps[i] = "done") <=> Done(facts, Steps[i])
  BY <1>6
<1>8. complete <=> reader.installed /\ Claimed
  <2>1. Done(facts, "network") /\ (Done(facts, "plex") <=> reader.installed) /\ (Done(facts, "claim-plex") <=> Claimed)
    BY <1>5 DEF Done
  <2>2. complete <=> steps[1] = "done" /\ steps[4] = "done" /\ steps[5] = "done"
    BY <1>4 DEF Complete, Required
  <2>3. 1 \in 1..5 /\ 4 \in 1..5 /\ 5 \in 1..5
    OBVIOUS
  <2> QED
    BY <1>4, <1>7, <2>1, <2>2, <2>3
<1> HIDE DEF complete
<1>9. r.what = "wizard" /\ r.at = "steps" /\ r.steps = steps /\ r.complete = complete
  OBVIOUS
<1> HIDE DEF r
<1>10. reader' = r /\ seen' = seen
  BY <1>1 DEF ReaderGoes
<1>11. SetupIsHonest'
  <2>1. complete => <<"mounted", "yes">> \in seen /\ <<"claimed", "yes">> \in seen /\ <<"answering", "yes">> \in seen
    BY <1>2, <1>3, <1>8 DEF Claimed, Word
  <2>2. ~complete => (<<"mounted", "no">> \in seen \/ <<"claimed", "no">> \in seen \/ <<"answering", "no">> \in seen)
    BY <1>2, <1>3, <1>8 DEF Claimed, Word
  <2>3. \A i \in 1..5 : (steps[i] = "next") <=> (steps[i] # "done" /\ \A j \in 1..(i - 1) : steps[j] = "done")
    <3> SUFFICES ASSUME NEW i \in 1..5 PROVE (steps[i] = "next") <=> (steps[i] # "done" /\ \A j \in 1..(i - 1) : steps[j] = "done")
      OBVIOUS
    <3>1. \A j \in 1..(i - 1) : j \in 1..5
      OBVIOUS
    <3>2. (\A j \in 1..(i - 1) : steps[j] = "done") <=> ~(\E j \in 1..(i - 1) : ~Done(facts, Steps[j]))
      BY <1>7, <3>1
    <3> QED
      BY <1>6, <1>7, <3>2
  <2> QED
    BY <1>4, <1>9, <1>10, <2>1, <2>2, <2>3 DEF SetupIsHonest, Was
<1>12. HeadlineIsTrue' /\ FirstThingFirst'
  BY <1>9, <1>10 DEF HeadlineIsTrue, FirstThingFirst
<1>13. Half(r, seen)
  BY <1>9 DEF Half, InWizard
<1> QED
  BY <1>1, <1>9, <1>11, <1>12, <1>13, ReaderStands

LEMMA DiagnosedKeeps == ASSUME StandingInv, UNCHANGED faults, Diagnosed PROVE StandingInv'
<1>1. PICK lookup \in Lookup : ReaderGoes([what |-> "diagnosis", at |-> "remedies", remedies |-> Remedies(reader.route, reader.resolver, lookup)])
  BY DEF Diagnosed
<1>2. reader.what = "diagnosis" /\ reader.at = "lookup" /\ reader # NoReader
  BY NoReaderIs DEF Diagnosed
<1>3. /\ machine \in Machines /\ Sayings(machine) \subseteq seen
      /\ reader.route \in BOOLEAN /\ <<"route", Word(reader.route)>> \in seen
      /\ reader.resolver \in Resolvers /\ <<"resolver", reader.resolver>> \in seen
  BY <1>2, SaidNow DEF Half, InDiagnosis
<1>4. lookup = "resolved" => <<"upstream", "answers">> \in seen
  <2>1. lookup = "resolved" => machine.upstream = "answers"
    BY DEF Lookup
  <2> QED
    BY <1>3, <2>1, SaidIs
<1> DEFINE remedies == Remedies(reader.route, reader.resolver, lookup)
<1> DEFINE r == [what |-> "diagnosis", at |-> "remedies", remedies |-> remedies]
<1>5. /\ remedies = <<>> => reader.route /\ reader.resolver = "good" /\ lookup = "resolved"
      /\ remedies # <<>> /\ remedies[1] # "route" => reader.route
      /\ remedies # <<>> /\ remedies[1] = "lookup" => reader.resolver = "good"
      /\ remedies # <<>> /\ remedies[1] = "route" => ~reader.route
  <2>1. CASE ~reader.route
    <3> DEFINE layers == (IF reader.route THEN <<>> ELSE <<"route">>) \o (IF reader.resolver = "good" THEN <<>> ELSE <<"resolver">>)
    <3> DEFINE last == IF lookup = "resolved" THEN <<>> ELSE <<"lookup">>
    <3>1. remedies = layers \o last
      BY DEF Remedies
    <3>2. layers \in Seq({"route", "resolver"}) /\ Len(layers) > 0 /\ layers[1] = "route"
      <4> DEFINE above == IF reader.resolver = "good" THEN <<>> ELSE <<"resolver">>
      <4>1. layers = <<"route">> \o above
        BY <2>1
      <4>2. above \in Seq({"route", "resolver"})
        <5>1. <<>> \in Seq({"route", "resolver"}) /\ <<"resolver">> \in Seq({"route", "resolver"})
          OBVIOUS
        <5> QED
          BY <5>1
      <4> HIDE DEF above, layers
      <4> QED
        BY <4>1, <4>2
    <3>3. last \in Seq({"lookup"})
      OBVIOUS
    <3> HIDE DEF layers, last, remedies
    <3>4. remedies[1] = "route" /\ remedies # <<>>
      BY <3>1, <3>2, <3>3
    <3> QED
      BY <2>1, <3>4
  <2>2. CASE reader.route /\ reader.resolver # "good"
    <3> DEFINE layers == (IF reader.route THEN <<>> ELSE <<"route">>) \o (IF reader.resolver = "good" THEN <<>> ELSE <<"resolver">>)
    <3> DEFINE last == IF lookup = "resolved" THEN <<>> ELSE <<"lookup">>
    <3>1. remedies = layers \o last
      BY DEF Remedies
    <3>2. layers \in Seq({"route", "resolver"}) /\ Len(layers) > 0 /\ layers[1] = "resolver"
      BY <2>2
    <3>3. last \in Seq({"lookup"})
      OBVIOUS
    <3> HIDE DEF layers, last, remedies
    <3>4. remedies[1] = "resolver" /\ remedies # <<>>
      BY <3>1, <3>2, <3>3
    <3> QED
      BY <2>2, <3>4
  <2>3. CASE reader.route /\ reader.resolver = "good"
    <3>1. remedies = IF lookup = "resolved" THEN <<>> ELSE <<"lookup">>
      BY <2>3 DEF Remedies
    <3> HIDE DEF remedies
    <3> QED
      BY <2>3, <3>1
  <2> QED
    BY <2>1, <2>2, <2>3
<1> HIDE DEF remedies
<1>6. r.what = "diagnosis" /\ r.at = "remedies" /\ r.remedies = remedies
  OBVIOUS
<1>7. reader' = r /\ seen' = seen
  BY <1>1 DEF ReaderGoes, remedies
<1> HIDE DEF r
<1>8. FirstThingFirst'
  BY <1>3, <1>4, <1>5, <1>6, <1>7 DEF FirstThingFirst, Was, Word
<1>9. HeadlineIsTrue' /\ SetupIsHonest'
  BY <1>6, <1>7 DEF HeadlineIsTrue, SetupIsHonest
<1>10. Half(r, seen)
  BY <1>6 DEF Half, InDiagnosis
<1> QED
  BY <1>1, <1>2, <1>6, <1>8, <1>9, <1>10, ReaderStands DEF r, remedies

LEMMA StandingGoesOn == StandingInv /\ [StandingNext]_standing /\ UNCHANGED faults => StandingInv'
<1> SUFFICES ASSUME StandingInv, [StandingNext]_standing, UNCHANGED faults PROVE StandingInv'
  OBVIOUS
<1>1. CASE UNCHANGED standing
  <2>1. UNCHANGED <<release, note, undone, machine, reader, seen>>
    BY <1>1 DEF standing
  <2> QED
    BY <2>1 DEF StandingInv, StandTyped, Noted, Watched, Half, OnScreen, InWizard, InDiagnosis, HeadlineIsTrue, SetupIsHonest, FirstThingFirst, Was, Happens
<1>2. CASE StandingNext
  BY <1>2, ReleasesKeep, ChangesKeep, RequestsKeep, GatherKeeps, DrawnKeeps, ObserveKeeps, ReportedKeeps, ReadsKeep, DiagnosedKeeps DEF StandingNext
<1> QED
  BY <1>1, <1>2

LEMMA StandingIsAsSaid == StandingInv => StandingTypeOK /\ HeadlineIsTrue /\ SetupIsHonest /\ FirstThingFirst
BY NoReaderIs DEF StandingInv, StandTyped, Slots, Machines, StandingTypeOK, Half

-----------------------------------------------------------------------------
(* Keys.  Whoever is in no hurry has one key under way; and every Escape made was owed, for it was struck bare. *)

Heards == Bytes \cup {"escape", "up"}

KeysTyped ==
  /\ wire \in Seq(Bytes) /\ pending \in Seq(Bytes) /\ pass \in {"over", "settled", "more"}
  /\ strokes \in 0..Strokes /\ meant \in Seq(DOMAIN Sends) /\ heard \in Seq(Heards)

HeldIsShort == pass = "over" => Len(pending) <= 3

(* Only "delete" has a digit, and its end follows it. *)
EndsFollow ==
  /\ \A i \in 1..Len(wire) : wire[i] \in Digits => i < Len(wire) /\ wire[i + 1] = "tilde"
  /\ \A i \in 1..Len(pending) : pending[i] \in Digits =>
       IF i < Len(pending) THEN pending[i + 1] = "tilde" ELSE Len(wire) > 0 /\ wire[1] = "tilde"

MeantOf(key) == IF Meant(key) THEN <<key>> ELSE <<>>

OneUnderWay ==
  ~Happens("hurry") /\ ~Happens("slow") =>
    /\ pass = "settled" /\ pending # <<>> => wire = <<>>
    /\ \/ pending \o wire = <<>> /\ heard = meant
       \/ \E key \in DOMAIN Sends : pending \o wire = Sends[key] /\ meant = heard \o MeantOf(key)

EndsBare(s) == Len(s) > 0 /\ s[Len(s)] = Esc
OwedNow  == IF pass = "settled" /\ EndsBare(pending) THEN 1 ELSE 0
OwedNext == IF EndsBare(wire) \/ (Len(wire) = 0 /\ pass # "settled" /\ EndsBare(pending)) THEN 1 ELSE 0
EscapesOwed == ~Happens("slow") => Cardinality(Cancels(heard)) + OwedNow + OwedNext <= Cardinality(Cancels(meant))

KeyboardInv == KeysTyped /\ HeldIsShort /\ EndsFollow /\ OneUnderWay /\ EscapesOwed

LEMMA SendsAre ==
  /\ DOMAIN Sends = {"escape", "up", "x", "back_tab", "delete", "alt_x"}
  /\ Sends["escape"] = <<Esc>> /\ Sends["up"] = <<Esc, "bracket", "A">> /\ Sends["x"] = <<"x">>
  /\ Sends["back_tab"] = <<Esc, "bracket", "x">> /\ Sends["delete"] = <<Esc, "bracket", "3", "tilde">> /\ Sends["alt_x"] = <<Esc, "x">>
BY DEF Sends

LEMMA BytesAre == Bytes = {"esc", "bracket", "tilde", "A", "x", "3"} /\ Esc = "esc" /\ Digits = {"3"} /\ Letters = {"A", "x"}
BY DEF Bytes, Esc, Digits, Letters

LEMMA SentIs ==
  ASSUME NEW key \in DOMAIN Sends
  PROVE  /\ Sends[key] \in Seq(Bytes) /\ Len(Sends[key]) > 0 /\ (EndsBare(Sends[key]) => key = "escape")
         /\ \A i \in 1..Len(Sends[key]) : Sends[key][i] \in Digits => i < Len(Sends[key]) /\ Sends[key][i + 1] = "tilde"
<1>1. CASE key = "escape"
  BY <1>1, SendsAre, BytesAre
<1>2. CASE key = "up"
  BY <1>2, SendsAre, BytesAre DEF EndsBare
<1>3. CASE key = "x"
  BY <1>3, SendsAre, BytesAre DEF EndsBare
<1>4. CASE key = "delete"
  BY <1>4, SendsAre, BytesAre DEF EndsBare
<1>5. CASE key = "alt_x"
  BY <1>5, SendsAre, BytesAre DEF EndsBare
<1>6. CASE key = "back_tab"
  BY <1>6, SendsAre, BytesAre DEF EndsBare
<1> QED
  BY <1>1, <1>2, <1>3, <1>4, <1>5, <1>6, SendsAre

(* Counting the cancellations among keys. *)
LEMMA CancelsCounted ==
  ASSUME NEW S, NEW keys \in Seq(S)
  PROVE  IsFiniteSet(Cancels(keys)) /\ Cardinality(Cancels(keys)) \in Nat
<1>1. IsFiniteSet(1..Len(keys)) /\ Cancels(keys) \in SUBSET (1..Len(keys))
  BY FS_Interval DEF Cancels
<1> QED
  BY <1>1, FS_Subset, FS_CardinalityType

LEMMA CancelsMore ==
  ASSUME NEW S, NEW keys \in Seq(S), NEW key \in S
  PROVE  Cardinality(Cancels(Append(keys, key))) = Cardinality(Cancels(keys)) + (IF key = "escape" THEN 1 ELSE 0)
<1> DEFINE n == Len(keys) + 1
<1> DEFINE more == Append(keys, key)
<1>1. n \notin Cancels(keys) /\ DOMAIN more = 1..n /\ more[n] = key /\ \A i \in 1..Len(keys) : more[i] = keys[i]
  BY DEF Cancels
<1> HIDE DEF more
<1>2. CASE key = "escape"
  <2>1. Cancels(more) = Cancels(keys) \cup {n}
    BY <1>1, <1>2 DEF Cancels
  <2>2. Cardinality(Cancels(keys) \cup {n}) = Cardinality(Cancels(keys)) + 1
    BY <1>1, CancelsCounted, FS_AddElement
  <2> QED
    BY <1>2, <2>1, <2>2 DEF more
<1>3. CASE key # "escape"
  <2>1. Cancels(more) = Cancels(keys)
    BY <1>1, <1>3 DEF Cancels
  <2> QED
    BY <1>3, <2>1, CancelsCounted DEF more
<1> QED
  BY <1>2, <1>3

LEMMA KeyboardStarts == KeyboardInit => KeyboardInv
<1> SUFFICES ASSUME KeyboardInit PROVE KeyboardInv
  OBVIOUS
<1>1. wire = <<>> /\ pending = <<>> /\ pass = "over" /\ strokes = 0 /\ meant = <<>> /\ heard = <<>>
  BY DEF KeyboardInit
<1>2. KeysTyped /\ HeldIsShort /\ EndsFollow
  BY <1>1, KeyboardAssumption DEF KeysTyped, HeldIsShort, EndsFollow
<1>3. OneUnderWay
  BY <1>1 DEF OneUnderWay
<1>4. EscapesOwed
  <2>1. OwedNow = 0 /\ OwedNext = 0
    BY <1>1 DEF OwedNow, OwedNext, EndsBare
  <2>2. heard = meant /\ Cardinality(Cancels(heard)) \in Nat
    BY <1>1, <1>2, CancelsCounted DEF KeysTyped
  <2> QED
    BY <2>1, <2>2 DEF EscapesOwed
<1> QED
  BY <1>2, <1>3, <1>4 DEF KeyboardInv

LEMMA OweLess ==
  /\ OwedNow \in {0, 1} /\ OwedNext \in {0, 1} /\ OwedNow' \in {0, 1} /\ OwedNext' \in {0, 1}
BY DEF OwedNow, OwedNext

LEMMA KeysAre ==
  ASSUME KeyboardInv
  PROVE  /\ KeysTyped /\ Len(wire) \in Nat /\ Len(pending) \in Nat
         /\ Cardinality(Cancels(heard)) \in Nat /\ Cardinality(Cancels(meant)) \in Nat
BY CancelsCounted DEF KeyboardInv, KeysTyped

LEMMA StrikeKeeps ==
  ASSUME KeyboardInv, UNCHANGED faults, NEW key \in DOMAIN Sends, Strike(key)
  PROVE  KeyboardInv'
<1>1. /\ strokes < Strokes /\ strokes' = strokes + 1 /\ (wire # <<>> \/ pending # <<>> => Happens("hurry"))
      /\ wire' = wire \o Sends[key] /\ UNCHANGED <<pending, pass, heard>>
      /\ meant' = IF Meant(key) THEN Append(meant, key) ELSE meant
  BY DEF Strike
<1> DEFINE sent == Sends[key]
<1>2. /\ sent \in Seq(Bytes) /\ Len(sent) \in Nat /\ Len(sent) > 0 /\ (EndsBare(sent) => key = "escape")
      /\ \A i \in 1..Len(sent) : sent[i] \in Digits => i < Len(sent) /\ sent[i + 1] = "tilde"
  BY SentIs
<1>3. wire' = wire \o sent
  BY <1>1
<1> HIDE DEF sent
<1>4. /\ wire' \in Seq(Bytes) /\ Len(wire') = Len(wire) + Len(sent)
      /\ \A i \in 1..(Len(wire) + Len(sent)) : wire'[i] = IF i <= Len(wire) THEN wire[i] ELSE sent[i - Len(wire)]
  BY <1>2, <1>3, KeysAre DEF KeysTyped
<1>5. KeysTyped'
  <2>1. meant' \in Seq(DOMAIN Sends)
    <3>1. meant \in Seq(DOMAIN Sends)
      BY KeysAre DEF KeysTyped
    <3> HIDE DEF KeysTyped
    <3>2. Append(meant, key) \in Seq(DOMAIN Sends)
      BY <3>1
    <3> QED
      BY <1>1, <3>1, <3>2
  <2>2. strokes' \in 0..Strokes
    BY <1>1, KeysAre, KeyboardAssumption DEF KeysTyped
  <2> QED
    BY <1>1, <1>4, <2>1, <2>2, KeysAre DEF KeysTyped
<1>6. HeldIsShort'
  BY <1>1 DEF KeyboardInv, HeldIsShort
<1>7. EndsFollow'
  <2>1. \A i \in 1..Len(wire') : wire'[i] \in Digits => i < Len(wire') /\ wire'[i + 1] = "tilde"
    <3> SUFFICES ASSUME NEW i \in 1..(Len(wire) + Len(sent)), wire'[i] \in Digits PROVE i < Len(wire) + Len(sent) /\ wire'[i + 1] = "tilde"
      BY <1>4
    <3>1. CASE i <= Len(wire)
      <4>1. i \in 1..Len(wire) /\ wire'[i] = wire[i]
        BY <1>2, <1>4, <3>1, KeysAre
      <4>2. i < Len(wire) /\ wire[i + 1] = "tilde"
        BY <4>1 DEF KeyboardInv, EndsFollow
      <4> QED
        BY <1>2, <1>4, <4>1, <4>2, KeysAre
    <3>2. CASE i > Len(wire)
      <4> DEFINE j == i - Len(wire)
      <4>1. j \in 1..Len(sent) /\ wire'[i] = sent[j]
        BY <1>2, <1>4, <3>2, KeysAre
      <4>2. j < Len(sent) /\ sent[j + 1] = "tilde"
        BY <1>2, <4>1
      <4>3. i + 1 \in 1..(Len(wire) + Len(sent)) /\ ~(i + 1 <= Len(wire)) /\ (i + 1) - Len(wire) = j + 1
        BY <1>2, <3>2, <4>2, KeysAre
      <4> HIDE DEF j
      <4> QED
        BY <1>2, <1>4, <4>2, <4>3, KeysAre
    <3> QED
      BY <1>2, <3>1, <3>2, KeysAre
  <2>2. Len(wire) > 0 => wire'[1] = wire[1]
    BY <1>2, <1>4, KeysAre
  <2>3. ASSUME NEW i \in 1..Len(pending), pending[i] \in Digits
        PROVE  IF i < Len(pending) THEN pending[i + 1] = "tilde" ELSE Len(wire') > 0 /\ wire'[1] = "tilde"
    <3>1. IF i < Len(pending) THEN pending[i + 1] = "tilde" ELSE Len(wire) > 0 /\ wire[1] = "tilde"
      BY <2>3 DEF KeyboardInv, EndsFollow
    <3>2. Len(wire') >= Len(wire)
      BY <1>2, <1>4, KeysAre
    <3> QED
      BY <1>4, <2>2, <3>1, <3>2, KeysAre
  <2> QED
    BY <1>1, <2>1, <2>3 DEF EndsFollow
<1>8. OneUnderWay'
  <2> SUFFICES ASSUME ~Happens("hurry"), ~Happens("slow") PROVE OneUnderWay'
    BY DEF OneUnderWay, Happens
  <2>1. wire = <<>> /\ pending = <<>>
    BY <1>1
  <2>2. heard = meant
    <3>1. \A k \in DOMAIN Sends : Sends[k] # <<>>
      BY SentIs
    <3> QED
      BY <2>1, <3>1, KeysAre DEF KeyboardInv, OneUnderWay
  <2>3. pending' = <<>> /\ wire' = sent
    BY <1>1, <1>2, <1>3, <2>1
  <2>4. pending' \o wire' = sent
    BY <1>2, <2>3
  <2>5. meant' = heard' \o MeantOf(key)
    <3>1. heard' = meant /\ meant \in Seq(DOMAIN Sends)
      BY <1>1, <2>2, KeysAre DEF KeysTyped
    <3> QED
      BY <1>1, <3>1 DEF MeantOf
  <2>6. pending' \o wire' = Sends[key]
    BY <2>4 DEF sent
  <2> QED
    BY <2>3, <2>5, <2>6 DEF OneUnderWay
<1>9. EscapesOwed'
  <2> SUFFICES ASSUME ~Happens("slow") PROVE EscapesOwed'
    BY DEF EscapesOwed, Happens
  <2>1. OwedNow' = OwedNow
    BY <1>1 DEF OwedNow, EndsBare
  <2>2. OwedNext' <= IF key = "escape" THEN 1 ELSE 0
    <3>1. EndsBare(wire') <=> EndsBare(sent)
      BY <1>2, <1>4, KeysAre DEF EndsBare
    <3>2. Len(wire') # 0
      BY <1>2, <1>4, KeysAre
    <3> QED
      BY <1>2, <3>1, <3>2 DEF OwedNext, EndsBare
  <2>3. Cardinality(Cancels(meant')) = Cardinality(Cancels(meant)) + (IF key = "escape" THEN 1 ELSE 0)
    <3>1. CASE Meant(key)
      BY <1>1, <3>1, KeysAre, CancelsMore DEF KeysTyped
    <3>2. CASE ~Meant(key)
      BY <1>1, <3>2, KeysAre DEF Meant
    <3> QED
      BY <3>1, <3>2
  <2> DEFINE before == Cardinality(Cancels(heard))
  <2> DEFINE after == Cardinality(Cancels(meant))
  <2>4. before \in Nat /\ after \in Nat /\ before + OwedNow + OwedNext <= after
    BY KeysAre DEF KeyboardInv, EscapesOwed
  <2>5. Cardinality(Cancels(heard')) = before
    BY <1>1
  <2>6. Cardinality(Cancels(meant')) = after + (IF key = "escape" THEN 1 ELSE 0)
    BY <2>3
  <2> HIDE DEF before, after
  <2>7. before + OwedNow' + OwedNext' <= after + (IF key = "escape" THEN 1 ELSE 0)
    <3> DEFINE now == OwedNow
    <3> DEFINE next == OwedNext
    <3> DEFINE later == OwedNext'
    <3> DEFINE struck == IF key = "escape" THEN 1 ELSE 0
    <3>1. now \in {0, 1} /\ next \in {0, 1} /\ later \in {0, 1} /\ struck \in {0, 1} /\ later <= struck /\ before + now + next <= after
      BY <2>2, <2>4, OweLess
    <3> HIDE DEF now, next, later, struck
    <3>2. before + now + later <= after + struck
      BY <2>4, <3>1
    <3> QED
      BY <2>1, <3>2 DEF now, later, struck
  <2> QED
    BY <2>5, <2>6, <2>7 DEF EscapesOwed
<1> QED
  BY <1>5, <1>6, <1>7, <1>8, <1>9 DEF KeyboardInv

LEMMA CollectKeeps ==
  ASSUME KeyboardInv, UNCHANGED faults, Collect
  PROVE  KeyboardInv'
<1>1. PICK n \in 0..Len(wire) :
        /\ pass = "over" /\ (n = 0 /\ wire # <<>> => Happens("slow"))
        /\ pending' = pending \o SubSeq(wire, 1, n) /\ wire' = SubSeq(wire, n + 1, Len(wire))
        /\ pass' = IF n = 0 THEN "settled" ELSE "more"
        /\ UNCHANGED <<strokes, meant, heard>>
  BY DEF Collect
<1> DEFINE L == Len(wire)
<1> DEFINE P == Len(pending)
<1> DEFINE new == SubSeq(wire, 1, n)
<1>2. n \in 0..L /\ L \in Nat /\ P \in Nat /\ wire \in Seq(Bytes) /\ pending \in Seq(Bytes)
  BY KeysAre DEF KeysTyped
<1>3. new \in Seq(Bytes) /\ Len(new) = n /\ \A i \in 1..n : new[i] = wire[i]
  BY <1>2
<1>4. pending' = pending \o new
  BY <1>1
<1> HIDE DEF new
<1>5. pending' \in Seq(Bytes) /\ Len(pending') = P + n /\ \A i \in 1..(P + n) : pending'[i] = IF i <= P THEN pending[i] ELSE wire[i - P]
  <2>1. /\ pending \o new \in Seq(Bytes) /\ Len(pending \o new) = Len(pending) + Len(new)
        /\ \A i \in 1..Len(pending) + Len(new) : (pending \o new)[i] = IF i <= Len(pending) THEN pending[i] ELSE new[i - Len(pending)]
    BY <1>2, <1>3, ConcatProperties
  <2>2. pending' \in Seq(Bytes) /\ Len(pending') = P + n /\ \A i \in 1..(P + n) : pending'[i] = IF i <= P THEN pending[i] ELSE new[i - P]
    BY <1>3, <1>4, <2>1
  <2> HIDE DEF P
  <2>3. ASSUME NEW i \in 1..(P + n), i > P PROVE new[i - P] = wire[i - P]
    <3>1. i - P \in 1..n
      BY <1>2, <2>3
    <3> QED
      BY <1>3, <3>1
  <2>4. ASSUME NEW i \in 1..(P + n) PROVE pending'[i] = IF i <= P THEN pending[i] ELSE wire[i - P]
    <3>1. CASE i <= P
      BY <2>2, <3>1
    <3>2. CASE i > P
      <4>1. ~(i <= P)
        BY <1>2, <3>2
      <4> QED
        BY <2>2, <2>3, <3>2, <4>1
    <3> QED
      BY <1>2, <3>1, <3>2
  <2> QED
    BY <2>2, <2>4
<1>6. wire' \in Seq(Bytes) /\ Len(wire') = L - n /\ \A i \in 1..(L - n) : wire'[i] = wire[i + n]
  BY <1>1, <1>2
<1>7. KeysTyped' /\ HeldIsShort'
  BY <1>1, <1>5, <1>6, KeysAre DEF KeysTyped, HeldIsShort
<1>8. EndsFollow'
  <2>0. /\ \A i \in 1..L : wire[i] \in Digits => i < L /\ wire[i + 1] = "tilde"
        /\ \A i \in 1..P : pending[i] \in Digits => IF i < P THEN pending[i + 1] = "tilde" ELSE L > 0 /\ wire[1] = "tilde"
    BY DEF KeyboardInv, EndsFollow
  <2> HIDE DEF L, P
  <2>1. ASSUME NEW i \in 1..(L - n), wire'[i] \in Digits PROVE i < L - n /\ wire'[i + 1] = "tilde"
    <3>1. i + n \in 1..L /\ wire[i + n] \in Digits
      BY <1>2, <1>6, <2>1
    <3>2. i + n < L /\ wire[(i + n) + 1] = "tilde" /\ (i + n) + 1 = (i + 1) + n
      BY <1>2, <2>0, <3>1
    <3>3. i + 1 \in 1..(L - n)
      BY <1>2, <3>1, <3>2
    <3> QED
      BY <1>2, <1>6, <3>1, <3>2, <3>3
  <2>2. ASSUME NEW i \in 1..(P + n), pending'[i] \in Digits
        PROVE  IF i < P + n THEN pending'[i + 1] = "tilde" ELSE L - n > 0 /\ wire'[1] = "tilde"
    <3>1. CASE i <= P
      <4>1. i \in 1..P /\ IF i < P THEN pending[i + 1] = "tilde" ELSE L > 0 /\ wire[1] = "tilde"
        BY <1>2, <1>5, <2>0, <2>2, <3>1
      <4>2. CASE i < P
        BY <1>2, <1>5, <4>1, <4>2
      <4>3. CASE i = P /\ n > 0
        <5>1. i + 1 \in 1..(P + n) /\ ~(i + 1 <= P) /\ (i + 1) - P = 1
          BY <1>2, <4>3
        <5> QED
          BY <1>2, <1>5, <4>1, <4>3, <5>1
      <4>4. CASE i = P /\ n = 0
        <5>1. L - n > 0 /\ 1 \in 1..(L - n) /\ 1 + n = 1
          BY <1>2, <4>1, <4>4
        <5> QED
          BY <1>2, <1>6, <4>1, <4>4, <5>1
      <4> QED
        BY <1>2, <4>1, <4>2, <4>3, <4>4
    <3>2. CASE i > P
      <4> DEFINE j == i - P
      <4>1. j \in 1..n /\ j \in 1..L /\ pending'[i] = wire[j]
        BY <1>2, <1>5, <3>2
      <4>2. j < L /\ wire[j + 1] = "tilde"
        BY <2>0, <2>2, <4>1
      <4>3. CASE j < n
        <5>1. i < P + n /\ i + 1 \in 1..(P + n) /\ ~(i + 1 <= P) /\ (i + 1) - P = j + 1
          BY <1>2, <3>2, <4>3
        <5> HIDE DEF j
        <5> QED
          BY <1>5, <4>2, <5>1
      <4>4. CASE j = n
        <5>1. ~(i < P + n) /\ L - n > 0 /\ 1 \in 1..(L - n) /\ 1 + n = j + 1
          BY <1>2, <3>2, <4>2, <4>4
        <5> HIDE DEF j
        <5> QED
          BY <1>6, <4>2, <5>1
      <4> QED
        BY <1>2, <4>1, <4>3, <4>4
    <3> QED
      BY <1>2, <3>1, <3>2
  <2> QED
    BY <1>5, <1>6, <2>1, <2>2 DEF EndsFollow
<1>9. OneUnderWay'
  <2> SUFFICES ASSUME ~Happens("hurry"), ~Happens("slow") PROVE OneUnderWay'
    BY DEF OneUnderWay, Happens
  <2>1. pending' \o wire' = pending \o wire
    <3> DEFINE s == pending' \o wire'
    <3> DEFINE t == pending \o wire
    <3>1. /\ s \in Seq(Bytes) /\ Len(s) = P + L
          /\ \A i \in 1..(P + L) : s[i] = IF i <= P + n THEN pending'[i] ELSE wire'[i - (P + n)]
      <4>1. /\ s \in Seq(Bytes) /\ Len(s) = Len(pending') + Len(wire')
            /\ \A i \in 1..Len(pending') + Len(wire') : s[i] = IF i <= Len(pending') THEN pending'[i] ELSE wire'[i - Len(pending')]
        BY <1>5, <1>6, ConcatProperties
      <4>2. Len(pending') = P + n /\ Len(wire') = L - n /\ (P + n) + (L - n) = P + L
        BY <1>2, <1>5, <1>6
      <4> HIDE DEF s, P, L
      <4> QED
        BY <4>1, <4>2
    <3>2. t \in Seq(Bytes) /\ Len(t) = P + L /\ \A i \in 1..(P + L) : t[i] = IF i <= P THEN pending[i] ELSE wire[i - P]
      BY <1>2
    <3> HIDE DEF s, t, L, P
    <3>3. ASSUME NEW i \in 1..(P + L) PROVE s[i] = t[i]
      <4>1. CASE i <= P + n
        <5>1. i \in 1..(P + n)
          BY <1>2, <4>1
        <5>2. pending'[i] = IF i <= P THEN pending[i] ELSE wire[i - P]
          BY <1>5, <5>1
        <5> QED
          BY <3>1, <3>2, <4>1, <5>2
      <4>2. CASE i > P + n
        <5>1. i - (P + n) \in 1..(L - n) /\ (i - (P + n)) + n = i - P /\ ~(i <= P) /\ ~(i <= P + n)
          BY <1>2, <4>2
        <5> QED
          BY <1>6, <3>1, <3>2, <5>1
      <4> QED
        BY <1>2, <4>1, <4>2
    <3>4. s = t
      BY <3>1, <3>2, <3>3, SeqEqual
    <3> QED
      BY <3>4 DEF s, t
  <2>2. pass' = "settled" => wire' = <<>>
    <3>1. pass' = "settled" => n = 0 /\ L = 0
      BY <1>1, <1>2
    <3>2. pass' = "settled" => Len(wire') = 0
      BY <1>2, <1>6, <3>1
    <3> QED
      BY <1>6, <3>2, EmptySeq
  <2>3. \/ pending \o wire = <<>> /\ heard = meant
        \/ \E key \in DOMAIN Sends : pending \o wire = Sends[key] /\ meant = heard \o MeantOf(key)
    BY DEF KeyboardInv, OneUnderWay
  <2> QED
    BY <1>1, <2>1, <2>2, <2>3 DEF OneUnderWay
<1>10. EscapesOwed'
  <2> SUFFICES ASSUME ~Happens("slow") PROVE EscapesOwed'
    BY DEF EscapesOwed, Happens
  <2>1. OwedNow = 0
    BY <1>1 DEF OwedNow
  <2>2. OwedNow' + OwedNext' <= OwedNext
    <3>1. CASE n = 0
      <4>1. L = 0 /\ pass' = "settled" /\ pass = "over"
        BY <1>1, <1>2, <3>1
      <4>2. EndsBare(pending') => EndsBare(pending)
        BY <1>2, <1>5, <3>1 DEF EndsBare
      <4>3. OwedNext' = 0
        BY <1>6, <3>1, <4>1 DEF OwedNext, EndsBare
      <4>4. OwedNow' = 1 => OwedNext = 1
        BY <4>1, <4>2 DEF OwedNow, OwedNext, EndsBare
      <4> DEFINE now == OwedNow'
      <4> DEFINE next == OwedNext'
      <4> DEFINE owed == OwedNext
      <4>5. now \in {0, 1} /\ next = 0 /\ owed \in {0, 1} /\ (now = 1 => owed = 1)
        BY <4>3, <4>4, OweLess
      <4> HIDE DEF now, next, owed
      <4>6. now + next <= owed
        BY <4>5
      <4> QED
        BY <4>6 DEF now, next, owed
    <3>2. CASE n > 0
      <4>1. pass' = "more" /\ L > 0
        BY <1>1, <1>2, <3>2
      <4>2. OwedNow' = 0
        BY <4>1 DEF OwedNow
      <4>3. EndsBare(wire') => EndsBare(wire)
        BY <1>2, <1>6, <3>2 DEF EndsBare
      <4>4. Len(wire') = 0 /\ EndsBare(pending') => EndsBare(wire)
        <5> SUFFICES ASSUME L - n = 0, EndsBare(pending') PROVE EndsBare(wire)
          BY <1>6
        <5>1. P + n \in 1..(P + n) /\ ~(P + n <= P) /\ (P + n) - P = L
          BY <1>2, <3>2
        <5>2. pending'[P + n] = wire[L]
          BY <1>5, <5>1
        <5> QED
          BY <1>5, <4>1, <5>2 DEF EndsBare
      <4>5. OwedNext' = 1 => OwedNext = 1
        BY <4>3, <4>4 DEF OwedNext, EndsBare
      <4> DEFINE now == OwedNow'
      <4> DEFINE next == OwedNext'
      <4> DEFINE owed == OwedNext
      <4>6. next \in {0, 1} /\ now = 0 /\ owed \in {0, 1} /\ (next = 1 => owed = 1)
        BY <4>2, <4>5, OweLess
      <4> HIDE DEF now, next, owed
      <4>7. now + next <= owed
        BY <4>6
      <4> QED
        BY <4>7 DEF now, next, owed
    <3> QED
      BY <1>2, <3>1, <3>2
  <2> DEFINE before == Cardinality(Cancels(heard))
  <2> DEFINE after == Cardinality(Cancels(meant))
  <2> DEFINE now == OwedNow'
  <2> DEFINE next == OwedNext'
  <2>3. before \in Nat /\ after \in Nat /\ before + OwedNow + OwedNext <= after /\ now \in {0, 1} /\ next \in {0, 1}
    BY KeysAre, OweLess DEF KeyboardInv, EscapesOwed
  <2>4. Cardinality(Cancels(heard')) = before /\ Cardinality(Cancels(meant')) = after
    BY <1>1
  <2>5. now + next <= OwedNext
    BY <2>2
  <2> HIDE DEF before, after, now, next
  <2>6. before + now + next <= after
    <3> DEFINE owed == OwedNext
    <3>1. owed \in {0, 1} /\ before + owed <= after /\ now + next <= owed
      BY <2>1, <2>3, <2>5, OweLess
    <3> HIDE DEF owed
    <3> QED
      BY <2>3, <3>1
  <2> QED
    BY <2>4, <2>6 DEF EscapesOwed, now, next
<1> QED
  BY <1>7, <1>8, <1>9, <1>10 DEF KeyboardInv

(* One turn of keys_from, in the words of what it takes off the front. *)
Turn(keys, used) ==
  \/ pending[1] # Esc /\ keys = <<pending[1]>> /\ used = 1
  \/ Len(pending) = 1 /\ pending[1] = Esc /\ pass = "settled" /\ keys = <<"escape">> /\ used = 1
  \/ Len(pending) > 1 /\ pending[1] = Esc /\ pending[2] # "bracket" /\ keys = <<>> /\ used = 2
  \/ Len(pending) = 2 /\ pass = "settled" /\ keys = <<>> /\ used = 2
  \/ Len(pending) > 2 /\ pending[1] = Esc /\ pending[2] = "bracket" /\ pending[3] = "A" /\ keys = <<"up">> /\ used = 3
  \/ Len(pending) > 2 /\ pending[3] \notin Digits /\ pending[3] # "A" /\ keys = <<>> /\ used = 3
  \/ Len(pending) > 3 /\ pending[1] = Esc /\ pending[2] = "bracket" /\ pending[3] = "3" /\ keys = <<>> /\ used = 4

Waiting ==
  \/ Len(pending) = 0
  \/ Len(pending) = 1 /\ pass = "more"
  \/ Len(pending) = 2 /\ pass = "more"
  \/ Len(pending) = 3 /\ pending[3] = "3"

LEMMA TurnIs ==
  ASSUME KeyboardInv, KeysFrom
  PROVE  \/ Held /\ Waiting
         \/ Len(pending) > 0 /\ \E keys \in Seq(Heards), used \in 1..Len(pending) : Made(keys, used) /\ Turn(keys, used)
<1> DEFINE n == Len(pending)
<1> DEFINE ends == {i \in 3..n : pending[i] \in Letters \cup {"tilde"}}
<1>1. /\ n \in Nat /\ pending \in Seq(Bytes) /\ pass \in {"settled", "more"}
      /\ \A i \in 1..n : pending[i] \in Bytes
  BY KeysAre DEF KeysTyped, KeysFrom
<1>2. \/ n = 0 /\ Held
      \/ n > 0 /\ pending[1] # Esc /\ Made(<<pending[1]>>, 1)
      \/ n = 1 /\ pending[1] = Esc /\ IF NothingMore THEN Made(<<"escape">>, 1) ELSE Held
      \/ n > 1 /\ pending[1] = Esc /\ pending[2] # "bracket" /\ Made(<<>>, 2)
      \/ n = 2 /\ pending = <<Esc, "bracket">> /\ IF NothingMore THEN Made(<<>>, 2) ELSE Held
      \/ /\ n > 2 /\ pending[1] = Esc /\ pending[2] = "bracket"
         /\ IF pending[3] = "A" THEN Made(<<"up">>, 3)
            ELSE IF pending[3] \notin Digits THEN Made(<<>>, 3)
            ELSE IF ends = {} THEN Held ELSE Made(<<>>, Min(ends))
  BY DEF KeysFrom
<1>3. \A i \in 1..n : pending[i] \in Digits => IF i < n THEN pending[i + 1] = "tilde" ELSE Len(wire) > 0 /\ wire[1] = "tilde"
  BY DEF KeyboardInv, EndsFollow
<1>4. <<>> \in Seq(Heards) /\ <<"escape">> \in Seq(Heards) /\ <<"up">> \in Seq(Heards)
  BY DEF Heards
<1> HIDE DEF n
<1>5. CASE n = 0 /\ Held
  BY <1>5 DEF Waiting, n
<1>6. CASE n > 0 /\ pending[1] # Esc /\ Made(<<pending[1]>>, 1)
  <2>1. 1 \in 1..n /\ pending[1] \in Bytes
    BY <1>1, <1>6
  <2>2. <<pending[1]>> \in Seq(Heards)
    BY <2>1 DEF Heards
  <2> QED
    BY <1>6, <2>1, <2>2 DEF Turn, n
<1>7. CASE n = 1 /\ pending[1] = Esc /\ IF NothingMore THEN Made(<<"escape">>, 1) ELSE Held
  <2>1. CASE NothingMore
    <3>1. 1 \in 1..n /\ n > 0
      BY <1>7
    <3> QED
      BY <1>4, <1>7, <2>1, <3>1 DEF Turn, NothingMore, n
  <2>2. CASE ~NothingMore
    BY <1>1, <1>7, <2>2 DEF Waiting, NothingMore, n
  <2> QED
    BY <2>1, <2>2
<1>8. CASE n > 1 /\ pending[1] = Esc /\ pending[2] # "bracket" /\ Made(<<>>, 2)
  <2>1. 2 \in 1..n /\ n > 0
    BY <1>1, <1>8
  <2> QED
    BY <1>4, <1>8, <2>1 DEF Turn, n
<1>9. CASE n = 2 /\ pending = <<Esc, "bracket">> /\ IF NothingMore THEN Made(<<>>, 2) ELSE Held
  <2>1. CASE NothingMore
    <3>1. 2 \in 1..n /\ n > 0
      BY <1>9
    <3> QED
      BY <1>4, <1>9, <2>1, <3>1 DEF Turn, NothingMore, n
  <2>2. CASE ~NothingMore
    BY <1>1, <1>9, <2>2 DEF Waiting, NothingMore, n
  <2> QED
    BY <2>1, <2>2
<1>10. CASE n > 2 /\ pending[1] = Esc /\ pending[2] = "bracket" /\ pending[3] = "A" /\ Made(<<"up">>, 3)
  <2>1. 3 \in 1..n /\ n > 0
    BY <1>1, <1>10
  <2> QED
    BY <1>4, <1>10, <2>1 DEF Turn, n
<1>11. CASE n > 2 /\ pending[3] # "A" /\ pending[3] \notin Digits /\ Made(<<>>, 3)
  <2>1. 3 \in 1..n /\ n > 0
    BY <1>1, <1>11
  <2> QED
    BY <1>4, <1>11, <2>1 DEF Turn, n
<1>12. CASE n > 2 /\ pending[1] = Esc /\ pending[2] = "bracket" /\ pending[3] \in Digits /\ IF ends = {} THEN Held ELSE Made(<<>>, Min(ends))
  <2>1. 3 \in 1..n /\ pending[3] = "3" /\ IF 3 < n THEN pending[4] = "tilde" ELSE TRUE
    BY <1>1, <1>3, <1>12, BytesAre
  <2>2. CASE n > 3
    <3>1. 4 \in ends /\ 3 \notin ends /\ \A i \in ends : i \in Int /\ 4 <= i
      BY <1>1, <2>1, <2>2, BytesAre
    <3> HIDE DEF ends
    <3>2. Min(ends) = 4
      <4>1. (CHOOSE x \in ends : \A y \in ends : x <= y) = 4
        BY <3>1
      <4> QED
        BY <4>1, Zenon DEF Min
    <3>3. Made(<<>>, 4) /\ 4 \in 1..n /\ n > 0
      BY <1>1, <1>12, <2>2, <3>1, <3>2
    <3> QED
      BY <1>4, <1>12, <2>1, <2>2, <3>3 DEF Turn, n
  <2>3. CASE n = 3
    <3>1. ends = {}
      BY <2>1, <2>3, BytesAre
    <3> QED
      BY <1>12, <2>1, <2>3, <3>1 DEF Waiting, n
  <2> QED
    BY <1>1, <1>12, <2>2, <2>3
<1> QED
  BY <1>2, <1>5, <1>6, <1>7, <1>8, <1>9, <1>10, <1>11, <1>12

LEMMA HeldKeeps ==
  ASSUME KeyboardInv, UNCHANGED faults, Held, Waiting, pass # "over"
  PROVE  KeyboardInv'
<1>1. pass' = "over" /\ UNCHANGED <<wire, pending, strokes, meant, heard>>
  BY DEF Held
<1>2. KeysTyped' /\ EndsFollow'
  BY <1>1 DEF KeyboardInv, KeysTyped, EndsFollow
<1>3. HeldIsShort'
  <2>1. Len(pending) <= 3
    <3> DEFINE n == Len(pending)
    <3>1. n \in {0, 1, 2, 3}
      BY DEF Waiting
    <3> HIDE DEF n
    <3>2. n <= 3
      BY <3>1
    <3> QED
      BY <3>2 DEF n
  <2> QED
    BY <1>1, <2>1 DEF HeldIsShort
<1>4. OneUnderWay'
  <2> SUFFICES ASSUME ~Happens("hurry"), ~Happens("slow") PROVE OneUnderWay'
    BY DEF OneUnderWay, Happens
  <2>1. \/ pending \o wire = <<>> /\ heard = meant
        \/ \E key \in DOMAIN Sends : pending \o wire = Sends[key] /\ meant = heard \o MeantOf(key)
    BY DEF KeyboardInv, OneUnderWay
  <2> QED
    BY <1>1, <2>1 DEF OneUnderWay
<1>5. EscapesOwed'
  <2> SUFFICES ASSUME ~Happens("slow") PROVE EscapesOwed'
    BY DEF EscapesOwed, Happens
  <2>1. OwedNow' = 0
    BY <1>1 DEF OwedNow
  <2>2. OwedNext' = OwedNext
    <3>1. Len(pending) = 0 \/ (Len(pending) = 3 /\ pending[3] = "3") => ~EndsBare(pending)
      BY BytesAre DEF EndsBare
    <3>2. pass # "settled" \/ ~EndsBare(pending)
      BY <3>1 DEF Waiting, EndsBare
    <3> QED
      BY <1>1, <3>2 DEF OwedNext, EndsBare
  <2> DEFINE before == Cardinality(Cancels(heard))
  <2> DEFINE after == Cardinality(Cancels(meant))
  <2> DEFINE now == OwedNow
  <2> DEFINE next == OwedNext
  <2>3. before \in Nat /\ after \in Nat /\ before + now + next <= after /\ now \in {0, 1} /\ next \in {0, 1}
    BY KeysAre, OweLess DEF KeyboardInv, EscapesOwed
  <2>4. Cardinality(Cancels(heard')) = before /\ Cardinality(Cancels(meant')) = after
    BY <1>1
  <2>5. OwedNext' = next
    BY <2>2
  <2> HIDE DEF before, after, now, next
  <2>6. before + 0 + next <= after
    BY <2>3
  <2> QED
    BY <2>1, <2>4, <2>5, <2>6 DEF EscapesOwed
<1> QED
  BY <1>2, <1>3, <1>4, <1>5 DEF KeyboardInv

(* In calm, what is under way is one key, and a turn takes the whole of it. *)
LEMMA TakesTheKey ==
  ASSUME KeyboardInv, NEW key \in DOMAIN Sends, pending \o wire = Sends[key], pass = "settled" => Len(wire) = 0, Len(pending) > 0,
         NEW keys \in Seq(Heards), NEW used \in 1..Len(pending), Turn(keys, used)
  PROVE  Len(wire) = 0 /\ used = Len(pending) /\ keys = MeantOf(key)
<1> DEFINE P == Len(pending)
<1> DEFINE W == Len(wire)
<1> DEFINE sent == Sends[key]
<1>1. P \in Nat /\ P > 0 /\ W \in Nat /\ used \in 1..P /\ pending \in Seq(Bytes) /\ wire \in Seq(Bytes)
  BY KeysAre DEF KeysTyped
<1>2. /\ P + W = Len(sent) /\ \A i \in 1..P : pending[i] = sent[i]
  <2>1. Len(pending \o wire) = P + W /\ \A i \in 1..P : (pending \o wire)[i] = pending[i]
    <3>1. /\ Len(pending \o wire) = Len(pending) + Len(wire)
          /\ \A i \in 1..Len(pending) + Len(wire) : (pending \o wire)[i] = IF i <= Len(pending) THEN pending[i] ELSE wire[i - Len(pending)]
      BY <1>1, ConcatProperties
    <3> QED
      BY <1>1, <3>1
  <2> QED
    BY <2>1
<1>3. 1 \in 1..P /\ (P > 1 => 2 \in 1..P) /\ (P > 2 => 3 \in 1..P)
  BY <1>1
<1>4. \/ pending[1] # Esc /\ keys = <<pending[1]>> /\ used = 1
      \/ P = 1 /\ pending[1] = Esc /\ pass = "settled" /\ keys = <<"escape">> /\ used = 1
      \/ P > 1 /\ pending[1] = Esc /\ pending[2] # "bracket" /\ keys = <<>> /\ used = 2
      \/ P = 2 /\ pass = "settled" /\ keys = <<>> /\ used = 2
      \/ P > 2 /\ pending[1] = Esc /\ pending[2] = "bracket" /\ pending[3] = "A" /\ keys = <<"up">> /\ used = 3
      \/ P > 2 /\ pending[3] \notin Digits /\ pending[3] # "A" /\ keys = <<>> /\ used = 3
      \/ P > 3 /\ pending[1] = Esc /\ pending[2] = "bracket" /\ pending[3] = "3" /\ keys = <<>> /\ used = 4
  BY DEF Turn
<1>5. pass = "settled" => W = 0
  OBVIOUS
<1> HIDE DEF P, W, sent
<1>6. CASE key = "escape"
  <2>1. Len(sent) = 1 /\ sent[1] = Esc
    BY <1>6, SendsAre DEF sent
  <2>2. P = 1 /\ W = 0 /\ pending[1] = Esc
    BY <1>1, <1>2, <1>3, <2>1
  <2>3. used = 1 /\ keys = <<"escape">>
    BY <1>4, <2>2
  <2> QED
    BY <1>6, <2>2, <2>3 DEF MeantOf, Meant, P, W
<1>7. CASE key = "up"
  <2>1. Len(sent) = 3 /\ sent[1] = Esc /\ sent[2] = "bracket" /\ sent[3] = "A"
    BY <1>7, SendsAre DEF sent
  <2>2. P <= 3 /\ pending[1] = Esc /\ (P > 1 => pending[2] = "bracket") /\ (P > 2 => pending[3] = "A") /\ (W = 0 => P = 3) /\ (P = 3 => W = 0)
    BY <1>1, <1>2, <1>3, <2>1
  <2>3. P = 3 /\ used = 3 /\ keys = <<"up">>
    BY <1>1, <1>4, <1>5, <2>2
  <2> QED
    BY <1>7, <2>2, <2>3 DEF MeantOf, Meant, P, W
<1>8. CASE key = "x"
  <2>1. Len(sent) = 1 /\ sent[1] = "x"
    BY <1>8, SendsAre DEF sent
  <2>2. P = 1 /\ W = 0 /\ pending[1] = "x"
    BY <1>1, <1>2, <1>3, <2>1
  <2>3. used = 1 /\ keys = <<"x">>
    BY <1>4, <2>2, BytesAre
  <2> QED
    BY <1>8, <2>2, <2>3 DEF MeantOf, Meant, P, W
<1>9. CASE key = "delete"
  <2>1. Len(sent) = 4 /\ sent[1] = Esc /\ sent[2] = "bracket" /\ sent[3] = "3"
    BY <1>9, SendsAre DEF sent
  <2>2. P <= 4 /\ pending[1] = Esc /\ (P > 1 => pending[2] = "bracket") /\ (P > 2 => pending[3] = "3") /\ (W = 0 => P = 4) /\ (P = 4 => W = 0)
    BY <1>1, <1>2, <1>3, <2>1
  <2>3. P = 4 /\ used = 4 /\ keys = <<>>
    BY <1>1, <1>4, <1>5, <2>2, BytesAre
  <2> QED
    BY <1>9, <2>2, <2>3 DEF MeantOf, Meant, P, W
<1>10. CASE key = "alt_x"
  <2>1. Len(sent) = 2 /\ sent[1] = Esc /\ sent[2] = "x"
    BY <1>10, SendsAre DEF sent
  <2>2. P <= 2 /\ pending[1] = Esc /\ (P > 1 => pending[2] = "x") /\ (W = 0 => P = 2) /\ (P = 2 => W = 0)
    BY <1>1, <1>2, <1>3, <2>1
  <2>3. P = 2 /\ used = 2 /\ keys = <<>>
    BY <1>1, <1>4, <1>5, <2>2
  <2> QED
    BY <1>10, <2>2, <2>3 DEF MeantOf, Meant, P, W
<1>11. CASE key = "back_tab"
  <2>1. Len(sent) = 3 /\ sent[1] = Esc /\ sent[2] = "bracket" /\ sent[3] = "x"
    BY <1>11, SendsAre DEF sent
  <2>2. P <= 3 /\ pending[1] = Esc /\ (P > 1 => pending[2] = "bracket") /\ (P > 2 => pending[3] = "x") /\ (W = 0 => P = 3) /\ (P = 3 => W = 0)
    BY <1>1, <1>2, <1>3, <2>1
  <2>3. P = 3 /\ used = 3 /\ keys = <<>>
    BY <1>1, <1>4, <1>5, <2>2, BytesAre
  <2> QED
    BY <1>11, <2>2, <2>3 DEF MeantOf, Meant, P, W
<1> QED
  BY <1>6, <1>7, <1>8, <1>9, <1>10, <1>11, SendsAre

LEMMA MadeKeeps ==
  ASSUME KeyboardInv, UNCHANGED faults, pass # "over", Len(pending) > 0,
         NEW keys \in Seq(Heards), NEW used \in 1..Len(pending), Made(keys, used), Turn(keys, used)
  PROVE  KeyboardInv'
<1> DEFINE P == Len(pending)
<1> DEFINE W == Len(wire)
<1>1. /\ P \in Nat /\ P > 0 /\ W \in Nat /\ used \in 1..P /\ pending \in Seq(Bytes) /\ wire \in Seq(Bytes)
      /\ heard \in Seq(Heards) /\ meant \in Seq(DOMAIN Sends)
  BY KeysAre DEF KeysTyped
<1>2. heard' = heard \o keys /\ pending' = SubSeq(pending, used + 1, P) /\ UNCHANGED <<wire, pass, strokes, meant>>
  BY DEF Made
<1>3. pending' \in Seq(Bytes) /\ Len(pending') = P - used /\ \A i \in 1..(P - used) : pending'[i] = pending[i + used]
  <2>1. \A i \in (used + 1)..P : pending[i] \in Bytes
    BY <1>1
  <2>2. used + 1 \in Int /\ P \in Int /\ (IF used + 1 <= P THEN P - (used + 1) + 1 ELSE 0) = P - used /\ P - (used + 1) + 1 = P - used
    BY <1>1
  <2> HIDE DEF P
  <2>3. /\ SubSeq(pending, used + 1, P) \in Seq(Bytes)
        /\ Len(SubSeq(pending, used + 1, P)) = IF used + 1 <= P THEN P - (used + 1) + 1 ELSE 0
        /\ \A i \in 1..P - (used + 1) + 1 : SubSeq(pending, used + 1, P)[i] = pending[(used + 1) + i - 1]
    BY <2>1, <2>2, SubSeqProperties
  <2>4. \A i \in 1..(P - used) : (used + 1) + i - 1 = i + used
    BY <1>1
  <2> QED
    BY <1>2, <2>2, <2>3, <2>4
<1>4. KeysTyped'
  <2>1. heard \o keys \in Seq(Heards)
    BY <1>1, ConcatProperties
  <2> QED
    BY <1>2, <1>3, <2>1, KeysAre DEF KeysTyped
<1>5. HeldIsShort'
  BY <1>2 DEF HeldIsShort
<1>6. EndsFollow'
  <2>1. ASSUME NEW i \in 1..(P - used), pending'[i] \in Digits
        PROVE  IF i < P - used THEN pending'[i + 1] = "tilde" ELSE W > 0 /\ wire[1] = "tilde"
    <3>1. i + used \in 1..P /\ pending[i + used] \in Digits
      BY <1>1, <1>3, <2>1
    <3>2. IF i + used < P THEN pending[(i + used) + 1] = "tilde" ELSE W > 0 /\ wire[1] = "tilde"
      BY <3>1 DEF KeyboardInv, EndsFollow
    <3> HIDE DEF P, W
    <3>3. CASE i < P - used
      <4>1. i + 1 \in 1..(P - used) /\ i + used < P /\ (i + used) + 1 = (i + 1) + used
        BY <1>1, <3>3
      <4> QED
        BY <1>3, <3>2, <3>3, <4>1
    <3>4. CASE ~(i < P - used)
      <4>1. ~(i + used < P)
        BY <1>1, <3>4
      <4> QED
        BY <3>2, <3>4, <4>1
    <3> QED
      BY <3>3, <3>4
  <2> QED
    BY <1>2, <1>3, <2>1 DEF KeyboardInv, EndsFollow
<1>7. OneUnderWay'
  <2> SUFFICES ASSUME ~Happens("hurry"), ~Happens("slow") PROVE OneUnderWay'
    BY DEF OneUnderWay, Happens
  <2>1. pass = "settled" => W = 0
    <3>1. pass = "settled" => wire = <<>>
      BY <1>1 DEF KeyboardInv, OneUnderWay
    <3> QED
      BY <3>1
  <2>2. PICK key \in DOMAIN Sends : pending \o wire = Sends[key] /\ meant = heard \o MeantOf(key)
    <3>1. pending \o wire # <<>>
      BY <1>1, ConcatEqualIffEmpty
    <3> QED
      BY <3>1 DEF KeyboardInv, OneUnderWay
  <2>3. W = 0 /\ used = P /\ keys = MeantOf(key)
    BY <2>1, <2>2, TakesTheKey
  <2>4. heard' = meant'
    BY <1>2, <2>2, <2>3
  <2>5. wire = <<>> /\ pending' = <<>>
    <3>1. Len(pending') = 0
      BY <1>1, <1>3, <2>3
    <3> QED
      BY <1>1, <1>3, <2>3, <3>1, EmptySeq
  <2>6. pending' \o wire' = <<>>
    <3>1. wire' = <<>>
      BY <1>2, <2>5
    <3>2. <<>> \o <<>> = <<>>
      OBVIOUS
    <3> QED
      BY <2>5, <3>1, <3>2
  <2> QED
    BY <2>4, <2>5, <2>6 DEF OneUnderWay
<1>8. EscapesOwed'
  <2> SUFFICES ASSUME ~Happens("slow") PROVE EscapesOwed'
    BY DEF EscapesOwed, Happens
  <2> DEFINE before == Cardinality(Cancels(heard))
  <2> DEFINE after == Cardinality(Cancels(meant))
  <2> DEFINE now == OwedNow
  <2> DEFINE next == OwedNext
  <2>1. before \in Nat /\ after \in Nat /\ before + now + next <= after /\ now \in {0, 1} /\ next \in {0, 1}
    BY KeysAre, OweLess DEF KeyboardInv, EscapesOwed
  <2>2. EndsBare(pending') => EndsBare(pending)
    <3> SUFFICES ASSUME Len(pending') > 0, pending'[Len(pending')] = Esc PROVE EndsBare(pending)
      BY DEF EndsBare
    <3>1. P - used \in 1..(P - used) /\ (P - used) + used = P
      BY <1>1, <1>3
    <3>2. pending'[P - used] = pending[P]
      BY <1>3, <3>1
    <3> QED
      BY <1>1, <1>3, <3>2 DEF EndsBare
  <2>3. OwedNext' <= next
    <3>1. OwedNext' = 1 => OwedNext = 1
      BY <1>2, <2>2 DEF OwedNext, EndsBare
    <3> QED
      BY <3>1, OweLess
  <2>4. Cardinality(Cancels(meant')) = after
    BY <1>2
  <2>5. CASE keys = <<"escape">>
    <3>1. P = 1 /\ pending[1] = Esc /\ pass = "settled" /\ used = 1
      <4>1. pending[1] \in Bytes /\ <<pending[1]>> # <<"escape">> /\ keys # <<>> /\ keys # <<"up">>
        <5>1. 1 \in 1..P /\ pending[1] \in Bytes
          BY <1>1
        <5>2. pending[1] # "escape"
          BY <5>1, BytesAre
        <5> QED
          BY <2>5, <5>1, <5>2
      <4> QED
        BY <2>5, <4>1 DEF Turn
    <3>2. now = 1
      BY <3>1 DEF OwedNow, EndsBare
    <3>3. OwedNow' = 0
      BY <1>3, <3>1 DEF OwedNow, EndsBare
    <3>4. Cardinality(Cancels(heard')) = before + 1
      <4>1. heard' = Append(heard, "escape") /\ "escape" \in Heards
        BY <1>1, <1>2, <2>5 DEF Heards
      <4> QED
        BY <1>1, <4>1, CancelsMore
    <3> HIDE DEF before, after, now, next
    <3>5. (before + 1) + 0 + OwedNext' <= after
      <4> DEFINE later == OwedNext'
      <4>1. later \in {0, 1} /\ later <= next
        BY <2>3, OweLess
      <4> HIDE DEF later
      <4>2. (before + 1) + 0 + later <= after
        BY <2>1, <3>2, <4>1
      <4> QED
        BY <4>2 DEF later
    <3> QED
      BY <2>4, <3>3, <3>4, <3>5 DEF EscapesOwed
  <2>6. CASE keys # <<"escape">>
    <3>1. Cardinality(Cancels(heard')) = before
      <4>1. keys = <<>> \/ \E key \in Heards \ {"escape"} : keys = <<key>>
        <5>1. 1 \in 1..P /\ pending[1] \in Bytes
          BY <1>1
        <5>2. pending[1] \in Heards \ {"escape"} /\ "up" \in Heards \ {"escape"}
          BY <5>1, BytesAre DEF Heards
        <5> QED
          BY <2>6, <5>2 DEF Turn
      <4>2. CASE keys = <<>>
        BY <1>1, <1>2, <4>2
      <4>3. ASSUME NEW key \in Heards \ {"escape"}, keys = <<key>> PROVE Cardinality(Cancels(heard')) = before
        <5>1. heard' = Append(heard, key)
          BY <1>1, <1>2, <4>3
        <5> QED
          BY <1>1, <2>1, <4>3, <5>1, CancelsMore
      <4> QED
        BY <4>1, <4>2, <4>3
    <3>2. OwedNow' = 1 => OwedNow = 1
      BY <1>2, <2>2 DEF OwedNow, EndsBare
    <3> HIDE DEF before, after
    <3>3. before + OwedNow' + OwedNext' <= after
      <4> DEFINE soon == OwedNow'
      <4> DEFINE later == OwedNext'
      <4>1. soon \in {0, 1} /\ later \in {0, 1} /\ later <= next /\ (soon = 1 => now = 1)
        BY <2>3, <3>2, OweLess
      <4> HIDE DEF soon, later, now, next
      <4>2. before + soon + later <= after
        BY <2>1, <4>1
      <4> QED
        BY <4>2 DEF soon, later
    <3> QED
      BY <2>4, <3>1, <3>3 DEF EscapesOwed
  <2> QED
    BY <2>5, <2>6
<1> QED
  BY <1>4, <1>5, <1>6, <1>7, <1>8 DEF KeyboardInv

LEMMA KeyboardGoesOn == KeyboardInv /\ [KeyboardNext]_keyboard /\ UNCHANGED faults => KeyboardInv'
<1> SUFFICES ASSUME KeyboardInv, [KeyboardNext]_keyboard, UNCHANGED faults PROVE KeyboardInv'
  OBVIOUS
<1>1. CASE Collect
  BY <1>1, CollectKeeps
<1>2. CASE KeysFrom
  <2>1. pass # "over"
    BY <1>2 DEF KeysFrom
  <2> QED
    BY <1>2, <2>1, TurnIs, HeldKeeps, MadeKeeps
<1>3. ASSUME NEW key \in DOMAIN Sends, Strike(key) PROVE KeyboardInv'
  BY <1>3, StrikeKeeps
<1>4. CASE UNCHANGED keyboard
  <2>1. UNCHANGED <<wire, pending, pass, strokes, meant, heard>>
    BY <1>4 DEF keyboard
  <2>2. KeysTyped' /\ HeldIsShort' /\ EndsFollow'
    BY <2>1 DEF KeyboardInv, KeysTyped, HeldIsShort, EndsFollow
  <2>3. OneUnderWay'
    BY <2>1 DEF KeyboardInv, OneUnderWay, Happens
  <2>4. EscapesOwed'
    <3>1. OwedNow' = OwedNow /\ OwedNext' = OwedNext
      BY <2>1 DEF OwedNow, OwedNext, EndsBare
    <3> QED
      BY <2>1, <3>1 DEF KeyboardInv, EscapesOwed, Happens
  <2> QED
    BY <2>2, <2>3, <2>4 DEF KeyboardInv
<1> QED
  BY <1>1, <1>2, <1>3, <1>4 DEF KeyboardNext

LEMMA KeyboardIsAsSaid == KeyboardInv => KeyboardTypeOK /\ HeardAsStruck
<1> SUFFICES ASSUME KeyboardInv PROVE KeyboardTypeOK /\ HeardAsStruck
  OBVIOUS
<1>1. KeyboardTypeOK
  BY DEF KeyboardInv, KeysTyped, HeldIsShort, KeyboardTypeOK, Heards
<1>2. ASSUME ~Happens("slow"), wire = <<>>, pending = <<>>, ~Happens("hurry") PROVE heard = meant
  <2>1. pending \o wire = <<>> /\ \A key \in DOMAIN Sends : Sends[key] # <<>>
    BY <1>2, SentIs
  <2> QED
    BY <1>2, <2>1 DEF KeyboardInv, OneUnderWay
<1>3. ASSUME ~Happens("slow") PROVE Cardinality(Cancels(heard)) <= Cardinality(Cancels(meant))
  <2> DEFINE before == Cardinality(Cancels(heard))
  <2> DEFINE after == Cardinality(Cancels(meant))
  <2> DEFINE now == OwedNow
  <2> DEFINE next == OwedNext
  <2>1. before \in Nat /\ after \in Nat /\ before + now + next <= after /\ now \in {0, 1} /\ next \in {0, 1}
    BY <1>3, KeysAre, OweLess DEF KeyboardInv, EscapesOwed
  <2> HIDE DEF before, after, now, next
  <2>2. before <= after
    BY <2>1
  <2> QED
    BY <2>2 DEF before, after
<1> QED
  BY <1>1, <1>2, <1>3 DEF HeardAsStruck

-----------------------------------------------------------------------------
(* The sum.  A step is of one part, and is a step or a stutter of every other. *)

Parts ==
  /\ [ScreenNext]_attached /\ [KeyboardNext]_keyboard /\ [TerminalNext]_terminal /\ [SamplerNext]_sampler
  /\ [ActivityNext]_activity /\ [ConnectionsNext]_connections /\ [StandingNext]_standing /\ [PackageNext]_package
  /\ UNCHANGED faults

LEMMA ConsoleSteps == [Next]_vars => Parts
<1> SUFFICES ASSUME [Next]_vars PROVE Parts
  OBVIOUS
<1>1. CASE UNCHANGED vars
  BY <1>1 DEF vars, rest, Parts
<1>2. CASE OfScreen(ScreenNext)
  BY <1>2 DEF OfScreen, Of, Parts
<1>3. CASE OfKeyboard(KeyboardNext)
  BY <1>3 DEF OfKeyboard, Of, Parts
<1>4. CASE OfTerminal(TerminalNext)
  BY <1>4 DEF OfTerminal, Of, Parts
<1>5. CASE OfSampler(SamplerNext)
  BY <1>5 DEF OfSampler, Of, Parts
<1>6. CASE OfActivity(ActivityNext)
  BY <1>6 DEF OfActivity, Of, Parts
<1>7. CASE OfConnections(ConnectionsNext)
  BY <1>7 DEF OfConnections, Of, Parts
<1>8. CASE OfStanding(StandingNext)
  BY <1>8 DEF OfStanding, Of, Parts
<1>9. CASE OfPackage(PackageNext)
  BY <1>9 DEF OfPackage, Of, Parts
<1> QED
  BY <1>1, <1>2, <1>3, <1>4, <1>5, <1>6, <1>7, <1>8, <1>9 DEF Next

ConsoleInv ==
  /\ ScreenInv /\ KeyboardInv /\ TerminalInv /\ SamplerInv
  /\ ActivityInv /\ ConnectionsInv /\ StandingInv /\ PackageSafe

LEMMA ConsoleBegins == Init => ConsoleInv
BY ScreenStarts, KeyboardStarts, TerminalStarts, SamplerStarts, ActivityStarts, ConnectionsStart, StandingStarts, PackageStarts
   DEF Init, ConsoleInv

LEMMA ConsoleGoesOn == ConsoleInv /\ [Next]_vars => ConsoleInv'
<1> SUFFICES ASSUME ConsoleInv, [Next]_vars PROVE ConsoleInv'
  OBVIOUS
<1>1. Parts
  BY ConsoleSteps
<1>2. ScreenInv' /\ KeyboardInv' /\ TerminalInv' /\ SamplerInv'
  BY <1>1, ScreenGoesOn, KeyboardGoesOn, TerminalGoesOn, SamplerSteps DEF ConsoleInv, Parts
<1>3. ActivityInv' /\ ConnectionsInv' /\ StandingInv' /\ PackageSafe'
  BY <1>1, ActivityGoesOn, ConnectionsGoOn, StandingGoesOn, PackageGoesOn DEF ConsoleInv, Parts
<1> QED
  BY <1>2, <1>3 DEF ConsoleInv

(* The strengthening of what the console's parts promise: what each request, session, key and file has in hand. *)
THEOREM ConsoleInvariance == FairSpec => []ConsoleInv
BY ConsoleBegins, ConsoleGoesOn, PTL DEF FairSpec

(* Every variable of the console's parts has its type, for any constants (Screen, Keyboard, Terminal, Sampler, Activity,
   Connections, Standing, Package). *)
THEOREM ConsoleIsTyped == FairSpec => []TypeOK
<1>1. ConsoleInv => TypeOK
  <2> SUFFICES ASSUME ConsoleInv PROVE TypeOK
    OBVIOUS
  <2>1. ScreenTypeOK /\ KeyboardTypeOK /\ TerminalTypeOK /\ SamplerTypeOK
    BY ScreenIsAsSaid, KeyboardIsAsSaid, TerminalIsAsSaid DEF ConsoleInv, SamplerInv
  <2>2. ActivityTypeOK /\ ConnectionsTypeOK /\ StandingTypeOK /\ PackageTypeOK
    BY ActivityIsAsSaid, ConnectionsAre, StandingIsAsSaid, PackageIsAsSaid DEF ConsoleInv
  <2> QED
    BY <2>1, <2>2 DEF TypeOK
<1> QED
  BY <1>1, ConsoleInvariance, PTL

(* For any pages, requests, files and releases, and however the machine changes while it is looked at: what the console
   shows of its rates, its sessions, its state, its setup and its network was so at a moment of the request that shows it
   (metrics.rs, plexactivity.rs, dashboard/model.rs, setup.rs, netdiag.rs). *)
THEOREM WhatIsShownWasTrue == FairSpec => []ShownWasTrue
<1>1. ConsoleInv => ShownWasTrue
  BY ActivityIsAsSaid, StandingIsAsSaid DEF ConsoleInv, SamplerInv, ShownWasTrue
<1> QED
  BY <1>1, ConsoleInvariance, PTL

(* For any releases and whatever a mirror sends in their place, however a download ends: what is installed is what Plex
   signed, and what fails is blamed on what failed (provision.rs, ar.rs, manifest.rs, verify.rs). *)
THEOREM PlexIsAsSigned == FairSpec => []InstalledAsSigned
<1>1. ConsoleInv => InstalledAsSigned
  BY PackageIsAsSaid DEF ConsoleInv
<1> QED
  BY <1>1, ConsoleInvariance, PTL

(* For any networks, tabs, clients, keys and releases: the machine is asked to go once and after the screen says so, a
   passphrase is held while it is typed, a key is heard as it was struck, output is not skipped untold, no shell is left,
   strangers are not taken from, and the newest package stays beside a new one (dashboard/mod.rs, terminal.rs, http.rs,
   provision.rs). *)
THEOREM NothingGetsLost == FairSpec => NothingIsLost
<1>1. ConsoleInv => AskedOnce /\ TypedWhileTyping /\ HeardAsStruck /\ NothingSkippedUntold /\ NoShellLeft /\ NothingTakenFromStrangers
  BY ScreenIsAsSaid, KeyboardIsAsSaid, TerminalIsAsSaid, ConnectionsAre DEF ConsoleInv
<1>2. ConsoleInv /\ [Next]_vars => [SeenBeforeItGoes]_vars /\ [NewestIsKept]_vars
  <2> SUFFICES ASSUME ConsoleInv, [Next]_vars PROVE SeenBeforeItGoes /\ NewestIsKept
    OBVIOUS
  <2>1. Parts
    BY ConsoleSteps
  <2>2. SeenBeforeItGoes /\ [NewestIsKept]_package
    BY <2>1, ScreenGoesOn, PackageGoesOn DEF ConsoleInv, Parts
  <2>3. UNCHANGED package => NewestIsKept
    BY NothingDropped DEF package
  <2> QED
    BY <2>2, <2>3
<1> QED
  BY <1>1, <1>2, ConsoleInvariance, PTL DEF FairSpec, NothingIsLost
=============================================================================
