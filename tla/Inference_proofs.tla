-------------------------- MODULE Inference_proofs --------------------------
(***************************************************************************)
(* The draft of the relationship agent is right for any entities, names    *)
(* and types and any number of fields: its edges are marked, no two are    *)
(* the same, and the derived ones are those that it implies.               *)
(***************************************************************************)
EXTENDS Inference, WellFoundedInduction, TLAPS

-----------------------------------------------------------------------------
(* Looking names up.                                                       *)

\* The smallest of some numbers is one of them.
LEMMA MinIsOne ==
    ASSUME NEW S \in SUBSET Nat, S # {}
    PROVE  Min(S) \in S
<1> DEFINE R == {ss \in Nat \X Nat : ss[1] < ss[2]}
<1>1. IsWellFoundedOn(R, Nat)
  BY NatLessThanWellFounded DEF OpToRel
<1>2. PICK x \in S : \A y \in S : ~(<<y, x>> \in R)
  <2> HIDE DEF R
  <2> QED
    BY <1>1, WFMin
<1>3. \A y \in S : x <= y
  <2> SUFFICES ASSUME NEW y \in S PROVE x <= y
    OBVIOUS
  <2>1. <<y, x>> \notin R /\ <<y, x>> \in Nat \X Nat
    BY <1>2
  <2> QED
    BY <2>1
<1> QED
  BY <1>3 DEF Min

\* The first of some entities is one of them, or nobody.
LEMMA FirstIsOne ==
    ASSUME NEW S \in SUBSET Entity
    PROVE  /\ First(S) \subseteq S
           /\ \A x, y \in First(S) : x = y
<1>1. S # {} => Min(S) \in S
  BY EntityAssumption, MinIsOne
<1> QED
  BY <1>1 DEF First

\* Whoever a name finds is one entity.
LEMMA NamesFindEntities ==
    ASSUME NEW m
    PROVE  /\ FindAnyByName(m) \subseteq Entity
           /\ \A x, y \in FindAnyByName(m) : x = y
           /\ \A t : /\ FindByName(m, t) \subseteq Entity
                        /\ \A x, y \in FindByName(m, t) : x = y
           /\ \A types : /\ FindFirst(m, types) \subseteq Entity
                         /\ \A x, y \in FindFirst(m, types) : x = y
<1>1. Named(m.name) \in SUBSET Entity
  BY DEF Named
<1>2. /\ FindAnyByName(m) \subseteq Entity
      /\ \A x, y \in FindAnyByName(m) : x = y
  BY <1>1, FirstIsOne DEF FindAnyByName
<1>3. ASSUME NEW t
      PROVE  /\ FindByName(m, t) \subseteq Entity
             /\ \A x, y \in FindByName(m, t) : x = y
  <2>1. OfType(Named(m.name), t) \in SUBSET Entity
    BY <1>1 DEF OfType
  <2> QED
    BY <1>1, <2>1, FirstIsOne DEF FindByName
<1>4. ASSUME NEW types
      PROVE  /\ FindFirst(m, types) \subseteq Entity
             /\ \A x, y \in FindFirst(m, types) : x = y
  BY <1>3 DEF FindFirst
<1> QED
  BY <1>2, <1>3, <1>4

-----------------------------------------------------------------------------
(* What is drafted when.                                                    *)

\* Types that only a deriving extractor drafts.
Derived == {"CO_INVESTED_WITH", "CO_FOUNDED_WITH", "WORKS_UNDER"}

\* What an extractor that reads fields may draft: nothing derived, and what
\* others derive from only before they do.
Ordinary(edge, extractor) ==
    /\ edge \notin Derived
    /\ edge = "INVESTED_IN" => extractor = "invested_in"
    /\ edge = "FOUNDED" => extractor = "founded"

\* The order of the extractors, as far as it matters.
LEMMA StepsInOrder ==
    /\ DOMAIN Steps = 1..22
    /\ Steps[9] = "co_investments" /\ Steps[10] = "co_founders"
    /\ Steps[21] = "works_under" /\ Steps[22] = "done"
    /\ \A i \in 1..22 :
          /\ Steps[i] = "invested_in" => i = 1
          /\ Steps[i] = "founded" => i = 2
          /\ Steps[i] = "co_investments" => i = 9
          /\ Steps[i] = "co_founders" => i = 10
          /\ Steps[i] = "works_under" => i = 21
          /\ Steps[i] = "done" => i = 22
BY DEF Steps

LEMMA RuleShape ==
    ASSUME NEW h, NEW t, NEW e, NEW q
    PROVE  From(h, t, e, q).edge = e /\ To(h, t, e, q).edge = e
BY DEF From, To

\* No field leads to an edge that is derived, and only the first two
\* extractors draft what is derived from.
LEMMA RulesAreOrdinary ==
    \A s \in DOMAIN Fields : \A r \in Fields[s] : Ordinary(r.edge, s) /\ r.edge # "OWNS"
<1> USE RuleShape DEF Ordinary, Derived
<1>1. \A r \in InvestedIn : r.edge = "INVESTED_IN"
  BY DEF InvestedIn
<1>2. \A r \in Founded : r.edge = "FOUNDED"
  BY DEF Founded
<1>3. \A r \in EmployedBy \cup SitsOnBoardOf \cup DonatedTo \cup ReceivedGrantFrom \cup SubsidiaryOf :
          r.edge \in {"EMPLOYED_BY", "SITS_ON_BOARD_OF", "DONATED_TO",
                     "RECEIVED_GRANT_FROM", "SUBSIDIARY_OF"}
  BY DEF EmployedBy, SitsOnBoardOf, DonatedTo, ReceivedGrantFrom, SubsidiaryOf
<1>4. \A r \in FollowTheMoney \cup OpenCorporates \cup Bizapedia \cup Wayback \cup EdgarDocuments :
          r.edge \in {"DONATED_TO", "SITS_ON_BOARD_OF", "EMPLOYED_BY", "FORMERLY_EMPLOYED_BY"}
  BY DEF FollowTheMoney, OpenCorporates, Bizapedia, Wayback, EdgarDocuments
<1> SUFFICES ASSUME NEW s \in DOMAIN Fields, NEW r \in Fields[s]
             PROVE  Ordinary(r.edge, s) /\ r.edge # "OWNS"
  OBVIOUS
<1>5. CASE s = "invested_in"
  BY <1>1, <1>5 DEF Fields
<1>6. CASE s = "founded"
  BY <1>2, <1>6 DEF Fields
<1>7. CASE s \notin {"invested_in", "founded"}
  <2>1. r \in EmployedBy \cup SitsOnBoardOf \cup DonatedTo \cup ReceivedGrantFrom
             \cup SubsidiaryOf \cup FollowTheMoney \cup OpenCorporates \cup Bizapedia
             \cup Wayback \cup EdgarDocuments
    BY <1>7 DEF Fields
  <2> QED
    BY <1>3, <1>4, <2>1
<1> QED
  BY <1>5, <1>6, <1>7

\* What fields lead to.
LEMMA RulesAreKnown ==
    \A s \in DOMAIN Fields : \A r \in Fields[s] :
        r.edge \in {"INVESTED_IN", "FOUNDED", "EMPLOYED_BY", "SITS_ON_BOARD_OF", "DONATED_TO",
                    "RECEIVED_GRANT_FROM", "SUBSIDIARY_OF", "FORMERLY_EMPLOYED_BY"}
<1> USE RuleShape
<1>1. \A r \in InvestedIn \cup Founded : r.edge \in {"INVESTED_IN", "FOUNDED"}
  BY DEF InvestedIn, Founded
<1>2. \A r \in EmployedBy \cup SitsOnBoardOf \cup DonatedTo \cup ReceivedGrantFrom \cup SubsidiaryOf :
          r.edge \in {"EMPLOYED_BY", "SITS_ON_BOARD_OF", "DONATED_TO",
                     "RECEIVED_GRANT_FROM", "SUBSIDIARY_OF"}
  BY DEF EmployedBy, SitsOnBoardOf, DonatedTo, ReceivedGrantFrom, SubsidiaryOf
<1>3. \A r \in FollowTheMoney \cup OpenCorporates \cup Bizapedia \cup Wayback \cup EdgarDocuments :
          r.edge \in {"DONATED_TO", "SITS_ON_BOARD_OF", "EMPLOYED_BY", "FORMERLY_EMPLOYED_BY"}
  BY DEF FollowTheMoney, OpenCorporates, Bizapedia, Wayback, EdgarDocuments
<1> QED
  BY <1>1, <1>2, <1>3 DEF Fields

-----------------------------------------------------------------------------
(* The invariant.                                                           *)

Typed ==
    /\ who \in [Entity -> [name : Names, type : Types]]
    /\ step \in 1..22

\* What the property calls delicate.
Delicate(d) ==
    \/ d.edge \in SensitiveTypes \cup {Leaked}
    \/ \E e \in {d.from, d.to} \cap Entity : who[e].type = "illicit"

\* An edge leads from an entity to one, or to a property that is none, and is
\* marked if it is delicate.
Sound(d) ==
    /\ d.from \in Entity
    /\ d.to \in Entity \/ (d.to = Property /\ d.edge = "OWNS")
    /\ Delicate(d) => d.sensitive

AllAreSound == \A d \in draft : Sound(d) /\ d.from # d.to

\* No two edges of the draft say the same.
NoneIsDouble == \A d, x \in draft : SameEdge(d, x) => d = x

\* Nothing is derived before its turn.
NotDerivedEarly ==
    \A d \in draft :
        /\ d.edge = "CO_INVESTED_WITH" => step > 9
        /\ d.edge = "CO_FOUNDED_WITH" => step > 10
        /\ d.edge = "WORKS_UNDER" => step > 21

\* Sources of edges of one type with the same target are linked by the other.
Linked(of, as) ==
    \A a, b \in Entity :
        (\E d \in Drafted(as) : Joins(d, a, b))
        <=> a # b /\ \E x, y \in Drafted(of) : x.from = a /\ y.from = b /\ x.to = y.to

Chained ==
    \A a, b \in Entity :
        (\E d \in Drafted("WORKS_UNDER") : d.from = a /\ d.to = b) <=> <<a, b>> \in Chains

\* What was derived is right from its turn on.
DerivedRightly ==
    /\ step > 9 => Linked("INVESTED_IN", "CO_INVESTED_WITH")
    /\ step > 10 => Linked("FOUNDED", "CO_FOUNDED_WITH")
    /\ step > 21 => Chained

Inv == Typed /\ AllAreSound /\ NoneIsDouble /\ NotDerivedEarly /\ DerivedRightly

LEMMA InitInv == Init => Inv
BY DEF Init, Inv, Typed, AllAreSound, NoneIsDouble, NotDerivedEarly, DerivedRightly

\* Whatever is drafted in one go: sound, and no two of it the same.
Draftable(S) ==
    /\ \A x \in S : Sound(x)
    /\ \A x, y \in S : SameEdge(x, y) => x = y

\* SameEdge does not care which of the two comes first.
LEMMA SameEdgeIsSymmetric ==
    ASSUME NEW d, NEW x, SameEdge(d, x) PROVE SameEdge(x, d)
BY DEF SameEdge

\* _RelBuilder.add keeps the draft sound and free of doubles.
LEMMA AddKeepsSound ==
    ASSUME Inv, NEW S, Draftable(S), draft' = draft \cup Fresh(S), UNCHANGED who
    PROVE  AllAreSound' /\ NoneIsDouble'
<1>1. \A x \in Fresh(S) : x \in S /\ x.from # x.to /\ \A d \in draft : ~SameEdge(d, x)
  BY DEF Fresh
<1>2. AllAreSound'
  <2>1. \A d : Sound(d)' <=> Sound(d)
    BY DEF Sound, Delicate
  <2> QED
    BY <1>1, <2>1 DEF Inv, AllAreSound, Draftable
<1>3. NoneIsDouble'
  <2> SUFFICES ASSUME NEW d \in draft', NEW x \in draft', SameEdge(d, x) PROVE d = x
    BY DEF NoneIsDouble, SameEdge
  <2>1. CASE d \in draft /\ x \in draft
    BY <2>1 DEF Inv, NoneIsDouble
  <2>2. CASE d \in Fresh(S) /\ x \in Fresh(S)
    BY <1>1, <2>2 DEF Draftable
  <2>3. ~(d \in draft /\ x \in Fresh(S)) /\ ~(d \in Fresh(S) /\ x \in draft)
    BY <1>1, SameEdgeIsSymmetric
  <2> QED
    BY <2>1, <2>2, <2>3
<1> QED
  BY <1>2, <1>3

Deriving == {"co_investments", "co_founders", "works_under"}

\* An extractor that derives nothing keeps what was derived right.
LEMMA OrdinaryStep ==
    ASSUME Inv, NEW S, Draftable(S), \A x \in S : Ordinary(x.edge, Here),
           draft' = draft \cup Fresh(S), UNCHANGED who,
           step' \in {step, step + 1}, Here \notin Deriving \cup {"done"}
    PROVE  Inv'
<1>1. step \in 1..22 /\ step \notin {9, 10, 21, 22}
  BY StepsInOrder DEF Inv, Typed, Here, Deriving
<1>2. Typed'
  BY <1>1 DEF Inv, Typed
<1>3. AllAreSound' /\ NoneIsDouble'
  BY AddKeepsSound
<1>4. \A x \in Fresh(S) :
          /\ x.edge \notin Derived
          /\ x.edge = "INVESTED_IN" => step = 1
          /\ x.edge = "FOUNDED" => step = 2
  BY <1>1, StepsInOrder DEF Fresh, Ordinary, Here
<1>5. NotDerivedEarly'
  BY <1>1, <1>4 DEF Inv, NotDerivedEarly, Derived
<1>6. \A edge \in Derived : Drafted(edge)' = Drafted(edge)
  BY <1>4 DEF Drafted
<1>7. step > 2 => \A edge \in {"INVESTED_IN", "FOUNDED"} : Drafted(edge)' = Drafted(edge)
  BY <1>1, <1>4 DEF Drafted
<1>8. DerivedRightly'
  <2>1. ASSUME step' > 9 PROVE Linked("INVESTED_IN", "CO_INVESTED_WITH")'
    <3>1. step > 9
      BY <1>1, <2>1
    <3>2. Linked("INVESTED_IN", "CO_INVESTED_WITH")
      BY <3>1 DEF Inv, DerivedRightly
    <3>3. /\ Drafted("INVESTED_IN")' = Drafted("INVESTED_IN")
          /\ Drafted("CO_INVESTED_WITH")' = Drafted("CO_INVESTED_WITH")
      BY <1>1, <1>6, <1>7, <3>1 DEF Derived
    <3> QED
      BY <3>2, <3>3 DEF Linked, Joins
  <2>2. ASSUME step' > 10 PROVE Linked("FOUNDED", "CO_FOUNDED_WITH")'
    <3>1. step > 10
      BY <1>1, <2>2
    <3>2. Linked("FOUNDED", "CO_FOUNDED_WITH")
      BY <3>1 DEF Inv, DerivedRightly
    <3>3. /\ Drafted("FOUNDED")' = Drafted("FOUNDED")
          /\ Drafted("CO_FOUNDED_WITH")' = Drafted("CO_FOUNDED_WITH")
      BY <1>1, <1>6, <1>7, <3>1 DEF Derived
    <3> QED
      BY <3>2, <3>3 DEF Linked, Joins
  <2>3. ~(step' > 21)
    BY <1>1
  <2> QED
    BY <2>1, <2>2, <2>3 DEF DerivedRightly
<1> QED
  BY <1>2, <1>3, <1>5, <1>8 DEF Inv

-----------------------------------------------------------------------------
(* The deriving extractors.                                                 *)

\* The edges of one type that follow from those of another.
Links(of, as) == {Draft(p[1], p[2], as, "primary") : p \in Pairs(of)}

LEMMA DraftShape ==
    ASSUME NEW a, NEW b, NEW edge, NEW quality
    PROVE  /\ Draft(a, b, edge, quality).from = a
           /\ Draft(a, b, edge, quality).to = b
           /\ Draft(a, b, edge, quality).edge = edge
           /\ Draft(a, b, edge, quality).sensitive = Mark(edge, {a, b})
BY DEF Draft

\* Who sits at both ends of a pair.
LEMMA PairsAreOrdered ==
    ASSUME Inv, NEW of
    PROVE  /\ \A p \in Pairs(of) : p = <<p[1], p[2]>> /\ p[1] \in Entity /\ p[2] \in Entity /\ p[1] < p[2]
           /\ \A a, b : <<a, b>> \in Pairs(of) <=>
                  a < b /\ \E x, y \in Drafted(of) : x.from = a /\ y.from = b /\ x.to = y.to
<1>1. \A x \in Drafted(of) : x.from \in Entity
  BY DEF Drafted, Inv, AllAreSound, Sound
<1>2. \A p : p \in Pairs(of) <=>
          \E x, y \in Drafted(of) : p = <<x.from, y.from>> /\ x.to = y.to /\ x.from < y.from
  <2>1. ASSUME NEW p \in Pairs(of)
        PROVE  \E x, y \in Drafted(of) : p = <<x.from, y.from>> /\ x.to = y.to /\ x.from < y.from
    <3>1. PICK z \in Drafted(of) \X Drafted(of) :
              p = <<z[1].from, z[2].from>> /\ z[1].to = z[2].to /\ z[1].from < z[2].from
      BY DEF Pairs
    <3>2. z[1] \in Drafted(of) /\ z[2] \in Drafted(of)
      OBVIOUS
    <3> QED
      BY <3>1, <3>2
  <2>2. ASSUME NEW x \in Drafted(of), NEW y \in Drafted(of), x.to = y.to, x.from < y.from
        PROVE  <<x.from, y.from>> \in Pairs(of)
    <3>1. <<x, y>> \in Drafted(of) \X Drafted(of) /\ <<x, y>>[1] = x /\ <<x, y>>[2] = y
      OBVIOUS
    <3> QED
      BY <2>2, <3>1 DEF Pairs
  <2> QED
    BY <2>1, <2>2
<1>3. \A a, b : <<a, b>> \in Pairs(of) <=>
          a < b /\ \E x, y \in Drafted(of) : x.from = a /\ y.from = b /\ x.to = y.to
  BY <1>2
<1> QED
  BY <1>1, <1>2, <1>3

\* A draft is marked if it is delicate.
LEMMA DraftIsSound ==
    ASSUME NEW a \in Entity, NEW b, NEW edge, NEW quality,
           b \in Entity \/ (b = Property /\ edge = "OWNS"), edge # Leaked
    PROVE  Sound(Draft(a, b, edge, quality))
<1> DEFINE d == Draft(a, b, edge, quality)
<1>1. d.from = a /\ d.to = b /\ d.edge = edge /\ d.sensitive = Mark(edge, {a, b})
  BY DraftShape
<1> HIDE DEF d
<1>2. Delicate(d) => d.sensitive
  BY <1>1 DEF Delicate, Mark
<1> QED
  BY <1>1, <1>2 DEF Sound, d

LEMMA LinksAreDraftable ==
    ASSUME Inv, NEW of, NEW as, as # Leaked
    PROVE  Draftable(Links(of, as))
<1>1. \A x \in Links(of, as) : Sound(x)
  <2> SUFFICES ASSUME NEW p \in Pairs(of) PROVE Sound(Draft(p[1], p[2], as, "primary"))
    BY DEF Links
  <2>1. p[1] \in Entity /\ p[2] \in Entity
    BY PairsAreOrdered
  <2> QED
    BY <2>1, DraftIsSound
<1>2. ASSUME NEW x \in Links(of, as), NEW y \in Links(of, as), SameEdge(x, y)
      PROVE  x = y
  <2>1. PICK p \in Pairs(of) : x = Draft(p[1], p[2], as, "primary")
    BY DEF Links
  <2>2. PICK q \in Pairs(of) : y = Draft(q[1], q[2], as, "primary")
    BY DEF Links
  <2>3. x.from = p[1] /\ x.to = p[2] /\ y.from = q[1] /\ y.to = q[2]
    BY <2>1, <2>2 DEF Draft
  <2>4. p[1] \in Nat /\ p[2] \in Nat /\ q[1] \in Nat /\ q[2] \in Nat /\ p[1] < p[2] /\ q[1] < q[2]
    BY PairsAreOrdered, EntityAssumption
  <2>5. p[1] = q[1] /\ p[2] = q[2]
    BY <1>2, <2>3, <2>4 DEF SameEdge
  <2> QED
    BY <2>1, <2>2, <2>5
<1> QED
  BY <1>1, <1>2 DEF Draftable

\* If no edge of the derived type is there yet, exactly the links are
\* afterwards, and all other edges stay.
LEMMA LinksAreDrafted ==
    ASSUME Inv, NEW of, NEW as, of # as, Drafted(as) = {},
           draft' = draft \cup Fresh(Links(of, as)), UNCHANGED who
    PROVE  /\ Drafted(as)' = Links(of, as)
           /\ \A edge : edge # as => Drafted(edge)' = Drafted(edge)
           /\ Linked(of, as)'
<1>1. \A x \in Links(of, as) : x.edge = as /\ x.from # x.to
  <2> SUFFICES ASSUME NEW x \in Links(of, as) PROVE x.edge = as /\ x.from # x.to
    OBVIOUS
  <2>1. PICK p \in Pairs(of) : x = Draft(p[1], p[2], as, "primary")
    BY DEF Links
  <2>2. x.edge = as /\ x.from = p[1] /\ x.to = p[2]
    BY <2>1 DEF Draft
  <2>3. p[1] \in Nat /\ p[2] \in Nat /\ p[1] < p[2]
    BY PairsAreOrdered, EntityAssumption
  <2> QED
    BY <2>2, <2>3
<1>2. Fresh(Links(of, as)) = Links(of, as)
  BY <1>1 DEF Fresh, SameEdge, Drafted
<1>3. Drafted(as)' = Links(of, as)
  BY <1>1, <1>2 DEF Drafted
<1>4. \A edge : edge # as => Drafted(edge)' = Drafted(edge)
  BY <1>1, <1>2 DEF Drafted
<1>5. ASSUME NEW a \in Entity, NEW b \in Entity
      PROVE  (\E d \in Links(of, as) : Joins(d, a, b))
             <=> a # b /\ \E x, y \in Drafted(of) : x.from = a /\ y.from = b /\ x.to = y.to
  <2>1. (\E d \in Links(of, as) : Joins(d, a, b)) <=> \E p \in Pairs(of) : {p[1], p[2]} = {a, b}
    <3>1. \A p \in Pairs(of) : Joins(Draft(p[1], p[2], as, "primary"), a, b) <=> {p[1], p[2]} = {a, b}
      BY DEF Draft, Joins
    <3>2. ASSUME NEW d \in Links(of, as), Joins(d, a, b)
          PROVE  \E p \in Pairs(of) : {p[1], p[2]} = {a, b}
      <4>1. PICK p \in Pairs(of) : d = Draft(p[1], p[2], as, "primary")
        BY DEF Links
      <4> QED
        BY <3>1, <3>2, <4>1
    <3>3. ASSUME NEW p \in Pairs(of), {p[1], p[2]} = {a, b}
          PROVE  \E d \in Links(of, as) : Joins(d, a, b)
      <4>1. Draft(p[1], p[2], as, "primary") \in Links(of, as)
        BY DEF Links
      <4> QED
        BY <3>1, <3>3, <4>1
    <3> QED
      BY <3>2, <3>3
  <2>2. (\E p \in Pairs(of) : {p[1], p[2]} = {a, b}) <=> <<a, b>> \in Pairs(of) \/ <<b, a>> \in Pairs(of)
    BY PairsAreOrdered
  <2>3. a \in Nat /\ b \in Nat
    BY EntityAssumption
  <2>4. a # b <=> a < b \/ b < a
    BY <2>3
  <2>5. /\ <<a, b>> \in Pairs(of) <=>
              a < b /\ \E x, y \in Drafted(of) : x.from = a /\ y.from = b /\ x.to = y.to
        /\ <<b, a>> \in Pairs(of) <=>
              b < a /\ \E x, y \in Drafted(of) : x.from = b /\ y.from = a /\ x.to = y.to
    BY PairsAreOrdered
  <2>6. (\E x, y \in Drafted(of) : x.from = b /\ y.from = a /\ x.to = y.to)
        <=> \E x, y \in Drafted(of) : x.from = a /\ y.from = b /\ x.to = y.to
    OBVIOUS
  <2> QED
    BY <2>1, <2>2, <2>4, <2>5, <2>6
<1>6. Drafted(of)' = Drafted(of)
  BY <1>4
<1>7. Linked(of, as)'
  <2> SUFFICES ASSUME NEW a \in Entity, NEW b \in Entity
               PROVE  (\E d \in Drafted(as)' : Joins(d, a, b))
                      <=> a # b /\ \E x, y \in Drafted(of)' :
                                      x.from = a /\ y.from = b /\ x.to = y.to
    BY DEF Linked, Joins
  <2>1. (\E d \in Links(of, as) : Joins(d, a, b))
        <=> a # b /\ \E x, y \in Drafted(of) : x.from = a /\ y.from = b /\ x.to = y.to
    BY <1>5
  <2>2. (\E d \in Drafted(as)' : Joins(d, a, b)) <=> (\E d \in Links(of, as) : Joins(d, a, b))
    BY <1>3
  <2>3. (\E x, y \in Drafted(of)' : x.from = a /\ y.from = b /\ x.to = y.to)
        <=> (\E x, y \in Drafted(of) : x.from = a /\ y.from = b /\ x.to = y.to)
    BY <1>6
  <2> QED
    BY <2>1, <2>2, <2>3
<1> QED
  BY <1>3, <1>4, <1>7

LEMMA InvestmentsAreLinked == Inv /\ CoInvestments => Inv'
<1> SUFFICES ASSUME Inv, CoInvestments PROVE Inv'
  OBVIOUS
<1> DEFINE S == Links("INVESTED_IN", "CO_INVESTED_WITH")
<1>1. /\ draft' = draft \cup Fresh(S) /\ step' = step + 1 /\ UNCHANGED who
      /\ Here = "co_investments"
  BY DEF CoInvestments, Finish, Links
<1>2. step = 9 /\ step' = 10
  BY <1>1, StepsInOrder DEF Here, Inv, Typed
<1>3. Drafted("CO_INVESTED_WITH") = {}
  BY <1>2 DEF Inv, NotDerivedEarly, Drafted
<1>4. Draftable(S)
  BY LinksAreDraftable DEF Leaked
<1> HIDE DEF S
<1>5. /\ \A edge : edge # "CO_INVESTED_WITH" => Drafted(edge)' = Drafted(edge)
      /\ Linked("INVESTED_IN", "CO_INVESTED_WITH")'
  BY <1>1, <1>3, LinksAreDrafted DEF S
<1>6. AllAreSound' /\ NoneIsDouble'
  BY <1>1, <1>4, AddKeepsSound
<1>7. NotDerivedEarly'
  <2>1. \A d \in draft' : d.edge \in {"CO_FOUNDED_WITH", "WORKS_UNDER"} => d \in draft
    BY <1>5 DEF Drafted
  <2> QED
    BY <1>2, <2>1 DEF Inv, NotDerivedEarly
<1>8. Typed'
  BY <1>1, <1>2 DEF Inv, Typed
<1>9. DerivedRightly'
  BY <1>2, <1>5 DEF DerivedRightly
<1> QED
  BY <1>6, <1>7, <1>8, <1>9 DEF Inv

LEMMA FoundersAreLinked == Inv /\ CoFounders => Inv'
<1> SUFFICES ASSUME Inv, CoFounders PROVE Inv'
  OBVIOUS
<1> DEFINE S == Links("FOUNDED", "CO_FOUNDED_WITH")
<1>1. /\ draft' = draft \cup Fresh(S) /\ step' = step + 1 /\ UNCHANGED who
      /\ Here = "co_founders"
  BY DEF CoFounders, Finish, Links
<1>2. step = 10 /\ step' = 11
  BY <1>1, StepsInOrder DEF Here, Inv, Typed
<1>3. Drafted("CO_FOUNDED_WITH") = {}
  BY <1>2 DEF Inv, NotDerivedEarly, Drafted
<1>4. Draftable(S)
  BY LinksAreDraftable DEF Leaked
<1> HIDE DEF S
<1>5. /\ \A edge : edge # "CO_FOUNDED_WITH" => Drafted(edge)' = Drafted(edge)
      /\ Linked("FOUNDED", "CO_FOUNDED_WITH")'
  BY <1>1, <1>3, LinksAreDrafted DEF S
<1>6. AllAreSound' /\ NoneIsDouble'
  BY <1>1, <1>4, AddKeepsSound
<1>7. NotDerivedEarly'
  <2>1. \A d \in draft' : d.edge \in {"CO_INVESTED_WITH", "WORKS_UNDER"} => d \in draft
    BY <1>5 DEF Drafted
  <2> QED
    BY <1>2, <2>1 DEF Inv, NotDerivedEarly
<1>8. Typed'
  BY <1>1, <1>2 DEF Inv, Typed
<1>9. Linked("INVESTED_IN", "CO_INVESTED_WITH")'
  <2>1. Linked("INVESTED_IN", "CO_INVESTED_WITH")
    BY <1>2 DEF Inv, DerivedRightly
  <2>2. /\ Drafted("INVESTED_IN")' = Drafted("INVESTED_IN")
        /\ Drafted("CO_INVESTED_WITH")' = Drafted("CO_INVESTED_WITH")
    BY <1>5
  <2> QED
    BY <2>1, <2>2 DEF Linked, Joins
<1>10. DerivedRightly'
  BY <1>2, <1>5, <1>9 DEF DerivedRightly
<1> QED
  BY <1>6, <1>7, <1>8, <1>10 DEF Inv

\* What a chain is made of.
LEMMA ChainsAreOfPeople ==
    /\ \A c \in Chains : /\ c = <<c[1], c[2]>> /\ c[1] # c[2]
                         /\ IsPerson(c[1]) /\ IsPerson(c[2])
    /\ \A a, b : <<a, b>> \in Chains <=>
           /\ a # b /\ IsPerson(a) /\ IsPerson(b)
           /\ \E x \in Drafted("EMPLOYED_BY"), y \in Drafted("SITS_ON_BOARD_OF") :
                 x.from = a /\ y.from = b /\ x.to = y.to
<1> DEFINE E == Drafted("EMPLOYED_BY")
           B == Drafted("SITS_ON_BOARD_OF")
<1> HIDE DEF E, B
<1>1. Chains = {<<x[1].from, x[2].from>> :
                   x \in {y \in E \X B : /\ y[1].to = y[2].to /\ y[1].from # y[2].from
                                         /\ IsPerson(y[1].from) /\ IsPerson(y[2].from)}}
  BY DEF Chains, E, B
<1>2. ASSUME NEW c \in Chains
      PROVE  \E x \in E, y \in B :
                /\ c = <<x.from, y.from>> /\ x.to = y.to /\ x.from # y.from
                /\ IsPerson(x.from) /\ IsPerson(y.from)
  <2>1. PICK z \in E \X B :
            /\ c = <<z[1].from, z[2].from>> /\ z[1].to = z[2].to /\ z[1].from # z[2].from
            /\ IsPerson(z[1].from) /\ IsPerson(z[2].from)
    BY <1>1
  <2>2. z[1] \in E /\ z[2] \in B
    OBVIOUS
  <2> QED
    BY <2>1, <2>2
<1>3. ASSUME NEW x \in E, NEW y \in B, x.to = y.to, x.from # y.from,
             IsPerson(x.from), IsPerson(y.from)
      PROVE  <<x.from, y.from>> \in Chains
  <2>1. <<x, y>> \in E \X B /\ <<x, y>>[1] = x /\ <<x, y>>[2] = y
    OBVIOUS
  <2> QED
    BY <1>1, <1>3, <2>1
<1> QED
  BY <1>2, <1>3 DEF E, B

LEMMA ChainsAreLinked == Inv /\ WorksUnder => Inv'
<1> SUFFICES ASSUME Inv, WorksUnder PROVE Inv'
  OBVIOUS
<1> DEFINE Under(c) == [from |-> c[1], to |-> c[2], edge |-> "WORKS_UNDER",
                        strength |-> Strength("WORKS_UNDER", "tertiary", TRUE),
                        inferred |-> TRUE, sensitive |-> FALSE]
           S == {Under(c) : c \in Chains}
<1>1. /\ draft' = draft \cup Fresh(S) /\ step' = step + 1 /\ UNCHANGED who
      /\ Here = "works_under"
  BY DEF WorksUnder, Finish
<1>2. step = 21 /\ step' = 22
  BY <1>1, StepsInOrder DEF Here, Inv, Typed
<1>3. Drafted("WORKS_UNDER") = {}
  BY <1>2 DEF Inv, NotDerivedEarly, Drafted
<1>4. \A c : /\ Under(c).from = c[1] /\ Under(c).to = c[2]
             /\ Under(c).edge = "WORKS_UNDER" /\ Under(c).sensitive = FALSE
  OBVIOUS
<1> HIDE DEF Under
<1>5. \A x \in S : /\ x.edge = "WORKS_UNDER" /\ x.from # x.to
                   /\ IsPerson(x.from) /\ IsPerson(x.to)
  BY <1>4, ChainsAreOfPeople
<1>6. Draftable(S)
  <2>1. ASSUME NEW x \in S PROVE Sound(x)
    <3>1. x.edge = "WORKS_UNDER" /\ IsPerson(x.from) /\ IsPerson(x.to)
      BY <1>5
    <3>2. "WORKS_UNDER" \notin SensitiveTypes \cup {Leaked} /\ "illicit" \notin Persons
      BY DEF SensitiveTypes, Leaked, Persons
    <3>3. ~Delicate(x)
      BY <3>1, <3>2 DEF Delicate, IsPerson
    <3> QED
      BY <3>1, <3>3 DEF Sound, IsPerson
  <2>2. ASSUME NEW x \in S, NEW y \in S, SameEdge(x, y) PROVE x = y
    <3>1. PICK c \in Chains : x = Under(c)
      OBVIOUS
    <3>2. PICK e \in Chains : y = Under(e)
      OBVIOUS
    <3>3. x.edge \notin Undirected
      BY <1>5 DEF Undirected
    <3>4. c[1] = e[1] /\ c[2] = e[2]
      BY <1>4, <2>2, <3>1, <3>2, <3>3 DEF SameEdge
    <3>5. c = e
      BY <3>4, ChainsAreOfPeople
    <3> QED
      BY <3>1, <3>2, <3>5
  <2> QED
    BY <2>1, <2>2 DEF Draftable
<1>7. Fresh(S) = S
  BY <1>3, <1>5 DEF Fresh, SameEdge, Drafted
<1>8. AllAreSound' /\ NoneIsDouble'
  <2> HIDE DEF S
  <2> QED
    BY <1>1, <1>6, AddKeepsSound
<1>9. /\ Drafted("WORKS_UNDER")' = S
      /\ \A edge : edge # "WORKS_UNDER" => Drafted(edge)' = Drafted(edge)
  <2> HIDE DEF S
  <2> QED
    BY <1>1, <1>3, <1>5, <1>7 DEF Drafted
<1>10. NotDerivedEarly'
  BY <1>2 DEF NotDerivedEarly
<1>11. Chains' = Chains
  <2>1. /\ Drafted("EMPLOYED_BY")' = Drafted("EMPLOYED_BY")
        /\ Drafted("SITS_ON_BOARD_OF")' = Drafted("SITS_ON_BOARD_OF")
    BY <1>9
  <2>2. \A e : IsPerson(e)' <=> IsPerson(e)
    BY <1>1 DEF IsPerson
  <2> QED
    BY <2>1, <2>2 DEF Chains
<1>12. Chained'
  <2> SUFFICES ASSUME NEW a \in Entity, NEW b \in Entity
               PROVE  (\E d \in Drafted("WORKS_UNDER")' : d.from = a /\ d.to = b)
                      <=> <<a, b>> \in Chains'
    BY DEF Chained
  <2>1. ASSUME NEW d \in S, d.from = a, d.to = b PROVE <<a, b>> \in Chains
    <3>1. PICK c \in Chains : d = Under(c)
      OBVIOUS
    <3> QED
      BY <1>4, <2>1, <3>1, ChainsAreOfPeople
  <2>2. ASSUME <<a, b>> \in Chains PROVE \E d \in S : d.from = a /\ d.to = b
    <3>1. Under(<<a, b>>) \in S
      BY <2>2
    <3>2. <<a, b>>[1] = a /\ <<a, b>>[2] = b
      OBVIOUS
    <3> QED
      BY <1>4, <3>1, <3>2
  <2> HIDE DEF S
  <2> QED
    BY <1>9, <1>11, <2>1, <2>2
<1>13. Linked("INVESTED_IN", "CO_INVESTED_WITH")' /\ Linked("FOUNDED", "CO_FOUNDED_WITH")'
  <2>1. Linked("INVESTED_IN", "CO_INVESTED_WITH") /\ Linked("FOUNDED", "CO_FOUNDED_WITH")
    BY <1>2 DEF Inv, DerivedRightly
  <2>2. \A edge \in {"INVESTED_IN", "CO_INVESTED_WITH", "FOUNDED", "CO_FOUNDED_WITH"} :
            Drafted(edge)' = Drafted(edge)
    BY <1>9
  <2>3. Linked("INVESTED_IN", "CO_INVESTED_WITH")'
    BY <2>1, <2>2 DEF Linked, Joins
  <2>4. Linked("FOUNDED", "CO_FOUNDED_WITH")'
    BY <2>1, <2>2 DEF Linked, Joins
  <2> QED
    BY <2>3, <2>4
<1>14. Typed'
  BY <1>1, <1>2 DEF Inv, Typed
<1>15. DerivedRightly'
  BY <1>12, <1>13 DEF DerivedRightly
<1> QED
  BY <1>8, <1>10, <1>14, <1>15 DEF Inv

-----------------------------------------------------------------------------
(* The extractors that read fields.                                         *)

\* Drafts of one type, of which no two say the same.
LEMMA DraftsAreDraftable ==
    ASSUME NEW S, NEW edge, NEW quality, edge # Leaked,
           \A x \in S : \E a \in Entity, b \in Entity \cup {Property} :
               /\ b \in Entity \/ (b = Property /\ edge = "OWNS")
               /\ x = Draft(a, b, edge, quality),
           edge \in Undirected => \A x, y \in S : x = y
    PROVE  Draftable(S) /\ \A x \in S : x.edge = edge
<1>1. \A x \in S : Sound(x) /\ x.edge = edge
  <2> SUFFICES ASSUME NEW x \in S PROVE Sound(x) /\ x.edge = edge
    OBVIOUS
  <2>1. PICK a \in Entity, b \in Entity \cup {Property} :
            /\ b \in Entity \/ (b = Property /\ edge = "OWNS")
            /\ x = Draft(a, b, edge, quality)
    OBVIOUS
  <2>2. Sound(Draft(a, b, edge, quality))
    BY <2>1, DraftIsSound
  <2>3. x.edge = edge
    BY <2>1 DEF Draft
  <2> QED
    BY <2>1, <2>2, <2>3
<1>2. ASSUME NEW x \in S, NEW y \in S, SameEdge(x, y) PROVE x = y
  <2>1. CASE edge \in Undirected
    BY <2>1
  <2>2. CASE edge \notin Undirected
    <3>1. PICK a, b : x = Draft(a, b, edge, quality)
      OBVIOUS
    <3>2. PICK c, d : y = Draft(c, d, edge, quality)
      OBVIOUS
    <3>3. x.from = a /\ x.to = b /\ y.from = c /\ y.to = d
      BY <3>1, <3>2 DEF Draft
    <3>4. a = c /\ b = d
      BY <1>1, <1>2, <2>2, <3>3 DEF SameEdge
    <3> QED
      BY <3>1, <3>2, <3>4
  <2> QED
    BY <2>1, <2>2
<1> QED
  BY <1>1, <1>2 DEF Draftable

LEMMA ReadKeepsInv ==
    ASSUME Inv, NEW S, Read(S), Draftable(S), \A x \in S : Ordinary(x.edge, Here),
           Here \notin Deriving \cup {"done"}
    PROVE  Inv'
BY OrdinaryStep DEF Read

LEMMA FieldsKeepInv == Inv /\ ReadField => Inv'
<1> SUFFICES ASSUME Inv, ReadField PROVE Inv'
  OBVIOUS
<1>1. PICK r \in Fields[Here], h \in Entity, m \in Mention :
          Read({IF r.holderIs = "source" THEN Draft(h, e, r.edge, r.quality)
                                         ELSE Draft(e, h, r.edge, r.quality) :
                  e \in FindFirst(m, r.wanted)})
  BY DEF ReadField
<1> DEFINE S == {IF r.holderIs = "source" THEN Draft(h, e, r.edge, r.quality)
                                          ELSE Draft(e, h, r.edge, r.quality) :
                   e \in FindFirst(m, r.wanted)}
<1>2. Ordinary(r.edge, Here) /\ Here \in DOMAIN Fields
  BY RulesAreOrdinary DEF ReadField
<1>3. r.edge # Leaked /\ Here \notin Deriving \cup {"done"}
  <2>1. r.edge \in {"INVESTED_IN", "FOUNDED", "EMPLOYED_BY", "SITS_ON_BOARD_OF", "DONATED_TO",
                    "RECEIVED_GRANT_FROM", "SUBSIDIARY_OF", "FORMERLY_EMPLOYED_BY"}
    BY <1>2, RulesAreKnown
  <2> QED
    BY <1>2, <2>1 DEF Leaked, Deriving, Fields
<1>4. /\ \A x \in S : \E a, b \in Entity : x = Draft(a, b, r.edge, r.quality)
      /\ \A x, y \in S : x = y
  BY NamesFindEntities
<1> HIDE DEF S
<1>5. Draftable(S) /\ \A x \in S : x.edge = r.edge
  BY <1>3, <1>4, DraftsAreDraftable
<1> QED
  BY <1>1, <1>2, <1>3, <1>5, ReadKeepsInv DEF S

\* All of some with all of others.
LEMMA DraftsOfTwo ==
    ASSUME NEW A, NEW B, NEW edge, NEW quality, NEW x \in Drafts(A, B, edge, quality)
    PROVE  \E a \in A, b \in B : x = Draft(a, b, edge, quality)
BY DEF Drafts

LEMMA CasesKeepInv == Inv /\ ReadCase => Inv'
<1> SUFFICES ASSUME Inv, ReadCase PROVE Inv'
  OBVIOUS
<1>1. PICK h \in OfType(Entity, "illicit"), plaintiff \in Mention, defendant \in Mention :
          Read(Drafts(IF FindAnyByName(plaintiff) = {} THEN {h} ELSE FindAnyByName(plaintiff),
                      FindAnyByName(defendant), "LITIGATION_AGAINST", "primary"))
  BY DEF ReadCase
<1> DEFINE A == IF FindAnyByName(plaintiff) = {} THEN {h} ELSE FindAnyByName(plaintiff)
           S == Drafts(A, FindAnyByName(defendant), "LITIGATION_AGAINST", "primary")
<1>2. A \subseteq Entity /\ FindAnyByName(defendant) \subseteq Entity
  BY NamesFindEntities DEF OfType
<1>3. \A x \in S : \E a, b \in Entity : x = Draft(a, b, "LITIGATION_AGAINST", "primary")
  BY <1>2, DraftsOfTwo
<1> HIDE DEF S
<1>4. Draftable(S) /\ \A x \in S : x.edge = "LITIGATION_AGAINST"
  BY <1>3, DraftsAreDraftable DEF Leaked, Undirected
<1>5. Here = "litigation"
  BY DEF ReadCase
<1>6. \A x \in S : Ordinary(x.edge, Here)
  BY <1>4 DEF Ordinary, Derived
<1> QED
  BY <1>1, <1>4, <1>5, <1>6, ReadKeepsInv DEF S, Deriving

LEMMA DocketsKeepInv == Inv /\ ReadDocket => Inv'
<1> SUFFICES ASSUME Inv, ReadDocket PROVE Inv'
  OBVIOUS
<1>1. PICK h \in Entity, P \in SUBSET Entity, D \in SUBSET Entity :
          Read(Drafts(IF P # {} /\ D # {} THEN P ELSE {h}, IF D # {} THEN D ELSE P,
                      "LITIGATION_AGAINST", "primary"))
  BY DEF ReadDocket
<1> DEFINE A == IF P # {} /\ D # {} THEN P ELSE {h}
           B == IF D # {} THEN D ELSE P
           S == Drafts(A, B, "LITIGATION_AGAINST", "primary")
<1>2. A \subseteq Entity /\ B \subseteq Entity
  OBVIOUS
<1>3. \A x \in S : \E a, b \in Entity : x = Draft(a, b, "LITIGATION_AGAINST", "primary")
  BY <1>2, DraftsOfTwo
<1> HIDE DEF S
<1>4. Draftable(S) /\ \A x \in S : x.edge = "LITIGATION_AGAINST"
  BY <1>3, DraftsAreDraftable DEF Leaked, Undirected
<1>5. Here = "courtlistener"
  BY DEF ReadDocket
<1>6. \A x \in S : Ordinary(x.edge, Here)
  BY <1>4 DEF Ordinary, Derived
<1> QED
  BY <1>1, <1>4, <1>5, <1>6, ReadKeepsInv DEF S, Deriving

LEMMA LittleSisKeepsInv == Inv /\ ReadLittleSis => Inv'
<1> SUFFICES ASSUME Inv, ReadLittleSis PROVE Inv'
  OBVIOUS
<1>1. PICK a \in Entity, b \in Entity, edge \in LittleSisTypes :
          Read({Draft(a, b, edge, "secondary")})
  BY DEF ReadLittleSis
<1> DEFINE S == {Draft(a, b, edge, "secondary")}
<1>2. edge # Leaked /\ Ordinary(edge, "littlesis")
  BY DEF LittleSisTypes, Leaked, Ordinary, Derived
<1>3. /\ \A x \in S : \E c, d \in Entity : x = Draft(c, d, edge, "secondary")
      /\ \A x, y \in S : x = y
  OBVIOUS
<1> HIDE DEF S
<1>4. Draftable(S) /\ \A x \in S : x.edge = edge
  BY <1>2, <1>3, DraftsAreDraftable
<1>5. Here = "littlesis"
  BY DEF ReadLittleSis
<1> QED
  BY <1>1, <1>2, <1>4, <1>5, ReadKeepsInv DEF S, Deriving

LEMMA PropertiesKeepInv == Inv /\ ReadProperty => Inv'
<1> SUFFICES ASSUME Inv, ReadProperty PROVE Inv'
  OBVIOUS
<1>1. PICK h \in OfType(Entity, "corporate") \cup OfType(Entity, "investor"), m \in Mention :
          Read(Drafts({h}, IF FindByName(m, "real_estate") = {} THEN {Property}
                           ELSE FindByName(m, "real_estate"), "OWNS", "primary"))
  BY DEF ReadProperty
<1> DEFINE B == IF FindByName(m, "real_estate") = {} THEN {Property}
                ELSE FindByName(m, "real_estate")
           S == Drafts({h}, B, "OWNS", "primary")
<1>2. h \in Entity /\ B \subseteq Entity \cup {Property}
  BY NamesFindEntities DEF OfType
<1>3. \A x \in S : \E a \in Entity, b \in Entity \cup {Property} :
          /\ b \in Entity \/ (b = Property /\ "OWNS" = "OWNS")
          /\ x = Draft(a, b, "OWNS", "primary")
  <2> HIDE DEF B
  <2> QED
    BY <1>2, DraftsOfTwo
<1> HIDE DEF S
<1>4. Draftable(S) /\ \A x \in S : x.edge = "OWNS"
  BY <1>3, DraftsAreDraftable DEF Leaked, Undirected
<1>5. Here = "hud"
  BY DEF ReadProperty
<1>6. \A x \in S : Ordinary(x.edge, Here)
  BY <1>4 DEF Ordinary, Derived
<1> QED
  BY <1>1, <1>4, <1>5, <1>6, ReadKeepsInv DEF S, Deriving

LEMMA LeaksKeepInv == Inv /\ ReadLeak => Inv'
<1> SUFFICES ASSUME Inv, ReadLeak PROVE Inv'
  OBVIOUS
<1>1. PICK a \in Entity, b \in Entity :
          Read({[Draft(a, b, Leaked, "secondary") EXCEPT !.sensitive = TRUE]})
  BY DEF ReadLeak
<1> DEFINE x == [Draft(a, b, Leaked, "secondary") EXCEPT !.sensitive = TRUE]
<1>2. x.from = a /\ x.to = b /\ x.edge = Leaked /\ x.sensitive = TRUE
  BY DEF Draft
<1> HIDE DEF x
<1>3. Draftable({x})
  BY <1>2 DEF Draftable, Sound
<1>4. Here = "icij"
  BY DEF ReadLeak
<1>5. Ordinary(x.edge, Here)
  BY <1>2 DEF Ordinary, Derived, Leaked
<1> QED
  BY <1>1, <1>3, <1>4, <1>5, ReadKeepsInv DEF x, Deriving

LEMMA RepliesKeepInv == Inv /\ ReadReply => Inv'
<1> SUFFICES ASSUME Inv, ReadReply PROVE Inv'
  OBVIOUS
<1>1. PICK a \in Mention, b \in Mention, edge \in LLMTypes :
          Read(Drafts(FindAnyByName(a), FindAnyByName(b), edge, "tertiary"))
  BY DEF ReadReply
<1> DEFINE S == Drafts(FindAnyByName(a), FindAnyByName(b), edge, "tertiary")
<1>2. edge # Leaked /\ Ordinary(edge, "llm")
  BY DEF LLMTypes, Leaked, Ordinary, Derived
<1>3. /\ \A z \in S : \E c, d \in Entity : z = Draft(c, d, edge, "tertiary")
      /\ \A z, w \in S : z = w
  BY NamesFindEntities, DraftsOfTwo
<1> HIDE DEF S
<1>4. Draftable(S) /\ \A z \in S : z.edge = edge
  BY <1>2, <1>3, DraftsAreDraftable
<1>5. Here = "llm"
  BY DEF ReadReply
<1> QED
  BY <1>1, <1>2, <1>4, <1>5, ReadKeepsInv DEF S, Deriving

LEMMA NextExtractorKeepsInv == Inv /\ NextExtractor => Inv'
<1> SUFFICES ASSUME Inv, NextExtractor PROVE Inv'
  OBVIOUS
<1>1. /\ draft' = draft \cup Fresh({}) /\ UNCHANGED who /\ step' = step + 1
      /\ Here \notin Deriving \cup {"done"}
  BY DEF NextExtractor, Finish, Deriving
<1>2. Draftable({})
  BY DEF Draftable
<1> QED
  BY <1>1, <1>2, OrdinaryStep

LEMMA StutteringKeepsInv == Inv /\ UNCHANGED vars => Inv'
<1> SUFFICES ASSUME Inv, UNCHANGED vars PROVE Inv'
  OBVIOUS
<1>1. who' = who /\ step' = step /\ draft' = draft
  BY DEF vars
<1>2. Typed' /\ AllAreSound' /\ NoneIsDouble' /\ NotDerivedEarly'
  BY <1>1 DEF Inv, Typed, AllAreSound, Sound, Delicate, NoneIsDouble, SameEdge, NotDerivedEarly
<1>3. \A edge : Drafted(edge)' = Drafted(edge)
  BY <1>1 DEF Drafted
<1>4. /\ Linked("INVESTED_IN", "CO_INVESTED_WITH") => Linked("INVESTED_IN", "CO_INVESTED_WITH")'
      /\ Linked("FOUNDED", "CO_FOUNDED_WITH") => Linked("FOUNDED", "CO_FOUNDED_WITH")'
  BY <1>3 DEF Linked, Joins
<1>5. Chained' <=> Chained
  BY <1>1 DEF Chained, Chains, Drafted, IsPerson
<1>6. DerivedRightly'
  BY <1>1, <1>4, <1>5 DEF Inv, DerivedRightly
<1> QED
  BY <1>2, <1>6 DEF Inv

LEMMA StepInv == Inv /\ [Next]_vars => Inv'
BY FieldsKeepInv, CasesKeepInv, DocketsKeepInv, LittleSisKeepsInv, PropertiesKeepInv,
   LeaksKeepInv, RepliesKeepInv, InvestmentsAreLinked, FoundersAreLinked, ChainsAreLinked,
   NextExtractorKeepsInv, StutteringKeepsInv
   DEF Next, Step, Complete

-----------------------------------------------------------------------------

LEMMA InvHolds == Spec => []Inv
BY InitInv, StepInv, PTL DEF Spec

\* Whoever drafts them, and whichever extractor comes first, delicate edges are
\* marked: _RelBuilder.add keeps the first draft of an edge and drops the others.
THEOREM DelicateIsMarked == Spec => []DelicateEdgesAreSensitive
<1>1. Inv => DelicateEdgesAreSensitive
  BY DEF Inv, AllAreSound, Sound, Delicate, DelicateEdgesAreSensitive
<1> QED
  BY InvHolds, <1>1, PTL

\* Whoever invested in, or founded, the same is linked, and nobody else:
\* _extract_co_investments and _extract_co_founders derive that in the middle of
\* run(), and no later extractor drafts an edge that they start from.
THEOREM InvestorsAndFoundersMeet == Spec => []SharedTargetsAreLinked
<1>1. Inv => SharedTargetsAreLinked
  <2> SUFFICES ASSUME Inv, Here = "done" PROVE SharedTargetsAreLinked
    BY DEF SharedTargetsAreLinked
  <2>1. step = 22
    BY StepsInOrder DEF Here, Inv, Typed
  <2>2. Linked("INVESTED_IN", "CO_INVESTED_WITH") /\ Linked("FOUNDED", "CO_FOUNDED_WITH")
    BY <2>1 DEF Inv, DerivedRightly
  <2> QED
    BY <2>2 DEF SharedTargetsAreLinked, Linked
<1> QED
  BY InvHolds, <1>1, PTL

\* _infer_works_under, which comes last, leaves in the complete draft exactly the
\* edges that employment and the seats on boards imply, for any entities and
\* answers.
THEOREM EmployeesWorkUnderTheBoard == Spec => []WorksUnderIsTheChain
<1>1. Inv => WorksUnderIsTheChain
  <2> SUFFICES ASSUME Inv, Here = "done", NEW a \in Entity, NEW b \in Entity
               PROVE  (\E d \in Drafted("WORKS_UNDER") : d.from = a /\ d.to = b)
                      <=> /\ a # b /\ IsPerson(a) /\ IsPerson(b)
                          /\ \E c \in Entity :
                                /\ \E d \in Drafted("EMPLOYED_BY") : d.from = a /\ d.to = c
                                /\ \E d \in Drafted("SITS_ON_BOARD_OF") : d.from = b /\ d.to = c
    BY DEF WorksUnderIsTheChain
  <2>1. step = 22
    BY StepsInOrder DEF Here, Inv, Typed
  <2>2. (\E d \in Drafted("WORKS_UNDER") : d.from = a /\ d.to = b) <=> <<a, b>> \in Chains
    BY <2>1 DEF Inv, DerivedRightly, Chained
  <2>3. \A d \in Drafted("EMPLOYED_BY") : d.to \in Entity
    BY DEF Inv, AllAreSound, Sound, Drafted
  <2>4. (\E x \in Drafted("EMPLOYED_BY"), y \in Drafted("SITS_ON_BOARD_OF") :
             x.from = a /\ y.from = b /\ x.to = y.to)
        <=> \E c \in Entity :
               /\ \E d \in Drafted("EMPLOYED_BY") : d.from = a /\ d.to = c
               /\ \E d \in Drafted("SITS_ON_BOARD_OF") : d.from = b /\ d.to = c
    BY <2>3
  <2> QED
    BY <2>2, <2>4, ChainsAreOfPeople
<1> QED
  BY InvHolds, <1>1, PTL

\* No two edges of a draft say the same: what Analysis takes for granted of
\* the drafts that it stores.
THEOREM NothingIsDraftedTwice == Spec => []NoneIsDouble
BY InvHolds, PTL DEF Inv

=============================================================================
