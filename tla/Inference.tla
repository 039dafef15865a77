----------------------------- MODULE Inference -----------------------------
(***************************************************************************)
(* The relationship agent from the empty draft to the complete one         *)
(* (osint/agents/relationship.py): the extractors of Rules one after the   *)
(* other, those that derive edges from the draft itself, and the two that  *)
(* end it, the language model and WORKS_UNDER.  Analysis takes the draft   *)
(* from here on: it writes it to Postgres and Neo4j.                       *)
(*                                                                         *)
(* A field is read when its extractor runs; a field that two extractors    *)
(* read may name different entities to them.                               *)
(***************************************************************************)
EXTENDS Rules, FiniteSets

CONSTANTS
    Entity,    \* canonical entities, numbered in the order of their list
    Names,     \* normalised names, of entities and in the fields
    Types,     \* their types
    MaxFacts   \* bound on the fields that lead to an entity

ASSUME EntityAssumption == Entity \subseteq Nat \ {0} /\ IsFiniteSet(Entity)
ASSUME FactsAssumption  == MaxFacts \in Nat

VARIABLES
    who,    \* name and type of every entity
    step,   \* index into Steps
    facts,  \* fields read so far
    draft   \* rb.draft

vars == <<who, step, facts, draft>>

\* An owner may own a property that is no entity.
Property == 0

Edge == [from : Entity, to : Entity \cup {Property}, edge : STRING,
         strength : 0..10000, inferred : BOOLEAN, sensitive : BOOLEAN]

TypeOK ==
    /\ who \in [Entity -> [name : Names, type : Types]]
    /\ step \in DOMAIN Steps
    /\ facts \in 0..MaxFacts
    /\ draft \subseteq Edge

Init ==
    /\ who \in [Entity -> [name : Names, type : Types]]
    /\ step = 1 /\ facts = 0 /\ draft = {}

-----------------------------------------------------------------------------
(* _find_by_name.                                                          *)

\* What a field says: a name, letter by letter or only alike.
Mention == [name : Names, exact : BOOLEAN]

Named(name) == {e \in Entity : who[e].name = name}

OfType(S, type) == {e \in S : who[e].type = type}

First(S) == IF S = {} THEN {} ELSE {Min(S)}

\* An exact name is taken whatever its type if there is none of the wanted
\* one; a name that is only alike has to be of that type.
FindByName(m, type) ==
    LET typed == OfType(Named(m.name), type) IN
    IF typed = {} /\ m.exact THEN First(Named(m.name)) ELSE First(typed)

FindAnyByName(m) == First(Named(m.name))

\* One type after the other.
FindFirst(m, types) ==
    LET hits == {i \in DOMAIN types : FindByName(m, types[i]) # {}} IN
    IF hits = {} THEN {} ELSE FindByName(m, types[Min(hits)])

-----------------------------------------------------------------------------
(* _RelBuilder.add.                                                        *)

\* Mutant: the ends are not asked.
Mark_TypeOnly(edge, ends) == edge \in SensitiveTypes

Mark(edge, ends) ==
    edge \in SensitiveTypes \/ \E e \in ends \cap Entity : who[e].type = "illicit"

Draft(a, b, edge, quality) ==
    [from |-> a, to |-> b, edge |-> edge, strength |-> Strength(edge, quality, FALSE),
     inferred |-> FALSE, sensitive |-> Mark(edge, {a, b})]

\* All of A with all of B.
Drafts(A, B, edge, quality) == {Draft(a, b, edge, quality) : a \in A, b \in B}

SameEdge(d, x) ==
    /\ d.edge = x.edge
    /\ \/ d.from = x.from /\ d.to = x.to
       \/ d.edge \in Undirected /\ d.from = x.to /\ d.to = x.from

\* Loops and what is drafted already are dropped.
Fresh(S) ==
    {x \in S : x.from # x.to /\ \A d \in draft : ~SameEdge(d, x)}

Here == Steps[step]

\* A field that leads to the edges S.
Read(S) ==
    /\ facts < MaxFacts /\ Fresh(S) # {}
    /\ facts' = facts + 1
    /\ draft' = draft \cup Fresh(S)
    /\ UNCHANGED <<who, step>>

\* Nothing more to read: the next extractor.
Finish(S) ==
    /\ step' = step + 1
    /\ draft' = draft \cup Fresh(S)
    /\ UNCHANGED <<who, facts>>

-----------------------------------------------------------------------------

\* A field of Fields.
ReadField ==
    /\ Here \in DOMAIN Fields
    /\ \E r \in Fields[Here], h \in Entity, m \in Mention :
          /\ who[h].type \in r.holders
          /\ Read({IF r.holderIs = "source" THEN Draft(h, e, r.edge, r.quality)
                                            ELSE Draft(e, h, r.edge, r.quality) :
                     e \in FindFirst(m, r.wanted)})

\* A case of an illicit actor, against whom nobody known may have sued.
ReadCase ==
    /\ Here = "litigation"
    /\ \E h \in OfType(Entity, "illicit"), plaintiff, defendant \in Mention :
          LET P == FindAnyByName(plaintiff) IN
          Read(Drafts(IF P = {} THEN {h} ELSE P, FindAnyByName(defendant),
                      "LITIGATION_AGAINST", "primary"))

\* A docket: all plaintiffs against all defendants; if one side is unknown,
\* the entity it was found for against the other side.
ReadDocket ==
    /\ Here = "courtlistener"
    /\ \E h \in Entity, P, D \in SUBSET Entity :
          /\ Cardinality(P) <= 1 /\ Cardinality(D) <= 2
          /\ Read(Drafts(IF P # {} /\ D # {} THEN P ELSE {h}, IF D # {} THEN D ELSE P,
                         "LITIGATION_AGAINST", "primary"))

\* A relationship between two entities whose numbers in LittleSis are known.
ReadLittleSis ==
    /\ Here = "littlesis"
    /\ \E a, b \in Entity, edge \in LittleSisTypes : Read({Draft(a, b, edge, "secondary")})

\* A property of the housing office, which hardly ever is an entity: a target
\* is made up for it.
ReadProperty ==
    /\ Here = "hud"
    /\ \E h \in OfType(Entity, "corporate") \cup OfType(Entity, "investor"), m \in Mention :
          LET P == FindByName(m, "real_estate") IN
          Read(Drafts({h}, IF P = {} THEN {Property} ELSE P, "OWNS", "primary"))

\* Two that refer to one node of the leaks are linked once, in the order in
\* which they come, and always sensitive.
Leaked == "OFFSHORE_ENTITY_LINKED_TO"

ReadLeak ==
    /\ Here = "icij"
    /\ \E a, b \in {e \in Entity : who[e].type \in {"corporate", "investor", "illicit"}} :
          /\ ~\E d \in draft : d.edge = Leaked /\ {d.from, d.to} = {a, b}
          /\ Read({[Draft(a, b, Leaked, "secondary") EXCEPT !.sensitive = TRUE]})

\* What the language model says of a batch; it may say nothing, or fail.
ReadReply ==
    /\ Here = "llm"
    /\ \E a, b \in Mention, edge \in LLMTypes :
          Read(Drafts(FindAnyByName(a), FindAnyByName(b), edge, "tertiary"))

Drafted(edge) == {d \in draft : d.edge = edge}

\* Two sources of edges of one type with the same target.
Pairs(edge) ==
    {<<x[1].from, x[2].from>> :
        x \in {y \in Drafted(edge) \X Drafted(edge) :
                 y[1].to = y[2].to /\ y[1].from < y[2].from}}

CoInvestments ==
    /\ Here = "co_investments"
    /\ Finish({Draft(p[1], p[2], "CO_INVESTED_WITH", "primary") : p \in Pairs("INVESTED_IN")})

CoFounders ==
    /\ Here = "co_founders"
    /\ Finish({Draft(p[1], p[2], "CO_FOUNDED_WITH", "primary") : p \in Pairs("FOUNDED")})

IsPerson(e) == e \in Entity /\ who[e].type \in Persons

\* Mutant: whoever sits on a board works under it, too.
Chains_AnyTwo ==
    {<<x[1].from, x[2].from>> :
        x \in {y \in Drafted("EMPLOYED_BY") \X Drafted("SITS_ON_BOARD_OF") :
                 IsPerson(y[1].from) /\ IsPerson(y[2].from)}}

\* Who is employed where who sits on the board.
Chains ==
    {<<x[1].from, x[2].from>> :
        x \in {y \in Drafted("EMPLOYED_BY") \X Drafted("SITS_ON_BOARD_OF") :
                 /\ y[1].to = y[2].to /\ y[1].from # y[2].from
                 /\ IsPerson(y[1].from) /\ IsPerson(y[2].from)}}

\* Never sensitive.
WorksUnder ==
    /\ Here = "works_under"
    /\ Finish({[from |-> c[1], to |-> c[2], edge |-> "WORKS_UNDER",
                strength |-> Strength("WORKS_UNDER", "tertiary", TRUE),
                inferred |-> TRUE, sensitive |-> FALSE] : c \in Chains})

\* Nothing more to read here.
NextExtractor ==
    /\ Here \notin {"co_investments", "co_founders", "works_under", "done"}
    /\ Finish({})

Step ==
    \/ ReadField \/ ReadCase \/ ReadDocket \/ ReadLittleSis \/ ReadProperty
    \/ ReadLeak \/ ReadReply \/ CoInvestments \/ CoFounders \/ WorksUnder
    \/ NextExtractor

Complete == Here = "done" /\ UNCHANGED vars

Next == Step \/ Complete

Spec == Init /\ [][Next]_vars /\ WF_vars(Step)

-----------------------------------------------------------------------------

Joins(d, a, b) == {d.from, d.to} = {a, b}

\* The complete draft says WORKS_UNDER of exactly the people of whom it says
\* that one is employed where the other sits on the board, whichever of the
\* extractors found that and in whichever order; nobody works under himself.
WorksUnderIsTheChain ==
    Here = "done" =>
        \A a, b \in Entity :
            (\E d \in Drafted("WORKS_UNDER") : d.from = a /\ d.to = b)
            <=> /\ a # b /\ IsPerson(a) /\ IsPerson(b)
                /\ \E c \in Entity :
                      /\ \E d \in Drafted("EMPLOYED_BY") : d.from = a /\ d.to = c
                      /\ \E d \in Drafted("SITS_ON_BOARD_OF") : d.from = b /\ d.to = c

\* Two are co-investors, or co-founders, exactly when the complete draft says
\* that both invested in, or founded, the same.
SharedTargetsAreLinked ==
    Here = "done" =>
        \A a, b \in Entity :
            \A p \in {<<"INVESTED_IN", "CO_INVESTED_WITH">>, <<"FOUNDED", "CO_FOUNDED_WITH">>} :
                (\E d \in Drafted(p[2]) : Joins(d, a, b))
                <=> a # b /\ \E x, y \in Drafted(p[1]) : x.from = a /\ y.from = b /\ x.to = y.to

\* Whatever is said of an illicit actor, of a lawsuit, a donation, a political
\* tie or an offshore link is sensitive, whoever drafted it first.
DelicateEdgesAreSensitive ==
    \A d \in draft :
        \/ d.edge \in SensitiveTypes \cup {Leaked}
        \/ \E e \in {d.from, d.to} \cap Entity : who[e].type = "illicit"
        => d.sensitive

=============================================================================
