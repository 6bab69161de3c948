---------------------------- MODULE DataStepsProofs ----------------------------
(***************************************************************************)
(* Proofs about four of the steps from data to data: the entries of a      *)
(* record end where its profile wants them, for every answer of a model;   *)
(* each claim of an artifact that fits the schema is compared or reported, *)
(* whatever its ids are; the sections of a paper hold its text, for every  *)
(* paper and any limits; and the validator has nothing against an artifact *)
(* that the staged pipeline assembles, for any claims and any answer.      *)
(***************************************************************************)
EXTENDS SectionInventory, ClaimNormalization, StagedAssembly, FiniteSetTheorems,
        SequenceTheorems, TLAPS

-----------------------------------------------------------------------------
(* The profiles.                                                           *)

\* A profile forbids no key of the context that it allows.  A detail that goes
\* into the context is not compared with those it forbids.
Apart(profile) == profile.context \intersect profile.noContext = {}

\* Of generic_result.
LEMMA GenericApart == Apart(generic_result)
  BY DEF Apart, generic_result, Profile

\* Of gwas_association_result.
LEMMA GwasApart == Apart(gwas_association_result)
  BY DEF Apart, gwas_association_result, Profile

\* Of regression_association_result.
LEMMA RegressionApart == Apart(regression_association_result)
  BY DEF Apart, regression_association_result, Profile

\* Of polygenic_score_result.
LEMMA PolygenicApart == Apart(polygenic_score_result)
  BY DEF Apart, polygenic_score_result, Profile

\* Of intervention_effect_result.
LEMMA InterventionApart == Apart(intervention_effect_result)
  BY DEF Apart, intervention_effect_result, Profile

\* Of meta_analysis_result.
LEMMA MetaAnalysisApart == Apart(meta_analysis_result)
  BY DEF Apart, meta_analysis_result, Profile

\* Of mechanistic_claim.
LEMMA MechanisticApart == Apart(mechanistic_claim)
  BY DEF Apart, mechanistic_claim, Profile

\* Of theoretical_proposition.
LEMMA TheoreticalApart == Apart(theoretical_proposition)
  BY DEF Apart, theoretical_proposition, Profile

ProfileNames ==
    {"generic_result", "gwas_association_result",
     "regression_association_result", "polygenic_score_result",
     "intervention_effect_result", "meta_analysis_result",
     "mechanistic_claim", "theoretical_proposition"}

\* The names of the profiles.
LEMMA ProfilesAreThese == DOMAIN CLAIM_PROFILES = ProfileNames
  BY DEF CLAIM_PROFILES, ProfileNames

\* No profile forbids what it allows.
LEMMA ProfilesAreApart ==
    ASSUME NEW name \in DOMAIN CLAIM_PROFILES
    PROVE  Apart(CLAIM_PROFILES[name])
  <1>1. name \in ProfileNames
    BY ProfilesAreThese
  <1>2. CASE name = "generic_result"
    BY <1>2, GenericApart DEF CLAIM_PROFILES
  <1>3. CASE name = "gwas_association_result"
    BY <1>3, GwasApart DEF CLAIM_PROFILES
  <1>4. CASE name = "regression_association_result"
    BY <1>4, RegressionApart DEF CLAIM_PROFILES
  <1>5. CASE name = "polygenic_score_result"
    BY <1>5, PolygenicApart DEF CLAIM_PROFILES
  <1>6. CASE name = "intervention_effect_result"
    BY <1>6, InterventionApart DEF CLAIM_PROFILES
  <1>7. CASE name = "meta_analysis_result"
    BY <1>7, MetaAnalysisApart DEF CLAIM_PROFILES
  <1>8. CASE name = "mechanistic_claim"
    BY <1>8, MechanisticApart DEF CLAIM_PROFILES
  <1>9. CASE name = "theoretical_proposition"
    BY <1>9, TheoreticalApart DEF CLAIM_PROFILES
  <1> QED
    BY <1>1, <1>2, <1>3, <1>4, <1>5, <1>6, <1>7, <1>8, <1>9 DEF ProfileNames

\* infer_claim_profile names a profile there is.
LEMMA InferredIsAProfile ==
    ASSUME NEW r
    PROVE  Inferred(r) \in DOMAIN CLAIM_PROFILES
  <1> DEFINE found == {i \in DOMAIN INFERENCE : INFERENCE[i][1] \in CuesOf(r)}
  <1>1. DOMAIN INFERENCE = 1..8
    BY DEF INFERENCE
  <1>2. \A i \in 1..8 : INFERENCE[i][2] \in ProfileNames
    BY DEF INFERENCE, ProfileNames
  <1>3. found \subseteq 1..8
    BY <1>1
  <1>4. found # {} => Min(found) \in found
    <2> HIDE DEF found
    <2> SUFFICES ASSUME found # {}
                 PROVE  \E x \in found : \A y \in found : x <= y
      BY DEF Min
    <2>1. \A x \in found : x = 1 \/ x = 2 \/ x = 3 \/ x = 4 \/ x = 5 \/ x = 6
                             \/ x = 7 \/ x = 8
      BY <1>3
    <2>2. CASE 1 \in found
      BY <2>1, <2>2
    <2>3. CASE 1 \notin found /\ 2 \in found
      BY <2>1, <2>3
    <2>4. CASE found \intersect {1, 2} = {} /\ 3 \in found
      BY <2>1, <2>4
    <2>5. CASE found \intersect {1, 2, 3} = {} /\ 4 \in found
      BY <2>1, <2>5
    <2>6. CASE found \intersect {1, 2, 3, 4} = {} /\ 5 \in found
      BY <2>1, <2>6
    <2>7. CASE found \intersect {1, 2, 3, 4, 5} = {}
      BY <2>1, <2>7
    <2> QED
      BY <2>2, <2>3, <2>4, <2>5, <2>6, <2>7
  <1>5. Inferred(r) = IF found = {} THEN "generic_result"
                      ELSE INFERENCE[Min(found)][2]
    BY DEF Inferred
  <1>6. "generic_result" \in ProfileNames
    BY DEF ProfileNames
  <1> HIDE DEF found
  <1> QED
    BY <1>2, <1>3, <1>4, <1>5, <1>6, ProfilesAreThese

\* A claim has a profile there is, whatever the model named.
LEMMA ProfileOfIsAProfile ==
    ASSUME NEW r
    PROVE  ProfileOf(r) \in DOMAIN CLAIM_PROFILES
  <1>1. "generic_result" \in DOMAIN CLAIM_PROFILES
    BY ProfilesAreThese DEF ProfileNames
  <1> QED
    BY <1>1, InferredIsAProfile DEF ProfileOf

-----------------------------------------------------------------------------
(* The parts.                                                              *)

RecordOK(r) ==
    /\ r.kind \in {"claim", "evidence"}
    /\ r.context \in Seq([key : STRING,
                          value : [form : {"text", "object"}, text : STRING]])
    /\ r.details \in Seq([key : STRING,
                          value : [form : {"text", "object"}, text : STRING]])

\* The records of an answer are as the assumption has them.
LEMMA RecordsAreOK ==
    ASSUME NEW r \in RawRecords \union Corrections
    PROVE  RecordOK(r)
  BY RecordsAssumption DEF RecordOK

\* A part holds the keys of the entries that were sent into it.
LEMMA KeysOfStored ==
    ASSUME NEW r, NEW part \in Parts, NEW k \in DOMAIN Stored(r, part)
    PROVE  \E at \in Entries(r) :
               k = KeyAt(r, at) /\ Place(r, at[1], EntryAt(r, at)) = part
  BY DEF Stored, Sent

\* What goes into the details may be there.
LEMMA DetailsAreAllowed ==
    ASSUME NEW r, NEW p, NEW e, Place(r, p, e) = "details"
    PROVE  Canonical(e) \in AllowedBy(r).details \ AllowedBy(r).noDetails
  BY DEF Place

\* What goes into the context may be there, and is only not compared with what
\* is forbidden there when it comes from the details.
LEMMA ContextIsAllowed ==
    ASSUME NEW r, NEW p, NEW e, Place(r, p, e) = "context"
    PROVE  Canonical(e) \in AllowedBy(r).context
  BY DEF Place

\* No claim fails for where the model put a key.
LEMMA NoKeyErrors ==
    ASSUME NEW r, r.kind = "claim"
    PROVE  KeyErrors(Made(r)) = {}
  <1> DEFINE allowed == CLAIM_PROFILES[ProfileOf(r)]
             c == Made(r)
  <1>1. c.profile = ProfileOf(r)
        /\ c.context = Stored(r, "context") /\ c.details = Stored(r, "details")
    BY DEF Made
  <1>2. AllowedBy(r) = allowed
    BY DEF AllowedBy
  <1>3. Apart(allowed)
    BY ProfileOfIsAProfile, ProfilesAreApart
  <1>4. ASSUME NEW k \in DOMAIN Stored(r, "context")
        PROVE  k \notin allowed.noContext /\ k \in allowed.context
    <2>1. PICK at \in Entries(r) :
              k = KeyAt(r, at) /\ Place(r, at[1], EntryAt(r, at)) = "context"
      BY KeysOfStored DEF Parts
    <2>2. k \in allowed.context
      BY <2>1, <1>2, ContextIsAllowed DEF KeyAt
    <2> QED
      BY <2>2, <1>3 DEF Apart
  <1>5. ASSUME NEW k \in DOMAIN Stored(r, "details")
        PROVE  k \notin allowed.noDetails /\ k \in allowed.details
    <2>1. PICK at \in Entries(r) :
              k = KeyAt(r, at) /\ Place(r, at[1], EntryAt(r, at)) = "details"
      BY KeysOfStored DEF Parts
    <2> QED
      BY <2>1, <1>2, DetailsAreAllowed DEF KeyAt
  <1> HIDE DEF c, allowed
  <1>6. KeyErrors(c) =
            {<<"context", k>> : k \in {k \in DOMAIN c.context :
                k \in allowed.noContext \/ k \notin allowed.context}}
            \union {<<"details", k>> : k \in {k \in DOMAIN c.details :
                k \in allowed.noDetails \/ k \notin allowed.details}}
    BY <1>1 DEF KeyErrors, allowed
  <1> QED
    BY <1>1, <1>4, <1>5, <1>6 DEF c

\* An entry without a rival in its part and in the one it goes to is the last
\* of its key: a detail comes into the context before it, and what came out of
\* the context into the details before it.
LEMMA WithoutRivalLasts ==
    ASSUME NEW r, RecordOK(r), NEW p \in Parts, NEW part \in Parts,
           NEW i \in DOMAIN r[p], <<p, i>> \in Sent(r, part),
           Rivals(r, p, part, i) = {},
           NEW at \in Sent(r, part), KeyAt(r, at) = KeyAt(r, <<p, i>>),
           at # <<p, i>>
    PROVE  Lasting(r, part, at) < Lasting(r, part, <<p, i>>)
  <1>1. at[1] \notin {p, part}
    BY DEF Rivals
  <1>2a. PICK q \in Parts : \E j \in DOMAIN r[q] : at = <<q, j>>
    BY DEF Sent, Entries
  <1>2. PICK j \in DOMAIN r[q] : at = <<q, j>>
    BY <1>2a
  <1>3. p = part /\ q # p
    BY <1>1, <1>2 DEF Parts
  <1>4. DOMAIN r.context = 1..Len(r.context) /\ Len(r.context) \in Nat
        /\ DOMAIN r.details = 1..Len(r.details) /\ Len(r.details) \in Nat
    BY DEF RecordOK
  <1>5. CASE p = "context"
    <2>1. q = "details"
      BY <1>3, <1>5 DEF Parts
    <2>2. j \in Nat /\ j > 0 /\ i \in Nat /\ i > 0
      BY <1>4, <1>5, <2>1
    <2>3. Lasting(r, part, at) = -j
      BY <1>2, <1>3, <1>5, <2>1 DEF Lasting
    <2>4. Lasting(r, part, <<p, i>>) = i
      BY <1>5 DEF Lasting
    <2> QED
      BY <2>2, <2>3, <2>4
  <1>6. CASE p = "details"
    <2>1. q = "context"
      BY <1>3, <1>6 DEF Parts
    <2>2. j \in 1..Len(r.context) /\ i \in Nat /\ i > 0
      BY <1>4, <1>6, <2>1
    <2>3. Lasting(r, part, at) = j
      BY <1>2, <2>1 DEF Lasting
    <2>4. Lasting(r, part, <<p, i>>) = Len(r.context) + i
      BY <1>3, <1>6 DEF Lasting
    <2> QED
      BY <1>4, <2>2, <2>3, <2>4
  <1> QED
    BY <1>5, <1>6 DEF Parts

\* So it is the one that is left.
LEMMA WithoutRivalStays ==
    ASSUME NEW r, RecordOK(r), NEW p \in Parts, NEW part \in Parts,
           NEW i \in DOMAIN r[p], <<p, i>> \in Sent(r, part),
           Rivals(r, p, part, i) = {}
    PROVE  LET key == KeyAt(r, <<p, i>>)
           IN  /\ key \in DOMAIN Stored(r, part)
               /\ Stored(r, part)[key] = Normal(r, part, key, r[p][i].value)
  <1> DEFINE key == KeyAt(r, <<p, i>>)
             entries == {at \in Sent(r, part) : KeyAt(r, at) = key}
             IsLast(at) == /\ at \in entries
                           /\ \A other \in entries :
                                  Lasting(r, part, other) <= Lasting(r, part, at)
             last == CHOOSE at \in entries : \A other \in entries :
                         Lasting(r, part, other) <= Lasting(r, part, at)
  <1>1. key \in DOMAIN Stored(r, part)
        /\ Stored(r, part)[key] = Normal(r, part, key, EntryAt(r, last).value)
    BY DEF Stored
  <1>2. \A at \in entries : Lasting(r, part, at) \in Int
    <2> SUFFICES ASSUME NEW at \in entries
                 PROVE  Lasting(r, part, at) \in Int
      OBVIOUS
    <2>1a. PICK q \in Parts : \E j \in DOMAIN r[q] : at = <<q, j>>
      BY DEF Sent, Entries
    <2>1. PICK j \in DOMAIN r[q] : at = <<q, j>>
      BY <2>1a
    <2>2. j \in Int /\ Len(r.context) \in Int
      BY <2>1 DEF RecordOK, Parts
    <2> QED
      BY <2>1, <2>2 DEF Lasting
  <1>3. <<p, i>> \in entries
    OBVIOUS
  <1>4. \A at \in entries : at # <<p, i>> =>
            Lasting(r, part, at) < Lasting(r, part, <<p, i>>)
    BY WithoutRivalLasts
  <1> HIDE DEF entries, key
  <1>5. IsLast(<<p, i>>)
    BY <1>2, <1>3, <1>4
  <1>6. IsLast(last)
    BY <1>5
  <1>7. last = <<p, i>>
    BY <1>2, <1>3, <1>4, <1>6
  <1>8. EntryAt(r, <<p, i>>) = r[p][i]
    BY DEF EntryAt
  <1> HIDE DEF last, IsLast
  <1>9. key \in DOMAIN Stored(r, part)
        /\ Stored(r, part)[key] = Normal(r, part, key, r[p][i].value)
    BY <1>1, <1>7, <1>8
  <1> QED
    BY <1>9 DEF key

-----------------------------------------------------------------------------
(* The record.                                                             *)

\* The inductive invariant: what was made was made of the record at hand,
\* which after validation feedback is another one.
RecordInv ==
    /\ raw \in RawRecords \union Corrections \union {NoRecord}
    /\ recordPhase \in {"materialized", "kept", "dropped"} =>
           raw # NoRecord /\ record = Made(raw)

\* Nothing is made at the start.
LEMMA RecordInvInit ==
    (raw \in RawRecords \union {NoRecord}) /\ RecordInit => RecordInv
  BY DEF RecordInit, RecordInv

\* Every step keeps it.
LEMMA RecordStep == RecordInv /\ [RecordNext]_recordVars => RecordInv'
  <1> SUFFICES ASSUME RecordInv, [RecordNext]_recordVars PROVE RecordInv'
    OBVIOUS
  <1>1. CASE Materialize
    BY <1>1 DEF RecordInv, Materialize
  <1>2. CASE AskAgain
    BY <1>2 DEF RecordInv, AskAgain
  <1>3. CASE Keep
    BY <1>3 DEF RecordInv, Keep
  <1>4. CASE Drop
    BY <1>4 DEF RecordInv, Drop
  <1>5. CASE UNCHANGED recordVars
    BY <1>5 DEF RecordInv, recordVars
  <1> QED
    BY <1>1, <1>2, <1>3, <1>4, <1>5 DEF RecordNext

\* What was made of a record has its keys where they belong.
LEMMA RecordInvSuffices == RecordInv => KeysEndWhereTheirProfileWantsThem
  <1> SUFFICES ASSUME RecordInv, recordPhase \in {"materialized", "kept", "dropped"}
               PROVE
        /\ raw.kind = "claim" => KeyErrors(record) = {}
        /\ \A p, part \in Parts : \A i \in DOMAIN raw[p] :
               LET key == KeyAt(raw, <<p, i>>)
               IN  <<p, i>> \in Sent(raw, part) /\ Rivals(raw, p, part, i) = {} =>
                       /\ key \in DOMAIN record[part]
                       /\ record[part][key] = Normal(raw, part, key, raw[p][i].value)
    BY DEF KeysEndWhereTheirProfileWantsThem
  <1>1. RecordOK(raw) /\ record = Made(raw)
    BY RecordsAreOK DEF RecordInv
  <1>2. raw.kind = "claim" => KeyErrors(record) = {}
    BY <1>1, NoKeyErrors
  <1>3. \A part \in Parts : record[part] = Stored(raw, part)
    BY <1>1 DEF Made, Parts
  <1>4. ASSUME NEW p \in Parts, NEW part \in Parts, NEW i \in DOMAIN raw[p],
               <<p, i>> \in Sent(raw, part), Rivals(raw, p, part, i) = {}
        PROVE  LET key == KeyAt(raw, <<p, i>>)
               IN  /\ key \in DOMAIN record[part]
                   /\ record[part][key] = Normal(raw, part, key, raw[p][i].value)
    BY <1>1, <1>3, <1>4, WithoutRivalStays
  <1> QED
    BY <1>2, <1>4

\* normalize_claim_payload_parts and normalize_evidence_payload_parts: whatever
\* the keys of an answer and whichever part the model put them in, no claim
\* fails validation for the place of a key, and a value the profile knows is
\* kept in its part unless another entry of its key competes with it.
THEOREM KeysTheorem == RecordSpec => []KeysEndWhereTheirProfileWantsThem
  <1>1. RecordSpec => []RecordInv
    BY RecordInvInit, RecordStep, PTL DEF RecordSpec
  <1> QED
    BY <1>1, RecordInvSuffices, PTL

-----------------------------------------------------------------------------
(* The candidates of an artifact.                                          *)

\* Of claims that are finitely many, a second one has the id of a claim when
\* more than one has it.
LEMMA SecondOfAnId ==
    ASSUME NEW items, IsFiniteSet(DOMAIN items), NEW i \in DOMAIN items
    PROVE  Cardinality({k \in DOMAIN items : items[k].id = items[i].id}) > 1
           <=> \E j \in DOMAIN items \ {i} : items[j].id = items[i].id
  <1> DEFINE same == {k \in DOMAIN items : items[k].id = items[i].id}
  <1>1. IsFiniteSet(same) /\ i \in same
    BY FS_Subset
  <1>2. Cardinality(same) \in Nat
    BY <1>1, FS_CardinalityType
  <1>3. ASSUME NEW j \in DOMAIN items \ {i}, items[j].id = items[i].id
        PROVE  Cardinality(same) > 1
    <2>1. IsFiniteSet(same \ {i}) /\ Cardinality(same \ {i}) = Cardinality(same) - 1
      BY <1>1, FS_RemoveElement
    <2>2. Cardinality(same \ {i}) \in Nat
      BY <2>1, FS_CardinalityType
    <2>3. Cardinality(same \ {i}) # 0
      BY <1>3, <2>1, FS_EmptySet
    <2> QED
      BY <1>2, <2>1, <2>2, <2>3
  <1>4. ASSUME ~(\E j \in DOMAIN items \ {i} : items[j].id = items[i].id)
        PROVE  ~(Cardinality(same) > 1)
    <2>1. same = {i}
      BY <1>1, <1>4
    <2> QED
      BY <2>1, FS_Singleton
  <1> QED
    BY <1>3, <1>4

\* What the findings of an artifact say of the ids and statements of its claims.
LEMMA FindingsOfClaims ==
    ASSUME NEW a, Readable(a), NEW i \in DOMAIN a.claims,
           IsFiniteSet(DOMAIN a.claims),
           NEW F, F = StructuralFindings(a) \union GroundingFindings(a)
    PROVE  /\ Finding("critical", "duplicate_id", <<"claim", a.claims[i].id>>) \in F
              <=> /\ a.claims[i].id # NoId
                  /\ \E j \in DOMAIN a.claims \ {i} : a.claims[j].id = a.claims[i].id
           /\ Finding("critical", "missing_required_field", <<"claim", i, "statement">>) \in F
              <=> "statement" \in a.claims[i].blank
  <1> DEFINE d == Finding("critical", "duplicate_id", <<"claim", a.claims[i].id>>)
             m == Finding("critical", "missing_required_field", <<"claim", i, "statement">>)
             own == DuplicateIds("claim", a.claims)
             blank == MissingFields("claim", a.claims)
  <1>1. d.code = "duplicate_id" /\ m.code = "missing_required_field"
    BY DEF Finding
  <1>2. \A f \in GroundingFindings(a) : f.code \notin {"duplicate_id", "missing_required_field"}
    BY DEF GroundingFindings, UngroundedClaims, UngroundedRecords, BadRefs, Finding
  <1>3. \A f \in CrossReferences(a) : f.code = "unresolved_reference"
    <2> DEFINE claimIds == IdsOf(a.claims)
               recordIds == IdsOf(a.records)
               experimentIds == IdsOf(a.experiments)
               allIds == UNION {claimIds, recordIds, experimentIds, IdsOf(a.concepts)}
               kinds == {
                   Unresolved("claim", a.claims, "evidence", recordIds, "critical"),
                   Unresolved("proof", a.claims, "proof", experimentIds, "critical"),
                   Unresolved("dependency", a.claims, "dependencies", claimIds, "major"),
                   Unresolved("experiment", a.experiments, "verifies", claimIds, "critical"),
                   Unresolved("experiment evidence", a.experiments, "evidence", recordIds, "major"),
                   Unresolved("evidence", a.records, "claims", claimIds, "critical"),
                   Unresolved("trace_node", a.trace, "evidence", allIds, "major")}
               Coded(S) == \A f \in S : f.code = "unresolved_reference"
    <2>1. \A kind, items, field, known, severity :
              Coded(Unresolved(kind, items, field, known, severity))
      BY DEF Unresolved, Finding
    <2>2. CrossReferences(a) = UNION kinds
      BY DEF CrossReferences
    <2>3. \A T : (\A S \in T : Coded(S)) => Coded(UNION T)
      OBVIOUS
    <2> HIDE DEF claimIds, recordIds, experimentIds, allIds, Coded
    <2>4. \A S \in kinds : Coded(S)
      BY <2>1
    <2> HIDE DEF kinds
    <2>5. Coded(CrossReferences(a))
      BY <2>2, <2>3, <2>4
    <2> QED
      BY <2>5 DEF Coded
  <1>4. \A items, code : \A f \in Empty(items, code) : f.code = code
    BY DEF Empty, Finding
  <1>5. \A kind, items : \A f \in DuplicateIds(kind, items) :
            f.code = "duplicate_id" /\ f.target[1] = kind
    <2> SUFFICES ASSUME NEW kind, NEW items, NEW f \in DuplicateIds(kind, items)
                 PROVE  f.code = "duplicate_id" /\ f.target[1] = kind
      OBVIOUS
    <2>1. PICK x : f = Finding("critical", "duplicate_id", <<kind, x>>)
      BY DEF DuplicateIds
    <2> QED
      BY <2>1 DEF Finding
  <1>6. \A kind, items : \A f \in MissingFields(kind, items) :
            f.code = "missing_required_field" /\ f.target[1] = kind
    <2> SUFFICES ASSUME NEW kind, NEW items, NEW f \in MissingFields(kind, items)
                 PROVE  f.code = "missing_required_field" /\ f.target[1] = kind
      OBVIOUS
    <2> QED
      BY DEF MissingFields, Finding
  <1>7. \A f \in StructuralFindings(a) :
            f.code \in {"duplicate_id", "missing_required_field"} => f \in Contents(a)
    BY DEF StructuralFindings, Readable, Finding
  <1>8. Contents(a) \subseteq StructuralFindings(a)
    BY DEF StructuralFindings, Readable
  <1>9. d \in F <=> d \in own
    <2>1. d.target[1] = "claim"
      BY DEF Finding
    <2>2. own \subseteq Contents(a)
      BY DEF Contents
    <2>3. d \in Contents(a) => d \in own
      BY <1>1, <1>3, <1>4, <1>5, <1>6, <2>1 DEF Contents
    <2> QED
      BY <1>1, <1>2, <1>7, <1>8, <2>2, <2>3
  <1>10. m \in F <=> m \in blank
    <2>1. m.target[1] = "claim"
      BY DEF Finding
    <2>2. blank \subseteq Contents(a)
      BY DEF Contents
    <2>3. m \in Contents(a) => m \in blank
      BY <1>1, <1>3, <1>4, <1>5, <1>6, <2>1 DEF Contents
    <2> QED
      BY <1>1, <1>2, <1>7, <1>8, <2>2, <2>3
  <1>11. d \in own <=> /\ a.claims[i].id # NoId
                       /\ Cardinality({k \in DOMAIN a.claims :
                                          a.claims[k].id = a.claims[i].id}) > 1
    <2> DEFINE id == a.claims[i].id
               many == {x \in IdsOf(a.claims) \ {NoId} :
                           Cardinality({k \in DOMAIN a.claims : a.claims[k].id = x}) > 1}
    <2>1. own = {Finding("critical", "duplicate_id", <<"claim", x>>) : x \in many}
      BY DEF DuplicateIds
    <2>2. \A x : Finding("critical", "duplicate_id", <<"claim", x>>).target[2] = x
      BY DEF Finding
    <2> HIDE DEF many
    <2>3. d \in own <=> id \in many
      BY <2>1, <2>2
    <2> QED
      BY <2>3 DEF many, IdsOf
  <1>12. m \in blank <=> "statement" \in a.claims[i].blank
    <2> DEFINE of(k) == {Finding(IF field \in {"statement", "summary"} THEN "critical"
                                 ELSE "major",
                                 "missing_required_field", <<"claim", k, field>>) :
                            field \in a.claims[k].blank}
    <2>1. blank = UNION {of(k) : k \in DOMAIN a.claims}
      BY DEF MissingFields
    <2>2. \A k : \A f \in of(k) : f.target[2] = k /\ f.target[3] \in a.claims[k].blank
      BY DEF Finding
    <2>3. m.target[2] = i /\ m.target[3] = "statement"
      BY DEF Finding
    <2>4. "statement" \in a.claims[i].blank => m \in of(i)
      OBVIOUS
    <2> HIDE DEF of, m
    <2>5. m \in blank <=> \E k \in DOMAIN a.claims : m \in of(k)
      BY <2>1
    <2> QED
      BY <2>2, <2>3, <2>4, <2>5
  <1> QED
    BY <1>9, <1>10, <1>11, <1>12, SecondOfAnId

\* The inductive invariant: the findings and the candidates are those of the
\* artifact at hand.
CheckedInv ==
    /\ checkPhase \in {"submitted", "checked", "projected"}
    /\ artifact \in Artifacts \union {NoArtifact}
    /\ checkPhase # "submitted" =>
          /\ artifact \in Artifacts
          /\ findings = StructuralFindings(artifact) \union GroundingFindings(artifact)
    /\ checkPhase = "projected" => candidates = Projected(artifact)

\* The judgement of the checks and that of the projection, side by side.
LEMMA CheckedSuffices == CheckedInv => EachClaimIsComparedOrReported
  <1> SUFFICES ASSUME CheckedInv, checkPhase = "projected", Readable(artifact),
                      NEW i \in DOMAIN artifact.claims
               PROVE  LET compared == \E c \in candidates : c.index = i
                      IN  /\ WithoutStatement(i) => ~compared
                          /\ Reported(i) =>
                                ~compared \/ TextOf[artifact.claims[i].id] = NoId
                          /\ ~compared =>
                                Reported(i) \/ WithoutStatement(i) \/ Renamed(i)
    BY DEF EachClaimIsComparedOrReported
  <1> DEFINE claims == artifact.claims
             compared == \E c \in candidates : c.index = i
  <1>1. /\ artifact \in Artifacts
        /\ findings = StructuralFindings(artifact) \union GroundingFindings(artifact)
        /\ candidates = Projected(artifact)
    BY DEF CheckedInv
  <1>2. IsFiniteSet(DOMAIN claims)
        /\ \A j \in DOMAIN claims : DefaultId[i] = DefaultId[j] => i = j
    <2>1. Len(claims) \in Nat /\ DOMAIN claims = 1..Len(claims)
      BY <1>1, ChecksAssumption
    <2>2. \A j \in DOMAIN claims : DefaultId[i] = DefaultId[j] => i = j
      BY <1>1, ChecksAssumption
    <2> QED
      BY <2>1, <2>2, FS_Interval
  <1>3. /\ Reported(i) <=> /\ claims[i].id # NoId
                           /\ \E j \in DOMAIN claims \ {i} : claims[j].id = claims[i].id
        /\ WithoutStatement(i) <=> "statement" \in claims[i].blank
    BY <1>1, <1>2, FindingsOfClaims DEF Reported, WithoutStatement
  <1>4. compared => "statement" \notin claims[i].blank /\ ~Repeated(artifact, i)
    BY <1>1 DEF Projected
  <1>5. "statement" \notin claims[i].blank /\ ~Repeated(artifact, i) => compared
    <2>1. artifact.json = "object" /\ "logic" \notin artifact.missing
      BY DEF Readable, Fits
    <2> DEFINE candidate == [index |-> i, record |-> RecordId(artifact, i)]
    <2>2. "statement" \notin claims[i].blank /\ ~Repeated(artifact, i)
          => candidate \in candidates
      BY <1>1, <2>1 DEF Projected
    <2>3. candidate.index = i
      OBVIOUS
    <2> QED
      BY <2>2, <2>3
  <1>6. ASSUME Reported(i), TextOf[claims[i].id] # NoId
        PROVE  Repeated(artifact, i)
    <2>1. PICK j \in DOMAIN claims \ {i} : claims[j].id = claims[i].id
      BY <1>3, <1>6
    <2>2. RecordId(artifact, j) = RecordId(artifact, i)
      BY <1>6, <2>1 DEF RecordId
    <2> QED
      BY <2>1, <2>2 DEF Repeated
  <1>7. ASSUME Repeated(artifact, i), ~Renamed(i)
        PROVE  Reported(i)
    <2>1. PICK j \in DOMAIN claims \ {i} : RecordId(artifact, j) = RecordId(artifact, i)
      BY <1>7 DEF Repeated
    <2>2. claims[j].id = claims[i].id
      BY <1>7, <2>1 DEF Renamed
    <2>3. TextOf[claims[i].id] # NoId
      BY <1>2, <2>1, <2>2 DEF RecordId
    <2>4. claims[i].id # NoId
      BY <2>3, ChecksAssumption
    <2> QED
      BY <1>3, <2>1, <2>2, <2>4
  <1> QED
    BY <1>3, <1>4, <1>5, <1>6, <1>7

\* run_structural_checks and project_agent_artifact: for every artifact that
\* fits the schema, whatever ids its claims have.
THEOREM ComparedTheorem == ChecksSpec => []EachClaimIsComparedOrReported
  <1>1. artifact \in Artifacts \union {NoArtifact} /\ ChecksInit => CheckedInv
    BY DEF ChecksInit, CheckedInv
  <1>2. CheckedInv /\ [ChecksNext]_checkVars => CheckedInv'
    <2>1. ASSUME CheckedInv, RunChecks PROVE CheckedInv'
      BY <2>1 DEF CheckedInv, RunChecks
    <2>2. ASSUME CheckedInv, Project PROVE CheckedInv'
      BY <2>2 DEF CheckedInv, Project
    <2>3. ASSUME CheckedInv, UNCHANGED checkVars PROVE CheckedInv'
      BY <2>3 DEF CheckedInv, checkVars
    <2> QED
      BY <2>1, <2>2, <2>3 DEF ChecksNext
  <1> QED
    BY <1>1, <1>2, CheckedSuffices, PTL DEF ChecksSpec

-----------------------------------------------------------------------------
(* The sections of a paper.                                                *)

IsList(s) == Len(s) \in Nat /\ DOMAIN s = 1..Len(s)

\* A sequence given by its items is a list of that length.
LEMMA ListFacts ==
    ASSUME NEW k \in Nat, NEW f, f = [i \in 1..k |-> f[i]]
    PROVE  Len(f) = k /\ IsList(f)
  <1>1. f \in [1..k -> {f[i] : i \in 1..k}]
    OBVIOUS
  <1>2. \A S : \A g \in [1..k -> S] : Len(g) = k /\ DOMAIN g = 1..k
    OBVIOUS
  <1> QED
    BY <1>1, <1>2 DEF IsList

\* Finitely many places can be listed.
LEMMA ReadingOrderFacts ==
    ASSUME NEW P, IsFiniteSet(P)
    PROVE  IsList(InReadingOrder(P))
  <1>1. Cardinality(P) \in Nat
    BY FS_CardinalityType
  <1> DEFINE at(n) == CHOOSE p \in P : Cardinality({q \in P : Before(q, p)}) = n - 1
  <1>2. InReadingOrder(P) = [n \in 1..Cardinality(P) |-> at(n)]
    BY DEF InReadingOrder
  <1> HIDE DEF InReadingOrder, at
  <1>3. InReadingOrder(P) = [i \in 1..Cardinality(P) |-> InReadingOrder(P)[i]]
    BY <1>2
  <1> QED
    BY <1>1, <1>3, ListFacts

\* What is made of a list item by item is a list.
LEMMA MappedList ==
    ASSUME NEW s, IsList(s), NEW f, f = [n \in DOMAIN s |-> f[n]]
    PROVE  IsList(f)
  BY ListFacts DEF IsList

\* A list of numbers has finitely many places.
LEMMA ListIsFinite ==
    ASSUME NEW s, IsList(s)
    PROVE  IsFiniteSet(DOMAIN s)
  <1>1. 1 \in Int /\ Len(s) \in Int
    BY DEF IsList
  <1> QED
    BY <1>1, FS_Interval DEF IsList

\* Also when the places are numbered.
LEMMA PlacesAreFinite ==
    ASSUME NEW S, IsFiniteSet(S), NEW T, IsFiniteSet(T), NEW P,
           P \subseteq S \X T
    PROVE  IsFiniteSet(P)
  BY FS_Product, FS_Subset

\* The paragraphs of a TEI document are finitely many.
LEMMA TeiPlacesAreFinite ==
    ASSUME NEW doc \in Documents, doc.kind = "tei"
    PROVE  IsFiniteSet(TeiPlaces(doc))
  <1>1. /\ IsList(doc.abstract) /\ IsList(doc.divs) /\ IsList(doc.paragraphs)
    BY DocumentsAssumption DEF IsList
  <1>2. /\ IsFiniteSet(DOMAIN doc.abstract) /\ IsFiniteSet(DOMAIN doc.divs)
        /\ IsFiniteSet(DOMAIN doc.paragraphs)
    BY <1>1, ListIsFinite
  <1> DEFINE A == {0} \X {i \in DOMAIN doc.abstract : doc.abstract[i] > 0}
             B == {p \in (DOMAIN doc.divs) \X (DOMAIN doc.paragraphs) :
                      p[2] \in InDiv(doc, p[1])}
  <1>3. IsFiniteSet({0})
    BY FS_Singleton
  <1>4. A \subseteq {0} \X DOMAIN doc.abstract
    OBVIOUS
  <1>5. B \subseteq (DOMAIN doc.divs) \X (DOMAIN doc.paragraphs)
    OBVIOUS
  <1>6. TeiPlaces(doc) = A \union B
    BY DEF TeiPlaces
  <1> HIDE DEF A, B
  <1>7. IsFiniteSet(A) /\ IsFiniteSet(B)
    BY <1>2, <1>3, <1>4, <1>5, PlacesAreFinite
  <1> QED
    BY <1>6, <1>7, FS_Union

\* And so are those of a PDF.
LEMMA PdfPlacesAreFinite ==
    ASSUME NEW doc \in Documents, doc.kind = "pdf"
    PROVE  IsFiniteSet(PdfPlaces(doc))
  <1>1. doc.pages \in Seq(Seq(Nat))
    BY DocumentsAssumption
  <1>2. IsFiniteSet(DOMAIN doc.pages)
    BY <1>1, ListIsFinite DEF IsList
  <1> DEFINE f == [p \in DOMAIN doc.pages |->
                     {p} \X {i \in DOMAIN doc.pages[p] : doc.pages[p][i] > 0}]
             parts == {f[p] : p \in DOMAIN doc.pages}
  <1>3. ASSUME NEW p \in DOMAIN doc.pages PROVE IsFiniteSet(f[p])
    <2>1. doc.pages[p] \in Seq(Nat)
      BY <1>1
    <2>2. IsFiniteSet(DOMAIN doc.pages[p])
      BY <2>1, ListIsFinite DEF IsList
    <2>3. IsFiniteSet({p})
      BY FS_Singleton
    <2>4. f[p] \subseteq {p} \X DOMAIN doc.pages[p]
      OBVIOUS
    <2> QED
      BY <2>2, <2>3, <2>4, PlacesAreFinite
  <1>4. PdfPlaces(doc) = UNION parts
    BY DEF PdfPlaces
  <1>5. f \in Surjection(DOMAIN doc.pages, parts)
    BY DEF Surjection
  <1> HIDE DEF f, parts
  <1>6. IsFiniteSet(parts)
    BY <1>2, <1>5, FS_Surjection
  <1>7. \A T \in parts : IsFiniteSet(T)
    BY <1>3 DEF parts
  <1> QED
    BY <1>4, <1>6, <1>7, FS_UNION

\* What the parsers give build_section_inventory is a list.
LEMMA SpansAreAList ==
    ASSUME NEW doc \in Documents
    PROVE  IsList(SpansOf(doc))
  <1>1. CASE doc.kind = "tei"
    <2>1. SpansOf(doc) = TeiSpans(doc)
      BY <1>1 DEF SpansOf
    <2>2. IsList(InReadingOrder(TeiPlaces(doc)))
      BY <1>1, TeiPlacesAreFinite, ReadingOrderFacts
    <2>3. TeiSpans(doc) = [n \in DOMAIN InReadingOrder(TeiPlaces(doc)) |->
                              TeiSpans(doc)[n]]
      BY DEF TeiSpans
    <2> QED
      BY <2>1, <2>2, <2>3, MappedList
  <1>2. CASE doc.kind = "pdf"
    <2>1. SpansOf(doc) = PdfSpans(doc)
      BY <1>2 DEF SpansOf
    <2>2. IsList(InReadingOrder(PdfPlaces(doc)))
      BY <1>2, PdfPlacesAreFinite, ReadingOrderFacts
    <2>3. PdfSpans(doc) = [n \in DOMAIN InReadingOrder(PdfPlaces(doc)) |->
                              PdfSpans(doc)[n]]
      BY DEF PdfSpans
    <2> QED
      BY <2>1, <2>2, <2>3, MappedList
  <1>3. CASE doc.kind = "artifact"
    <2>1. SpansOf(doc) = doc.spans
      BY <1>3 DEF SpansOf
    <2> QED
      BY <1>3, <2>1, DocumentsAssumption DEF IsList
  <1> QED
    BY <1>1, <1>2, <1>3, DocumentsAssumption

\* The rules for headings look at the key of a section only.
LEMMA KeyMakesMode ==
    ASSUME NEW s, NEW t, KeyOf(s) = KeyOf(t)
    PROVE  ModeOf(s) = ModeOf(t)
  <1>1. NameOf(s) = NameOf(t) /\ KeyOf(s)[1] = KeyOf(t)[1]
    BY DEF KeyOf
  <1> QED
    BY <1>1 DEF ModeOf, Reliable

-----------------------------------------------------------------------------
(* The inductive invariant.                                                *)

SectionModes == {"trusted", "fallback"}

\* A section is of spans that were read, all under its heading, and within the
\* limits if it is a chunk.
SectionOK(section) ==
    /\ DOMAIN section = {"mode", "key", "chunk", "title", "spans"}
    /\ section.mode \in SectionModes
    /\ section.chunk \in Nat
    /\ section.spans \subseteq 1..(nextSpan - 1)
    /\ \A i \in section.spans : KeyOf(allSpans[i]) = section.key
                                /\ ModeOf(allSpans[i]) = section.mode
    /\ section.mode = "fallback" /\ Cardinality(section.spans) > 1 =>
           WithinLimits(section.spans)

\* The loop is within the paper, and the sections are a list.
InventoryTypeOK ==
    /\ inventoryPhase \in {"paper", "spans", "sections"}
    /\ document \in Documents \union {NoDocument}
    /\ IsList(allSpans)
    /\ nextSpan \in 1..(Len(allSpans) + 1)
    /\ chunks \in Nat
    /\ IsList(sections) /\ sections = [n \in DOMAIN sections |-> sections[n]]
    /\ \A n \in DOMAIN sections : SectionOK(sections[n])
    /\ SectionOK(current)
    /\ inventoryPhase = "sections" => current = NoSection
    /\ inventoryPhase = "paper" =>
           sections = << >> /\ current = NoSection /\ nextSpan = 1 /\ chunks = 0

\* What was read and has text is in a section or in the one in hand, and they
\* are in reading order.
HeldInv ==
    /\ \A i \in 1..(nextSpan - 1) :
           \/ allSpans[i].blank
           \/ i \in current.spans
           \/ \E n \in DOMAIN sections : i \in sections[n].spans
    /\ \A n, k \in DOMAIN sections : n < k =>
           \A i \in sections[n].spans : \A j \in sections[k].spans : i < j
    /\ \A n \in DOMAIN sections :
           \A i \in sections[n].spans : \A j \in current.spans : i < j
    /\ inventoryPhase = "sections" => nextSpan = Len(allSpans) + 1

\* Chunks are numbered, the one in hand last.
ChunksInv ==
    /\ \A n \in DOMAIN sections :
           /\ sections[n].title = TitleOf(sections[n])
           /\ sections[n].chunk <= chunks
           /\ current.spans # {} /\ current.mode = "fallback"
              /\ sections[n].mode = "fallback" => sections[n].chunk < chunks
    /\ \A n, k \in DOMAIN sections :
           n # k /\ sections[n].mode = "fallback" /\ sections[k].mode = "fallback" =>
               sections[n].chunk # sections[k].chunk
    /\ current.chunk <= chunks
    /\ current.spans # {} /\ current.mode = "fallback" => current.chunk = chunks

\* In a paper all of whose spans have text, a trusted section ends where another
\* heading begins.
NeighboursInv ==
    (\A i \in DOMAIN allSpans : ~allSpans[i].blank) =>
        /\ \A n \in 1..(Len(sections) - 1) :
               sections[n].mode = "trusted" => sections[n].key # sections[n + 1].key
        /\ Len(sections) > 0 /\ inventoryPhase # "sections" =>
               /\ current.spans # {}
               /\ sections[Len(sections)].mode = "trusted" =>
                      sections[Len(sections)].key # current.key

InventoryInv == InventoryTypeOK /\ HeldInv /\ ChunksInv /\ NeighboursInv

\* Nothing is read at the start.
LEMMA InventoryInvInit ==
    (document \in Documents \union {NoDocument}) /\ InventoryInit => InventoryInv
  <1> SUFFICES ASSUME document \in Documents \union {NoDocument}, InventoryInit
               PROVE  InventoryInv
    OBVIOUS
  <1>1. IsList(<< >>) /\ << >> = [n \in DOMAIN << >> |-> << >>[n]] /\ Len(<< >>) = 0 /\ DOMAIN << >> = {}
    BY DEF IsList
  <1>2. NoSection.spans = {} /\ NoSection.mode = "trusted" /\ NoSection.chunk = 0
    BY DEF NoSection
  <1>3. SectionOK(NoSection)
    BY <1>2, FS_EmptySet DEF SectionOK, SectionModes, NoSection
  <1>4. InventoryTypeOK
    BY <1>1, <1>3 DEF InventoryInit, InventoryTypeOK
  <1>5. HeldInv /\ ChunksInv /\ NeighboursInv
    BY <1>1, <1>2 DEF InventoryInit, HeldInv, ChunksInv, NeighboursInv
  <1> QED
    BY <1>4, <1>5 DEF InventoryInv

\* A list with one more item.
LEMMA AppendedList ==
    ASSUME NEW s, IsList(s), s = [i \in DOMAIN s |-> s[i]], NEW e
    PROVE  /\ IsList(Append(s, e))
           /\ Append(s, e) = [i \in DOMAIN Append(s, e) |-> Append(s, e)[i]]
           /\ Len(Append(s, e)) = Len(s) + 1
           /\ Append(s, e)[Len(s) + 1] = e
           /\ \A i \in DOMAIN s : Append(s, e)[i] = s[i]
  <1> DEFINE S == {s[i] : i \in DOMAIN s} \union {e}
  <1>1. s \in Seq(S)
    BY DEF IsList
  <1> HIDE DEF S
  <1>2. e \in S
    BY DEF S
  <1>3. /\ Append(s, e) \in Seq(S) /\ Len(Append(s, e)) = Len(s) + 1
        /\ Append(s, e)[Len(s) + 1] = e
        /\ \A i \in 1..Len(s) : Append(s, e)[i] = s[i]
    BY <1>1, <1>2, AppendProperties
  <1>4. \A t \in Seq(S) : t = [i \in DOMAIN t |-> t[i]] /\ IsList(t)
    BY DEF IsList
  <1> QED
    BY <1>3, <1>4 DEF IsList

\* A range that is one longer, or as long, has all of the other.
LEMMA LongerRange ==
    ASSUME NEW m \in Nat, NEW n, n = m \/ n = m + 1
    PROVE  1..m \subseteq 1..n
  OBVIOUS

\* And so have the places before it.
LEMMA ReadRange ==
    ASSUME NEW m \in Nat, NEW n \in {m, m + 1}
    PROVE  1..(m - 1) \subseteq 1..(n - 1)
  OBVIOUS

\* Numbers in order.
LEMMA Between ==
    ASSUME NEW a \in Nat, NEW b \in Nat, NEW c \in Nat, a <= b, b <= c
    PROVE  a <= c /\ (b < c => a < c)
  OBVIOUS

\* The limits of a chunk do not change while the paper does not.
LEMMA SameLimits ==
    ASSUME allSpans' = allSpans, NEW S
    PROVE  WithinLimits(S)' = WithinLimits(S)
  BY DEF WithinLimits, CharsOf

\* A section that is in order stays so while the loop goes on.
LEMMA SectionStaysOK ==
    ASSUME allSpans' = allSpans, nextSpan \in Nat,
           nextSpan' \in {nextSpan, nextSpan + 1}, NEW section, SectionOK(section)
    PROVE  SectionOK(section)'
  <1>1. 1..(nextSpan - 1) \subseteq 1..(nextSpan' - 1)
    BY ReadRange
  <1> QED
    BY <1>1, SameLimits DEF SectionOK

\* flush leaves the sections as they were, or adds the one in hand.
LEMMA FlushedSections ==
    ASSUME InventoryTypeOK
    PROVE  /\ IsList(Flushed(current))
           /\ Flushed(current) = [n \in DOMAIN Flushed(current) |-> Flushed(current)[n]]
           /\ \/ /\ \A i \in current.spans : allSpans[i].blank
                 /\ Flushed(current) = sections
              \/ /\ ~(\A i \in current.spans : allSpans[i].blank)
                 /\ Len(Flushed(current)) = Len(sections) + 1
                 /\ \A n \in DOMAIN sections : Flushed(current)[n] = sections[n]
                 /\ Flushed(current)[Len(sections) + 1]
                       = [current EXCEPT !.title = TitleOf(current)]
  <1>1. IsList(sections) /\ sections = [n \in DOMAIN sections |-> sections[n]]
    BY DEF InventoryTypeOK
  <1>2. CASE \A i \in current.spans : allSpans[i].blank
    BY <1>1, <1>2 DEF Flushed
  <1>3. CASE ~(\A i \in current.spans : allSpans[i].blank)
    <2> DEFINE e == [current EXCEPT !.title = TitleOf(current)]
    <2>1. Flushed(current) = Append(sections, e)
      BY <1>3 DEF Flushed
    <2> HIDE DEF e
    <2>2. /\ IsList(Append(sections, e))
          /\ Append(sections, e)
                = [i \in DOMAIN Append(sections, e) |-> Append(sections, e)[i]]
          /\ Len(Append(sections, e)) = Len(sections) + 1
          /\ Append(sections, e)[Len(sections) + 1] = e
          /\ \A i \in DOMAIN sections : Append(sections, e)[i] = sections[i]
      BY <1>1, AppendedList
    <2> QED
      BY <1>3, <2>1, <2>2 DEF e
  <1> QED
    BY <1>2, <1>3

\* The section in hand keeps all but its title when it is added.
LEMMA TitledSection ==
    ASSUME SectionOK(current)
    PROVE  LET e == [current EXCEPT !.title = TitleOf(current)]
           IN  /\ e.mode = current.mode /\ e.key = current.key
               /\ e.chunk = current.chunk /\ e.spans = current.spans
               /\ e.title = TitleOf(e)
               /\ SectionOK(e)
  <1> DEFINE e == [current EXCEPT !.title = TitleOf(current)]
  <1>1. DOMAIN current = {"mode", "key", "chunk", "title", "spans"}
    BY DEF SectionOK
  <1>2. /\ e.mode = current.mode /\ e.key = current.key
        /\ e.chunk = current.chunk /\ e.spans = current.spans
        /\ e.title = TitleOf(current) /\ DOMAIN e = DOMAIN current
    BY <1>1
  <1> HIDE DEF e
  <1>3. TitleOf(e) = TitleOf(current)
    BY <1>2 DEF TitleOf
  <1>4. SectionOK(e)
    BY <1>2 DEF SectionOK
  <1> QED
    BY <1>2, <1>3, <1>4 DEF e

\* Each section after a flush: one there was, or the one in hand.
LEMMA FlushedOne ==
    ASSUME InventoryTypeOK, NEW n \in DOMAIN Flushed(current)
    PROVE  LET f == Flushed(current)[n]
           IN  \/ n \in DOMAIN sections /\ f = sections[n]
               \/ /\ n = Len(sections) + 1 /\ n = Len(Flushed(current))
                  /\ f.mode = current.mode /\ f.key = current.key
                  /\ f.chunk = current.chunk /\ f.spans = current.spans
                  /\ f.title = TitleOf(f) /\ SectionOK(f)
                  /\ current.spans # {}
  <1>1. SectionOK(current) /\ IsList(sections)
    BY DEF InventoryTypeOK
  <1>2. CASE Flushed(current) = sections
    BY <1>2
  <1>3. CASE /\ ~(\A i \in current.spans : allSpans[i].blank)
             /\ Len(Flushed(current)) = Len(sections) + 1
             /\ \A k \in DOMAIN sections : Flushed(current)[k] = sections[k]
             /\ Flushed(current)[Len(sections) + 1]
                       = [current EXCEPT !.title = TitleOf(current)]
    <2>1. n \in 1..(Len(sections) + 1)
      BY <1>3, FlushedSections DEF IsList
    <2>2. CASE n \in DOMAIN sections
      BY <1>3, <2>2
    <2>3. CASE n = Len(sections) + 1
      BY <1>1, <1>3, <2>3, TitledSection
    <2> QED
      BY <1>1, <2>1, <2>2, <2>3 DEF IsList
  <1> QED
    BY <1>2, <1>3, FlushedSections

\* What holds of the sections after a flush, when nothing is in hand.
LEMMA FlushKeeps ==
    ASSUME InventoryInv, NEW F, F = Flushed(current)
    PROVE  /\ \A n \in DOMAIN F : SectionOK(F[n])
           /\ \A i \in 1..(nextSpan - 1) :
                  allSpans[i].blank \/ \E n \in DOMAIN F : i \in F[n].spans
           /\ \A n, k \in DOMAIN F : n < k =>
                  \A i \in F[n].spans : \A j \in F[k].spans : i < j
           /\ \A n \in DOMAIN F : F[n].title = TitleOf(F[n]) /\ F[n].chunk <= chunks
           /\ \A n, k \in DOMAIN F :
                  n # k /\ F[n].mode = "fallback" /\ F[k].mode = "fallback" =>
                      F[n].chunk # F[k].chunk
  <1>1. InventoryTypeOK /\ IsList(sections) /\ IsList(F)
    BY FlushedSections DEF InventoryInv, InventoryTypeOK
  <1> DEFINE Old(n) == n \in DOMAIN sections /\ F[n] = sections[n]
             New(n) == /\ n = Len(sections) + 1 /\ n = Len(F)
                       /\ F[n].mode = current.mode /\ F[n].key = current.key
                       /\ F[n].chunk = current.chunk /\ F[n].spans = current.spans
                       /\ F[n].title = TitleOf(F[n]) /\ SectionOK(F[n])
                       /\ current.spans # {}
  <1>2. \A n \in DOMAIN F : Old(n) \/ New(n)
    BY <1>1, FlushedOne
  <1>3. \A n \in DOMAIN F : SectionOK(F[n])
    BY <1>1, <1>2 DEF InventoryTypeOK
  <1>4. ASSUME NEW i \in 1..(nextSpan - 1), ~allSpans[i].blank
        PROVE  \E n \in DOMAIN F : i \in F[n].spans
    <2>1. CASE i \in current.spans
      <3>1. /\ Len(F) = Len(sections) + 1
            /\ F[Len(sections) + 1] = [current EXCEPT !.title = TitleOf(current)]
        BY <1>1, <1>4, <2>1, FlushedSections
      <3>2. Len(sections) + 1 \in DOMAIN F /\ Len(sections) + 1 \notin DOMAIN sections
        BY <1>1, <3>1 DEF IsList
      <3> QED
        BY <1>2, <2>1, <3>2
    <2>2. CASE \E n \in DOMAIN sections : i \in sections[n].spans
      <3>1. /\ \A n \in DOMAIN sections : F[n] = sections[n]
            /\ Len(F) = Len(sections) \/ Len(F) = Len(sections) + 1
        BY <1>1, FlushedSections
      <3>a. Len(sections) \in Nat
        BY <1>1 DEF IsList
      <3>2. \A n \in 1..Len(sections) : n \in 1..Len(F)
        BY <3>1, <3>a, LongerRange
      <3> QED
        BY <1>1, <2>2, <3>1, <3>2 DEF IsList
    <2> QED
      BY <1>4, <2>1, <2>2 DEF InventoryInv, HeldInv
  <1>5. ASSUME NEW n \in DOMAIN F, NEW k \in DOMAIN F, n < k
        PROVE  \A i \in F[n].spans : \A j \in F[k].spans : i < j
    <2>1. Old(n)
      BY <1>1, <1>2, <1>5 DEF IsList
    <2>2. CASE Old(k)
      BY <1>5, <2>1, <2>2 DEF InventoryInv, HeldInv
    <2>3. CASE New(k)
      BY <2>1, <2>3 DEF InventoryInv, HeldInv
    <2> QED
      BY <1>2, <2>2, <2>3
  <1>6. \A n \in DOMAIN F : F[n].title = TitleOf(F[n]) /\ F[n].chunk <= chunks
    BY <1>2 DEF InventoryInv, ChunksInv
  <1>7. ASSUME NEW n \in DOMAIN F, NEW k \in DOMAIN F, n # k,
               F[n].mode = "fallback", F[k].mode = "fallback"
        PROVE  F[n].chunk # F[k].chunk
    <2>1. \A m \in DOMAIN F : F[m].chunk \in Nat
      BY <1>3 DEF SectionOK
    <2>2. chunks \in Nat
      BY <1>1 DEF InventoryTypeOK
    <2>3. CASE Old(n) /\ Old(k)
      BY <1>7, <2>3 DEF InventoryInv, ChunksInv
    <2>4. CASE Old(n) /\ New(k)
      BY <1>7, <2>1, <2>2, <2>4 DEF InventoryInv, ChunksInv
    <2>5. CASE New(n) /\ Old(k)
      BY <1>7, <2>1, <2>2, <2>5 DEF InventoryInv, ChunksInv
    <2>6. CASE New(n) /\ New(k)
      BY <1>7, <2>6
    <2> QED
      BY <1>2, <2>3, <2>4, <2>5, <2>6
  <1> QED
    BY <1>3, <1>4, <1>5, <1>6, <1>7

\* And no trusted heading is cut by a flush, when all spans have text.
LEMMA FlushNeighbours ==
    ASSUME InventoryInv, inventoryPhase = "spans",
           \A i \in DOMAIN allSpans : ~allSpans[i].blank,
           NEW F, F = Flushed(current)
    PROVE  /\ \A n \in 1..(Len(F) - 1) :
                  F[n].mode = "trusted" => F[n].key # F[n + 1].key
           /\ Len(F) > 0 => /\ current.spans # {}
                            /\ F[Len(F)].mode = current.mode
                            /\ F[Len(F)].key = current.key
  <1>1. IsList(sections) /\ IsList(F) /\ SectionOK(current)
    BY FlushedSections DEF InventoryInv, InventoryTypeOK
  <1>2. /\ \A n \in 1..(Len(sections) - 1) :
               sections[n].mode = "trusted" => sections[n].key # sections[n + 1].key
        /\ Len(sections) > 0 =>
               /\ current.spans # {}
               /\ sections[Len(sections)].mode = "trusted" =>
                      sections[Len(sections)].key # current.key
    BY DEF InventoryInv, NeighboursInv
  <1>3. CASE current.spans = {}
    <2>1. F = sections
      BY <1>3 DEF Flushed
    <2>2. Len(sections) = 0
      BY <1>1, <1>2, <1>3 DEF IsList
    <2> QED
      BY <2>1, <2>2
  <1>4. CASE current.spans # {}
    <2>1. PICK i \in current.spans : i \in DOMAIN allSpans
      <3>1. current.spans \subseteq 1..(nextSpan - 1)
        BY <1>1 DEF SectionOK
      <3>2. 1..(nextSpan - 1) \subseteq DOMAIN allSpans
        BY DEF InventoryInv, InventoryTypeOK, IsList
      <3> QED
        BY <1>4, <3>1, <3>2
    <2>2. ~(\A j \in current.spans : allSpans[j].blank)
      BY <2>1
    <2>3. /\ Len(F) = Len(sections) + 1
          /\ \A n \in DOMAIN sections : F[n] = sections[n]
          /\ F[Len(sections) + 1] = [current EXCEPT !.title = TitleOf(current)]
      BY <2>2, FlushedSections DEF InventoryInv
    <2>4. F[Len(F)].mode = current.mode /\ F[Len(F)].key = current.key
      BY <1>1, <2>3, TitledSection
    <2>5. ASSUME NEW n \in 1..(Len(F) - 1), F[n].mode = "trusted"
          PROVE  F[n].key # F[n + 1].key
      <3>1. n \in DOMAIN sections /\ F[n] = sections[n]
        BY <1>1, <2>3 DEF IsList
      <3>2. CASE n = Len(sections)
        <4>1. sections[Len(sections)].mode = "trusted" /\ Len(sections) > 0
          BY <1>1, <2>5, <3>1, <3>2 DEF IsList
        <4>2. F[n + 1].key = current.key
          BY <2>3, <2>4, <3>2
        <4> QED
          BY <1>2, <3>1, <3>2, <4>1, <4>2
      <3>3. CASE n # Len(sections)
        <4>1. n \in 1..(Len(sections) - 1) /\ n + 1 \in DOMAIN sections
          BY <1>1, <3>1, <3>3 DEF IsList
        <4> QED
          BY <1>2, <2>3, <2>5, <3>1, <4>1
      <3> QED
        BY <3>2, <3>3
    <2> QED
      BY <1>4, <2>4, <2>5
  <1> QED
    BY <1>3, <1>4

\* A span has the place after all that were read.
LEMMA NextPlace ==
    ASSUME NEW m \in Nat, m > 0
    PROVE  /\ m + 1 - 1 = m /\ m \in 1..m /\ m \notin 1..(m - 1)
           /\ 1..m = (1..(m - 1)) \union {m}
           /\ \A i \in 1..(m - 1) : i < m
  OBVIOUS

\* A section or chunk that begins has its one span in it.
LEMMA StartStep ==
    ASSUME InventoryInv, ReadSpan,
           Cut(allSpans[nextSpan]) \/ current.spans = {}
    PROVE  InventoryInv'
  <1> DEFINE s == allSpans[nextSpan]
  <1>0. PICK F : F = Flushed(current)
    OBVIOUS
  <1>1. /\ inventoryPhase = "spans" /\ inventoryPhase' = "spans"
        /\ nextSpan \in Nat /\ nextSpan > 0 /\ nextSpan <= Len(allSpans)
        /\ nextSpan' = nextSpan + 1 /\ allSpans' = allSpans /\ document' = document
        /\ IsList(allSpans) /\ chunks \in Nat
    BY DEF ReadSpan, InventoryInv, InventoryTypeOK, IsList
  <1>2. sections' = F
    <2>1. CASE Cut(s)
      BY <1>0, <2>1 DEF ReadSpan
    <2>2. CASE ~Cut(s)
      <3>1. current.spans = {}
        BY <2>2
      <3> QED
        BY <1>0, <2>2, <3>1 DEF ReadSpan, Flushed
    <2> QED
      BY <2>1, <2>2
  <1>3. /\ current'.mode = ModeOf(s) /\ current'.key = KeyOf(s)
        /\ current'.chunk = chunks' /\ current'.spans = {nextSpan}
        /\ DOMAIN current' = {"mode", "key", "chunk", "title", "spans"}
        /\ chunks' = IF ~Reliable(s) THEN chunks + 1 ELSE chunks
    BY DEF ReadSpan
  <1>4. /\ ModeOf(s) \in SectionModes /\ chunks' \in Nat /\ chunks <= chunks'
        /\ ModeOf(s) = "fallback" => chunks < chunks'
    BY <1>1, <1>3 DEF ModeOf, SectionModes
  <1>5. /\ \A n \in DOMAIN F : SectionOK(F[n])
        /\ \A i \in 1..(nextSpan - 1) :
               allSpans[i].blank \/ \E n \in DOMAIN F : i \in F[n].spans
        /\ \A n, k \in DOMAIN F : n < k =>
               \A i \in F[n].spans : \A j \in F[k].spans : i < j
        /\ \A n \in DOMAIN F : F[n].title = TitleOf(F[n]) /\ F[n].chunk <= chunks
        /\ \A n, k \in DOMAIN F :
               n # k /\ F[n].mode = "fallback" /\ F[k].mode = "fallback" =>
                   F[n].chunk # F[k].chunk
    BY <1>0, FlushKeeps
  <1>6. IsList(F) /\ F = [n \in DOMAIN F |-> F[n]]
    BY <1>0, FlushedSections DEF InventoryInv
  <1>7. ASSUME \A i \in DOMAIN allSpans : ~allSpans[i].blank
        PROVE  /\ \A n \in 1..(Len(F) - 1) :
                      F[n].mode = "trusted" => F[n].key # F[n + 1].key
               /\ Len(F) > 0 => /\ current.spans # {}
                                /\ F[Len(F)].mode = current.mode
                                /\ F[Len(F)].key = current.key
    BY <1>0, <1>1, <1>7, FlushNeighbours
  <1>8. InventoryTypeOK'
    <2>1. SectionOK(current)'
      <3>1. Cardinality({nextSpan}) = 1
        BY FS_Singleton
      <3>2. nextSpan \in 1..(nextSpan' - 1)
        BY <1>1, NextPlace
      <3> QED
        BY <1>1, <1>3, <1>4, <3>1, <3>2 DEF SectionOK
    <2>2. \A n \in DOMAIN F : SectionOK(F[n])'
      BY <1>1, <1>5, SectionStaysOK
    <2>3. nextSpan' \in 1..(Len(allSpans) + 1)
      BY <1>1 DEF IsList
    <2>4. document' \in Documents \union {NoDocument}
      BY <1>1 DEF InventoryInv, InventoryTypeOK
    <2> QED
      BY <1>1, <1>2, <1>4, <1>6, <2>1, <2>2, <2>3, <2>4 DEF InventoryTypeOK
  <1>9. HeldInv'
    <2>1. \A i \in 1..(nextSpan' - 1) :
              allSpans[i].blank \/ i = nextSpan \/ \E n \in DOMAIN F : i \in F[n].spans
      BY <1>1, <1>5, NextPlace
    <2>2. \A n \in DOMAIN F : \A i \in F[n].spans : i < nextSpan
      BY <1>1, <1>5, NextPlace DEF SectionOK
    <2> QED
      BY <1>1, <1>2, <1>3, <1>5, <2>1, <2>2 DEF HeldInv
  <1>10. ChunksInv'
    <2>1. \A n \in DOMAIN F : TitleOf(F[n])' = TitleOf(F[n])
      BY <1>1 DEF TitleOf, PagesOf
    <2>2. ASSUME NEW n \in DOMAIN F
          PROVE  /\ F[n].chunk <= chunks'
                 /\ ModeOf(s) = "fallback" => F[n].chunk < chunks'
      <3>1. F[n].chunk \in Nat /\ F[n].chunk <= chunks
        BY <1>5 DEF SectionOK
      <3>2. chunks' \in Nat /\ chunks \in Nat
        BY <1>1, <1>4
      <3> QED
        BY <1>4, <3>1, <3>2, Between
    <2> QED
      BY <1>2, <1>3, <1>4, <1>5, <2>1, <2>2 DEF ChunksInv
  <1>11. NeighboursInv'
    <2> SUFFICES ASSUME \A i \in DOMAIN allSpans : ~allSpans[i].blank
                 PROVE  /\ \A n \in 1..(Len(F) - 1) :
                               F[n].mode = "trusted" => F[n].key # F[n + 1].key
                        /\ Len(F) > 0 /\ F[Len(F)].mode = "trusted" =>
                               F[Len(F)].key # KeyOf(s)
      BY <1>1, <1>2, <1>3 DEF NeighboursInv
    <2>1. ASSUME Len(F) > 0, F[Len(F)].mode = "trusted", F[Len(F)].key = KeyOf(s)
          PROVE  FALSE
      <3>1. current.spans # {} /\ current.mode = "trusted" /\ current.key = KeyOf(s)
        BY <1>7, <2>1
      <3>2. PICK i \in current.spans : KeyOf(allSpans[i]) = current.key
                                       /\ ModeOf(allSpans[i]) = current.mode
        BY <3>1 DEF InventoryInv, InventoryTypeOK, SectionOK
      <3>3. ModeOf(s) = "trusted"
        BY <3>1, <3>2, KeyMakesMode
      <3> QED
        BY <3>1, <3>3 DEF Cut
    <2> QED
      BY <1>7, <2>1
  <1> QED
    BY <1>8, <1>9, <1>10, <1>11 DEF InventoryInv

\* A span that does not end the section in hand is added to it.
LEMMA ContinueStep ==
    ASSUME InventoryInv, ReadSpan,
           ~Cut(allSpans[nextSpan]), current.spans # {}
    PROVE  InventoryInv'
  <1> DEFINE s == allSpans[nextSpan]
  <1>1. /\ inventoryPhase = "spans" /\ inventoryPhase' = "spans"
        /\ nextSpan \in Nat /\ nextSpan > 0 /\ nextSpan <= Len(allSpans)
        /\ nextSpan' = nextSpan + 1 /\ allSpans' = allSpans /\ document' = document
        /\ IsList(allSpans) /\ chunks \in Nat
    BY DEF ReadSpan, InventoryInv, InventoryTypeOK, IsList
  <1>2. sections' = sections /\ chunks' = chunks
        /\ current' = [current EXCEPT !.spans = @ \union {nextSpan}]
    BY DEF ReadSpan
  <1>3. SectionOK(current)
    BY DEF InventoryInv, InventoryTypeOK
  <1>4. /\ current'.mode = current.mode /\ current'.key = current.key
        /\ current'.chunk = current.chunk
        /\ current'.spans = current.spans \union {nextSpan}
        /\ DOMAIN current' = {"mode", "key", "chunk", "title", "spans"}
    BY <1>2, <1>3 DEF SectionOK
  <1>5. /\ ModeOf(s) = current.mode /\ KeyOf(s) = current.key
        /\ current.mode = "fallback" => WithinLimits(current.spans \union {nextSpan})
    BY DEF Cut, LimitHit
  <1>6. InventoryTypeOK'
    <2>1. SectionOK(current)'
      <3>1. current'.spans \subseteq 1..(nextSpan' - 1)
        BY <1>1, <1>3, <1>4, NextPlace DEF SectionOK
      <3>2. \A i \in current'.spans : KeyOf(allSpans[i]) = current'.key
                                      /\ ModeOf(allSpans[i]) = current'.mode
        BY <1>3, <1>4, <1>5 DEF SectionOK
      <3>3. current'.mode = "fallback" => WithinLimits(current.spans)'
        BY <1>1, <1>4, <1>5 DEF WithinLimits, CharsOf
      <3> QED
        BY <1>1, <1>3, <1>4, <3>1, <3>2, <3>3 DEF SectionOK
    <2>2. \A n \in DOMAIN sections : SectionOK(sections[n])'
      <3>1. PICK S : S = sections
        OBVIOUS
      <3>2. \A n \in DOMAIN S : SectionOK(S[n])
        BY <3>1 DEF InventoryInv, InventoryTypeOK
      <3>3. \A n \in DOMAIN S : SectionOK(S[n])'
        BY <1>1, <3>2, SectionStaysOK
      <3> QED
        BY <1>2, <3>1, <3>3
    <2>3. nextSpan' \in 1..(Len(allSpans) + 1)
      BY <1>1 DEF IsList
    <2> QED
      BY <1>1, <1>2, <2>1, <2>2, <2>3 DEF InventoryInv, InventoryTypeOK
  <1>7. HeldInv'
    <2>1. \A i \in 1..(nextSpan' - 1) :
              \/ allSpans[i].blank \/ i \in current.spans \/ i = nextSpan
              \/ \E n \in DOMAIN sections : i \in sections[n].spans
      <3>1. 1..(nextSpan' - 1) = (1..(nextSpan - 1)) \union {nextSpan}
        BY <1>1, NextPlace
      <3> QED
        BY <3>1 DEF InventoryInv, HeldInv
    <2>2. \A n \in DOMAIN sections : \A i \in sections[n].spans : i < nextSpan
      BY <1>1, NextPlace DEF InventoryInv, InventoryTypeOK, SectionOK
    <2> QED
      BY <1>1, <1>2, <1>4, <2>1, <2>2 DEF InventoryInv, HeldInv
  <1>8. ChunksInv'
    <2>1. \A n \in DOMAIN sections : TitleOf(sections[n])' = TitleOf(sections[n])
      BY <1>1, <1>2 DEF TitleOf, PagesOf
    <2> QED
      BY <1>2, <1>4, <2>1 DEF InventoryInv, ChunksInv
  <1>9. NeighboursInv'
    BY <1>1, <1>2, <1>4 DEF InventoryInv, NeighboursInv
  <1> QED
    BY <1>6, <1>7, <1>8, <1>9 DEF InventoryInv

\* The spans of the paper are there before anything is collected.
LEMMA ParseStep ==
    ASSUME InventoryInv, Parse PROVE InventoryInv'
  <1>1. /\ sections = << >> /\ current = NoSection /\ nextSpan = 1 /\ chunks = 0
        /\ sections' = << >> /\ current' = NoSection /\ nextSpan' = 1 /\ chunks' = 0
        /\ inventoryPhase' = "spans" /\ document' = document
        /\ document \in Documents /\ allSpans' = SpansOf(document)
    BY DEF Parse, InventoryInv, InventoryTypeOK
  <1>2. IsList(allSpans')
    BY <1>1, SpansAreAList
  <1>3. IsList(<< >>) /\ << >> = [n \in DOMAIN << >> |-> << >>[n]] /\
        Len(<< >>) = 0 /\ DOMAIN << >> = {}
    BY DEF IsList
  <1>4. NoSection.spans = {} /\ NoSection.mode = "trusted" /\ NoSection.chunk = 0
    BY DEF NoSection
  <1>5. SectionOK(current)'
    BY <1>1, <1>4, FS_EmptySet DEF SectionOK, SectionModes, NoSection
  <1>6. 1 \in 1..(Len(allSpans') + 1)
    BY <1>2 DEF IsList
  <1>7. InventoryTypeOK'
    BY <1>1, <1>2, <1>3, <1>5, <1>6 DEF InventoryTypeOK
  <1>8. HeldInv' /\ ChunksInv' /\ NeighboursInv'
    BY <1>1, <1>3, <1>4 DEF HeldInv, ChunksInv, NeighboursInv
  <1> QED
    BY <1>7, <1>8 DEF InventoryInv

\* The last section is flushed and nothing is in hand.
LEMMA EndStep ==
    ASSUME InventoryInv, EndInventory PROVE InventoryInv'
  <1>0. PICK F : F = Flushed(current)
    OBVIOUS
  <1>1. /\ inventoryPhase = "spans" /\ inventoryPhase' = "sections"
        /\ nextSpan \in Nat /\ nextSpan = Len(allSpans) + 1
        /\ nextSpan' = nextSpan /\ allSpans' = allSpans /\ document' = document
        /\ IsList(allSpans) /\ chunks \in Nat /\ chunks' = chunks
        /\ sections' = F /\ current' = NoSection
        /\ document \in Documents \union {NoDocument}
    BY <1>0 DEF EndInventory, InventoryInv, InventoryTypeOK, IsList
  <1>2. /\ \A n \in DOMAIN F : SectionOK(F[n])
        /\ \A i \in 1..(nextSpan - 1) :
               allSpans[i].blank \/ \E n \in DOMAIN F : i \in F[n].spans
        /\ \A n, k \in DOMAIN F : n < k =>
               \A i \in F[n].spans : \A j \in F[k].spans : i < j
        /\ \A n \in DOMAIN F : F[n].title = TitleOf(F[n]) /\ F[n].chunk <= chunks
        /\ \A n, k \in DOMAIN F :
               n # k /\ F[n].mode = "fallback" /\ F[k].mode = "fallback" =>
                   F[n].chunk # F[k].chunk
    BY <1>0, FlushKeeps
  <1>3. IsList(F) /\ F = [n \in DOMAIN F |-> F[n]]
    BY <1>0, FlushedSections DEF InventoryInv
  <1>4. NoSection.spans = {} /\ NoSection.mode = "trusted" /\ NoSection.chunk = 0
    BY DEF NoSection
  <1>5. InventoryTypeOK'
    <2>1. SectionOK(current)'
      BY <1>1, <1>4, FS_EmptySet DEF SectionOK, SectionModes, NoSection
    <2>2. \A n \in DOMAIN F : SectionOK(F[n])'
      BY <1>1, <1>2, SectionStaysOK
    <2>3. nextSpan' \in 1..(Len(allSpans) + 1)
      BY <1>1 DEF IsList
    <2> QED
      BY <1>1, <1>3, <2>1, <2>2, <2>3 DEF InventoryTypeOK
  <1>6. HeldInv'
    BY <1>1, <1>2, <1>4 DEF HeldInv
  <1>7. ChunksInv'
    <2>1. \A n \in DOMAIN F : TitleOf(F[n])' = TitleOf(F[n])
      BY <1>1 DEF TitleOf, PagesOf
    <2> QED
      BY <1>1, <1>2, <1>4, <2>1 DEF ChunksInv
  <1>8. NeighboursInv'
    BY <1>0, <1>1, FlushNeighbours DEF NeighboursInv
  <1> QED
    BY <1>5, <1>6, <1>7, <1>8 DEF InventoryInv

\* Every step keeps the invariant.
LEMMA InventoryStep ==
    InventoryInv /\ [InventoryNext]_inventoryVars => InventoryInv'
  <1> SUFFICES ASSUME InventoryInv, [InventoryNext]_inventoryVars PROVE InventoryInv'
    OBVIOUS
  <1>1. CASE Parse
    BY <1>1, ParseStep
  <1>2. CASE ReadSpan
    BY <1>2, StartStep, ContinueStep
  <1>3. CASE EndInventory
    BY <1>3, EndStep
  <1>4. CASE UNCHANGED inventoryVars
    <2> USE <1>4 DEF inventoryVars, InventoryInv
    <2>1. InventoryTypeOK'
      BY DEF InventoryTypeOK, SectionOK, WithinLimits, CharsOf
    <2>2. HeldInv'
      BY DEF HeldInv
    <2>3. ChunksInv'
      BY DEF ChunksInv, TitleOf, PagesOf
    <2>4. NeighboursInv'
      BY DEF NeighboursInv
    <2> QED
      BY <2>1, <2>2, <2>3, <2>4
  <1> QED
    BY <1>1, <1>2, <1>3, <1>4 DEF InventoryNext

\* Titles of chunks differ by their number, and from those of headings.
LEMMA TitlesDiffer ==
    ASSUME NEW a, a.mode = "fallback", NEW b, b.mode \in SectionModes,
           b.mode = "fallback" => a.chunk # b.chunk
    PROVE  TitleOf(a) # TitleOf(b)
  <1>1. Len(TitleOf(a)) = 3 /\ TitleOf(a)[2] = a.chunk
    BY DEF TitleOf
  <1>2. CASE b.mode = "fallback"
    <2>1. TitleOf(b)[2] = b.chunk
      BY <1>2 DEF TitleOf
    <2> QED
      BY <1>1, <1>2, <2>1
  <1>3. CASE b.mode = "trusted"
    <2>1. Len(TitleOf(b)) = 1
      BY <1>3 DEF TitleOf
    <2> QED
      BY <1>1, <2>1
  <1> QED
    BY <1>2, <1>3 DEF SectionModes

\* When the loop has ended, the invariant is the property.
LEMMA InventorySuffices == InventoryInv => SectionsHoldTheText
  <1> SUFFICES ASSUME InventoryInv, inventoryPhase = "sections"
               PROVE  SectionsHoldTheText
    BY DEF SectionsHoldTheText
  <1>1. /\ current.spans = {} /\ nextSpan = Len(allSpans) + 1
        /\ IsList(allSpans) /\ \A n \in DOMAIN sections : SectionOK(sections[n])
    BY DEF InventoryInv, InventoryTypeOK, HeldInv, NoSection
  <1>2. 1..(nextSpan - 1) = DOMAIN allSpans
    BY <1>1 DEF IsList
  <1>3. \A i \in DOMAIN allSpans :
            allSpans[i].blank \/ \E n \in DOMAIN sections : i \in sections[n].spans
    BY <1>1, <1>2 DEF InventoryInv, HeldInv
  <1>4. \A n, k \in DOMAIN sections : n < k =>
            \A i \in sections[n].spans : \A j \in sections[k].spans : i < j
    BY DEF InventoryInv, HeldInv
  <1>5. \A n \in DOMAIN sections :
            /\ \A i \in sections[n].spans : KeyOf(allSpans[i]) = sections[n].key
            /\ sections[n].mode = "fallback" /\ Cardinality(sections[n].spans) > 1 =>
                   WithinLimits(sections[n].spans)
    BY <1>1 DEF SectionOK
  <1>6. \A n, k \in DOMAIN sections :
            n # k /\ sections[n].mode = "fallback" =>
                sections[n].title # sections[k].title
    <2> SUFFICES ASSUME NEW n \in DOMAIN sections, NEW k \in DOMAIN sections,
                        n # k, sections[n].mode = "fallback"
                 PROVE  TitleOf(sections[n]) # TitleOf(sections[k])
      BY DEF InventoryInv, ChunksInv
    <2>1. sections[k].mode \in SectionModes
      BY <1>1 DEF SectionOK
    <2>2. sections[k].mode = "fallback" => sections[n].chunk # sections[k].chunk
      BY DEF InventoryInv, ChunksInv
    <2> QED
      BY <2>1, <2>2, TitlesDiffer
  <1>7. (\A i \in DOMAIN allSpans : ~allSpans[i].blank) =>
            \A n \in 1..(Len(sections) - 1) :
                sections[n].mode = "trusted" => sections[n].key # sections[n + 1].key
    BY DEF InventoryInv, NeighboursInv
  <1> QED
    BY <1>3, <1>4, <1>5, <1>6, <1>7 DEF SectionsHoldTheText

\* build_section_inventory: whatever the headings and the lengths of the spans
\* and whatever the limits, the sections hold every span with text once and in
\* order, each under one heading, chunks are within their limits and have titles
\* of their own, and no trusted heading is cut.
THEOREM SectionsTheorem == InventorySpec => []SectionsHoldTheText
  <1>1. InventorySpec => []InventoryInv
    BY InventoryInvInit, InventoryStep, PTL DEF InventorySpec
  <1> QED
    BY <1>1, InventorySuffices, PTL

-----------------------------------------------------------------------------
(* StagedAssembly.                                                         *)

\* Naturals that are some have a least one.
LEMMA LeastOfSome ==
    ASSUME NEW T \in SUBSET Nat, T # {}
    PROVE  \E x \in T : \A y \in T : x <= y
  <1> DEFINE R == {ss \in Nat \X Nat : ss[1] < ss[2]}
  <1>1. IsWellFoundedOn(R, Nat)
    BY NatLessThanWellFounded DEF OpToRel
  <1> HIDE DEF R
  <1>2. PICK x \in T : \A y \in T : ~(<<y, x>> \in R)
    BY <1>1, WFMin
  <1>3. ASSUME NEW y \in T PROVE x <= y
    <2>1. y \in Nat /\ x \in Nat /\ ~(<<y, x>> \in R)
      BY <1>2
    <2>2. y < x => <<y, x>> \in R
      BY <2>1 DEF R
    <2> QED
      BY <2>1, <2>2
  <1> QED
    BY <1>3

\* Of naturals, Min is the least.
LEMMA MinFacts ==
    ASSUME NEW T \in SUBSET Nat, T # {}
    PROVE  Min(T) \in T /\ \A y \in T : Min(T) <= y
  BY LeastOfSome DEF Min

\* So it is of two.
LEMMA MinOfTwo ==
    \A x, y \in Nat : Min({x, y}) \in Nat /\ Min({x, y}) <= x /\ Min({x, y}) <= y
  <1> SUFFICES ASSUME NEW x \in Nat, NEW y \in Nat
               PROVE  Min({x, y}) \in Nat /\ Min({x, y}) <= x /\ Min({x, y}) <= y
    OBVIOUS
  <1> DEFINE two == {x, y}
  <1>1. two \in SUBSET Nat /\ two # {} /\ x \in two /\ y \in two
    OBVIOUS
  <1> HIDE DEF two
  <1>2. Min(two) \in two /\ \A z \in two : Min(two) <= z
    BY <1>1, MinFacts
  <1> QED
    BY <1>1, <1>2 DEF two

\* A strict total order.
Orders(R, P) ==
    /\ \A i \in P : <<i, i>> \notin R
    /\ \A i, j, k \in P : <<i, j>> \in R /\ <<j, k>> \in R => <<i, k>> \in R
    /\ \A i, j \in P : i # j => <<i, j>> \in R \/ <<j, i>> \in R

\* A finite set is listed in a strict total order, each member once.
LEMMA SortedFacts ==
    ASSUME NEW P, IsFiniteSet(P), NEW R, Orders(R, P)
    PROVE  /\ Sorted(P, R) \in [1..Cardinality(P) -> P]
           /\ Cardinality(P) \in Nat
           /\ \A i \in P : \E k \in 1..Cardinality(P) : Sorted(P, R)[k] = i
           /\ \A k, l \in 1..Cardinality(P) :
                  Sorted(P, R)[k] = Sorted(P, R)[l] => k = l
  <1> DEFINE n == Cardinality(P)
             before(i) == {j \in P : <<j, i>> \in R}
             size(i) == Cardinality(before(i))
             at(k) == CHOOSE i \in P : size(i) = k - 1
             f == [i \in P |-> size(i) + 1]
  <1>1. n \in Nat /\ IsFiniteSet(1..n) /\ Cardinality(1..n) = n
    <2>1. n \in Nat
      BY FS_CardinalityType
    <2> HIDE DEF n
    <2> QED
      BY <2>1, FS_Interval
  <1>2. \A i \in P : before(i) \in SUBSET P /\ before(i) # P
    BY DEF Orders
  <1>3. \A i, j \in P : <<i, j>> \in R =>
            before(i) \in SUBSET before(j) /\ before(i) # before(j)
    BY DEF Orders
  <1>4. Sorted(P, R) = [k \in 1..n |-> at(k)]
    BY DEF Sorted
  <1> HIDE DEF before
  <1>5. ASSUME NEW i \in P
        PROVE  IsFiniteSet(before(i)) /\ size(i) \in Nat /\ size(i) < n
    <2>1. IsFiniteSet(before(i)) /\ size(i) <= n /\ size(i) # n
      BY <1>2, FS_Subset
    <2>2. size(i) \in Nat
      BY <2>1, FS_CardinalityType
    <2> HIDE DEF size, n
    <2> QED
      BY <2>1, <2>2, <1>1
  <1>6. ASSUME NEW i \in P, NEW j \in P, <<i, j>> \in R
        PROVE  size(i) # size(j)
    BY <1>3, <1>5, <1>6, FS_Subset
  <1> HIDE DEF size, n
  <1>7. \A k \in 1..n : \A i \in P : size(i) = k - 1 => at(k) \in P /\ size(at(k)) = k - 1
    OBVIOUS
  <1> HIDE DEF at, Sorted
  <1>8. \A i, j \in P : size(i) = size(j) => i = j
    BY <1>6 DEF Orders
  <1>9. f \in Injection(P, 1..n)
    BY <1>1, <1>5, <1>8 DEF Injection, IsInjective
  <1>10. f \in Surjection(P, 1..n)
    <2>1. Cardinality(P) = Cardinality(1..n)
      BY <1>1 DEF n
    <2> QED
      BY <1>1, <1>9, <2>1, FS_Injection
  <1>11. \A k \in 1..n : \E i \in P : size(i) = k - 1
    <2> SUFFICES ASSUME NEW k \in 1..n PROVE \E i \in P : size(i) = k - 1
      OBVIOUS
    <2>1. PICK i \in P : f[i] = k
      BY <1>10 DEF Surjection
    <2>2. size(i) + 1 = k
      BY <2>1
    <2> QED
      BY <2>2, <1>5
  <1> HIDE DEF f
  <1>12. \A k \in 1..n : at(k) \in P /\ size(at(k)) = k - 1
    BY <1>7, <1>11
  <1>13. \A i \in P : size(i) + 1 \in 1..n /\ at(size(i) + 1) = i
    <2> SUFFICES ASSUME NEW i \in P PROVE size(i) + 1 \in 1..n /\ at(size(i) + 1) = i
      OBVIOUS
    <2>1. size(i) + 1 \in 1..n /\ (size(i) + 1) - 1 = size(i)
      BY <1>1, <1>5
    <2> QED
      BY <2>1, <1>12, <1>8
  <1>14. \A k, l \in 1..n : at(k) = at(l) => k = l
    BY <1>12
  <1> QED
    BY <1>1, <1>4, <1>12, <1>13, <1>14 DEF n

\* So are numbers by size.
LEMMA AscendingFacts ==
    ASSUME NEW P \in SUBSET Nat, IsFiniteSet(P)
    PROVE  /\ Ascending(P) \in Seq(P)
           /\ \A i \in P : \E k \in DOMAIN Ascending(P) : Ascending(P)[k] = i
           /\ \A k, l \in DOMAIN Ascending(P) :
                  Ascending(P)[k] = Ascending(P)[l] => k = l
  <1> DEFINE R == {p \in P \X P : p[1] < p[2]}
  <1>1. \A i, j \in P : <<i, j>> \in R <=> i < j
    OBVIOUS
  <1> HIDE DEF R
  <1>2. Orders(R, P)
    BY <1>1 DEF Orders
  <1>3. Ascending(P) = Sorted(P, R)
    BY DEF Ascending, R
  <1>4. /\ Sorted(P, R) \in [1..Cardinality(P) -> P] /\ Cardinality(P) \in Nat
        /\ \A i \in P : \E k \in 1..Cardinality(P) : Sorted(P, R)[k] = i
        /\ \A k, l \in 1..Cardinality(P) : Sorted(P, R)[k] = Sorted(P, R)[l] => k = l
    BY <1>2, SortedFacts
  <1>5. Sorted(P, R) \in Seq(P) /\ DOMAIN Sorted(P, R) = 1..Cardinality(P)
    BY <1>4
  <1> QED
    BY <1>3, <1>4, <1>5

\* A list has finitely many places, and what it holds is in its range.
LEMMA ListPlaces ==
    ASSUME NEW s, IsSequence(s)
    PROVE  /\ DOMAIN s = 1..Len(s) /\ Len(s) \in Nat
           /\ IsFiniteSet(DOMAIN s) /\ Cardinality(DOMAIN s) = Len(s)
           /\ \A k \in DOMAIN s : s[k] \in Range(s)
           /\ \A x \in Range(s) : \E k \in DOMAIN s : s[k] = x
  <1>1. DOMAIN s = 1..Len(s) /\ Len(s) \in Nat
    BY DEF IsSequence
  <1>2. \A n \in Nat : IsFiniteSet(1..n) /\ Cardinality(1..n) = n
    BY FS_Interval
  <1>3. IsFiniteSet(1..Len(s)) /\ Cardinality(1..Len(s)) = Len(s)
    BY <1>1, <1>2
  <1> QED
    BY <1>1, <1>3 DEF Range

\* A list holds what one list holds, and behind it what another holds.
Joins(u, s, t) ==
    /\ Len(u) = Len(s) + Len(t) /\ Len(s) \in Nat /\ Len(t) \in Nat
    /\ \A k \in 1..Len(s) : k \in 1..Len(u) /\ u[k] = s[k]
    /\ \A k \in 1..Len(t) : Len(s) + k \in 1..Len(u) /\ u[Len(s) + k] = t[k]
    /\ \A k \in 1..Len(u) : k \in 1..Len(s) \/ \E l \in 1..Len(t) : k = Len(s) + l

\* So does what is joined.
LEMMA Joined ==
    ASSUME NEW S, NEW s \in Seq(S), NEW t \in Seq(S), NEW u, u = s \o t
    PROVE  u \in Seq(S) /\ Joins(u, s, t)
  <1>1. u \in Seq(S) /\ Len(u) = Len(s) + Len(t) /\ Len(s) \in Nat /\ Len(t) \in Nat
    OBVIOUS
  <1>2. \A k \in 1..Len(s) : k \in 1..Len(u) /\ u[k] = s[k]
    OBVIOUS
  <1>3. ASSUME NEW k \in 1..Len(t)
        PROVE  Len(s) + k \in 1..Len(u) /\ u[Len(s) + k] = t[k]
    OBVIOUS
  <1>4. ASSUME NEW k \in 1..Len(u), k \notin 1..Len(s)
        PROVE  \E l \in 1..Len(t) : k = Len(s) + l
    <2>1. k - Len(s) \in 1..Len(t) /\ k = Len(s) + (k - Len(s))
      BY <1>1, <1>4
    <2> QED
      BY <2>1
  <1> QED
    BY <1>1, <1>2, <1>3, <1>4 DEF Joins

\* FirstIn finds one, if there is any.
LEMMA FirstInFacts ==
    ASSUME NEW s, IsSequence(s), NEW S, Range(s) \intersect S # {}
    PROVE  FirstIn(s, S) \in Range(s) \intersect S
  <1> DEFINE places == {k \in DOMAIN s : s[k] \in S}
  <1>1. places \in SUBSET Nat /\ places # {}
    BY ListPlaces
  <1>2. Min(places) \in places
    BY <1>1, MinFacts
  <1> QED
    BY <1>2, ListPlaces DEF FirstIn

\* Where a claim is is a span of the paper, and so are its quotes.
LEMMA ClaimSpans ==
    ASSUME IsClaims(finalClaims), NEW i \in DOMAIN finalClaims
    PROVE  /\ FirstSpan(i) \in Spans
           /\ Sources(i) # {} /\ \A ref \in Sources(i) : ref # {} /\ ref \subseteq Spans
  <1> DEFINE spans == finalClaims[i].spans
             all == finalClaims[i].sources
  <1>1. IsSequence(spans) /\ spans # << >> /\ Range(spans) \subseteq Spans
        /\ Range(spans) = {s.span : s \in all}
    BY DEF IsClaims
  <1> HIDE DEF spans, all
  <1>2. spans \in Seq(Range(spans)) /\ Len(spans) # 0
    BY <1>1 DEF IsSequence
  <1>3. Head(spans) \in Range(spans)
    BY <1>1, <1>2
  <1>4. all # {} /\ \A s \in all : s.span \in Spans
    BY <1>1, <1>3
  <1>5. Sources(i) = {{s.span} : s \in IF {s \in all : s.holds} = {} THEN all
                                        ELSE {s \in all : s.holds}}
    BY DEF Sources, all
  <1>6. PICK some \in SUBSET all : some # {} /\ Sources(i) = {{s.span} : s \in some}
    <2>1. CASE {s \in all : s.holds} = {}
      BY <1>4, <1>5, <2>1
    <2>2. CASE {s \in all : s.holds} # {}
      BY <1>5, <2>2
    <2> QED
      BY <2>1, <2>2
  <1>7. FirstSpan(i) \in Spans
    BY <1>1, <1>3 DEF FirstSpan, spans
  <1> QED
    BY <1>4, <1>6, <1>7

\* What a row or a node points to is one span of the paper, or nothing.
LEMMA VerifiedRefFacts ==
    ASSUME NEW row, IsSequence(row.spans)
    PROVE  VerifiedRef(row) = {} \/ \E s \in Spans : VerifiedRef(row) = {{s}}
  BY FirstInFacts DEF VerifiedRef

\* Some claims are those of their topics.
LEMMA TopicsFacts ==
    ASSUME IsClaims(finalClaims), NEW numbers \in SUBSET DOMAIN finalClaims
    PROVE  /\ Topics(numbers) \in Seq(numbers)
           /\ \A i \in numbers : \E k \in DOMAIN Topics(numbers) :
                  i \in OfTopic(numbers, Topics(numbers)[k])
           /\ \A i : OfTopic(numbers, i) \in SUBSET DOMAIN finalClaims
  <1> DEFINE firsts == {i \in numbers : \A j \in numbers :
                  finalClaims[j].topic = finalClaims[i].topic => i <= j}
  <1>1. numbers \in SUBSET Nat /\ IsFiniteSet(DOMAIN finalClaims)
    BY ListPlaces DEF IsClaims
  <1>2. firsts \in SUBSET Nat /\ IsFiniteSet(firsts)
    BY <1>1, FS_Subset
  <1>3. Topics(numbers) = Ascending(firsts)
    BY DEF Topics
  <1>4. /\ Topics(numbers) \in Seq(firsts)
        /\ \A i \in firsts : \E k \in DOMAIN Topics(numbers) : Topics(numbers)[k] = i
    <2> HIDE DEF firsts
    <2> QED
      BY <1>2, <1>3, AscendingFacts
  <1>5. ASSUME NEW i \in numbers
        PROVE  \E k \in DOMAIN Topics(numbers) : i \in OfTopic(numbers, Topics(numbers)[k])
    <2>1. OfTopic(numbers, i) \in SUBSET Nat /\ i \in OfTopic(numbers, i)
      BY <1>1 DEF OfTopic
    <2>2. PICK first \in OfTopic(numbers, i) : \A j \in OfTopic(numbers, i) : first <= j
      BY <2>1, LeastOfSome
    <2>3. first \in firsts /\ i \in OfTopic(numbers, first)
      BY <2>2 DEF OfTopic
    <2> QED
      BY <1>4, <2>3
  <1>6. Topics(numbers) \in Seq(numbers)
    <2>1. firsts \subseteq numbers
      OBVIOUS
    <2> HIDE DEF firsts
    <2> QED
      BY <1>4, <2>1
  <1> QED
    BY <1>5, <1>6 DEF OfTopic

\* What the experiments of an assembled artifact are.
GoodExperiments ==
    [verifies : SUBSET DOMAIN finalClaims, refs : {{{s}} : s \in Spans}, blank : {{}}]

\* _strip_numbers leaves no field of an experiment without a text.
LEMMA NothingBlank ==
    ASSUME NEW row
    PROVE  {f \in DOMAIN FilledTexts(row) : FilledTexts(row)[f] = ""} = {}
  BY DEF FilledTexts, Filled

\* Those of the answer verify claims there are, whatever they name.
LEMMA ProposedAreGood ==
    ASSUME IsClaims(finalClaims), IsAnswer(structure)
    PROVE  Proposed \in Seq(GoodExperiments)
  <1> DEFINE rows == structure.experiments
             kept == {k \in DOMAIN rows : Known(rows[k].verifies) # {}}
             made(row) == Experiment(Known(row.verifies), RowRefs(row), FilledTexts(row))
  <1>1. IsSequence(rows) /\ \A k \in DOMAIN rows : IsSequence(rows[k].verifies) /\ IsSequence(rows[k].spans)
    BY DEF IsAnswer
  <1>2. kept \in SUBSET Nat /\ IsFiniteSet(kept)
    BY <1>1, ListPlaces, FS_Subset
  <1>3. Rows \in Seq(kept)
    BY <1>2, AscendingFacts DEF Rows
  <1>4. ASSUME NEW k \in kept
        PROVE  made(rows[k]) \in GoodExperiments
    <2>1. FirstKnown(rows[k].verifies) \in DOMAIN finalClaims
      BY <1>1, FirstInFacts DEF FirstKnown, Known
    <2>2. \E s \in Spans : RowRefs(rows[k]) = {{s}}
      BY <1>1, <2>1, ClaimSpans, VerifiedRefFacts DEF RowRefs
    <2>3. Known(rows[k].verifies) \in SUBSET DOMAIN finalClaims
      BY DEF Known
    <2> HIDE DEF rows, kept
    <2> QED
      BY <2>2, <2>3, NothingBlank DEF GoodExperiments, Experiment
  <1>5. Proposed = [k \in DOMAIN Rows |-> made(rows[Rows[k]])]
    BY DEF Proposed
  <1> HIDE DEF rows, kept, made
  <1> QED
    BY <1>3, <1>4, <1>5

\* And so do those that are added, which leave out no claim.
LEMMA ExperimentsAreGood ==
    ASSUME IsClaims(finalClaims), IsAnswer(structure)
    PROVE  /\ Experiments \in Seq(GoodExperiments)
           /\ \A i \in DOMAIN finalClaims : \E k \in DOMAIN Experiments :
                  i \in Experiments[k].verifies
  <1> DEFINE left == Leftover({e.verifies : e \in Range(Proposed)})
             topics == Topics(left)
             added == [k \in DOMAIN topics |->
                 Experiment(OfTopic(left, topics[k]), {{FirstSpan(topics[k])}}, << >>)]
  <1>1. Experiments = Proposed \o added
    BY DEF Experiments
  <1>2. left \in SUBSET DOMAIN finalClaims
    BY DEF Leftover
  <1>3. /\ topics \in Seq(left)
        /\ \A i \in left : \E k \in DOMAIN topics : i \in OfTopic(left, topics[k])
        /\ \A i : OfTopic(left, i) \in SUBSET DOMAIN finalClaims
    BY <1>2, TopicsFacts
  <1>4. \A i \in left : Experiment(OfTopic(left, i), {{FirstSpan(i)}}, << >>) \in GoodExperiments
    <2> HIDE DEF left
    <2>1. {f \in DOMAIN << >> : << >>[f] = ""} = {}
      OBVIOUS
    <2>2. \A i \in left : FirstSpan(i) \in Spans
      BY <1>2, ClaimSpans
    <2> QED
      BY <1>3, <2>1, <2>2 DEF Experiment, GoodExperiments
  <1>5. \A i \in DOMAIN finalClaims \ left :
            \E k \in DOMAIN Proposed : i \in Proposed[k].verifies
    BY DEF Leftover, Range
  <1>6. Proposed \in Seq(GoodExperiments)
    BY ProposedAreGood
  <1> HIDE DEF left, topics
  <1>7. /\ added \in Seq(GoodExperiments)
        /\ \A i \in left : \E k \in 1..Len(added) : i \in added[k].verifies
    <2>1. DOMAIN added = 1..Len(topics) /\ Len(topics) \in Nat
          /\ \A k \in 1..Len(topics) : topics[k] \in left
      BY <1>3
    <2>2. added \in [1..Len(topics) -> GoodExperiments]
      BY <1>4, <2>1
    <2>3. added \in Seq(GoodExperiments) /\ Len(added) = Len(topics)
      BY <2>1, <2>2
    <2>4. \A k \in DOMAIN topics : added[k].verifies = OfTopic(left, topics[k])
      BY DEF Experiment
    <2> QED
      BY <1>3, <2>1, <2>3, <2>4
  <1> HIDE DEF added
  <1>8. Experiments \in Seq(GoodExperiments) /\ Joins(Experiments, Proposed, added)
    BY <1>1, <1>6, <1>7, Joined
  <1>9. DOMAIN Proposed = 1..Len(Proposed) /\ DOMAIN Experiments = 1..Len(Experiments)
    BY <1>6, <1>8
  <1>10. ASSUME NEW i \in DOMAIN finalClaims
         PROVE  \E k \in DOMAIN Experiments : i \in Experiments[k].verifies
    <2>1. CASE i \in left
      BY <1>7, <1>8, <1>9, <2>1 DEF Joins
    <2>2. CASE i \notin left
      BY <1>5, <1>8, <1>9, <2>2 DEF Joins
    <2> QED
      BY <2>1, <2>2
  <1> QED
    BY <1>8, <1>10

\* The places of the nodes that are visited.
LEMMA NodesFacts ==
    ASSUME IsAnswer(structure)
    PROVE  Nodes \in Seq(DOMAIN structure.trace)
  <1>1. PICK visited \in SUBSET DOMAIN structure.trace : Nodes = Ascending(visited)
    BY DEF Nodes
  <1>2. visited \in SUBSET Nat /\ IsFiniteSet(visited)
    BY ListPlaces, FS_Subset DEF IsAnswer
  <1>3. Nodes \in Seq(visited)
    BY <1>1, <1>2, AscendingFacts
  <1> QED
    BY <1>3

\* The nodes of the trace are numbered, refer to claims there are, and leave
\* out no claim.
LEMMA TraceFacts ==
    ASSUME IsClaims(finalClaims), IsAnswer(structure)
    PROVE  /\ Trace \in Seq([id : {"Q", "R"} \X Int,
                              evidence : SUBSET ClaimIds(DOMAIN finalClaims)])
           /\ \A k \in 1..Len(Trace) : Trace[k].id[2] = k - 1
           /\ \A i \in DOMAIN finalClaims : \E k \in DOMAIN Trace :
                  Id("C", i) \in Trace[k].evidence
  <1> DEFINE Nodelike == [id : {"Q", "R"} \X Int, evidence : SUBSET ClaimIds(DOMAIN finalClaims)]
             proposed == [k \in DOMAIN Nodes |->
                 TraceNode(IF structure.trace[Nodes[k]].question THEN "Q" ELSE "R", k,
                           NodeClaims(k))]
             left == Leftover({NodeClaims(k) : k \in DOMAIN Nodes})
             topics == Topics(left)
             added == [k \in DOMAIN topics |->
                 TraceNode("R", Len(proposed) + k, OfTopic(left, topics[k]))]
             root == <<TraceNode("Q", 0, {})>>
  <1>1. Trace = root \o proposed \o added
    BY DEF Trace
  <1>2. left \in SUBSET DOMAIN finalClaims
    BY DEF Leftover
  <1>3. /\ topics \in Seq(left)
        /\ \A i \in left : \E k \in DOMAIN topics : i \in OfTopic(left, topics[k])
        /\ \A i : OfTopic(left, i) \in SUBSET DOMAIN finalClaims
    BY <1>2, TopicsFacts
  <1>4. \A i \in DOMAIN finalClaims \ left : \E k \in DOMAIN Nodes : i \in NodeClaims(k)
    BY DEF Leftover
  <1>5. \A letter \in {"Q", "R"} : \A n \in Int : \A some \in SUBSET DOMAIN finalClaims :
            /\ TraceNode(letter, n, some) \in Nodelike
            /\ TraceNode(letter, n, some).id[2] = n
            /\ \A i \in some : Id("C", i) \in TraceNode(letter, n, some).evidence
    BY DEF TraceNode, ClaimIds, Id
  <1>6. DOMAIN Nodes = 1..Len(Nodes) /\ Len(Nodes) \in Nat
    BY NodesFacts
  <1>7. \A k \in DOMAIN Nodes : NodeClaims(k) \in SUBSET DOMAIN finalClaims
    BY DEF NodeClaims, Known
  <1> HIDE DEF left, topics, Nodelike
  <1>8. /\ proposed \in Seq(Nodelike) /\ Len(proposed) = Len(Nodes)
        /\ \A k \in 1..Len(proposed) : proposed[k].id[2] = k
        /\ \A i \in DOMAIN finalClaims \ left :
               \E k \in 1..Len(proposed) : Id("C", i) \in proposed[k].evidence
    <2>1. \A k \in 1..Len(Nodes) :
              /\ proposed[k] \in Nodelike /\ proposed[k].id[2] = k
              /\ \A i \in NodeClaims(k) : Id("C", i) \in proposed[k].evidence
      BY <1>5, <1>6, <1>7
    <2>2. proposed \in [1..Len(Nodes) -> Nodelike]
      BY <1>6, <2>1
    <2>3. proposed \in Seq(Nodelike) /\ Len(proposed) = Len(Nodes)
      BY <1>6, <2>2
    <2> HIDE DEF proposed
    <2> QED
      BY <1>4, <1>6, <2>1, <2>3
  <1>9. Len(proposed) \in Nat
    BY <1>8, <1>6
  <1> HIDE DEF proposed
  <1>10. /\ added \in Seq(Nodelike)
         /\ \A k \in 1..Len(added) : added[k].id[2] = Len(proposed) + k
         /\ \A i \in left : \E k \in 1..Len(added) : Id("C", i) \in added[k].evidence
    <2>1. DOMAIN added = 1..Len(topics) /\ Len(topics) \in Nat /\ DOMAIN topics = 1..Len(topics)
      BY <1>3
    <2>2. \A k \in 1..Len(topics) :
              /\ added[k] \in Nodelike /\ added[k].id[2] = Len(proposed) + k
              /\ \A i \in OfTopic(left, topics[k]) : Id("C", i) \in added[k].evidence
      BY <1>3, <1>5, <1>9, <2>1
    <2>3. added \in [1..Len(topics) -> Nodelike]
      BY <2>1, <2>2
    <2>4. added \in Seq(Nodelike) /\ Len(added) = Len(topics)
      BY <2>1, <2>3
    <2> HIDE DEF added
    <2> QED
      BY <1>3, <2>1, <2>2, <2>4
  <1> HIDE DEF added
  <1>11. root \in Seq(Nodelike) /\ Len(root) = 1 /\ root[1].id[2] = 0
    BY <1>5
  <1> HIDE DEF root
  <1> DEFINE before == root \o proposed
  <1>12. /\ before \in Seq(Nodelike) /\ Len(before) = 1 + Len(proposed)
         /\ before[1] = root[1]
         /\ \A k \in 1..Len(proposed) : 1 + k \in 1..Len(before) /\ before[1 + k] = proposed[k]
         /\ \A k \in 1..Len(before) : k = 1 \/ \E l \in 1..Len(proposed) : k = 1 + l
    <2>1. before = root \o proposed
      OBVIOUS
    <2> HIDE DEF before
    <2>2. before \in Seq(Nodelike) /\ Joins(before, root, proposed)
      BY <2>1, <1>8, <1>11, Joined
    <2> QED
      BY <2>2, <1>11 DEF Joins
  <1>13. Trace = before \o added
    BY <1>1
  <1> HIDE DEF before
  <1>14. /\ Trace \in Seq(Nodelike) /\ Len(before) \in Nat
         /\ \A k \in 1..Len(before) : k \in 1..Len(Trace) /\ Trace[k] = before[k]
         /\ \A k \in 1..Len(added) :
                Len(before) + k \in 1..Len(Trace) /\ Trace[Len(before) + k] = added[k]
         /\ \A k \in 1..Len(Trace) :
                k \in 1..Len(before) \/ \E l \in 1..Len(added) : k = Len(before) + l
    <2>1. Trace \in Seq(Nodelike) /\ Joins(Trace, before, added)
      BY <1>10, <1>12, <1>13, Joined
    <2> QED
      BY <2>1 DEF Joins
  <1>15. ASSUME NEW k \in 1..Len(Trace) PROVE Trace[k].id[2] = k - 1
    <2>1. CASE k = 1
      BY <2>1, <1>9, <1>11, <1>12, <1>14
    <2>2. ASSUME NEW l \in 1..Len(proposed), k = 1 + l
          PROVE  Trace[k].id[2] = k - 1
      <3>1. Trace[k] = proposed[l] /\ l = k - 1
        BY <2>2, <1>12, <1>14
      <3> QED
        BY <3>1, <1>8
    <2>3. ASSUME NEW l \in 1..Len(added), k = Len(before) + l
          PROVE  Trace[k].id[2] = k - 1
      <3>1. Trace[k] = added[l] /\ Len(proposed) + l = k - 1
        BY <2>3, <1>9, <1>12, <1>14
      <3> QED
        BY <3>1, <1>10
    <2> QED
      BY <2>1, <2>2, <2>3, <1>12, <1>14
  <1>16. ASSUME NEW i \in DOMAIN finalClaims
         PROVE  \E k \in 1..Len(Trace) : Id("C", i) \in Trace[k].evidence
    <2>1. CASE i \in left
      BY <2>1, <1>10, <1>14
    <2>2. CASE i \notin left
      <3>1. PICK k \in 1..Len(proposed) : Id("C", i) \in proposed[k].evidence
        BY <2>2, <1>8
      <3>2. 1 + k \in 1..Len(Trace) /\ Trace[1 + k] = proposed[k]
        BY <1>12, <1>14
      <3> QED
        BY <3>1, <3>2
    <2> QED
      BY <2>1, <2>2
  <1>17. DOMAIN Trace = 1..Len(Trace) /\ Trace \in Seq(Nodelike)
    BY <1>14
  <1>18. \A i \in DOMAIN finalClaims : \E k \in DOMAIN Trace : Id("C", i) \in Trace[k].evidence
    BY <1>16, <1>17
  <1> QED
    BY <1>15, <1>17, <1>18 DEF Nodelike

\* The numbers of the concepts differ.
LEMMA ConceptsFacts ==
    ASSUME IsAnswer(structure)
    PROVE  \A k, l \in DOMAIN Concepts : Concepts[k].id = Concepts[l].id => k = l
  <1> DEFINE whole == {k \in DOMAIN structure.concepts : structure.concepts[k] = "whole"}
             numbers == Ascending(whole)
  <1>1. whole \in SUBSET Nat /\ IsFiniteSet(whole)
    BY ListPlaces, FS_Subset DEF IsAnswer
  <1>2. \A k, l \in DOMAIN numbers : numbers[k] = numbers[l] => k = l
    BY <1>1, AscendingFacts
  <1>3. Concepts = [k \in DOMAIN numbers |-> [id |-> Id("K", numbers[k])]]
    BY DEF Concepts
  <1> HIDE DEF numbers
  <1> QED
    BY <1>2, <1>3 DEF Id

-----------------------------------------------------------------------------
(* The checks, of items that are as they should be.                        *)

\* Ids that differ are no duplicates.
LEMMA NoDuplicates ==
    ASSUME NEW kind, NEW items,
           \A i, j \in DOMAIN items : items[i].id = items[j].id => i = j
    PROVE  DuplicateIds(kind, items) = {}
  <1> SUFFICES ASSUME NEW x \in IdsOf(items),
                      Cardinality({i \in DOMAIN items : items[i].id = x}) > 1
               PROVE  FALSE
    BY DEF DuplicateIds
  <1>1. PICK j \in DOMAIN items : items[j].id = x
    BY DEF IdsOf
  <1>2. {i \in DOMAIN items : items[i].id = x} = {j}
    BY <1>1
  <1>3. Cardinality({j}) = 1
    BY FS_Singleton
  <1> QED
    BY <1>2, <1>3

\* References to what there is are resolved.
LEMMA NothingUnresolved ==
    ASSUME NEW kind, NEW items, NEW field, NEW known, NEW severity,
           \A i \in DOMAIN items : items[i][field] \subseteq known
    PROVE  Unresolved(kind, items, field, known, severity) = {}
  BY DEF Unresolved

\* Without blank fields none is missing.
LEMMA NothingMissing ==
    ASSUME NEW kind, NEW items, \A i \in DOMAIN items : items[i].blank = {}
    PROVE  MissingFields(kind, items) = {}
  BY DEF MissingFields

\* References to some spans of the paper are grounded.
LEMMA NoBadRefs ==
    ASSUME NEW kind, NEW items,
           \A i \in DOMAIN items : \A ref \in items[i].refs : ref # {} /\ ref \subseteq Spans
    PROVE  BadRefs(kind, items) = {}
  <1> DEFINE bad(i, ref) ==
                (IF ref = {} THEN {Finding("major", "missing_source_span", <<kind, i>>)}
                 ELSE {})
                \union {Finding("critical", "missing_source_span", <<kind, i, s>>) :
                           s \in ref \ Spans}
  <1>1. \A i \in DOMAIN items : \A ref \in items[i].refs : bad(i, ref) = {}
    OBVIOUS
  <1>2. BadRefs(kind, items) = UNION {UNION {bad(i, ref) : ref \in items[i].refs} :
                                         i \in DOMAIN items}
    BY DEF BadRefs
  <1> HIDE DEF bad
  <1> QED
    BY <1>1, <1>2

-----------------------------------------------------------------------------
(* The artifact.                                                           *)

\* An id has one number.
LEMMA SameId ==
    \A letter, m, n : Id(letter, m) = Id(letter, n) => m = n
  BY DEF Id

\* What the parts of an assembled artifact are.
LEMMA AssembledClaims ==
    /\ DOMAIN Assembled.claims = DOMAIN finalClaims
    /\ \A i \in DOMAIN finalClaims :
          /\ Assembled.claims[i].id = Id("C", i) /\ Assembled.claims[i].blank = {}
          /\ Assembled.claims[i].refs = Sources(i)
          /\ Assembled.claims[i].evidence = EvidenceIds({i})
          /\ Assembled.claims[i].dependencies = {}
          /\ Assembled.claims[i].proof =
                {Id("E", k) : k \in {j \in DOMAIN Experiments : i \in Experiments[j].verifies}}
    /\ IdsOf(Assembled.claims) = {Id("C", i) : i \in DOMAIN finalClaims}
  BY DEF Assembled, IdsOf

\* One record is made for each claim.
LEMMA AssembledRecords ==
    /\ DOMAIN Assembled.records = DOMAIN finalClaims
    /\ \A i \in DOMAIN finalClaims :
          /\ Assembled.records[i].id = Id("EV", i) /\ Assembled.records[i].blank = {}
          /\ Assembled.records[i].refs = Sources(i)
          /\ Assembled.records[i].claims = ClaimIds({i})
    /\ IdsOf(Assembled.records) = {Id("EV", i) : i \in DOMAIN finalClaims}
  BY DEF Assembled, IdsOf

\* Experiments get their ids and name claims and records by theirs.
LEMMA AssembledExperiments ==
    /\ DOMAIN Assembled.experiments = DOMAIN Experiments
    /\ \A k \in DOMAIN Experiments :
          /\ Assembled.experiments[k].id = Id("E", k)
          /\ Assembled.experiments[k].blank = Experiments[k].blank
          /\ Assembled.experiments[k].refs = Experiments[k].refs
          /\ Assembled.experiments[k].verifies = ClaimIds(Experiments[k].verifies)
          /\ Assembled.experiments[k].evidence = EvidenceIds(Experiments[k].verifies)
    /\ IdsOf(Assembled.experiments) = {Id("E", k) : k \in DOMAIN Experiments}
  BY DEF Assembled, IdsOf

\* No layer is missing.
LEMMA AssembledRest ==
    /\ Assembled.json = "object" /\ Assembled.missing = {} /\ Assembled.schema = TRUE
    /\ Assembled.concepts = Concepts
    /\ Assembled.trace = Trace
  BY DEF Assembled

\* No reference of an assembled artifact names what is not there.
LEMMA AssembledReferences ==
    ASSUME IsClaims(finalClaims), IsAnswer(structure)
    PROVE  LET a == Assembled IN
           /\ \A i \in DOMAIN a.claims :
                 /\ a.claims[i].evidence \subseteq IdsOf(a.records)
                 /\ a.claims[i].proof \subseteq IdsOf(a.experiments)
                 /\ a.claims[i].dependencies \subseteq IdsOf(a.claims)
           /\ \A k \in DOMAIN a.experiments :
                 /\ a.experiments[k].verifies \subseteq IdsOf(a.claims)
                 /\ a.experiments[k].evidence \subseteq IdsOf(a.records)
           /\ \A i \in DOMAIN a.records : a.records[i].claims \subseteq IdsOf(a.claims)
           /\ \A k \in DOMAIN a.trace : a.trace[k].evidence \subseteq IdsOf(a.claims)
  <1>1. \A k \in DOMAIN Experiments : Experiments[k].verifies \in SUBSET DOMAIN finalClaims
    <2>1. Experiments \in Seq(GoodExperiments)
      BY ExperimentsAreGood
    <2>2. \A k \in DOMAIN Experiments : Experiments[k] \in GoodExperiments
      BY <2>1
    <2> QED
      BY <2>2 DEF GoodExperiments
  <1>2. \A k \in DOMAIN Trace : Trace[k].evidence \in SUBSET ClaimIds(DOMAIN finalClaims)
    <2> DEFINE Nodelike == [id : {"Q", "R"} \X Int, evidence : SUBSET ClaimIds(DOMAIN finalClaims)]
    <2>1. Trace \in Seq(Nodelike)
      BY TraceFacts
    <2> HIDE DEF Nodelike
    <2>2. \A k \in DOMAIN Trace : Trace[k] \in Nodelike
      BY <2>1
    <2> QED
      BY <2>2 DEF Nodelike
  <1>3. ASSUME NEW i \in DOMAIN finalClaims
        PROVE  /\ Assembled.claims[i].evidence \subseteq IdsOf(Assembled.records)
               /\ Assembled.claims[i].proof \subseteq IdsOf(Assembled.experiments)
               /\ Assembled.claims[i].dependencies \subseteq IdsOf(Assembled.claims)
               /\ Assembled.records[i].claims \subseteq IdsOf(Assembled.claims)
    <2>1. Assembled.claims[i].evidence \subseteq IdsOf(Assembled.records)
      BY AssembledClaims, AssembledRecords DEF EvidenceIds
    <2>2. Assembled.claims[i].proof \subseteq IdsOf(Assembled.experiments)
      <3>1. Assembled.claims[i].proof =
                {Id("E", k) : k \in {j \in DOMAIN Experiments : i \in Experiments[j].verifies}}
        BY AssembledClaims
      <3> QED
        BY <3>1, AssembledExperiments
    <2>3. Assembled.records[i].claims \subseteq IdsOf(Assembled.claims)
      BY AssembledClaims, AssembledRecords DEF ClaimIds
    <2> QED
      BY <2>1, <2>2, <2>3, AssembledClaims
  <1>4. ASSUME NEW k \in DOMAIN Experiments
        PROVE  /\ Assembled.experiments[k].verifies \subseteq IdsOf(Assembled.claims)
               /\ Assembled.experiments[k].evidence \subseteq IdsOf(Assembled.records)
    <2>1. Assembled.experiments[k].verifies \subseteq IdsOf(Assembled.claims)
      BY <1>1, AssembledClaims, AssembledExperiments DEF ClaimIds
    <2>2. Assembled.experiments[k].evidence \subseteq IdsOf(Assembled.records)
      BY <1>1, AssembledRecords, AssembledExperiments DEF EvidenceIds
    <2> QED
      BY <2>1, <2>2
  <1>5. \A k \in DOMAIN Trace : Trace[k].evidence \subseteq IdsOf(Assembled.claims)
    BY <1>2, AssembledClaims DEF ClaimIds
  <1> QED
    BY <1>3, <1>4, <1>5, AssembledClaims, AssembledRecords, AssembledExperiments, AssembledRest

\* The validator has nothing against it.
LEMMA NothingFound ==
    ASSUME IsClaims(finalClaims), IsAnswer(structure), finalClaims # << >>
    PROVE  StructuralFindings(Assembled) \union GroundingFindings(Assembled) = {}
  <1> DEFINE a == Assembled
  <1>1. PICK i \in DOMAIN finalClaims : TRUE
    BY ListPlaces DEF IsClaims, IsSequence
  <1>2. \A k \in DOMAIN Trace : Trace[k].id[2] = k - 1 /\ k \in Int
    <2>1. DOMAIN Trace = 1..Len(Trace)
      BY TraceFacts
    <2> QED
      BY <2>1, TraceFacts
  <1>3. /\ \A j, k \in DOMAIN a.claims : a.claims[j].id = a.claims[k].id => j = k
        /\ \A j, k \in DOMAIN a.records : a.records[j].id = a.records[k].id => j = k
        /\ \A j, k \in DOMAIN a.experiments : a.experiments[j].id = a.experiments[k].id => j = k
    <2>1. \A j, k \in DOMAIN a.claims : a.claims[j].id = a.claims[k].id => j = k
      <3>1. \A j \in DOMAIN a.claims : a.claims[j].id = Id("C", j)
        BY AssembledClaims
      <3> HIDE DEF a
      <3> QED
        BY <3>1, SameId
    <2>2. \A j, k \in DOMAIN a.records : a.records[j].id = a.records[k].id => j = k
      <3>1. \A j \in DOMAIN a.records : a.records[j].id = Id("EV", j)
        BY AssembledRecords
      <3> HIDE DEF a
      <3> QED
        BY <3>1, SameId
    <2>3. \A j, k \in DOMAIN a.experiments : a.experiments[j].id = a.experiments[k].id => j = k
      BY AssembledExperiments, SameId
    <2> QED
      BY <2>1, <2>2, <2>3
  <1>4. \A j, k \in DOMAIN a.concepts : a.concepts[j].id = a.concepts[k].id => j = k
    BY AssembledRest, ConceptsFacts
  <1>5. \A j, k \in DOMAIN a.trace : a.trace[j].id = a.trace[k].id => j = k
    <2>1. ASSUME NEW j \in DOMAIN Trace, NEW k \in DOMAIN Trace, Trace[j].id = Trace[k].id
          PROVE  j = k
      <3>1. j - 1 = k - 1
        BY <1>2, <2>1
      <3> QED
        BY <1>2, <3>1
    <2> QED
      BY <2>1, AssembledRest
  <1>6. a.claims # << >> /\ a.records # << >>
    BY <1>1, AssembledClaims, AssembledRecords
  <1>7. \A k \in DOMAIN Experiments : Experiments[k].blank = {}
            /\ \E s \in Spans : Experiments[k].refs = {{s}}
    <2>1. Experiments \in Seq(GoodExperiments)
      BY ExperimentsAreGood
    <2>2. \A k \in DOMAIN Experiments : Experiments[k] \in GoodExperiments
      BY <2>1
    <2> QED
      BY <2>2 DEF GoodExperiments
  <1>8. /\ \A j \in DOMAIN a.claims : a.claims[j].blank = {} /\ a.claims[j].refs # {}
               /\ \A ref \in a.claims[j].refs : ref # {} /\ ref \subseteq Spans
        /\ \A j \in DOMAIN a.records : a.records[j].blank = {} /\ a.records[j].refs # {}
               /\ \A ref \in a.records[j].refs : ref # {} /\ ref \subseteq Spans
    <2>1. \A j \in DOMAIN finalClaims : Sources(j) # {}
            /\ \A ref \in Sources(j) : ref # {} /\ ref \subseteq Spans
      BY ClaimSpans
    <2>2. \A j \in DOMAIN a.claims : j \in DOMAIN finalClaims
              /\ a.claims[j].blank = {} /\ a.claims[j].refs = Sources(j)
      BY AssembledClaims
    <2>3. \A j \in DOMAIN a.records : j \in DOMAIN finalClaims
              /\ a.records[j].blank = {} /\ a.records[j].refs = Sources(j)
      BY AssembledRecords
    <2> HIDE DEF a
    <2> QED
      BY <2>1, <2>2, <2>3
  <1>9. \A k \in DOMAIN a.experiments : a.experiments[k].blank = {}
               /\ \A ref \in a.experiments[k].refs : ref # {} /\ ref \subseteq Spans
    <2>1. \A k \in DOMAIN a.experiments : k \in DOMAIN Experiments
              /\ a.experiments[k].blank = Experiments[k].blank
              /\ a.experiments[k].refs = Experiments[k].refs
      BY AssembledExperiments
    <2> HIDE DEF a
    <2> QED
      BY <1>7, <2>1
  <1>10. Spans # {}
    BY <1>1, ClaimSpans
  <1>11. Readable(a) /\ a.json = "object" /\ Fits(a) /\ a.missing = {}
    BY AssembledRest DEF Readable, Fits
  <1> HIDE DEF a
  <1>12. CrossReferences(a) = {}
    <2> DEFINE claimIds == IdsOf(a.claims)
               recordIds == IdsOf(a.records)
               experimentIds == IdsOf(a.experiments)
               allIds == UNION {claimIds, recordIds, experimentIds, IdsOf(a.concepts)}
    <2>1. /\ \A j \in DOMAIN a.claims : a.claims[j]["evidence"] \subseteq recordIds
          /\ \A j \in DOMAIN a.claims : a.claims[j]["proof"] \subseteq experimentIds
          /\ \A j \in DOMAIN a.claims : a.claims[j]["dependencies"] \subseteq claimIds
          /\ \A j \in DOMAIN a.experiments : a.experiments[j]["verifies"] \subseteq claimIds
          /\ \A j \in DOMAIN a.experiments : a.experiments[j]["evidence"] \subseteq recordIds
          /\ \A j \in DOMAIN a.records : a.records[j]["claims"] \subseteq claimIds
          /\ \A j \in DOMAIN a.trace : a.trace[j]["evidence"] \subseteq claimIds
      BY AssembledReferences DEF a
    <2>2. claimIds \subseteq allIds
      OBVIOUS
    <2>3. CrossReferences(a) = UNION {
            Unresolved("claim", a.claims, "evidence", recordIds, "critical"),
            Unresolved("proof", a.claims, "proof", experimentIds, "critical"),
            Unresolved("dependency", a.claims, "dependencies", claimIds, "major"),
            Unresolved("experiment", a.experiments, "verifies", claimIds, "critical"),
            Unresolved("experiment evidence", a.experiments, "evidence", recordIds, "major"),
            Unresolved("evidence", a.records, "claims", claimIds, "critical"),
            Unresolved("trace_node", a.trace, "evidence", allIds, "major")}
      BY DEF CrossReferences
    <2> HIDE DEF claimIds, recordIds, experimentIds, allIds
    <2>4. \A j \in DOMAIN a.trace : a.trace[j]["evidence"] \subseteq allIds
      BY <2>1, <2>2
    <2>5. /\ Unresolved("claim", a.claims, "evidence", recordIds, "critical") = {}
          /\ Unresolved("proof", a.claims, "proof", experimentIds, "critical") = {}
          /\ Unresolved("dependency", a.claims, "dependencies", claimIds, "major") = {}
          /\ Unresolved("experiment", a.experiments, "verifies", claimIds, "critical") = {}
          /\ Unresolved("experiment evidence", a.experiments, "evidence", recordIds, "major") = {}
          /\ Unresolved("evidence", a.records, "claims", claimIds, "critical") = {}
          /\ Unresolved("trace_node", a.trace, "evidence", allIds, "major") = {}
      BY <2>1, <2>4, NothingUnresolved
    <2>6. CrossReferences(a) = UNION {{}, {}, {}, {}, {}, {}, {}}
      BY <2>3, <2>5
    <2> QED
      BY <2>6
  <1>13. Contents(a) = {}
    <2>1. /\ DuplicateIds("claim", a.claims) = {} /\ DuplicateIds("concept", a.concepts) = {}
          /\ DuplicateIds("experiment", a.experiments) = {}
          /\ DuplicateIds("evidence", a.records) = {}
          /\ DuplicateIds("trace_node", a.trace) = {}
      BY <1>3, <1>4, <1>5, NoDuplicates DEF a
    <2>2. Empty(a.claims, "no_claims") = {} /\ Empty(a.records, "no_evidence_records") = {}
      BY <1>6 DEF a, Empty
    <2>3. /\ MissingFields("claim", a.claims) = {} /\ MissingFields("evidence", a.records) = {}
          /\ MissingFields("experiment", a.experiments) = {}
      BY <1>8, <1>9, NothingMissing DEF a
    <2> QED
      BY <2>1, <2>2, <2>3, <1>12 DEF Contents
  <1>14. StructuralFindings(a) = {}
    BY <1>11, <1>13 DEF StructuralFindings
  <1>15. GroundingFindings(a) = {}
    <2>1. UngroundedClaims(a) = {} /\ UngroundedRecords(a) = {}
      BY <1>8 DEF a, UngroundedClaims, UngroundedRecords
    <2>2. BadRefs("claim", a.claims) = {} /\ BadRefs("evidence", a.records) = {}
          /\ BadRefs("experiment", a.experiments) = {}
      BY <1>8, <1>9, NoBadRefs DEF a
    <2> QED
      BY <1>10, <1>11, <2>1, <2>2 DEF GroundingFindings
  <1> QED
    BY <1>14, <1>15 DEF a

\* The artifact has a claim and a record for each final claim.
LEMMA AssembledLengths ==
    ASSUME IsClaims(finalClaims)
    PROVE  Len(Assembled.claims) = Len(finalClaims) /\ Len(Assembled.records) = Len(finalClaims)
  <1>1. DOMAIN finalClaims = 1..Len(finalClaims) /\ Len(finalClaims) \in Nat
    BY ListPlaces DEF IsClaims
  <1>2. Assembled.claims = [i \in DOMAIN finalClaims |-> Assembled.claims[i]]
        /\ Assembled.records = [i \in DOMAIN finalClaims |-> Assembled.records[i]]
    BY DEF Assembled
  <1> QED
    BY <1>1, <1>2, ListFacts

\* The paper's summary counts no more claims than the answer does or there are.
LEMMA SummariesFacts ==
    ASSUME IsClaims(finalClaims), IsAnswer(structure)
    PROVE  /\ Summaries \in Nat
           /\ structure.summaries <= Len(finalClaims) => Summaries <= Len(finalClaims)
  <1> DEFINE central == {i \in DOMAIN finalClaims : finalClaims[i].rank = 0}
  <1>1. Len(finalClaims) \in Nat /\ structure.summaries \in Nat
    BY ListPlaces DEF IsClaims, IsAnswer
  <1>2. Cardinality(central) \in Nat /\ Cardinality(central) <= Len(finalClaims)
    BY ListPlaces, FS_Subset, FS_CardinalityType DEF IsClaims
  <1>3. Summaries = IF structure.summaries > 0 THEN structure.summaries
                    ELSE Min({8, Cardinality(central)})
    BY DEF Summaries
  <1> HIDE DEF central
  <1>4. Min({8, Cardinality(central)}) \in Nat
        /\ Min({8, Cardinality(central)}) <= Cardinality(central)
    BY <1>2, MinOfTwo
  <1> QED
    BY <1>1, <1>2, <1>3, <1>4

\* The miner itself finds at most that the summary counts more claims.
LEMMA OwnIssuesFound ==
    ASSUME IsClaims(finalClaims), IsAnswer(structure), finalClaims # << >>
    PROVE  /\ OwnIssues(Assembled) \subseteq {"insufficient_coverage"}
           /\ structure.summaries <= Len(finalClaims) => OwnIssues(Assembled) = {}
  <1> DEFINE a == Assembled
             evidence == {c.evidence : c \in Range(a.claims)}
  <1>1. Len(finalClaims) \in Nat /\ DOMAIN finalClaims = 1..Len(finalClaims)
        /\ Len(finalClaims) # 0
    BY ListPlaces DEF IsClaims, IsSequence
  <1>2. Len(a.claims) = Len(finalClaims) /\ Len(a.records) = Len(finalClaims)
    BY AssembledLengths
  <1>3. a.claims # << >>
    BY <1>1, AssembledClaims
  <1>4. MissingFields("claim", a.claims) = {}
    BY AssembledClaims, NothingMissing
  <1>5. UNION {Unresolved("claim", a.claims, "evidence", IdsOf(a.records), ""),
               Unresolved("claim", a.claims, "proof", IdsOf(a.experiments), ""),
               Unresolved("experiment", a.experiments, "verifies", IdsOf(a.claims), ""),
               Unresolved("experiment", a.experiments, "evidence", IdsOf(a.records), "")} = {}
    <2>1. /\ \A j \in DOMAIN a.claims : a.claims[j]["evidence"] \subseteq IdsOf(a.records)
          /\ \A j \in DOMAIN a.claims : a.claims[j]["proof"] \subseteq IdsOf(a.experiments)
          /\ \A j \in DOMAIN a.experiments : a.experiments[j]["verifies"] \subseteq IdsOf(a.claims)
          /\ \A j \in DOMAIN a.experiments : a.experiments[j]["evidence"] \subseteq IdsOf(a.records)
      BY AssembledReferences
    <2> HIDE DEF a
    <2>2. /\ Unresolved("claim", a.claims, "evidence", IdsOf(a.records), "") = {}
          /\ Unresolved("claim", a.claims, "proof", IdsOf(a.experiments), "") = {}
          /\ Unresolved("experiment", a.experiments, "verifies", IdsOf(a.claims), "") = {}
          /\ Unresolved("experiment", a.experiments, "evidence", IdsOf(a.records), "") = {}
      BY <2>1, NothingUnresolved
    <2> QED
      BY <2>2
  <1>6. Summaries \in Nat
        /\ (structure.summaries <= Len(finalClaims) => Summaries <= Len(finalClaims))
    BY SummariesFacts
  <1>7. Min({3, Summaries}) \in Nat /\ Min({3, Summaries}) <= Summaries
    BY <1>6, MinOfTwo
  <1>8. Len(finalClaims) > 1 => Cardinality(evidence) # 1
    <2> SUFFICES ASSUME Len(finalClaims) > 1, Cardinality(evidence) = 1 PROVE FALSE
      OBVIOUS
    <2>1. DOMAIN a.claims = DOMAIN finalClaims
          /\ \A i \in DOMAIN finalClaims : a.claims[i].evidence = EvidenceIds({i})
      BY AssembledClaims
    <2>2. evidence = {EvidenceIds({i}) : i \in DOMAIN finalClaims}
      BY <2>1 DEF Range
    <2> HIDE DEF evidence, a
    <2> DEFINE of == [i \in DOMAIN finalClaims |-> EvidenceIds({i})]
    <2>3. IsFiniteSet(evidence)
      <3>1. of \in Surjection(DOMAIN finalClaims, evidence)
        BY <2>2 DEF Surjection
      <3>2. IsFiniteSet(DOMAIN finalClaims)
        BY ListPlaces DEF IsClaims
      <3> QED
        BY <3>1, <3>2, FS_Surjection
    <2>4. PICK x : evidence = {x}
      BY <2>3, FS_Singleton
    <2>5. 1 \in DOMAIN finalClaims /\ 2 \in DOMAIN finalClaims
      BY <1>1
    <2>6. EvidenceIds({1}) \in evidence /\ EvidenceIds({2}) \in evidence
      BY <2>2, <2>5
    <2>7. EvidenceIds({1}) = EvidenceIds({2})
      BY <2>4, <2>6
    <2>8. Id("EV", 1) \in EvidenceIds({1}) /\ EvidenceIds({2}) = {Id("EV", 2)}
      BY DEF EvidenceIds
    <2>9. Id("EV", 1) = Id("EV", 2)
      BY <2>7, <2>8
    <2> QED
      BY <2>9, SameId
  <1> HIDE DEF a, evidence
  <1>9. ASSUME NEW code \in OwnIssues(a)
        PROVE  code = "insufficient_coverage" /\ Len(a.claims) < Min({3, Summaries})
    <2>1. code # "missing"
      BY <1>3, <1>4 DEF OwnIssues
    <2>2. code # "unresolved_ref"
      BY <1>5 DEF OwnIssues
    <2>3. code # "insufficient_evidence_coverage"
      <3>1. ~(Len(a.records) < Len(a.claims))
        BY <1>1, <1>2
      <3> QED
        BY <3>1 DEF OwnIssues
    <2>4. code # "collapsed_evidence_coverage"
      BY <1>2, <1>8 DEF OwnIssues, evidence
    <2>5. code = "insufficient_coverage"
      BY <2>1, <2>2, <2>3, <2>4 DEF OwnIssues
    <2> QED
      BY <2>5 DEF OwnIssues
  <1>10. structure.summaries <= Len(finalClaims) => ~(Len(a.claims) < Min({3, Summaries}))
    BY <1>1, <1>2, <1>6, <1>7
  <1> QED
    BY <1>9, <1>10 DEF a

\* Each claim becomes a candidate: no other has its id.
LEMMA EachIsProjected ==
    ASSUME IsClaims(finalClaims), Len(finalClaims) <= MaxClaims
    PROVE  Cardinality(Projected(Assembled)) = Len(finalClaims)
  <1> DEFINE a == Assembled
             n == Len(finalClaims)
             candidate == [i \in 1..n |-> [index |-> i, record |-> Id("C", i)]]
  <1>1. n \in Nat /\ DOMAIN finalClaims = 1..n /\ IsFiniteSet(1..n) /\ Cardinality(1..n) = n
    BY ListPlaces DEF IsClaims
  <1>2. a.json = "object" /\ a.missing = {}
    BY AssembledRest
  <1>3. DOMAIN a.claims = 1..n
        /\ \A i \in 1..n : a.claims[i].id = Id("C", i) /\ a.claims[i].blank = {}
    BY <1>1, AssembledClaims
  <1>4. \A i \in 1..n : TextOf[Id("C", i)] = Id("C", i) /\ Id("C", i) # NoId
    <2>1. \A i \in 1..n : i \in 1..MaxClaims
      BY <1>1, AssemblyAssumption
    <2> QED
      BY <2>1, AssemblyAssumption
  <1> HIDE DEF a, n
  <1>5. \A i \in 1..n : RecordId(a, i) = Id("C", i)
    BY <1>3, <1>4 DEF RecordId
  <1>6. \A i \in 1..n : ~Repeated(a, i)
    BY <1>3, <1>5, SameId DEF Repeated
  <1>7. Projected(a) = {[index |-> i, record |-> Id("C", i)] : i \in 1..n}
    BY <1>2, <1>3, <1>5, <1>6 DEF Projected
  <1>8. candidate \in Bijection(1..n, Projected(a))
    <2>1. candidate \in Injection(1..n, Projected(a))
      BY <1>7 DEF Injection, IsInjective
    <2>2. candidate \in Surjection(1..n, Projected(a))
      BY <1>7 DEF Surjection
    <2> QED
      BY <2>1, <2>2 DEF Bijection
  <1>9. Cardinality(Projected(a)) = Cardinality(1..n)
    BY <1>1, <1>8, FS_Bijection DEF ExistsBijection
  <1> QED
    BY <1>1, <1>9 DEF a, n

\* The claims are put in order and the surplus is dropped: what is left are
\* claims, at most max_claims of them.
LEMMA OrderedClaims ==
    ASSUME IsClaims(finalClaims)
    PROVE  LET list == SubSeq(Ordered(finalClaims), 1, Min({MaxClaims, Len(finalClaims)}))
           IN  IsClaims(list) /\ Len(list) <= MaxClaims
  <1> DEFINE n == Len(finalClaims)
             before == Precedence(finalClaims)
             order == Sorted(1..n, before)
             ordered == [k \in 1..n |-> finalClaims[order[k]]]
             kept == Min({MaxClaims, n})
             list == SubSeq(ordered, 1, kept)
             at(i) == finalClaims[i]
             Proper(c) == 
                /\ c.rank \in Nat /\ c.page \in Nat
                /\ IsSequence(c.spans) /\ c.spans # << >>
                /\ Range(c.spans) = {s.span : s \in c.sources}
                /\ Range(c.spans) \subseteq Spans
  <1>1. n \in Nat /\ DOMAIN finalClaims = 1..n /\ IsFiniteSet(1..n) /\ Cardinality(1..n) = n
    BY ListPlaces DEF IsClaims
  <1>2. \A i \in 1..n : Proper(finalClaims[i]) /\ finalClaims[i] \in Range(finalClaims)
    BY <1>1, ListPlaces DEF IsClaims
  <1>3. Orders(before, 1..n)
    <2> DEFINE rank(i) == finalClaims[i].rank
               page(i) == finalClaims[i].page
    <2>1. \A i \in 1..n : rank(i) \in Nat /\ page(i) \in Nat
      BY <1>2
    <2>2. \A i, j \in 1..n : <<i, j>> \in before <=>
              \/ rank(i) < rank(j)
              \/ /\ rank(i) = rank(j)
                 /\ page(i) < page(j) \/ (page(i) = page(j) /\ i < j)
      BY <1>1 DEF Precedence
    <2> HIDE DEF rank, page, before
    <2>3. \A i \in 1..n : <<i, i>> \notin before
      BY <1>1, <2>1, <2>2
    <2>4. ASSUME NEW i \in 1..n, NEW j \in 1..n, NEW k \in 1..n,
                 <<i, j>> \in before, <<j, k>> \in before
          PROVE  <<i, k>> \in before
      <3>1. /\ rank(i) \in Nat /\ rank(j) \in Nat /\ rank(k) \in Nat
            /\ page(i) \in Nat /\ page(j) \in Nat /\ page(k) \in Nat
            /\ i \in Int /\ j \in Int /\ k \in Int
        BY <1>1, <2>1
      <3>2. /\ rank(i) <= rank(j) /\ rank(j) <= rank(k)
            /\ rank(i) = rank(j) => page(i) <= page(j) /\ (page(i) = page(j) => i < j)
            /\ rank(j) = rank(k) => page(j) <= page(k) /\ (page(j) = page(k) => j < k)
        BY <2>2, <2>4, <3>1
      <3>3. \/ rank(i) < rank(k)
            \/ /\ rank(i) = rank(k)
               /\ page(i) < page(k) \/ (page(i) = page(k) /\ i < k)
        BY <3>1, <3>2
      <3> QED
        BY <2>2, <3>3
    <2>5. ASSUME NEW i \in 1..n, NEW j \in 1..n, i # j
          PROVE  <<i, j>> \in before \/ <<j, i>> \in before
      <3>1. rank(i) \in Nat /\ rank(j) \in Nat /\ page(i) \in Nat /\ page(j) \in Nat
            /\ i \in Int /\ j \in Int
        BY <1>1, <2>1
      <3>2. i < j \/ j < i
        BY <2>5, <3>1
      <3> QED
        BY <2>2, <3>1, <3>2
    <2> QED
      BY <2>3, <2>4, <2>5 DEF Orders
  <1>4. order \in [1..n -> 1..n]
    BY <1>1, <1>3, SortedFacts
  <1>5. Ordered(finalClaims) = ordered
    BY <1>1 DEF Ordered
  <1>6. kept \in Nat /\ kept <= MaxClaims /\ kept <= n
    BY <1>1, AssemblyAssumption, MinOfTwo
  <1> HIDE DEF n, before, order, kept
  <1>7. \A i \in 1..n : ordered[i] \in Range(finalClaims) /\ Proper(ordered[i])
    BY <1>2, <1>4
  <1>8. ordered \in [1..n -> Range(finalClaims)]
    BY <1>2, <1>4
  <1>9. ordered \in Seq(Range(finalClaims)) /\ Len(ordered) = n
    BY <1>1, <1>8
  <1> HIDE DEF ordered
  <1>10. /\ Len(list) = kept /\ DOMAIN list = 1..kept
         /\ \A i \in 1..kept : list[i] = ordered[i] /\ i \in 1..n
         /\ list \in Seq(Range(finalClaims))
    BY <1>1, <1>6, <1>9
  <1> HIDE DEF list
  <1>11. IsSequence(list)
    <2>1. list \in [1..kept -> Range(list)]
      BY <1>10 DEF Range
    <2> QED
      BY <1>6, <2>1 DEF IsSequence
  <1>12. \A i \in DOMAIN list : Proper(list[i])
    BY <1>7, <1>10
  <1>13. IsClaims(list)
    BY <1>11, <1>12 DEF IsClaims
  <1> QED
    BY <1>5, <1>6, <1>10, <1>13 DEF list, kept, n

-----------------------------------------------------------------------------
\* What the validator and the miner make of an artifact for the final claims.
GoodArtifact(a) ==
    /\ StructuralFindings(a) \union GroundingFindings(a) = {}
    /\ OwnIssues(a) \subseteq {"insufficient_coverage"}
    /\ structure.summaries <= Len(finalClaims) => OwnIssues(a) = {}
    /\ \A c \in Range(a.claims) :
          c.proof # {} /\ \E node \in Range(a.trace) : c.id \in node.evidence
    /\ Cardinality(Projected(a)) = Len(finalClaims)

\* Of claims, and of whatever the answer is, a good artifact is made.
LEMMA AssembledIsGood ==
    ASSUME IsClaims(finalClaims), Len(finalClaims) <= MaxClaims, IsAnswer(structure),
           finalClaims # << >>
    PROVE  GoodArtifact(Assembled)
  <1>1. ASSUME NEW i \in DOMAIN finalClaims
        PROVE  Assembled.claims[i].proof # {}
               /\ \E node \in Range(Assembled.trace) : Assembled.claims[i].id \in node.evidence
    <2>1. PICK k \in DOMAIN Experiments : i \in Experiments[k].verifies
      BY ExperimentsAreGood
    <2>2. Id("E", k) \in Assembled.claims[i].proof
      BY <2>1, AssembledClaims
    <2>3. PICK l \in DOMAIN Trace : Id("C", i) \in Trace[l].evidence
      BY TraceFacts
    <2>4. Trace[l] \in Range(Assembled.trace) /\ Id("C", i) = Assembled.claims[i].id
      BY AssembledClaims, AssembledRest DEF Range
    <2> QED
      BY <2>2, <2>3, <2>4
  <1>2. \A c \in Range(Assembled.claims) :
            c.proof # {} /\ \E node \in Range(Assembled.trace) : c.id \in node.evidence
    <2>1. \A c \in Range(Assembled.claims) : \E i \in DOMAIN finalClaims : c = Assembled.claims[i]
      BY AssembledClaims DEF Range
    <2> QED
      BY <1>1, <2>1
  <1> QED
    BY <1>2, NothingFound, OwnIssuesFound, EachIsProjected DEF GoodArtifact

\* The inductive invariant: what is assembled is made of claims and an answer,
\* once, before any check; the artifact is good and the checks find nothing.
AssemblyInv ==
    /\ assemblyPhase \in {"claims", "structured", "assembled"}
    /\ assemblyPhase # "assembled" =>
          /\ IsClaims(finalClaims) /\ IsAnswer(structure)
          /\ artifact = NoArtifact /\ checkPhase = "submitted"
    /\ assemblyPhase = "structured" => Len(finalClaims) <= MaxClaims
    /\ assemblyPhase = "assembled" /\ finalClaims # << >> => GoodArtifact(artifact)
    /\ checkPhase = "submitted" => findings = {}
    /\ assemblyPhase = "assembled" /\ finalClaims # << >> => findings = {}
    /\ checkPhase = "projected" => candidates = Projected(artifact)

\* Nothing to assemble is fine too.
LEMMA EmptyIsFine ==
    IsClaims(<< >>) /\ IsAnswer(NoStructure)
  BY DEF IsClaims, IsAnswer, NoStructure, IsSequence, Range

\* The invariant holds in the initial states.
LEMMA AssemblyInvInit ==
    finalClaims \in FinalClaims \union {<< >>} /\ artifact = NoArtifact
    /\ ChecksInit /\ AssemblyInit => AssemblyInv
  BY EmptyIsFine, AssemblyAssumption DEF ChecksInit, AssemblyInit, AssemblyInv

\* Every step preserves it.
LEMMA AssemblyStep ==
    AssemblyInv /\ [AssemblyNext]_<<assemblyVars, checkVars>> => AssemblyInv'
  <1> SUFFICES ASSUME AssemblyInv, [AssemblyNext]_<<assemblyVars, checkVars>>
               PROVE  AssemblyInv'
    OBVIOUS
  <1>1. CASE Structure
    <2>1. IsClaims(finalClaims) /\ IsAnswer(structure)
      BY <1>1 DEF Structure, AssemblyInv
    <2>2. IsClaims(finalClaims') /\ Len(finalClaims') <= MaxClaims
      BY <1>1, <2>1, OrderedClaims DEF Structure
    <2>3. IsAnswer(structure')
      BY <1>1, EmptyIsFine, AssemblyAssumption DEF Structure
    <2> QED
      BY <1>1, <2>2, <2>3 DEF Structure, AssemblyInv, checkVars, IsClaims, IsAnswer
  <1>2. CASE Assemble
    <2>1. finalClaims # << >> => GoodArtifact(Assembled)
      BY <1>2, AssembledIsGood DEF Assemble, AssemblyInv
    <2>2. GoodArtifact(artifact)' <=> GoodArtifact(Assembled)
      BY <1>2 DEF Assemble, GoodArtifact, OwnIssues, Summaries
    <2>3. checkPhase' = "submitted" /\ findings' = {}
      BY <1>2 DEF Assemble, AssemblyInv
    <2> QED
      BY <1>2, <2>1, <2>2, <2>3 DEF Assemble, AssemblyInv
  <1>3. ASSUME UNCHANGED <<assemblyVars, artifact>>
        PROVE  GoodArtifact(artifact)' <=> GoodArtifact(artifact)
    BY <1>3 DEF assemblyVars, GoodArtifact, OwnIssues, Summaries
  <1>4. CASE RunChecks /\ UNCHANGED assemblyVars
    <2>1. assemblyPhase = "assembled" /\ UNCHANGED <<assemblyVars, artifact>>
      BY <1>4 DEF RunChecks, AssemblyInv
    <2>2. finalClaims # << >> => findings' = {}
      BY <1>4, <2>1 DEF RunChecks, AssemblyInv, GoodArtifact
    <2> QED
      BY <1>3, <1>4, <2>1, <2>2 DEF RunChecks, AssemblyInv, assemblyVars
  <1>5. CASE Project /\ UNCHANGED assemblyVars
    <2>1. assemblyPhase = "assembled" /\ UNCHANGED <<assemblyVars, artifact>>
      BY <1>5 DEF Project, AssemblyInv
    <2> QED
      BY <1>3, <1>5, <2>1 DEF Project, AssemblyInv, assemblyVars
  <1>6. CASE UNCHANGED <<assemblyVars, checkVars>>
    <2>1. GoodArtifact(artifact)' <=> GoodArtifact(artifact)
      BY <1>3, <1>6 DEF checkVars
    <2> QED
      BY <1>6, <2>1 DEF AssemblyInv, assemblyVars, checkVars, IsClaims, IsAnswer
  <1> QED
    BY <1>1, <1>2, <1>4, <1>5, <1>6 DEF AssemblyNext, ChecksNext

\* _stage_structure and _stage_assemble: whatever the model answers, the
\* validator finds nothing in an artifact made of any claims.
THEOREM AssemblyTheorem == AssemblySpec => []AssembledArtifactsPass
  <1>1. AssemblyInv => AssembledArtifactsPass
    BY DEF AssemblyInv, AssembledArtifactsPass, GoodArtifact
  <1> QED
    BY AssemblyInvInit, AssemblyStep, <1>1, PTL DEF AssemblySpec

=============================================================================
