------------------------ MODULE StagedPipelineProofs ------------------------
(***************************************************************************)
(* Theorems about the staged pipeline, for any number of candidates, any   *)
(* size of groups and claims, any floor and any answers.                   *)
(***************************************************************************)
EXTENDS StagedPipeline, FiniteSetTheorems, WellFoundedInduction, TLAPS

Drafting == {"validate", "retention", "finalize"}

\* No two of the claims share a candidate.
Apart(cs) == \A c, d \in cs : c = d \/ c.ids \cap d.ids = {}

\* Claims cs and drops ds that are about the candidates in S: none of S is
\* lost, and none is used twice while the answers are honest (h).
AreAbout(cs, ds, S, C, h) ==
    /\ \A c \in cs : c.ids \in SUBSET C /\ c.ids # {} /\ c.again \subseteq c.ids
    /\ ds \subseteq C
    /\ S \subseteq IdsOf(cs) \union ds
    /\ h =>
          /\ IdsOf(cs) \union ds \subseteq S
          /\ Apart(cs)
          /\ \A c \in cs : c.again = {}
          /\ ds \cap IdsOf(cs) = {}

\* Final claims cs, the claims gone, and the candidates D behind what the
\* consolidator dropped: they are about all the candidates C.
AccountFor(cs, gone, D, C, h) ==
    /\ \A c \in cs \union gone : Grounded(c)
    /\ C \subseteq IdsOf(cs \union gone) \union D
    /\ h =>
          /\ Apart(cs \union gone)
          /\ D \cap IdsOf(cs \union gone) = {}
          /\ cs \cap gone = {}
          /\ \A c \in cs \union gone : c.ids # {}

DroppedQuotes == UNION {Quotes(d) : d \in dropped}

FoldInv ==
    /\ size \in 0..MaxCandidates
    /\ flaws \in Nat
    /\ pc # "extract" =>
          /\ target \in [Candidates -> 0..size]
          /\ \A c \in Candidates :
                target[c] # 0 => target[c] < c /\ target[target[c]] = 0
    /\ pc \in {"extract", "premerge", "consolidate"} => claims = {}
    /\ pc \in {"extract", "premerge"} => answers = << >> /\ dropped = {}
    /\ pc \notin Finalizing \union {"raised"} =>
          cleaned = {} /\ refuted = {} /\ capped = {}
    /\ pc \in Finalizing \ {"done"} => capped = {}

AnswersInv ==
    pc = "consolidate" =>
        /\ DOMAIN answers \subseteq Groups
        /\ \A g \in DOMAIN answers :
              AreAbout(answers[g].claims, answers[g].dropped, Shown(g),
                       Candidates, honest)

\* What the check of the retention floor leaves: enough claims, or a claim of
\* its own for each candidate that was not dropped.
Restored(cs) == {c.ids : c \in cs} = {{k} : k \in Kept \ dropped}

DraftInv ==
    /\ pc \in Drafting => AreAbout(claims, dropped, Kept, Candidates, honest)
    /\ honest /\ pc = "finalize" /\ Collapsed(claims) => Restored(claims)

FinalInv ==
    pc \in Finalizing =>
        AccountFor(claims, Gone, DroppedQuotes, Candidates, honest)

PipelineInv ==
    FoldInv /\ AnswersInv /\ DraftInv /\ FinalInv /\ CollapseIsUndone

-----------------------------------------------------------------------------
(* Operators of the pipeline.                                              *)

\* Naturals that are some have a least one.
LEMMA LeastNatural ==
    ASSUME NEW T \in SUBSET Nat, T # {}
    PROVE  \E x \in T : \A y \in T : x <= y
  <1> DEFINE R == {ss \in Nat \X Nat : ss[1] < ss[2]}
  <1>1. IsWellFoundedOn(R, Nat)
    BY NatLessThanWellFounded DEF OpToRel
  <1> HIDE DEF R
  <1>2. PICK x \in T : \A y \in T : ~(<<y, x>> \in R)
    BY <1>1, WFMin
  <1>3. ASSUME NEW y \in T PROVE x <= y
    <2>1. y \in Nat /\ x \in Nat /\ ~(<<y, x>> \in R)
      BY <1>2
    <2>2. y < x => <<y, x>> \in R
      BY <2>1 DEF R
    <2> QED
      BY <2>1, <2>2
  <1> QED
    BY <1>3

\* The primary of a claim is one of its candidates, and none ranks before it.
LEMMA PrimaryFacts ==
    ASSUME FoldInv, NEW ids \in SUBSET Candidates, ids # {}
    PROVE  /\ Primary(ids) \in ids
           /\ \A d \in ids : Rank[Primary(ids)] <= Rank[d]
  <1>1. \A c \in ids : Rank[c] \in Nat
    BY RankAssumption, PipelineBounds DEF FoldInv, Candidates
  <1>2. \E c \in ids : \A d \in ids : Rank[c] <= Rank[d]
    <2> DEFINE T == {Rank[c] : c \in ids}
    <2>1. T \in SUBSET Nat /\ T # {}
      BY <1>1
    <2>2. PICK x \in T : \A y \in T : x <= y
      BY <2>1, LeastNatural
    <2> QED
      BY <2>2
  <1> QED
    BY <1>2 DEF Primary

\* What folding pools is about different candidates for different ones kept.
LEMMA QuotesFacts ==
    ASSUME FoldInv, pc # "extract"
    PROVE  /\ Kept \subseteq Candidates
           /\ \A c \in Candidates : c \in Quotes(c) /\ Quotes(c) \subseteq Candidates
           /\ \A c, d \in Kept : c = d \/ Quotes(c) \cap Quotes(d) = {}
           /\ \A c \in Candidates : \E k \in Kept : c \in Quotes(k)
  <1>1. \A c \in Candidates : target[c] # 0 => target[c] \in Kept
    BY DEF FoldInv, Candidates, Kept
  <1>2. \A c \in Candidates : target[c] = 0 => c \in Kept
    BY DEF Kept
  <1>3. \A c, d \in Kept : c = d \/ Quotes(c) \cap Quotes(d) = {}
    BY DEF FoldInv, Candidates, Kept, Quotes, Absorbed
  <1> QED
    BY <1>1, <1>2, <1>3 DEF Kept, Quotes, Absorbed

\* Singletons are claims of one candidate each.
LEMMA SingletonsFacts ==
    \A S, by :
           /\ \A p \in Singletons(S, by) :
                 (\E d \in S : p.ids = {d}) /\ p.again = {}
           /\ \A d \in S : \E p \in Singletons(S, by) : p.ids = {d}
           /\ IdsOf(Singletons(S, by)) = S
           /\ Apart(Singletons(S, by))
  <1> TAKE S, by
  <1>1. \A d : Singleton(d, by).ids = {d} /\ Singleton(d, by).again = {}
    BY DEF Singleton, Claim
  <1>2. \A p \in Singletons(S, by) : \E d \in S : p = Singleton(d, by)
    BY Zenon DEF Singletons
  <1>3. \A d \in S : Singleton(d, by) \in Singletons(S, by)
    BY Zenon DEF Singletons
  <1>4. \A p \in Singletons(S, by) :
           (\E d \in S : p.ids = {d}) /\ p.again = {}
    BY <1>1, <1>2
  <1>5. \A d \in S : \E p \in Singletons(S, by) : p.ids = {d}
    BY <1>1, <1>3
  <1>6. IdsOf(Singletons(S, by)) = S
    BY <1>4, <1>5 DEF IdsOf
  <1>7. Apart(Singletons(S, by))
    BY <1>1, <1>2 DEF Apart
  <1> QED
    BY <1>4, <1>5, <1>6, <1>7

\* Together they are about each of the candidates alone.
LEMMA SingletonsStand ==
    ASSUME NEW S, NEW by
    PROVE  {c.ids : c \in Singletons(S, by)} = {{d} : d \in S}
  <1>1. \A d \in S : Singleton(d, by) \in Singletons(S, by)
    BY Zenon DEF Singletons
  <1>2. \A c \in Singletons(S, by) : \E d \in S : c = Singleton(d, by)
    BY Zenon DEF Singletons
  <1>3. \A d : Singleton(d, by).ids = {d}
    BY DEF Singleton, Claim
  <1>4. \A c \in Singletons(S, by) : c.ids \in {{d} : d \in S}
    BY <1>2, <1>3
  <1>5. \A d \in S : {d} \in {c.ids : c \in Singletons(S, by)}
    BY <1>1, <1>3
  <1> QED
    BY <1>4, <1>5

\* What a claim is split into has its candidates, each once if it lists none
\* again.
LEMMA SplitFacts ==
    ASSUME FoldInv, NEW c, c.ids \in SUBSET Candidates, c.ids # {},
           c.again \subseteq c.ids,
           NEW far, \A a \in Candidates : {a} \notin far
    PROVE  /\ \A p \in Split(c, far) :
                 p.ids \in SUBSET c.ids /\ p.ids # {} /\ p.again \subseteq p.ids
           /\ IdsOf(Split(c, far)) = c.ids
           /\ c.again = {} => /\ Apart(Split(c, far))
                              /\ \A p \in Split(c, far) : p.again = {}
  <1> DEFINE S == Stay(c, far)
             A == StayAgain(c, far)
             P == Primary(c.ids)
  <1>1. P \in c.ids /\ \A d \in c.ids : Rank[P] <= Rank[d]
    BY PrimaryFacts
  <1>2. S \subseteq c.ids /\ A \subseteq S /\ A \subseteq c.again
    BY DEF Stay, StayAgain, Near
  <1>3. P \in S
    <2>1. {P, P} = {P}
      OBVIOUS
    <2>2. P \in Near(c, far)
      BY <1>1, <2>1 DEF Near
    <2>3. \A d \in c.ids : Rank[d] \in Nat
      BY RankAssumption, PipelineBounds DEF FoldInv, Candidates
    <2>4. ASSUME NEW T PROVE Before(c, T, P, far) = 0
      <3> DEFINE before == {d \in Near(c, far) \cap T : Rank[d] < Rank[P]}
      <3>1. before = {}
        <4> HIDE DEF P
        <4>1. \A d \in Near(c, far) : d \in c.ids
          BY DEF Near
        <4> QED
          BY <1>1, <2>3, <4>1
      <3> HIDE DEF before
      <3>2. Cardinality(before) = 0
        BY <3>1, FS_EmptySet
      <3> QED
        BY <3>2 DEF Before, before
    <2>5. Place(c, P, far) < MaxMembers
      BY <2>4, PipelineBounds DEF Place
    <2> QED
      BY <2>2, <2>5 DEF Stay
  <1> HIDE DEF S, A
  <1> DEFINE lost == Cardinality(c.ids \ S) + Cardinality(c.again \ A)
             stays == Claim(S, A, IF lost >= 2 THEN {P} ELSE c.needs, c.by)
  <1>4. Split(c, far) = {stays} \union Singletons(c.ids \ S, c.by)
                          \union Singletons(c.again \ A, Second(c.by))
    BY DEF Split, S, A
  <1>5. stays.ids = S /\ stays.again = A
    BY DEF Claim
  <1> HIDE DEF stays
  <1> DEFINE out == Singletons(c.ids \ S, c.by)
             outAgain == Singletons(c.again \ A, Second(c.by))
  <1>6. /\ \A p \in out : (\E d \in c.ids \ S : p.ids = {d}) /\ p.again = {}
        /\ \A d \in c.ids \ S : \E p \in out : p.ids = {d}
        /\ Apart(out)
    BY SingletonsFacts
  <1>7. \A p \in outAgain : (\E d \in c.again \ A : p.ids = {d}) /\ p.again = {}
    BY SingletonsFacts
  <1>8. Split(c, far) = {stays} \union out \union outAgain
    BY <1>4
  <1> HIDE DEF out, outAgain
  <1>9. \A p \in Split(c, far) :
           p.ids \in SUBSET c.ids /\ p.ids # {} /\ p.again \subseteq p.ids
    <2>1. \A p \in out \union outAgain :
             (\E d \in c.ids : p.ids = {d}) /\ p.again = {}
      BY <1>6, <1>7
    <2> QED
      BY <1>2, <1>3, <1>5, <1>8, <2>1
  <1>10. IdsOf(Split(c, far)) = c.ids
    <2>1. \A d \in c.ids : \E p \in Split(c, far) : d \in p.ids
      BY <1>5, <1>6, <1>8
    <2> QED
      BY <2>1, <1>9 DEF IdsOf
  <1>11. ASSUME c.again = {}
         PROVE  /\ Apart(Split(c, far))
                /\ \A p \in Split(c, far) : p.again = {}
    <2>1. Split(c, far) = {stays} \union out
      BY <1>7, <1>8, <1>11
    <2>2. Apart(Split(c, far))
      BY <1>5, <1>6, <2>1 DEF Apart
    <2>3. stays.again = {}
      BY <1>2, <1>5, <1>11
    <2> QED
      BY <1>6, <2>1, <2>2, <2>3
  <1> QED
    BY <1>9, <1>10, <1>11

\* A worded claim is about the candidates of its row, and no other is.
LEMMA WordedFacts ==
    \A rows, again, invent, by :
        /\ \A c \in Worded(rows, again, invent, by) :
              c.ids \in rows /\ c.again = c.ids \cap again
        /\ \A r \in rows : \E c \in Worded(rows, again, invent, by) : c.ids = r
        /\ \A c, d \in Worded(rows, again, invent, by) : c.ids = d.ids => c = d
  <1> TAKE rows, again, invent, by
  <1> DEFINE Of(r) == Claim(r, r \cap again,
                            IF r \in invent THEN {Invented} ELSE r, From(by))
  <1>1. \A r : Of(r).ids = r /\ Of(r).again = r \cap again
    BY DEF Claim
  <1>2. Worded(rows, again, invent, by) = {Of(r) : r \in rows}
    BY DEF Worded
  <1> HIDE DEF Of
  <1> QED
    BY <1>1, <1>2

\* What the consolidator's answer leaves is about the candidates it was shown.
LEMMA AnswerIsAbout ==
    ASSUME NEW C, NEW S \in SUBSET C, NEW rows \in SUBSET ((SUBSET C) \ {{}}),
           \A r, t \in rows : r = t \/ r \cap t = {},
           NEW again, NEW invent, NEW ds \in SUBSET (C \ (UNION rows)),
           NEW g, NEW h,
           h => again = {} /\ (UNION rows) \union ds \subseteq S
    PROVE  AreAbout(Worded(rows, again, invent, g)
                      \union Singletons(S \ ((UNION rows) \union ds), From(g)),
                    ds, S, C, h)
  <1> DEFINE worded == Worded(rows, again, invent, g)
             own == Singletons(S \ ((UNION rows) \union ds), From(g))
  <1>1. \A c \in worded : c.ids \in rows /\ c.again = c.ids \cap again
    BY WordedFacts
  <1>2. \A r \in rows : \E c \in worded : c.ids = r
    BY WordedFacts
  <1>3. \A c, d \in worded : c.ids = d.ids => c = d
    BY WordedFacts
  <1>4. /\ \A c \in own : /\ \E d \in S \ ((UNION rows) \union ds) : c.ids = {d}
                         /\ c.again = {}
        /\ \A d \in S \ ((UNION rows) \union ds) : \E c \in own : c.ids = {d}
        /\ Apart(own)
    BY SingletonsFacts
  <1> HIDE DEF worded, own
  <1>5. \A c \in worded \union own :
           c.ids \in SUBSET C /\ c.ids # {} /\ c.again \subseteq c.ids
    <2>1. \A r \in rows : r \in SUBSET C /\ r # {}
      OBVIOUS
    <2>2. \A d \in S : {d} \in SUBSET C /\ {d} # {}
      OBVIOUS
    <2>3. \A c \in own : c.ids \in SUBSET C /\ c.ids # {} /\ c.again = {}
      BY <1>4, <2>2
    <2> QED
      BY <1>1, <2>1, <2>3
  <1>6. S \subseteq IdsOf(worded \union own) \union ds
    <2>1. \A d \in UNION rows : \E c \in worded \union own : d \in c.ids
      BY <1>2
    <2>2. \A d \in S \ ((UNION rows) \union ds) :
             \E c \in worded \union own : d \in c.ids
      BY <1>4
    <2>3. (UNION rows) \union (S \ ((UNION rows) \union ds))
             \subseteq IdsOf(worded \union own)
      BY <2>1, <2>2 DEF IdsOf
    <2> QED
      BY <2>3
  <1>7. IdsOf(worded \union own)
           \subseteq (UNION rows) \union (S \ ((UNION rows) \union ds))
    <2>1. \A c \in worded : c.ids \subseteq UNION rows
      BY <1>1
    <2>2. \A c \in own : c.ids \subseteq S \ ((UNION rows) \union ds)
      BY <1>4
    <2> QED
      BY <2>1, <2>2 DEF IdsOf
  <1>8. \A c \in worded, d \in own : c.ids \cap d.ids = {}
    BY <1>1, <1>4
  <1>9. \A c, d \in worded : c = d \/ c.ids \cap d.ids = {}
    BY <1>1, <1>3
  <1>10. Apart(worded \union own)
    BY <1>4, <1>8, <1>9 DEF Apart
  <1>11. ds \cap IdsOf(worded \union own) = {}
    BY <1>7
  <1>12. h => IdsOf(worded \union own) \union ds \subseteq S
    BY <1>7
  <1>13. h => \A c \in worded \union own : c.again = {}
    BY <1>1, <1>4
  <1> QED
    BY <1>5, <1>6, <1>10, <1>11, <1>12, <1>13 DEF AreAbout, worded, own

\* Every candidate of a group as a claim of its own, nothing dropped.
LEMMA SingletonsAreAbout ==
    ASSUME NEW C, NEW S \in SUBSET C, NEW g, NEW h
    PROVE  AreAbout(Singletons(S, g), {}, S, C, h)
  <1>1. /\ \A c \in Singletons(S, g) :
              (\E d \in S : c.ids = {d}) /\ c.again = {}
        /\ IdsOf(Singletons(S, g)) = S
        /\ Apart(Singletons(S, g))
    BY SingletonsFacts
  <1> QED
    BY <1>1 DEF AreAbout

Parts(cs, far) == UNION {Split(c, far) : c \in cs}

\* Splitting the claims leaves them about the same candidates.
LEMMA SplitIsAbout ==
    ASSUME FoldInv, NEW cs, NEW ds, NEW S, NEW h,
           NEW far, \A a \in Candidates : {a} \notin far,
           AreAbout(cs, ds, S, Candidates, h)
    PROVE  AreAbout(Parts(cs, far), ds, S, Candidates, h)
  <1> DEFINE parts == Parts(cs, far)
  <1>1. \A c \in cs :
           c.ids \in SUBSET Candidates /\ c.ids # {} /\ c.again \subseteq c.ids
    BY DEF AreAbout
  <1>2. \A p \in parts : \E c \in cs : p \in Split(c, far)
    BY DEF Parts
  <1>3. \A c \in cs : Split(c, far) \subseteq parts
    BY DEF Parts
  <1> HIDE DEF parts
  <1>4. ASSUME NEW c \in cs
        PROVE  /\ \A p \in Split(c, far) :
                     p.ids \in SUBSET c.ids /\ p.ids # {} /\ p.again \subseteq p.ids
               /\ IdsOf(Split(c, far)) = c.ids
               /\ c.again = {} => /\ Apart(Split(c, far))
                                  /\ \A p \in Split(c, far) : p.again = {}
    BY <1>1, SplitFacts
  <1>5. \A p \in parts :
           p.ids \in SUBSET Candidates /\ p.ids # {} /\ p.again \subseteq p.ids
    BY <1>1, <1>2, <1>4
  <1>6. IdsOf(parts) = IdsOf(cs)
    <2>1. ASSUME NEW d \in IdsOf(cs) PROVE d \in IdsOf(parts)
      <3>1. PICK c \in cs : d \in c.ids
        BY DEF IdsOf
      <3>2. d \in IdsOf(Split(c, far))
        BY <1>4, <3>1
      <3>3. PICK p \in Split(c, far) : d \in p.ids
        BY <3>2 DEF IdsOf
      <3> QED
        BY <1>3, <3>3 DEF IdsOf
    <2>2. ASSUME NEW p \in parts PROVE p.ids \subseteq IdsOf(cs)
      <3>1. PICK c \in cs : p \in Split(c, far)
        BY <1>2
      <3>2. p.ids \subseteq c.ids
        BY <1>4, <3>1
      <3> QED
        BY <3>2 DEF IdsOf
    <2> QED
      BY <2>1, <2>2 DEF IdsOf
  <1>7. ASSUME Apart(cs), \A c \in cs : c.again = {}, NEW p \in parts, NEW q \in parts
        PROVE  p = q \/ p.ids \cap q.ids = {}
    <2>1. PICK c \in cs : p \in Split(c, far)
      BY <1>2
    <2>2. PICK d \in cs : q \in Split(d, far)
      BY <1>2
    <2>3. CASE c = d
      BY <1>4, <1>7, <2>1, <2>2, <2>3 DEF Apart
    <2>4. CASE c # d
      <3>1. c.ids \cap d.ids = {}
        BY <1>7, <2>4 DEF Apart
      <3>2. p.ids \subseteq c.ids /\ q.ids \subseteq d.ids
        BY <1>4, <2>1, <2>2
      <3> QED
        BY <3>1, <3>2
    <2> QED
      BY <2>3, <2>4
  <1>8. ASSUME Apart(cs), \A c \in cs : c.again = {}
        PROVE  Apart(parts) /\ \A p \in parts : p.again = {}
    BY <1>2, <1>4, <1>7, <1>8 DEF Apart
  <1> QED
    BY <1>5, <1>6, <1>8 DEF AreAbout, parts

\* So does replacing them by what is in any of them.
LEMMA RebuiltIsAbout ==
    ASSUME NEW C, NEW K \in SUBSET C, NEW cs, NEW ds, NEW h, NEW by,
           AreAbout(cs, ds, K, C, h)
    PROVE  AreAbout(Singletons(K \cap IdsOf(cs), by), ds, K, C, h)
  <1> DEFINE new == Singletons(K \cap IdsOf(cs), by)
  <1>1. /\ \A p \in new : (\E d \in K \cap IdsOf(cs) : p.ids = {d}) /\ p.again = {}
        /\ IdsOf(new) = K \cap IdsOf(cs)
        /\ Apart(new)
    BY SingletonsFacts
  <1> HIDE DEF new
  <1>2. \A p \in new : p.ids \in SUBSET C /\ p.ids # {} /\ p.again \subseteq p.ids
    BY <1>1
  <1>3. K \subseteq IdsOf(new) \union ds
    BY <1>1 DEF AreAbout
  <1> QED
    BY <1>1, <1>2, <1>3 DEF AreAbout, new

\* Moving claims from the list to those gone keeps every candidate accounted
\* for.
LEMMA MoveAccounts ==
    ASSUME NEW cs, NEW gone, NEW D, NEW C, NEW h, NEW rest, NEW left,
           AccountFor(cs, gone, D, C, h),
           rest \union left = cs \union gone, rest \subseteq cs,
           left = gone \union (cs \ rest)
    PROVE  AccountFor(rest, left, D, C, h)
  <1>1. h => rest \cap left = {}
    BY DEF AccountFor
  <1> QED
    BY <1>1 DEF AccountFor

\* So does merging a claim into another one.
LEMMA MergeAccounts ==
    ASSUME NEW cs, NEW gone, NEW D, NEW C, NEW h, NEW k \in cs, NEW o \in cs,
           k # o, AccountFor(cs, gone, D, C, h)
    PROVE  AccountFor((cs \ {k, o}) \union {Merged(k, o)}, gone, D, C, h)
  <1> DEFINE m == Merged(k, o)
             all == cs \union gone
             new == ((cs \ {k, o}) \union {m}) \union gone
  <1>1. m.ids = k.ids \union o.ids /\ m.needs = k.needs
           /\ m.quotes = k.quotes \union o.quotes
    BY DEF Merged, Final
  <1> HIDE DEF m
  <1>2. Grounded(k) /\ Grounded(m)
    BY <1>1 DEF AccountFor, Grounded
  <1>3. \A c \in new : Grounded(c)
    BY <1>2 DEF AccountFor
  <1>4. IdsOf(new) = IdsOf(all)
    BY <1>1 DEF IdsOf
  <1>5. ASSUME h PROVE /\ Apart(new)
                       /\ ((cs \ {k, o}) \union {m}) \cap gone = {}
                       /\ \A c \in new : c.ids # {}
    <2>1. /\ \A c, d \in all : c = d \/ c.ids \cap d.ids = {}
          /\ cs \cap gone = {}
          /\ \A c \in all : c.ids # {}
      BY <1>5 DEF AccountFor, Apart
    <2>2. m.ids # {} /\ \A c \in new : c.ids # {}
      BY <1>1, <2>1
    <2>3. \A c \in all \ {k, o} : c.ids \cap m.ids = {}
      BY <1>1, <2>1
    <2>4. new \subseteq (all \ {k, o}) \union {m}
      BY <2>1
    <2>5. Apart(new)
      BY <2>1, <2>3, <2>4 DEF Apart
    <2>6. m \notin gone
      BY <2>1, <2>2, <2>3
    <2> QED
      BY <2>1, <2>2, <2>5, <2>6
  <1> QED
    BY <1>3, <1>4, <1>5 DEF AccountFor, m

\* What is finalized accounts for all candidates: every claim is grounded, as
\* its primary is one of those it quotes.
LEMMA FinalizeAccounts ==
    ASSUME FoldInv, pc # "extract", NEW cs, NEW ds, NEW h,
           AreAbout(cs, ds, Kept, Candidates, h)
    PROVE  AccountFor({f \in {Finalized(c) : c \in cs} : Grounded(f)}, {},
                      UNION {Quotes(d) : d \in ds}, Candidates, h)
  <1> DEFINE Pool(S) == UNION {Quotes(m) : m \in S}
             final == {f \in {Finalized(c) : c \in cs} : Grounded(f)}
  <1>1. /\ Kept \subseteq Candidates
        /\ \A c \in Candidates : c \in Quotes(c) /\ Quotes(c) \subseteq Candidates
        /\ \A c, d \in Kept : c = d \/ Quotes(c) \cap Quotes(d) = {}
        /\ \A c \in Candidates : \E k \in Kept : c \in Quotes(k)
    BY QuotesFacts
  <1>2. \A S \in SUBSET Candidates : S \subseteq Pool(S)
    BY <1>1
  <1>3. ASSUME NEW S \in SUBSET Kept, NEW T \in SUBSET Kept, S \cap T = {}
        PROVE  Pool(S) \cap Pool(T) = {}
    BY <1>1, <1>3
  <1>4. \A S, d : d \in Pool(S) <=> \E m \in S : d \in Quotes(m)
    OBVIOUS
  <1>5. \A c \in cs : c.ids \in SUBSET Candidates /\ c.ids # {}
    BY DEF AreAbout
  <1>6. ASSUME NEW c \in cs
        PROVE  Finalized(c).ids = Pool(c.ids) /\ Grounded(Finalized(c))
    <2>1. Primary(c.ids) \in Pool(c.ids)
      BY <1>2, <1>5, PrimaryFacts
    <2>2. Finalized(c).ids = Pool(c.ids) /\ Finalized(c).quotes = Pool(c.ids)
      BY DEF Finalized, Final
    <2>3. Finalized(c).needs \subseteq Pool(c.ids)
      BY <2>1 DEF Finalized, Final
    <2> QED
      BY <2>2, <2>3 DEF Grounded
  <1> HIDE DEF Pool
  <1>7. final = {Finalized(c) : c \in cs}
    BY <1>6
  <1> HIDE DEF final
  <1>8. \A f \in final : Grounded(f)
    BY <1>6, <1>7
  <1>9. ASSUME NEW x \in Candidates PROVE x \in IdsOf(final) \union Pool(ds)
    <2>1. PICK k \in Kept : x \in Quotes(k)
      BY <1>1
    <2>2. CASE k \in ds
      BY <1>4, <2>1, <2>2
    <2>3. ASSUME NEW c \in cs, k \in c.ids PROVE x \in IdsOf(final)
      <3>1. x \in Finalized(c).ids
        BY <1>4, <1>6, <2>1, <2>3
      <3>2. Finalized(c) \in final
        BY <1>7
      <3> QED
        BY <3>1, <3>2 DEF IdsOf
    <2>4. k \in ds \/ \E c \in cs : k \in c.ids
      BY DEF AreAbout, IdsOf
    <2> QED
      BY <2>2, <2>3, <2>4
  <1>10. ASSUME h
         PROVE  /\ Apart(final)
                /\ Pool(ds) \cap IdsOf(final) = {}
                /\ \A f \in final : f.ids # {}
    <2>1. /\ \A c \in cs : c.ids \in SUBSET Kept
          /\ ds \in SUBSET Kept
          /\ \A c \in cs : ds \cap c.ids = {}
          /\ \A c, d \in cs : c = d \/ c.ids \cap d.ids = {}
      BY <1>10 DEF AreAbout, IdsOf, Apart
    <2>2. \A c, d \in cs : c = d \/ Finalized(c).ids \cap Finalized(d).ids = {}
      BY <1>3, <1>6, <2>1
    <2>3. Apart(final)
      BY <1>7, <2>2 DEF Apart
    <2>4. \A c \in cs : Pool(ds) \cap Finalized(c).ids = {}
      BY <1>3, <1>6, <2>1
    <2>5. \A f \in final : Pool(ds) \cap f.ids = {}
      BY <1>7, <2>4
    <2>6. \A c \in cs : Finalized(c).ids # {}
      BY <1>2, <1>5, <1>6
    <2>7. \A f \in final : f.ids # {}
      BY <1>7, <2>6
    <2> QED
      BY <2>3, <2>5, <2>7 DEF IdsOf
  <1>11. final \union {} = final /\ final \cap {} = {}
    OBVIOUS
  <1> QED
    BY <1>8, <1>9, <1>10, <1>11 DEF AccountFor, final, Pool

-----------------------------------------------------------------------------
(* The invariant.                                                          *)

\* While the candidates and what they are folded into stay, so does what is
\* derived from them.
LEMMA SameFolding ==
    ASSUME UNCHANGED <<size, target>>
    PROVE  /\ Candidates' = Candidates /\ Kept' = Kept
           /\ \A c : Quotes(c)' = Quotes(c)
           /\ Groups' = Groups
           /\ \A g : Shown(g)' = Shown(g)
  <1>1. Candidates' = Candidates /\ Kept' = Kept
    BY DEF Candidates, Kept
  <1>2. \A c : Quotes(c)' = Quotes(c)
    BY <1>1 DEF Quotes, Absorbed
  <1>3. \A c : GroupOf(c)' = GroupOf(c)
    BY <1>1 DEF GroupOf
  <1>4. Groups' = Groups
    BY <1>1, <1>3 DEF Groups
  <1>5. \A g : Shown(g)' = Shown(g)
    BY <1>1, <1>3 DEF Shown
  <1> QED
    BY <1>1, <1>2, <1>4, <1>5

\* There are no claims at the start.
LEMMA PipelineInit == Init => PipelineInv
  <1> SUFFICES ASSUME Init PROVE PipelineInv
    OBVIOUS
  <1> USE DEF Init
  <1>1. FoldInv
    BY PipelineBounds DEF FoldInv, Finalizing
  <1>2. AnswersInv /\ DraftInv /\ FinalInv /\ CollapseIsUndone
    BY DEF AnswersInv, DraftInv, FinalInv, CollapseIsUndone, Drafting, Finalizing
  <1> QED
    BY <1>1, <1>2 DEF PipelineInv

\* The flaws of an answer are counted: while there is none, the answer lists
\* nothing again and names only what it was shown.
LEMMA FlawsAreCounted ==
    ASSUME FoldInv, NEW g, NEW rows \in Rows, NEW again \in SUBSET (UNION rows),
           NEW ds \in SUBSET (Candidates \ (UNION rows)), Flawed(rows, again, ds, g)
    PROVE  /\ flaws' \in Nat
           /\ honest' => /\ honest /\ again = {}
                         /\ (UNION rows) \union ds \subseteq Shown(g)
  <1> DEFINE stray == ((UNION rows) \union ds) \ Shown(g)
  <1>1. IsFiniteSet(Candidates)
    BY FS_Interval DEF FoldInv, Candidates
  <1>2. again \in SUBSET Candidates /\ stray \in SUBSET Candidates
    BY DEF Rows
  <1> HIDE DEF stray
  <1>3. IsFiniteSet(again) /\ IsFiniteSet(stray)
    BY <1>1, <1>2, FS_Subset
  <1>4. /\ Cardinality(again) \in Nat /\ (Cardinality(again) = 0 => again = {})
        /\ Cardinality(stray) \in Nat /\ (Cardinality(stray) = 0 => stray = {})
    BY <1>3, FS_CardinalityType, FS_EmptySet
  <1>5. flaws' = flaws + Cardinality(again) + Cardinality(stray)
    BY DEF Flawed, stray
  <1>6. flaws' \in Nat
        /\ (flaws' = 0 => flaws = 0 /\ again = {} /\ stray = {})
    BY <1>4, <1>5 DEF FoldInv
  <1> QED
    BY <1>6 DEF honest, stray

\* An answer leaves the stage as it is.
LEMMA AnswersStay ==
    ASSUME NEW g, Consolidate(g) \/ ConsolidateFails(g)
    PROVE  pc = "consolidate" /\ pc' = pc
  BY DEF Consolidate, ConsolidateFails, Pending, Answer

\* Folding and the stages' bookkeeping.
LEMMA FoldStep ==
    ASSUME FoldInv, [Next]_vars PROVE FoldInv'
  <1> USE DEF FoldInv, Finalizing, Rest, GoTo
  <1>1. CASE Extract
    BY <1>1 DEF Extract, Candidates
  <1>2. CASE Premerge
    BY <1>2 DEF Premerge, Candidates
  <1>3. ASSUME NEW g \in 1..MaxCandidates, Consolidate(g) \/ ConsolidateFails(g)
        PROVE  FoldInv'
    <2>1. flaws' \in Nat
      <3>1. CASE Consolidate(g)
        <4>1. PICK rows \in Rows :
                 \E again \in SUBSET (UNION rows),
                    ds \in SUBSET (Candidates \ (UNION rows)) :
                    Flawed(rows, again, ds, g)
          BY <3>1 DEF Consolidate
        <4> QED
          BY <4>1, FlawsAreCounted
      <3>2. CASE ConsolidateFails(g)
        BY <3>2 DEF ConsolidateFails
      <3> QED
        BY <1>3, <3>1, <3>2
    <2> QED
      BY <1>3, <2>1 DEF Consolidate, ConsolidateFails, Pending, Answer, Candidates
  <1>4. CASE Join \/ ValidateMerges \/ EnforceRetention \/ Finalize
    BY <1>4 DEF Join, ValidateMerges, EnforceRetention, Finalize, Candidates
  <1>5. CASE DropUnclean \/ EndHygiene \/ MergeNearDuplicates \/ EndConsolidation
    BY <1>5 DEF DropUnclean, EndHygiene, MergeNearDuplicates, EndConsolidation,
                Candidates
  <1>6. CASE MergeRestatements \/ EndDedupe \/ DropUnsupported \/ EndSupport
    BY <1>6 DEF MergeRestatements, EndDedupe, DropUnsupported, EndSupport,
                Candidates
  <1>7. CASE Cap
    BY <1>7 DEF Cap, Candidates
  <1>8. CASE MalformedAnswer
    BY <1>8 DEF MalformedAnswer, Candidates
  <1>9. CASE UNCHANGED vars
    BY <1>9 DEF vars, Candidates
  <1> QED
    BY <1>1, <1>2, <1>3, <1>4, <1>5, <1>6, <1>7, <1>8, <1>9 DEF Next

\* The answers of the consolidator's calls.
LEMMA AnswersStep ==
    ASSUME FoldInv, AnswersInv, [Next]_vars PROVE AnswersInv'
  <1> SUFFICES ASSUME pc' = "consolidate"
               PROVE  AnswersInv'
    BY DEF AnswersInv
  <1> USE DEF Rest, GoTo
  <1>1. CASE Premerge
    <2>1. answers' = << >>
      BY <1>1 DEF Premerge, FoldInv
    <2> QED
      BY <2>1 DEF AnswersInv
  <1>2. CASE UNCHANGED vars
    <2>1. Candidates' = Candidates /\ Groups' = Groups
             /\ \A g : Shown(g)' = Shown(g)
      BY <1>2, SameFolding DEF vars
    <2> QED
      BY <1>2, <2>1 DEF vars, AnswersInv, AreAbout, honest
  <1>3. ASSUME NEW g \in 1..MaxCandidates, Consolidate(g) \/ ConsolidateFails(g)
        PROVE  AnswersInv'
    <2>1. UNCHANGED <<size, target>> /\ pc = "consolidate" /\ g \in Groups
      BY <1>3 DEF Consolidate, ConsolidateFails, Pending, Answer
    <2>2. Candidates' = Candidates /\ Groups' = Groups
             /\ \A f : Shown(f)' = Shown(f)
      BY <2>1, SameFolding
    <2>3. Shown(g) \in SUBSET Candidates
      BY DEF Shown, Kept
    <2>4. PICK cs, ds : /\ Answer(g, cs, ds)
                        /\ AreAbout(cs, ds, Shown(g), Candidates, honest')
                        /\ honest' => honest
      <3>1. CASE ConsolidateFails(g)
        BY <2>3, <3>1, SingletonsAreAbout DEF ConsolidateFails, honest
      <3>2. CASE Consolidate(g)
        <4>1. PICK rows \in Rows :
                \E again \in SUBSET (UNION rows), invent \in SUBSET rows,
                   ds \in SUBSET (Candidates \ (UNION rows)) :
                  /\ Answer(g,
                        Worded(rows, again, invent, g)
                          \union Singletons(Shown(g) \ ((UNION rows) \union ds),
                                           From(g)),
                        ds)
                  /\ Flawed(rows, again, ds, g)
          BY <3>2 DEF Consolidate
        <4>2. PICK again \in SUBSET (UNION rows), invent \in SUBSET rows,
                   ds \in SUBSET (Candidates \ (UNION rows)) :
                  /\ Answer(g,
                        Worded(rows, again, invent, g)
                          \union Singletons(Shown(g) \ ((UNION rows) \union ds),
                                           From(g)),
                        ds)
                  /\ Flawed(rows, again, ds, g)
          BY <4>1
        <4>3. /\ rows \in SUBSET ((SUBSET Candidates) \ {{}})
              /\ \A r, t \in rows : r = t \/ r \cap t = {}
          BY DEF Rows
        <4>4. honest' => /\ honest /\ again = {}
                         /\ (UNION rows) \union ds \subseteq Shown(g)
          BY <4>2, FlawsAreCounted
        <4>5. AreAbout(Worded(rows, again, invent, g)
                         \union Singletons(Shown(g) \ ((UNION rows) \union ds),
                                          From(g)),
                       ds, Shown(g), Candidates, honest')
          BY <2>3, <4>3, <4>4, AnswerIsAbout
        <4> QED
          BY <4>2, <4>4, <4>5
      <3> QED
        BY <1>3, <3>1, <3>2
    <2>5. /\ DOMAIN answers' = DOMAIN answers \union {g}
          /\ answers'[g].claims = cs /\ answers'[g].dropped = ds
          /\ \A f \in DOMAIN answers : f # g => answers'[f] = answers[f]
      BY <2>4 DEF Answer
    <2>6. ASSUME NEW f \in DOMAIN answers'
          PROVE  AreAbout(answers'[f].claims, answers'[f].dropped, Shown(f),
                          Candidates, honest')
      <3>1. CASE f = g
        BY <2>4, <2>5, <3>1
      <3>2. CASE f # g
        <4>1. AreAbout(answers[f].claims, answers[f].dropped, Shown(f),
                       Candidates, honest)
          BY <2>1, <2>5, <3>2 DEF AnswersInv
        <4>2. AreAbout(answers[f].claims, answers[f].dropped, Shown(f),
                       Candidates, honest')
          BY <2>4, <4>1 DEF AreAbout
        <4> QED
          BY <2>5, <3>2, <4>2
      <3> QED
        BY <3>1, <3>2
    <2>7. DOMAIN answers' \subseteq Groups
      BY <2>1, <2>5 DEF AnswersInv
    <2> QED
      BY <2>2, <2>6, <2>7 DEF AnswersInv, AreAbout
  <1>4. CASE Extract \/ Join \/ ValidateMerges \/ EnforceRetention \/ Finalize
    BY <1>4 DEF Extract, Join, ValidateMerges, EnforceRetention, Finalize
  <1>5. CASE DropUnclean \/ EndHygiene \/ MergeNearDuplicates \/ EndConsolidation
    BY <1>5 DEF DropUnclean, EndHygiene, MergeNearDuplicates, EndConsolidation
  <1>6. CASE MergeRestatements \/ EndDedupe \/ DropUnsupported \/ EndSupport
                \/ Cap \/ MalformedAnswer
    BY <1>6 DEF MergeRestatements, EndDedupe, DropUnsupported, EndSupport, Cap,
                MalformedAnswer
  <1> QED
    BY <1>1, <1>2, <1>3, <1>4, <1>5, <1>6 DEF Next

\* The claims between the consolidator and _finalize_claims.
LEMMA DraftStep ==
    ASSUME PipelineInv, [Next]_vars PROVE DraftInv'
  <1> USE DEF Rest, GoTo
  <1>1. CASE Join
    <2>1. /\ Candidates' = Candidates /\ Kept' = Kept
          /\ pc' = "validate" /\ honest' = honest /\ DOMAIN answers = Groups
          /\ claims' = UNION {answers[g].claims : g \in Groups}
          /\ dropped' = UNION {answers[g].dropped : g \in Groups}
      BY <1>1, SameFolding DEF Join, honest
    <2>2. \A g \in Groups : AreAbout(answers[g].claims, answers[g].dropped,
                                     Shown(g), Candidates, honest)
      BY <1>1, <2>1 DEF Join, PipelineInv, AnswersInv
    <2>3. /\ \A g \in Groups : Shown(g) \subseteq Kept
          /\ \A c \in Kept : GroupOf(c) \in Groups /\ c \in Shown(GroupOf(c))
          /\ \A f, g \in Groups : f = g \/ Shown(f) \cap Shown(g) = {}
      BY DEF Shown, Groups
    <2>4. Kept \subseteq Candidates
      BY DEF Kept
    <2>5. /\ \A c : c \in claims' <=> \E g \in Groups : c \in answers[g].claims
          /\ \A d : d \in dropped' <=> \E g \in Groups : d \in answers[g].dropped
      BY <2>1
    <2>6. /\ \A c \in claims' : /\ c.ids \in SUBSET Candidates /\ c.ids # {}
                               /\ c.again \subseteq c.ids
          /\ dropped' \subseteq Candidates
      BY <2>2, <2>5 DEF AreAbout
    <2>7. ASSUME NEW c \in Kept PROVE c \in IdsOf(claims') \union dropped'
      <3>1. PICK g \in Groups : c \in Shown(g)
        BY <2>3
      <3>2. c \in IdsOf(answers[g].claims) \union answers[g].dropped
        BY <2>2, <3>1 DEF AreAbout
      <3> QED
        BY <2>5, <3>2 DEF IdsOf
    <2>8. ASSUME honest
          PROVE  /\ IdsOf(claims') \union dropped' \subseteq Kept
                 /\ Apart(claims')
                 /\ \A c \in claims' : c.again = {}
                 /\ dropped' \cap IdsOf(claims') = {}
      <3>1. ASSUME NEW g \in Groups
            PROVE  /\ \A c \in answers[g].claims : c.ids \subseteq Shown(g)
                   /\ answers[g].dropped \subseteq Shown(g)
                   /\ Apart(answers[g].claims)
                   /\ \A c \in answers[g].claims : c.again = {}
                   /\ \A c \in answers[g].claims : answers[g].dropped \cap c.ids = {}
        BY <2>2, <2>8 DEF AreAbout, IdsOf
      <3>2. \A c \in claims' : c.ids \subseteq Kept
        BY <2>3, <2>5, <3>1
      <3>3. dropped' \subseteq Kept
        BY <2>3, <2>5, <3>1
      <3>4. ASSUME NEW c \in claims', NEW d \in claims'
            PROVE  c = d \/ c.ids \cap d.ids = {}
        <4>1. PICK f \in Groups : c \in answers[f].claims
          BY <2>5
        <4>2. PICK g \in Groups : d \in answers[g].claims
          BY <2>5
        <4>3. CASE f = g
          BY <3>1, <4>1, <4>2, <4>3 DEF Apart
        <4>4. CASE f # g
          BY <2>3, <3>1, <4>1, <4>2, <4>4
        <4> QED
          BY <4>3, <4>4
      <3>5. ASSUME NEW c \in claims', NEW d \in dropped' PROVE d \notin c.ids
        <4>1. PICK f \in Groups : c \in answers[f].claims
          BY <2>5
        <4>2. PICK g \in Groups : d \in answers[g].dropped
          BY <2>5
        <4>3. CASE f = g
          BY <3>1, <4>1, <4>2, <4>3
        <4>4. CASE f # g
          BY <2>3, <3>1, <4>1, <4>2, <4>4
        <4> QED
          BY <4>3, <4>4
      <3>6. \A c \in claims' : c.again = {}
        BY <2>5, <3>1
      <3> QED
        BY <3>2, <3>3, <3>4, <3>5, <3>6 DEF IdsOf, Apart
    <2>9. AreAbout(claims', dropped', Kept, Candidates, honest)
      BY <2>6, <2>7, <2>8 DEF AreAbout
    <2> QED
      BY <2>1, <2>9 DEF DraftInv, AreAbout, IdsOf, Apart
  <1>2. CASE ValidateMerges
    <2>1. /\ Candidates' = Candidates /\ Kept' = Kept
          /\ pc = "validate" /\ pc' = "retention" /\ honest' = honest
          /\ dropped' = dropped
      BY <1>2, SameFolding DEF ValidateMerges, honest
    <2>2. PICK far \in SUBSET {p \in SUBSET Candidates : Cardinality(p) = 2} :
             claims' = UNION {Split(c, far) : c \in claims}
      BY <1>2 DEF ValidateMerges
    <2>3. \A a \in Candidates : {a} \notin far
      <3>1. \A a : Cardinality({a}) = 1
        BY FS_Singleton
      <3>2. \A p \in far : Cardinality(p) = 2
        BY <2>2
      <3> QED
        BY <3>1, <3>2
    <2>4. AreAbout(claims, dropped, Kept, Candidates, honest)
      BY <2>1 DEF PipelineInv, DraftInv, Drafting
    <2>5. claims' = Parts(claims, far)
      BY <2>2 DEF Parts
    <2>6. AreAbout(claims', dropped, Kept, Candidates, honest)
      BY <2>3, <2>4, <2>5, SplitIsAbout DEF PipelineInv
    <2> QED
      BY <2>1, <2>6 DEF DraftInv, AreAbout, IdsOf, Apart
  <1>3. CASE EnforceRetention
    <2>1. /\ Candidates' = Candidates /\ Kept' = Kept
          /\ pc = "retention" /\ pc' = "finalize" /\ honest' = honest
          /\ dropped' = dropped
          /\ claims' = IF Collapsed(claims) /\ Rebuilt # {} THEN Rebuilt ELSE claims
      BY <1>3, SameFolding DEF EnforceRetention, honest
    <2>2. AreAbout(claims, dropped, Kept, Candidates, honest)
      BY <2>1 DEF PipelineInv, DraftInv, Drafting
    <2>3. AreAbout(Rebuilt, dropped, Kept, Candidates, honest)
      BY <2>2, RebuiltIsAbout DEF Rebuilt, Kept
    <2>4. AreAbout(claims', dropped, Kept, Candidates, honest)
      BY <2>1, <2>2, <2>3
    <2>5. ASSUME honest, Collapsed(claims)'
          PROVE  Restored(claims)'
      <3>1. Kept = dropped \union (Kept \cap IdsOf(claims))
               /\ dropped \cap IdsOf(claims) = {}
               /\ IdsOf(claims) \subseteq Kept
        BY <2>2, <2>5 DEF AreAbout
      <3>2. CASE claims' = Rebuilt
        <4>1. {c.ids : c \in Rebuilt} = {{k} : k \in Kept \cap IdsOf(claims)}
          BY SingletonsStand DEF Rebuilt
        <4>2. Kept \cap IdsOf(claims) = Kept \ dropped
          BY <3>1
        <4> QED
          BY <2>1, <3>2, <4>1, <4>2 DEF Restored
      <3>3. CASE claims' = claims
        <4>1. Collapsed(claims)
          BY <2>1, <2>5, <3>3 DEF Collapsed
        <4>2. claims' = Rebuilt \/ Rebuilt = {}
          BY <2>1, <4>1
        <4>3. CASE Rebuilt = {}
          <5>1. Kept \cap IdsOf(claims) = {}
            BY <4>3, SingletonsFacts DEF Rebuilt, IdsOf
          <5>2. IdsOf(claims) = {} /\ Kept \ dropped = {}
            BY <3>1, <5>1
          <5>3. claims = {}
            BY <2>2, <5>2 DEF AreAbout, IdsOf
          <5> QED
            BY <2>1, <3>3, <5>2, <5>3 DEF Restored
        <4> QED
          BY <3>2, <4>2, <4>3
      <3> QED
        BY <2>1, <3>2, <3>3
    <2> QED
      BY <2>1, <2>4, <2>5 DEF DraftInv, AreAbout, IdsOf, Apart
  <1>4. CASE UNCHANGED vars
    <2>1. Candidates' = Candidates /\ Kept' = Kept
      BY <1>4, SameFolding DEF vars
    <2> QED
      BY <1>4, <2>1 DEF vars, PipelineInv, DraftInv, Restored, Collapsed,
                        AreAbout, IdsOf, Apart, Drafting, honest
  <1>5. CASE \/ Extract \/ Premerge \/ Finalize
             \/ \E g \in 1..MaxCandidates : Consolidate(g) \/ ConsolidateFails(g)
    <2>1. pc' \notin Drafting
      BY <1>5, AnswersStay DEF Extract, Premerge, Finalize, Drafting
    <2> QED
      BY <2>1 DEF DraftInv, Drafting
  <1>6. CASE \/ DropUnclean \/ EndHygiene \/ MergeNearDuplicates \/ EndConsolidation
             \/ MergeRestatements \/ EndDedupe \/ DropUnsupported \/ EndSupport
             \/ Cap \/ MalformedAnswer
    <2>1. pc' \notin Drafting
      BY <1>6 DEF DropUnclean, EndHygiene, MergeNearDuplicates, EndConsolidation,
                  MergeRestatements, EndDedupe, DropUnsupported, EndSupport, Cap,
                  MalformedAnswer, Drafting
    <2> QED
      BY <2>1 DEF DraftInv, Drafting
  <1> QED
    BY <1>1, <1>2, <1>3, <1>4, <1>5, <1>6 DEF Next

\* The final claims.
LEMMA FinalStep ==
    ASSUME PipelineInv, [Next]_vars PROVE FinalInv'
  <1> SUFFICES ASSUME pc' \in Finalizing
               PROVE  AccountFor(claims', Gone', DroppedQuotes', Candidates', honest')
    BY DEF FinalInv, AccountFor, Apart, IdsOf, Grounded
  <1> USE DEF honest
  <1> DEFINE Kind(rest) ==
               /\ claims' = rest
               /\ Gone' = Gone \union (claims \ rest)
               /\ rest \subseteq claims
             same == UNCHANGED <<size, target, dropped, flaws>>
  <1>1. same => UNCHANGED <<Candidates, DroppedQuotes>>
    BY SameFolding DEF DroppedQuotes
  <1>2. CASE Extract
    <2>1. claims' = {} /\ Gone' = {} /\ Candidates' = {}
      BY <1>2 DEF Extract, PipelineInv, FoldInv, Finalizing, Gone, Candidates
    <2> QED
      BY <2>1 DEF AccountFor, Apart, IdsOf
  <1>3. CASE Finalize
    <2>1. Gone' = {} /\ pc = "finalize" /\ same
      BY <1>3 DEF Finalize, PipelineInv, FoldInv, Finalizing, Gone
    <2>2. AreAbout(claims, dropped, Kept, Candidates, honest)
      BY <2>1 DEF PipelineInv, DraftInv, Drafting
    <2>3. AccountFor({f \in {Finalized(c) : c \in claims} : Grounded(f)}, {},
                     DroppedQuotes, Candidates, honest)
      BY <2>1, <2>2, FinalizeAccounts DEF PipelineInv, DroppedQuotes
    <2> QED
      BY <1>1, <1>3, <2>1, <2>3 DEF Finalize
  <1>4. ASSUME pc \in Finalizing, same, NEW rest, Kind(rest)
        PROVE  AccountFor(claims', Gone', DroppedQuotes', Candidates', honest')
    <2>1. AccountFor(claims, Gone, DroppedQuotes, Candidates, honest)
      BY <1>4 DEF PipelineInv, FinalInv
    <2>2. rest \union Gone' = claims \union Gone
      BY <1>4
    <2>3. AccountFor(rest, Gone', DroppedQuotes, Candidates, honest)
      BY <1>4, <2>1, <2>2, MoveAccounts
    <2> QED
      BY <1>1, <1>4, <2>3
  <1>5. CASE DropUnclean \/ DropUnsupported
    <2>1. pc \in Finalizing /\ same /\ \E rest : Kind(rest)
      BY <1>5 DEF DropUnclean, DropUnsupported, Remove, Rest, Gone, Finalizing
    <2> QED
      BY <1>4, <2>1
  <1>6. CASE Cap
    <2>1. pc \in Finalizing /\ same /\ capped = {}
      BY <1>6 DEF Cap, Rest, PipelineInv, FoldInv, Finalizing
    <2>2. \E rest : Kind(rest)
      BY <1>6, <2>1 DEF Cap, Gone
    <2> QED
      BY <1>4, <2>1, <2>2
  <1>7. CASE \/ EndHygiene \/ EndConsolidation \/ EndDedupe \/ EndSupport
             \/ MalformedAnswer \/ UNCHANGED vars
    <2>1. pc \in Finalizing /\ same /\ Kind(claims)
      BY <1>7 DEF EndHygiene, EndConsolidation, EndDedupe, EndSupport,
                  MalformedAnswer, vars, Rest, GoTo, Gone, Finalizing
    <2> QED
      BY <1>4, <2>1
  <1>8. CASE MergeNearDuplicates \/ MergeRestatements
    <2>1. pc \in Finalizing /\ same /\ Gone' = Gone /\ MergeSomePair
      BY <1>8 DEF MergeNearDuplicates, MergeRestatements, Rest, Gone, Finalizing
    <2>2. PICK k \in claims, o \in claims :
             k # o /\ claims' = (claims \ {k, o}) \union {Merged(k, o)}
      BY <2>1 DEF MergeSomePair
    <2>3. AccountFor(claims, Gone, DroppedQuotes, Candidates, honest)
      BY <2>1 DEF PipelineInv, FinalInv
    <2>4. AccountFor(claims', Gone, DroppedQuotes, Candidates, honest)
      BY <2>2, <2>3, MergeAccounts
    <2> QED
      BY <1>1, <2>1, <2>4
  <1>9. CASE \/ Premerge \/ Join \/ ValidateMerges \/ EnforceRetention
             \/ \E g \in 1..MaxCandidates : Consolidate(g) \/ ConsolidateFails(g)
    BY <1>9, AnswersStay
    DEF Premerge, Join, ValidateMerges, EnforceRetention, Finalizing
  <1> QED
    BY <1>2, <1>3, <1>5, <1>6, <1>7, <1>8, <1>9 DEF Next

\* Claims about different candidates are as many as they are; finalizing keeps
\* them apart.
LEMMA FinalizeKeepsCount ==
    ASSUME PipelineInv, pc = "finalize", honest,
           NEW final, final = {f \in {Finalized(c) : c \in claims} : Grounded(f)}
    PROVE  /\ Cardinality(final) \in Nat /\ Cardinality(claims) \in Nat
           /\ Cardinality(claims) <= Cardinality(final)
           /\ final = {Finalized(c) : c \in claims}
  <1>1. FoldInv /\ AreAbout(claims, dropped, Kept, Candidates, honest)
    BY DEF PipelineInv, DraftInv, Drafting
  <1>2. \A c \in claims : Grounded(Finalized(c)) /\ c.ids \subseteq Finalized(c).ids
                          /\ c.ids \in SUBSET Kept /\ c.ids # {}
                          /\ Finalized(c).ids \in SUBSET Candidates
    <2> TAKE c \in claims
    <2>1. c.ids \in SUBSET Candidates /\ c.ids # {} /\ c.ids \in SUBSET Kept
      BY <1>1 DEF AreAbout, IdsOf
    <2>2. c.ids \subseteq UNION {Quotes(m) : m \in c.ids}
             /\ UNION {Quotes(m) : m \in c.ids} \subseteq Candidates
      BY <1>1, <2>1, QuotesFacts
    <2>3. Finalized(c).ids = UNION {Quotes(m) : m \in c.ids}
             /\ Finalized(c).quotes = UNION {Quotes(m) : m \in c.ids}
      BY DEF Finalized, Final
    <2>4. Primary(c.ids) \in c.ids
      BY <1>1, <2>1, PrimaryFacts
    <2>5. Finalized(c).needs \subseteq Finalized(c).quotes
      BY <2>2, <2>4 DEF Finalized, Final
    <2> QED
      BY <2>1, <2>2, <2>3, <2>5 DEF Grounded
  <1>3. final = {Finalized(c) : c \in claims}
    BY <1>2
  <1>4. AccountFor(final, {}, UNION {Quotes(d) : d \in dropped}, Candidates, honest)
    BY <1>1, FinalizeAccounts
  <1>5. \A f, e \in final : f = e \/ f.ids \cap e.ids = {}
    BY <1>4 DEF AccountFor, Apart
  <1>6. \A f \in final : f.ids # {} /\ f.ids \in SUBSET Candidates
    BY <1>2, <1>3
  <1>7. IsFiniteSet(final)
    <2>1. IsFiniteSet(SUBSET Candidates)
      <3>1. 1 \in Int /\ size \in Int
        BY <1>1, PipelineBounds DEF FoldInv
      <3>2. IsFiniteSet(Candidates)
        BY <3>1, FS_Interval DEF Candidates
      <3> QED
        BY <3>2, FS_SUBSET
    <2> DEFINE ids == [f \in final |-> f.ids]
    <2>2. ids \in Injection(final, SUBSET Candidates)
      BY <1>5, <1>6 DEF Injection, IsInjective
    <2> QED
      BY <2>1, <2>2, FS_Injection
  <1>8. ASSUME NEW c \in claims, NEW d \in claims, Finalized(c) = Finalized(d)
        PROVE  c = d
    <2>1. \A k, m \in Kept : k = m \/ Quotes(k) \cap Quotes(m) = {}
      BY <1>1, QuotesFacts
    <2>2. PICK k \in c.ids : k \in Kept
      BY <1>2
    <2>3. k \in Quotes(k)
      BY DEF Quotes
    <2>4. k \in UNION {Quotes(m) : m \in d.ids}
      BY <1>2, <1>8, <2>2 DEF Finalized, Final
    <2>5. PICK m \in d.ids : k \in Quotes(m)
      BY <2>4
    <2>6. k = m
      BY <1>2, <2>1, <2>2, <2>3, <2>5
    <2> QED
      BY <1>1, <2>2, <2>5, <2>6 DEF AreAbout, Apart
  <1>9. IsFiniteSet(claims) /\ Cardinality(claims) <= Cardinality(final)
    <2> DEFINE fin == [c \in claims |-> Finalized(c)]
    <2>1. fin \in Injection(claims, final)
      BY <1>3, <1>8 DEF Injection, IsInjective
    <2> QED
      BY <1>7, <2>1, FS_Injection
  <1> QED
    BY <1>3, <1>7, <1>9, FS_CardinalityType

\* The finalized claims of a grouping that was undone.
LEMMA CollapseStep ==
    ASSUME PipelineInv, [Next]_vars PROVE CollapseIsUndone'
  <1> USE DEF Rest, GoTo
  <1>1. CASE Finalize
    <2>1. /\ UNCHANGED <<size, target, dropped, flaws>> /\ pc = "finalize"
          /\ claims' = {f \in {Finalized(c) : c \in claims} : Grounded(f)}
          /\ cleaned' = {}
      BY <1>1 DEF Finalize, PipelineInv, FoldInv, Finalizing
    <2>2. Kept' = Kept /\ \A k : Quotes(k)' = Quotes(k)
      BY <2>1, SameFolding
    <2>3. SUFFICES ASSUME honest, Collapsed(claims')
                   PROVE  {c.ids : c \in claims'} =
                              {Quotes(k) : k \in Kept \ dropped}
      <3>1. claims' \union cleaned' = claims'
        BY <2>1
      <3>2. honest' = honest
        BY <2>1 DEF honest
      <3>3. {Quotes(k)' : k \in Kept' \ dropped'} = {Quotes(k) : k \in Kept \ dropped}
        BY <2>1, <2>2
      <3> QED
        BY <2>2, <2>3, <3>1, <3>2, <3>3 DEF CollapseIsUndone, Collapsed
    <2>4. /\ Cardinality(claims') \in Nat /\ Cardinality(claims) \in Nat
          /\ Cardinality(claims) <= Cardinality(claims')
          /\ claims' = {Finalized(c) : c \in claims}
      BY <2>1, <2>3, FinalizeKeepsCount
    <2>5. Collapsed(claims)
      <3> DEFINE floor == FloorPercent * Cardinality(Kept)
      <3>1. Cardinality(Kept) \in Nat
        <4>1. IsFiniteSet(Candidates) /\ Kept \in SUBSET Candidates
          BY FS_Interval DEF PipelineInv, FoldInv, Candidates, Kept
        <4> QED
          BY <4>1, FS_Subset, FS_CardinalityType
      <3>2. floor \in Int
        BY <3>1, PipelineBounds
      <3>3. Cardinality(claims') * 100 < floor
        BY <2>3 DEF Collapsed
      <3> HIDE DEF floor
      <3>4. Cardinality(claims) * 100 < floor
        BY <2>4, <3>2, <3>3
      <3> QED
        BY <3>4 DEF Collapsed, floor
    <2>6. {c.ids : c \in claims} = {{k} : k \in Kept \ dropped}
      BY <2>1, <2>3, <2>5 DEF PipelineInv, DraftInv, Restored
    <2>7. \A c : Finalized(c).ids = UNION {Quotes(m) : m \in c.ids}
      BY DEF Finalized, Final
    <2>8. ASSUME NEW c, NEW k, c.ids = {k} PROVE Finalized(c).ids = Quotes(k)
      <3>1. {Quotes(m) : m \in {k}} = {Quotes(k)}
        OBVIOUS
      <3>2. UNION {Quotes(m) : m \in {k}} = Quotes(k)
        BY <3>1
      <3>3. Finalized(c).ids = UNION {Quotes(m) : m \in c.ids}
        BY <2>7
      <3> QED
        BY <2>8, <3>2, <3>3
    <2>9. \A c \in claims : \E k \in Kept \ dropped : c.ids = {k}
      BY <2>6
    <2>10. \A k \in Kept \ dropped : \E c \in claims : c.ids = {k}
      BY <2>6
    <2>11. \A f \in claims' : f.ids \in {Quotes(k) : k \in Kept \ dropped}
      BY <2>4, <2>8, <2>9
    <2>12. \A k \in Kept \ dropped : Quotes(k) \in {f.ids : f \in claims'}
      BY <2>4, <2>8, <2>10
    <2> QED
      BY <2>11, <2>12
  <1>2. CASE DropUnclean
    <2>1. UNCHANGED <<size, target, dropped, flaws, pc>> /\ pc = "hygiene"
             /\ claims' \union cleaned' = claims \union cleaned
      BY <1>2 DEF DropUnclean, Remove
    <2>2. Kept' = Kept /\ \A k : Quotes(k)' = Quotes(k)
      BY <2>1, SameFolding
    <2> QED
      BY <2>1, <2>2 DEF PipelineInv, CollapseIsUndone, Collapsed, honest
  <1>3. CASE UNCHANGED vars
    <2>1. Kept' = Kept /\ \A k : Quotes(k)' = Quotes(k)
      BY <1>3, SameFolding DEF vars
    <2> QED
      BY <1>3, <2>1 DEF vars, PipelineInv, CollapseIsUndone, Collapsed, honest
  <1>4. CASE \/ Extract \/ Premerge \/ Join \/ ValidateMerges \/ EnforceRetention
             \/ \E g \in 1..MaxCandidates : Consolidate(g) \/ ConsolidateFails(g)
             \/ EndHygiene \/ MergeNearDuplicates \/ EndConsolidation
             \/ MergeRestatements \/ EndDedupe \/ DropUnsupported \/ EndSupport
             \/ Cap \/ MalformedAnswer
    <2>1. pc' # "hygiene"
      BY <1>4, AnswersStay
      DEF Extract, Premerge, Join, ValidateMerges, EnforceRetention, EndHygiene,
                  MergeNearDuplicates, EndConsolidation, MergeRestatements,
                  EndDedupe, DropUnsupported, EndSupport, Cap, MalformedAnswer
    <2> QED
      BY <2>1 DEF CollapseIsUndone
  <1> QED
    BY <1>1, <1>2, <1>3, <1>4 DEF Next

\* The invariant of the pipeline holds in every reachable state.
THEOREM PipelineInvariant == Spec => []PipelineInv
  <1>1. ASSUME PipelineInv, [Next]_vars PROVE PipelineInv'
    BY <1>1, FoldStep, AnswersStep, DraftStep, FinalStep, CollapseStep
       DEF PipelineInv
  <1> QED
    BY <1>1, PipelineInit, PTL DEF Spec

-----------------------------------------------------------------------------
(* The properties.                                                         *)

\* For any number of candidates and any answers of the models: no final claim
\* says a number that is in none of its quotes, through every fold, split,
\* fallback, merge and drop of the pipeline.
THEOREM GroundedTheorem == Spec => []ClaimsAreGrounded
  <1>1. PipelineInv => ClaimsAreGrounded
    BY DEF PipelineInv, FinalInv, ClaimsAreGrounded, AccountFor, Gone
  <1> QED
    BY <1>1, PipelineInvariant, PTL

\* Every candidate, folded ones included, is in a claim, in a claim that a
\* named rule dropped, or behind one the consolidator dropped.
THEOREM NoneLostTheorem == Spec => []NoCandidateIsLost
  <1>1. PipelineInv => NoCandidateIsLost
    BY DEF PipelineInv, FinalInv, NoCandidateIsLost, AccountFor, DroppedQuotes
  <1> QED
    BY <1>1, PipelineInvariant, PTL

\* While the consolidator names only what it was shown, no candidate counts
\* twice.
THEOREM OneClaimTheorem == Spec => []OneClaimPerCandidate
  <1>1. PipelineInv => OneClaimPerCandidate
    BY DEF PipelineInv, FinalInv, OneClaimPerCandidate, AccountFor, DroppedQuotes,
           Apart
  <1> QED
    BY <1>1, PipelineInvariant, PTL

\* Too few claims are finalized only when the consolidator dropped the rest:
\* for any floor, any groups and any answers that name what they were shown.
THEOREM CollapseTheorem == Spec => []CollapseIsUndone
  <1>1. PipelineInv => CollapseIsUndone
    BY DEF PipelineInv
  <1> QED
    BY <1>1, PipelineInvariant, PTL

=============================================================================
