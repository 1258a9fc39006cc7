---------------------------- MODULE HermesProofs ----------------------------
(***************************************************************************)
(* Proofs about the language model: the passes of a recognition and what   *)
(* they leave, and the connection that its calls are made through.         *)
(***************************************************************************)
EXTENDS RecognitionPasses, ModelCalls, ModelSettings, WellFoundedInduction, SequenceTheorems,
        TLAPS

(***************************************************************************)
(* Proofs about the passes of a recognition and their cache: for any       *)
(* number of files with one workbook, any structures, recovery keys and    *)
(* releases, however workers overlap, fail and are run again.              *)
(***************************************************************************)

Open == {k \in Keys : finals[k] = None \/ Compatible(finals[k])}

(* Nothing is of a later release than the one that runs.                      *)
EntriesAreOlder ==
  /\ \A k \in Keys : /\ finals[k] # None => finals[k].release <= release
                     /\ fasts[k] # None => fasts[k].release <= release
                     /\ structures[k] # None => structures[k].release <= release
  /\ \A i \in Items : proposal[i] # None => proposal[i].release <= release

(* The key a recognition asks under stays the key of its release; what it     *)
(* holds was made in this release, and a cached result is the entry's.        *)
PassFits(p) ==
  /\ p \notin {Waiting, Finished} => p.key = CacheKey
  /\ p.at \in {"review", "final", "cached"} => p.result.release = release
  /\ p.at = "cached" => p.key # Fresh /\ finals[p.key] = p.result
  /\ p.at = "chunks" =>
       /\ p.uncertain = p.request.uncertain
       /\ \A n \in DOMAIN p.answers : p.answers[n].of = p.request

(* The proposals of this release hold the final entry of its key.             *)
OneDecision ==
  \A i \in Items :
    proposal[i] # None /\ proposal[i].release = release /\ CacheKey # Fresh =>
      finals[CacheKey] = proposal[i]

CheckpointsAreTrue ==
  /\ \A k \in Keys : structures[k] # None =>
                       structures[k].uncertain = structures[k].structure.uncertain
  /\ \A c \in chunks : c.answer.of = c.of

(* A structure is stored once in a release, unless its key is a fresh one.    *)
PaidSoFar ==
  \A i \in Items :
    /\ asked[i] <= release
    /\ asked[i] = release /\ CacheKey # Fresh => Compatible(structures[CacheKey])
    /\ pass[i].at = "structure" /\ pass[i].key # Fresh => asked[i] < release

GovernedIfUncertain(result) ==
  result.structure.uncertain /\ result.structure.parts > 0 => result.governed

(* What one recognition at a time can rely on: the fast result of this        *)
(* release was merged under the structure checkpoint beside it.               *)
PassIsCareful(p) ==
  /\ p.at = "structure" /\ p.key # Fresh => ~Compatible(fasts[p.key])
  /\ p.at = "chunks" /\ p.key # Fresh =>
       Compatible(structures[p.key]) /\ structures[p.key].structure = p.request
  /\ p.at = "review" => p.uncertain = p.result.structure.uncertain
  /\ p.at \in {"final", "cached"} => GovernedIfUncertain(p.result)

Careful ==
  /\ \A i, j \in Items : Active(i) /\ Active(j) => i = j
  /\ \A k \in Keys : Compatible(fasts[k]) =>
       Compatible(structures[k]) /\ structures[k].structure = fasts[k].structure
  /\ \A i \in Items : PassIsCareful(pass[i])
  /\ \A i \in Items : proposal[i] # None => GovernedIfUncertain(proposal[i])
  /\ \A k \in Keys : finals[k] # None => GovernedIfUncertain(finals[k])

RecognitionInv ==
  /\ RecognitionTypeOK
  /\ EntriesAreOlder
  /\ \A i \in Items : PassFits(pass[i])
  /\ OneDecision
  /\ SameWorkbookSameDecision
  /\ CheckpointsAreTrue
  /\ MergedFromOneRequest
  /\ PaidSoFar
  /\ ~concurrent => Careful

-----------------------------------------------------------------------------
(* Entries and passes *)

LEMMA PassNumbers == RecoveryLimit \in Nat \ {0} /\ Releases \in Nat \ {0}
BY RecognitionAssumption

LEMMA StructureFields ==
  ASSUME NEW s \in Structures
  PROVE  s.parts \in Nat /\ s.uncertain \in BOOLEAN
<1>1. s \in [parts: Nat, uncertain: BOOLEAN]
  BY RecognitionAssumption
<1>. QED
  BY <1>1

LEMMA ResultFields ==
  ASSUME NEW r \in Result
  PROVE  /\ r.structure \in Structures /\ r.request \in Structures /\ r.answers \in Seq(Answer)
         /\ r.governed \in BOOLEAN /\ r.release \in 1..Releases /\ r # None
<1>. DEFINE S == Seq(Answer)
            R == 1..Releases
<1>. HIDE DEF S, R
<1>1. Result = [structure: Structures, request: Structures, answers: S, governed: BOOLEAN,
                release: R]
  BY DEF Result, S, R
<1>2. /\ r.structure \in Structures /\ r.request \in Structures /\ r.answers \in S
      /\ r.governed \in BOOLEAN /\ r.release \in R
  BY <1>1
<1>3. r # None
  BY <1>1 DEF None
<1>. QED
  BY <1>2, <1>3 DEF S, R

LEMMA CheckpointFields ==
  ASSUME NEW entry \in Checkpoint
  PROVE  /\ entry.structure \in Structures /\ entry.uncertain \in BOOLEAN
         /\ entry.release \in 1..Releases /\ entry # None
<1>. DEFINE R == 1..Releases
<1>. HIDE DEF R
<1>1. Checkpoint = [structure: Structures, uncertain: BOOLEAN, release: R]
  BY DEF Checkpoint, R
<1>2. entry.structure \in Structures /\ entry.uncertain \in BOOLEAN /\ entry.release \in R
  BY <1>1
<1>3. entry # None
  BY <1>1 DEF None
<1>. QED
  BY <1>2, <1>3 DEF R

LEMMA PassKinds ==
  ASSUME NEW p \in Passes
  PROVE  /\ p.at \in {"waiting", "finished", "structure", "chunks", "review", "final", "cached"}
         /\ p \in {Waiting, Finished} <=> p.at \in {"waiting", "finished"}
         /\ p \notin {Waiting, Finished} => p.key \in AnyKey
         /\ p.at = "chunks" => /\ p.request \in Structures /\ p.uncertain \in BOOLEAN
                              /\ p.answers \in Seq(Answer)
         /\ p.at \in {"review", "final", "cached"} => p.result \in Result
         /\ p.at = "review" => p.uncertain \in BOOLEAN /\ p.unrepaired \in BOOLEAN
<1>. DEFINE S == Seq(Answer)
<1>. HIDE DEF S
<1>1. p \in {Waiting, Finished}
            \cup [at: {"structure"}, key: AnyKey]
            \cup [at: {"chunks"}, key: AnyKey, request: Structures, uncertain: BOOLEAN,
                  answers: S]
            \cup [at: {"review"}, key: AnyKey, result: Result, uncertain: BOOLEAN,
                  unrepaired: BOOLEAN]
            \cup [at: {"final", "cached"}, key: AnyKey, result: Result]
  BY DEF Passes, S
<1>2. CASE p \in {Waiting, Finished}
  BY <1>2 DEF Waiting, Finished
<1>3. CASE p \in [at: {"structure"}, key: AnyKey]
  BY <1>3 DEF Waiting, Finished
<1>4. CASE p \in [at: {"chunks"}, key: AnyKey, request: Structures, uncertain: BOOLEAN,
                  answers: S]
  <2>1. /\ p.at = "chunks" /\ p.request \in Structures /\ p.uncertain \in BOOLEAN
        /\ p.answers \in S /\ p.key \in AnyKey
    BY <1>4
  <2>. QED
    BY <2>1 DEF Waiting, Finished, S
<1>5. CASE p \in [at: {"review"}, key: AnyKey, result: Result, uncertain: BOOLEAN,
                  unrepaired: BOOLEAN]
  BY <1>5 DEF Waiting, Finished
<1>6. CASE p \in [at: {"final", "cached"}, key: AnyKey, result: Result]
  BY <1>6 DEF Waiting, Finished
<1>. QED
  BY <1>1, <1>2, <1>3, <1>4, <1>5, <1>6

LEMMA PassShapes ==
  /\ Waiting \in Passes /\ Finished \in Passes
  /\ \A key \in AnyKey : [at |-> "structure", key |-> key] \in Passes
  /\ \A key \in AnyKey, request \in Structures, uncertain \in BOOLEAN, answers \in Seq(Answer) :
       [at |-> "chunks", key |-> key, request |-> request, uncertain |-> uncertain,
        answers |-> answers] \in Passes
  /\ \A key \in AnyKey, result \in Result, uncertain \in BOOLEAN, unrepaired \in BOOLEAN :
       [at |-> "review", key |-> key, result |-> result, uncertain |-> uncertain,
        unrepaired |-> unrepaired] \in Passes
  /\ \A key \in AnyKey, result \in Result, at \in {"final", "cached"} :
       [at |-> at, key |-> key, result |-> result] \in Passes
<1>. HIDE DEF Result
<1>. QED
  BY DEF Passes

(* The key of a release is its first open one, if there is any.               *)
LEMMA KeyIsOpen ==
  /\ CacheKey = Fresh <=> Open = {}
  /\ CacheKey # Fresh => CacheKey \in Open
  /\ CacheKey \in AnyKey
<1>1. CacheKey = IF Open = {} THEN Fresh ELSE Min(Open)
  BY DEF CacheKey, Open
<1>2. Open \subseteq Nat /\ 0 \notin Open /\ Open \subseteq Keys
  BY PassNumbers DEF Open, Keys
<1>3. ASSUME Open # {} PROVE Min(Open) \in Open
  <2>1. IsWellFoundedOn(OpToRel(<, Nat), Nat)
    BY NatLessThanWellFounded
  <2>2. \E x \in Open : \A y \in Open : ~ (<<y, x>> \in OpToRel(<, Nat))
    BY <1>2, <1>3, <2>1, WFMin
  <2>3. \E x \in Open : \A y \in Open : x =< y
    <3>1. \A y, x \in Nat : y < x => <<y, x>> \in OpToRel(<, Nat)
      BY DEF OpToRel
    <3>2. PICK x \in Open : \A y \in Open : ~ (<<y, x>> \in OpToRel(<, Nat))
      BY <2>2
    <3>3. \A y \in Open : ~(y < x)
      BY <1>2, <3>1, <3>2
    <3>. QED
      BY <1>2, <3>3
  <2>. QED
    BY <2>3 DEF Min
<1>. QED
  BY <1>1, <1>2, <1>3 DEF Fresh, AnyKey

LEMMA RecognitionFirst == RecognitionInit => RecognitionInv
<1>. SUFFICES ASSUME RecognitionInit PROVE RecognitionInv
  OBVIOUS
<1>1. /\ \A k \in Keys : finals[k] = None /\ fasts[k] = None /\ structures[k] = None
      /\ chunks = {} /\ release = 1 /\ concurrent = FALSE
      /\ \A i \in Items : pass[i] = Waiting /\ proposal[i] = None /\ asked[i] = 0
  BY DEF RecognitionInit
<1>2. RecognitionTypeOK
  <2>1. Waiting \in Passes
    BY PassShapes
  <2>2. 1 \in 1..Releases
    BY PassNumbers
  <2>. QED
    BY <2>1, <2>2 DEF RecognitionInit, RecognitionTypeOK
<1>3. EntriesAreOlder /\ OneDecision /\ SameWorkbookSameDecision /\ CheckpointsAreTrue
      /\ MergedFromOneRequest
  BY <1>1 DEF EntriesAreOlder, OneDecision, SameWorkbookSameDecision, CheckpointsAreTrue,
     MergedFromOneRequest
<1>4. \A i \in Items : PassFits(pass[i]) /\ PassIsCareful(pass[i]) /\ ~Active(i)
  BY <1>1 DEF PassFits, PassIsCareful, Active, Waiting
<1>5. PaidSoFar
  <2>1. \A i \in Items : pass[i].at # "structure"
    BY <1>1 DEF Waiting
  <2>. QED
    BY <1>1, <2>1 DEF PaidSoFar
<1>6. Careful
  BY <1>1, <1>4 DEF Careful, Compatible
<1>. QED
  BY <1>2, <1>3, <1>4, <1>5, <1>6 DEF RecognitionInv

-----------------------------------------------------------------------------
(* What a step leaves as it is *)

(* Within a release the open keys stay the same, and so the key that          *)
(* recognitions ask under: a final entry is only added where a key was open.  *)
LEMMA PassKeyStays ==
  ASSUME release' = release,
         \A k \in Keys : \/ finals'[k] = finals[k]
                         \/ k \in Open /\ finals'[k].release = release
  PROVE  CacheKey' = CacheKey
<1>1. Open' = Open
  BY DEF Open, Compatible
<1>. QED
  BY <1>1 DEF CacheKey, Open

LEMMA PassesFit ==
  ASSUME RecognitionInv, NEW i \in Items, NEW p \in Passes, pass' = [pass EXCEPT ![i] = p],
         release' = release, CacheKey' = CacheKey, PassFits(p)',
         \A k \in Keys : finals[k] # None => finals'[k] = finals[k]
  PROVE  \A j \in Items : PassFits(pass[j])'
<1>. SUFFICES ASSUME NEW j \in Items PROVE PassFits(pass[j])'
  OBVIOUS
<1>1. pass \in [Items -> Passes] /\ PassFits(pass[j]) /\ pass[j] \in Passes
  BY DEF RecognitionInv, RecognitionTypeOK
<1>2. CASE j = i
  <2>1. pass'[j] = p
    BY <1>1, <1>2
  <2>. QED
    BY <2>1 DEF PassFits
<1>3. CASE j # i
  <2>1. pass'[j] = pass[j]
    BY <1>1, <1>3
  <2>2. pass[j].at = "cached" => finals'[pass[j].key] = pass[j].result
    <3>1. SUFFICES ASSUME pass[j].at = "cached" PROVE finals'[pass[j].key] = pass[j].result
      OBVIOUS
    <3>2. pass[j].key \in AnyKey /\ pass[j].key # Fresh /\ pass[j].result # None
          /\ finals[pass[j].key] = pass[j].result
      BY <1>1, <3>1, PassKinds, ResultFields DEF PassFits
    <3>. QED
      BY <3>2 DEF AnyKey
  <2>. QED
    BY <1>1, <2>1, <2>2 DEF PassFits
<1>. QED
  BY <1>2, <1>3

(* While no two recognitions overlap, the others rest when one makes a step.  *)
LEMMA CarefulStays ==
  ASSUME RecognitionInv, Careful, NEW i \in Items, NEW p \in Passes,
         pass' = [pass EXCEPT ![i] = p], \A j \in Items \ {i} : ~Active(j),
         PassIsCareful(p)',
         \A k \in Keys : Compatible(fasts[k])' =>
            Compatible(structures[k])' /\ structures'[k].structure = fasts'[k].structure,
         \A j \in Items : proposal'[j] = proposal[j] \/ GovernedIfUncertain(proposal'[j]),
         \A k \in Keys : finals'[k] = finals[k] \/ GovernedIfUncertain(finals'[k])
  PROVE  Careful'
<1>1. pass \in [Items -> Passes]
  BY DEF RecognitionInv, RecognitionTypeOK
<1>2. \A j \in Items : pass'[j] = IF j = i THEN p ELSE pass[j]
  BY <1>1
<1>3. \A j \in Items \ {i} : pass'[j] \in {Waiting, Finished}
  BY <1>2 DEF Active
<1>4. \A j \in Items : PassIsCareful(pass[j])'
  <2>1. \A q : q \in {Waiting, Finished} => PassIsCareful(q)'
    BY DEF PassIsCareful, Waiting, Finished
  <2>2. ASSUME NEW j \in Items, j # i PROVE PassIsCareful(pass[j])'
    BY <1>3, <2>1, <2>2 DEF PassIsCareful
  <2>3. PassIsCareful(pass[i])'
    BY <1>2 DEF PassIsCareful
  <2>. QED
    BY <2>2, <2>3
<1>5. \A j, k \in Items : Active(j)' /\ Active(k)' => j = k
  BY <1>3 DEF Active
<1>6. \A j \in Items : proposal'[j] # None => GovernedIfUncertain(proposal'[j])
  BY DEF Careful
<1>7. \A k \in Keys : finals'[k] # None => GovernedIfUncertain(finals'[k])
  BY DEF Careful
<1>. QED
  BY <1>4, <1>5, <1>6, <1>7 DEF Careful, GovernedIfUncertain

(* The other recognitions rest while one is under way, unless some overlapped. *)
LEMMA OthersRest ==
  ASSUME Careful, NEW i \in Items, Active(i)
  PROVE  \A j \in Items \ {i} : ~Active(j)
BY DEF Careful

-----------------------------------------------------------------------------
(* Each step of a recognition *)

(* What a consultation of the cache finds.                                    *)
Finds(p) ==
  /\ p \notin {Waiting, Finished} /\ p.key = CacheKey
  /\ \/ /\ p.at = "cached" /\ CacheKey # Fresh
        /\ Compatible(finals[CacheKey]) /\ p.result = finals[CacheKey]
     \/ /\ p.at = "review" /\ CacheKey # Fresh /\ Compatible(fasts[CacheKey])
        /\ p.result.structure = fasts[CacheKey].structure
        /\ p.result.release = release
        /\ p.uncertain = (/\ Compatible(structures[CacheKey])
                          /\ structures[CacheKey].uncertain)
     \/ /\ p.at = "chunks" /\ CacheKey # Fresh
        /\ Compatible(structures[CacheKey]) /\ ~Compatible(fasts[CacheKey])
        /\ p.request = structures[CacheKey].structure
        /\ p.uncertain = structures[CacheKey].uncertain /\ p.answers = <<>>
     \/ /\ p.at = "structure"
        /\ CacheKey # Fresh => ~Compatible(structures[CacheKey]) /\ ~Compatible(fasts[CacheKey])

LEMMA RecognizeFinds ==
  ASSUME RecognitionTypeOK, NEW i \in Items, Recognize(i)
  PROVE  \E p \in Passes : pass' = [pass EXCEPT ![i] = p] /\ Finds(p)
<1>. DEFINE key == CacheKey
            found(table) == IF key = Fresh THEN None ELSE table[key]
            fast == found(fasts)
            saved == found(structures)
            known == Compatible(saved)
<1>1. /\ key \in AnyKey
      /\ key # Fresh => /\ key \in Keys /\ finals[key] \in Result \cup {None}
                        /\ fasts[key] \in Result \cup {None}
                        /\ structures[key] \in Checkpoint \cup {None}
  <2>1. key \in AnyKey
    BY KeyIsOpen
  <2>. QED
    BY <2>1 DEF RecognitionTypeOK, AnyKey
<1>2. ~Compatible(None)
  BY DEF Compatible
<1>3. IF Compatible(found(finals))
        THEN Set(i, [at |-> "cached", key |-> key, result |-> finals[key]])
      ELSE IF Compatible(fast)
        THEN Set(i, [at |-> "review", key |-> key,
                     result |-> [fast EXCEPT !.request =
                                   IF known THEN saved.structure ELSE fast.structure],
                     uncertain |-> known /\ saved.uncertain, unrepaired |-> FALSE])
      ELSE IF known
        THEN Set(i, [at |-> "chunks", key |-> key, request |-> saved.structure,
                     uncertain |-> saved.uncertain, answers |-> <<>>])
      ELSE Set(i, [at |-> "structure", key |-> key])
  BY Zenon DEF Recognize
<1>. HIDE DEF key
<1>4. CASE Compatible(found(finals))
  <2>. DEFINE p == [at |-> "cached", key |-> key, result |-> finals[key]]
  <2>1. key # Fresh /\ Compatible(finals[key]) /\ finals[key] \in Result
    BY <1>1, <1>2, <1>4 DEF Compatible
  <2>2. p \in Passes
    BY <1>1, <2>1, PassShapes
  <2>3. pass' = [pass EXCEPT ![i] = p]
    BY <1>3, <1>4 DEF Set
  <2>4. Finds(p)
    BY <2>1, <2>3 DEF Waiting, Finished, Finds, key
  <2>. QED
    BY <2>2, <2>3, <2>4
<1>5. CASE ~Compatible(found(finals)) /\ Compatible(fast)
  <2>. DEFINE result == [fast EXCEPT !.request =
                           IF known THEN saved.structure ELSE fast.structure]
              uncertain == known /\ saved.uncertain
              p == [at |-> "review", key |-> key, result |-> result,
                    uncertain |-> uncertain, unrepaired |-> FALSE]
  <2>1. key # Fresh /\ Compatible(fasts[key]) /\ fasts[key] \in Result
        /\ fast = fasts[key] /\ saved = structures[key]
    BY <1>1, <1>2, <1>5 DEF Compatible
  <2>2. known => structures[key] \in Checkpoint
    BY <1>1, <2>1 DEF Compatible
  <2>3. known => saved.structure \in Structures /\ saved.uncertain \in BOOLEAN
    BY <2>1, <2>2, CheckpointFields
  <2>4. result \in Result /\ result.structure = fasts[key].structure
        /\ result.release = fasts[key].release
    BY <2>1, <2>3, ResultFields DEF Result
  <2>5. uncertain \in BOOLEAN /\ fasts[key].release = release
    BY <2>1, <2>3 DEF Compatible
  <2>6. pass' = [pass EXCEPT ![i] = p]
    BY <1>3, <1>5 DEF Set
  <2>7. uncertain = (Compatible(structures[key]) /\ structures[key].uncertain)
    BY <2>1
  <2>. HIDE DEF result, uncertain, fast, saved, known
  <2>8. p \in Passes
    BY <1>1, <2>4, <2>5, PassShapes
  <2>9. Finds(p)
    BY <2>1, <2>4, <2>5, <2>6, <2>7 DEF Waiting, Finished, Finds, key
  <2>. QED
    BY <2>6, <2>8, <2>9
<1>6. CASE ~Compatible(found(finals)) /\ ~Compatible(fast) /\ known
  <2>. DEFINE p == [at |-> "chunks", key |-> key, request |-> saved.structure,
                    uncertain |-> saved.uncertain, answers |-> <<>>]
  <2>1. key # Fresh /\ saved = structures[key] /\ fast = fasts[key]
        /\ structures[key] \in Checkpoint
    BY <1>1, <1>2, <1>6 DEF Compatible
  <2>2. saved.structure \in Structures /\ saved.uncertain \in BOOLEAN
    BY <2>1, CheckpointFields
  <2>3. <<>> \in Seq(Answer)
    OBVIOUS
  <2>4. pass' = [pass EXCEPT ![i] = p]
    BY <1>3, <1>6 DEF Set
  <2>5. p \in Passes
    BY <1>1, <2>2, <2>3, PassShapes
  <2>6. Finds(p)
    BY <1>6, <2>1, <2>4 DEF Waiting, Finished, Finds, key
  <2>. QED
    BY <2>4, <2>5, <2>6
<1>7. CASE ~Compatible(found(finals)) /\ ~Compatible(fast) /\ ~known
  <2>. DEFINE p == [at |-> "structure", key |-> key]
  <2>1. pass' = [pass EXCEPT ![i] = p]
    BY <1>3, <1>7 DEF Set
  <2>2. p \in Passes
    BY <1>1, PassShapes
  <2>3. Finds(p)
    BY <1>7, <2>1 DEF Waiting, Finished, Finds, key
  <2>. QED
    BY <2>1, <2>2, <2>3
<1>. QED
  BY <1>4, <1>5, <1>6, <1>7

LEMMA RecognizeStep ==
  ASSUME RecognitionInv, NEW i \in Items, Recognize(i)
  PROVE  RecognitionInv'
<1>1. RecognitionTypeOK
  BY DEF RecognitionInv
<1>2. PICK p \in Passes : pass' = [pass EXCEPT ![i] = p] /\ Finds(p)
  BY <1>1, RecognizeFinds
<1>3. /\ UNCHANGED <<finals, fasts, structures, chunks, release, proposal, asked>>
      /\ concurrent' = (concurrent \/ \E j \in Items \ {i} : Active(j))
  BY DEF Recognize, cacheVars
<1>4. CacheKey' = CacheKey
  BY <1>3, PassKeyStays
<1>5. CacheKey # Fresh => CacheKey \in Keys
  BY KeyIsOpen DEF AnyKey
<1>6. RecognitionTypeOK'
  BY <1>1, <1>2, <1>3 DEF RecognitionTypeOK
<1>7. p.at = "chunks" =>
        /\ p.uncertain = p.request.uncertain
        /\ \A n \in DOMAIN p.answers : p.answers[n].of = p.request
  <2>. SUFFICES ASSUME p.at = "chunks"
                PROVE  /\ p.uncertain = p.request.uncertain
                       /\ \A n \in DOMAIN p.answers : p.answers[n].of = p.request
    OBVIOUS
  <2>1. /\ CacheKey \in Keys /\ Compatible(structures[CacheKey]) /\ p.answers = <<>>
        /\ p.request = structures[CacheKey].structure
        /\ p.uncertain = structures[CacheKey].uncertain
    BY <1>2, <1>5 DEF Finds
  <2>2. p.uncertain = p.request.uncertain
    BY <2>1 DEF RecognitionInv, CheckpointsAreTrue, Compatible
  <2>3. DOMAIN p.answers = {}
    BY <2>1
  <2>. QED
    BY <2>2, <2>3
<1>8. PassFits(p)'
  BY <1>2, <1>3, <1>4, <1>7 DEF PassFits, Finds, Compatible
<1>9. \A j \in Items : PassFits(pass[j])'
  BY <1>2, <1>3, <1>4, <1>8, PassesFit
<1>10. PaidSoFar'
  <2>. SUFFICES ASSUME NEW j \in Items
                PROVE  /\ asked[j] <= release
                       /\ asked[j] = release /\ CacheKey # Fresh =>
                            Compatible(structures[CacheKey])
                       /\ pass'[j].at = "structure" /\ pass'[j].key # Fresh => asked[j] < release
    BY <1>3, <1>4 DEF PaidSoFar, Compatible
  <2>1. /\ asked[j] <= release /\ asked[j] \in Nat /\ release \in Nat
        /\ asked[j] = release /\ CacheKey # Fresh => Compatible(structures[CacheKey])
    BY <1>1, PassNumbers DEF RecognitionInv, PaidSoFar, RecognitionTypeOK
  <2>2. pass'[j].at = "structure" /\ pass'[j].key # Fresh => asked[j] < release
    <3>1. CASE j # i
      BY <1>1, <1>2, <3>1 DEF RecognitionInv, PaidSoFar, RecognitionTypeOK
    <3>2. CASE j = i
      <4>1. pass'[j] = p
        BY <1>1, <1>2, <3>2 DEF RecognitionTypeOK
      <4>2. p.at = "structure" /\ p.key # Fresh => ~Compatible(structures[CacheKey])
        BY <1>2 DEF Finds
      <4>3. p.at = "structure" /\ p.key # Fresh => asked[j] # release
        BY <1>2, <2>1, <4>2 DEF Finds
      <4>. QED
        BY <2>1, <4>1, <4>3
    <3>. QED
      BY <3>1, <3>2
  <2>. QED
    BY <2>1, <2>2
<1>11. ASSUME ~concurrent' PROVE Careful'
  <2>1. ~concurrent /\ Careful /\ \A j \in Items \ {i} : ~Active(j)
    BY <1>3, <1>11 DEF RecognitionInv
  <2>2. CacheKey # Fresh /\ Compatible(fasts[CacheKey]) =>
          /\ Compatible(structures[CacheKey])
          /\ structures[CacheKey].structure = fasts[CacheKey].structure
          /\ structures[CacheKey].uncertain = structures[CacheKey].structure.uncertain
    BY <1>5, <2>1 DEF Careful, RecognitionInv, CheckpointsAreTrue, Compatible
  <2>3. CacheKey # Fresh /\ Compatible(finals[CacheKey]) =>
          GovernedIfUncertain(finals[CacheKey])
    BY <1>5, <2>1 DEF Careful, Compatible
  <2>4. p.at = "review" => p.uncertain = p.result.structure.uncertain
    <3>. SUFFICES ASSUME p.at = "review" PROVE p.uncertain = p.result.structure.uncertain
      OBVIOUS
    <3>1. /\ CacheKey # Fresh /\ Compatible(fasts[CacheKey])
          /\ p.result.structure = fasts[CacheKey].structure
          /\ p.uncertain = (Compatible(structures[CacheKey]) /\ structures[CacheKey].uncertain)
      BY <1>2 DEF Finds
    <3>2. structures[CacheKey] \in Checkpoint
      BY <1>1, <1>5, <2>2, <3>1 DEF RecognitionTypeOK, Compatible
    <3>3. structures[CacheKey].uncertain \in BOOLEAN
      BY <3>2, CheckpointFields
    <3>. QED
      BY <2>2, <3>1, <3>3
  <2>5. PassIsCareful(p)
    BY <1>2, <2>3, <2>4 DEF PassIsCareful, Finds
  <2>6. PassIsCareful(p)'
    BY <1>3, <2>5 DEF PassIsCareful, GovernedIfUncertain, Compatible
  <2>7. \A k \in Keys : Compatible(fasts[k])' =>
            Compatible(structures[k])' /\ structures'[k].structure = fasts'[k].structure
    BY <1>3, <2>1 DEF Careful, Compatible
  <2>. QED
    BY <1>2, <1>3, <2>1, <2>6, <2>7, CarefulStays
<1>12. EntriesAreOlder' /\ SameWorkbookSameDecision' /\ CheckpointsAreTrue'
       /\ MergedFromOneRequest'
  BY <1>3 DEF RecognitionInv, EntriesAreOlder, SameWorkbookSameDecision, CheckpointsAreTrue,
     MergedFromOneRequest
<1>13. OneDecision'
  BY <1>3, <1>4 DEF RecognitionInv, OneDecision
<1>. QED
  BY <1>6, <1>9, <1>10, <1>11, <1>12, <1>13 DEF RecognitionInv

LEMMA FreshIsNoKey == Fresh \notin Keys
BY PassNumbers DEF Fresh, Keys

(* A step that adds no final entry and no proposal keeps the decisions.       *)
LEMMA DecisionsStay ==
  ASSUME RecognitionInv, UNCHANGED <<finals, release, proposal>>
  PROVE  CacheKey' = CacheKey /\ OneDecision' /\ SameWorkbookSameDecision'
<1>1. CacheKey' = CacheKey
  BY PassKeyStays
<1>. QED
  BY <1>1 DEF RecognitionInv, OneDecision, SameWorkbookSameDecision

(* What a recognition that is under way holds.                                *)
LEMMA Holds ==
  ASSUME RecognitionInv, NEW i \in Items, Active(i)
  PROVE  /\ pass \in [Items -> Passes] /\ pass[i] \in Passes /\ PassFits(pass[i])
         /\ pass[i].key = CacheKey /\ CacheKey \in AnyKey
         /\ ~concurrent => /\ Careful /\ PassIsCareful(pass[i])
                           /\ \A j \in Items \ {i} : ~Active(j)
<1>1. pass \in [Items -> Passes] /\ pass[i] \in Passes /\ PassFits(pass[i])
  BY DEF RecognitionInv, RecognitionTypeOK
<1>2. pass[i].key = CacheKey /\ CacheKey \in AnyKey
  BY <1>1, KeyIsOpen DEF PassFits, Active
<1>3. ASSUME ~concurrent PROVE Careful /\ PassIsCareful(pass[i])
  BY <1>3 DEF RecognitionInv, Careful
<1>4. ASSUME ~concurrent PROVE \A j \in Items \ {i} : ~Active(j)
  BY <1>3, <1>4, OthersRest
<1>. QED
  BY <1>1, <1>2, <1>3, <1>4

LEMMA RecognizeStructureStep ==
  ASSUME RecognitionInv, NEW i \in Items, RecognizeStructure(i)
  PROVE  RecognitionInv'
<1>0. PICK K : K = CacheKey
  OBVIOUS
<1>1. RecognitionTypeOK /\ pass[i].at = "structure"
  BY DEF RecognitionInv, RecognizeStructure
<1>2. Active(i)
  BY <1>1 DEF Active, Waiting, Finished
<1>3. /\ pass \in [Items -> Passes] /\ pass[i] \in Passes /\ PassFits(pass[i])
      /\ pass[i].key = K /\ K \in AnyKey
      /\ ~concurrent => /\ Careful /\ PassIsCareful(pass[i])
                        /\ \A j \in Items \ {i} : ~Active(j)
  BY <1>0, <1>2, Holds
<1>4. PICK s \in Structures :
        /\ structures' = StoreStructureCheckpoint(pass[i].key, StructureCheckpoint(s))
        /\ Set(i, [at |-> "chunks", key |-> pass[i].key, request |-> s,
                   uncertain |-> s.uncertain, answers |-> <<>>])
  BY DEF RecognizeStructure
<1>5. /\ UNCHANGED <<finals, fasts, chunks, release, proposal, concurrent>>
      /\ asked' = [asked EXCEPT ![i] = IF pass[i].key = Fresh THEN @ ELSE @ + 1]
  BY DEF RecognizeStructure
<1>6. CacheKey' = K /\ OneDecision' /\ SameWorkbookSameDecision'
  BY <1>0, <1>5, DecisionsStay
<1>a. PICK q : q = [at |-> "chunks", key |-> K, request |-> s, uncertain |-> s.uncertain,
                    answers |-> <<>>]
  OBVIOUS
<1>b. PICK entry : entry = StructureCheckpoint(s)
  OBVIOUS
<1>7. /\ s.parts \in Nat /\ s.uncertain \in BOOLEAN
      /\ entry \in Checkpoint /\ entry \in Checkpoint \cup {None}
      /\ entry.structure = s /\ entry.uncertain = s.uncertain /\ entry.release = release
      /\ entry # None
  <2>1. s.parts \in Nat /\ s.uncertain \in BOOLEAN
    BY StructureFields
  <2>. DEFINE R == 1..Releases
  <2>2. release \in R
    BY <1>1 DEF RecognitionTypeOK
  <2>. HIDE DEF R
  <2>3. entry \in [structure: Structures, uncertain: BOOLEAN, release: R]
    BY <1>b, <2>1, <2>2 DEF StructureCheckpoint
  <2>4. entry \in Checkpoint
    BY <2>3 DEF Checkpoint, R
  <2>. QED
    BY <1>b, <2>1, <2>4, CheckpointFields DEF StructureCheckpoint
<1>8. /\ structures' \in [Keys -> Checkpoint \cup {None}]
      /\ \A n \in Keys : structures'[n] = IF n = K THEN entry ELSE structures[n]
  <2>. DEFINE V == Checkpoint \cup {None}
  <2>1. structures \in [Keys -> V]
    BY <1>1 DEF RecognitionTypeOK
  <2>2. structures' = Stored(structures, K, entry)
    BY <1>3, <1>4, <1>b DEF StoreStructureCheckpoint
  <2>3. entry \in V
    BY <1>7
  <2>. HIDE DEF V
  <2>4. /\ Stored(structures, K, entry) \in [Keys -> V]
        /\ \A n \in Keys : Stored(structures, K, entry)[n] =
                           IF n = K THEN entry ELSE structures[n]
    BY <1>3, <2>1, <2>3, FreshIsNoKey DEF Stored, AnyKey
  <2>. QED
    BY <2>2, <2>4 DEF V
<1>9. pass' = [pass EXCEPT ![i] = q]
  BY <1>3, <1>4, <1>a DEF Set
<1>10. q \in Passes
  <2>1. <<>> \in Seq(Answer)
    OBVIOUS
  <2>. QED
    BY <1>3, <1>7, <1>a, <2>1, PassShapes
<1>11. /\ q \notin {Waiting, Finished} /\ q.at = "chunks" /\ q.key = K /\ q.request = s
       /\ q.uncertain = s.uncertain /\ DOMAIN q.answers = {}
  BY <1>a DEF Waiting, Finished
<1>12. RecognitionTypeOK'
  <2>1. asked' \in [Items -> Nat]
    BY <1>1, <1>5 DEF RecognitionTypeOK
  <2>2. pass' \in [Items -> Passes]
    BY <1>3, <1>9, <1>10
  <2>. QED
    BY <1>1, <1>5, <1>8, <2>1, <2>2 DEF RecognitionTypeOK
<1>13. EntriesAreOlder' /\ CheckpointsAreTrue' /\ MergedFromOneRequest'
  <2>1. release \in Nat
    BY <1>1, PassNumbers DEF RecognitionTypeOK
  <2>. QED
    BY <1>5, <1>7, <1>8, <2>1
       DEF RecognitionInv, EntriesAreOlder, CheckpointsAreTrue, MergedFromOneRequest
<1>14. \A j \in Items : PassFits(pass[j])'
  <2>1. PassFits(q)'
    BY <1>6, <1>11 DEF PassFits
  <2>. QED
    BY <1>0, <1>5, <1>6, <1>9, <1>10, <2>1, PassesFit
<1>15. PaidSoFar'
  <2>. SUFFICES ASSUME NEW j \in Items
                PROVE  /\ asked'[j] <= release
                       /\ asked'[j] = release /\ K # Fresh => Compatible(structures[K])'
                       /\ pass'[j].at = "structure" /\ pass'[j].key # Fresh =>
                            asked'[j] < release
    BY <1>5, <1>6 DEF PaidSoFar, Compatible
  <2>1. /\ asked[j] <= release /\ asked[j] \in Nat /\ release \in Nat
        /\ pass[j].at = "structure" /\ pass[j].key # Fresh => asked[j] < release
        /\ asked[j] = release /\ K # Fresh => Compatible(structures[K])
    BY <1>0, <1>1, PassNumbers DEF RecognitionInv, PaidSoFar, RecognitionTypeOK
  <2>2. K # Fresh => Compatible(structures[K])'
    BY <1>3, <1>5, <1>7, <1>8 DEF Compatible, AnyKey
  <2>3. CASE j # i
    <3>1. asked'[j] = asked[j] /\ pass'[j] = pass[j]
      BY <1>1, <1>3, <1>5, <1>9, <2>3 DEF RecognitionTypeOK
    <3>. QED
      BY <2>1, <2>2, <3>1
  <2>4. CASE j = i
    <3>1. asked'[j] = (IF K = Fresh THEN asked[j] ELSE asked[j] + 1) /\ pass'[j] = q
      BY <1>1, <1>3, <1>5, <1>9, <2>4 DEF RecognitionTypeOK
    <3>2. K # Fresh => asked[j] < release
      BY <1>1, <1>3, <2>1, <2>4
    <3>3. asked'[j] <= release
      BY <2>1, <3>1, <3>2
    <3>. QED
      BY <1>11, <2>2, <3>1, <3>3
  <2>. QED
    BY <2>3, <2>4
<1>16. ASSUME ~concurrent' PROVE Careful'
  <2>1. /\ ~concurrent /\ Careful /\ PassIsCareful(pass[i])
        /\ \A j \in Items \ {i} : ~Active(j)
    BY <1>3, <1>5, <1>16
  <2>2. PassIsCareful(q)'
    BY <1>3, <1>5, <1>7, <1>8, <1>11 DEF PassIsCareful, Compatible, AnyKey
  <2>3. \A k \in Keys : Compatible(fasts[k])' =>
            Compatible(structures[k])' /\ structures'[k].structure = fasts'[k].structure
    <3>1. K # Fresh => ~Compatible(fasts[K])
      BY <1>1, <1>3, <2>1 DEF PassIsCareful
    <3>. QED
      BY <1>5, <1>8, <2>1, <3>1, FreshIsNoKey DEF Careful, Compatible
  <2>. QED
    BY <1>5, <1>9, <1>10, <2>1, <2>2, <2>3, CarefulStays
<1>. QED
  BY <1>6, <1>12, <1>13, <1>14, <1>15, <1>16 DEF RecognitionInv

(* One more answer in the hands of a pass over the chunks.                     *)
LEMMA OneMoreAnswer ==
  ASSUME NEW p \in Passes, p.at = "chunks", NEW a \in Answer, NEW q,
         q = [p EXCEPT !.answers = Append(@, a)]
  PROVE  /\ q \in Passes /\ q.at = "chunks" /\ q.key = p.key /\ q.request = p.request
         /\ q.uncertain = p.uncertain /\ q.answers = Append(p.answers, a)
<1>. DEFINE S == Seq(Answer)
            Chunking == [at: {"chunks"}, key: AnyKey, request: Structures, uncertain: BOOLEAN,
                         answers: S]
<1>. HIDE DEF S
<1>1. p \in Chunking
  BY DEF Passes, Waiting, Finished, S
<1>2. p.answers \in S
  BY <1>1
<1>3. Append(p.answers, a) \in S
  <2>. HIDE DEF Answer
  <2>. QED
    BY <1>2 DEF S
<1>4. q \in Chunking /\ q.at = "chunks" /\ q.key = p.key /\ q.request = p.request
      /\ q.uncertain = p.uncertain /\ q.answers = Append(p.answers, a)
  BY <1>1, <1>3
<1>. QED
  BY <1>4 DEF Passes, S

(* What the recognition of a chunk takes and what it leaves in the table.      *)
LEMMA ChunkIsAnswered ==
  ASSUME RecognitionInv, NEW i \in Items, RecognizeChunk(i)
  PROVE  \E a \in Answer :
           /\ pass' = [pass EXCEPT ![i] = [pass[i] EXCEPT !.answers = Append(@, a)]]
           /\ a.of = pass[i].request
           /\ chunks' \subseteq ChunkEntry /\ \A c \in chunks' : c.answer.of = c.of
<1>1. /\ pass[i].at = "chunks" /\ pass[i] \in Passes /\ chunks \subseteq ChunkEntry
      /\ \A c \in chunks : c.answer.of = c.of
      /\ release \in 1..Releases
  BY DEF RecognizeChunk, RecognitionInv, RecognitionTypeOK, CheckpointsAreTrue
<1>2. pass[i].request \in Structures /\ pass[i].answers \in Seq(Answer)
      /\ pass[i].key \in AnyKey
  BY <1>1, PassKinds DEF Waiting, Finished
<1>3. CASE LoadSemanticChunk(pass[i]) # {}
  <2>1. PICK c \in LoadSemanticChunk(pass[i]) :
          pass' = [pass EXCEPT ![i] = [pass[i] EXCEPT !.answers = Append(@, c.answer)]]
    BY <1>3 DEF RecognizeChunk, Set
  <2>2. chunks' = chunks
    BY <1>3 DEF RecognizeChunk
  <2>3. c \in chunks /\ c.of = pass[i].request
    BY DEF LoadSemanticChunk
  <2>4. c.answer \in Answer
    <3>. DEFINE R == 1..Releases
                N == Nat \ {0}
    <3>1. c \in [key: Keys, index: N, of: Structures, answer: Answer, release: R]
      BY <1>1, <2>3 DEF ChunkEntry
    <3>. HIDE DEF R, N
    <3>. QED
      BY <3>1
  <2>. QED
    BY <1>1, <2>1, <2>2, <2>3, <2>4
<1>4. CASE LoadSemanticChunk(pass[i]) = {}
  <2>1. PICK a \in [says: Says, of: {pass[i].request}] :
          /\ pass' = [pass EXCEPT ![i] = [pass[i] EXCEPT !.answers = Append(@, a)]]
          /\ chunks' = StoreSemanticChunk(pass[i], a)
    BY <1>4 DEF RecognizeChunk, Set
  <2>2. a \in Answer /\ a.of = pass[i].request
    BY <1>2 DEF Answer
  <2>3. Len(pass[i].answers) + 1 \in Nat \ {0}
    BY <1>2
  <2>. DEFINE R == 1..Releases
              N == Nat \ {0}
              index == Len(pass[i].answers) + 1
              entry == [key |-> pass[i].key, index |-> index,
                        of |-> pass[i].request, answer |-> a, release |-> release]
  <2>4. pass[i].key # Fresh => entry \in ChunkEntry
    <3>1. release \in R /\ index \in N
      BY <1>1, <2>3
    <3>. HIDE DEF R, N, index
    <3>2. pass[i].key # Fresh =>
            entry \in [key: Keys, index: N, of: Structures, answer: Answer, release: R]
      BY <1>2, <2>2, <3>1 DEF AnyKey
    <3>. QED
      BY <3>2 DEF ChunkEntry, R, N
  <2>5. entry.answer.of = entry.of
    BY <2>2
  <2>6. \A c \in chunks' : c \in chunks \/ (pass[i].key # Fresh /\ c = entry)
    BY <2>1 DEF StoreSemanticChunk
  <2>. HIDE DEF entry
  <2>. QED
    BY <1>1, <2>1, <2>2, <2>4, <2>5, <2>6
<1>. QED
  BY <1>3, <1>4

LEMMA RecognizeChunkStep ==
  ASSUME RecognitionInv, NEW i \in Items, RecognizeChunk(i)
  PROVE  RecognitionInv'
<1>0. PICK K : K = CacheKey
  OBVIOUS
<1>1. RecognitionTypeOK /\ pass[i].at = "chunks"
  BY DEF RecognitionInv, RecognizeChunk
<1>2. Active(i)
  BY <1>1 DEF Active, Waiting, Finished
<1>3. /\ pass \in [Items -> Passes] /\ pass[i] \in Passes /\ PassFits(pass[i])
      /\ pass[i].key = K /\ K \in AnyKey
      /\ ~concurrent => /\ Careful /\ PassIsCareful(pass[i])
                        /\ \A j \in Items \ {i} : ~Active(j)
  BY <1>0, <1>2, Holds
<1>4. PICK a \in Answer :
        /\ pass' = [pass EXCEPT ![i] = [pass[i] EXCEPT !.answers = Append(@, a)]]
        /\ a.of = pass[i].request
        /\ chunks' \subseteq ChunkEntry /\ \A c \in chunks' : c.answer.of = c.of
  BY ChunkIsAnswered
<1>5. UNCHANGED <<finals, fasts, structures, release, proposal, asked, concurrent>>
  BY DEF RecognizeChunk
<1>6. CacheKey' = K /\ OneDecision' /\ SameWorkbookSameDecision'
  BY <1>0, <1>5, DecisionsStay
<1>7. PICK q : q = [pass[i] EXCEPT !.answers = Append(@, a)]
  OBVIOUS
<1>8. /\ q \in Passes /\ q.at = "chunks" /\ q.key = K /\ q.request = pass[i].request
      /\ q.uncertain = pass[i].uncertain /\ q.answers = Append(pass[i].answers, a)
      /\ q \notin {Waiting, Finished}
  <2>1. /\ q \in Passes /\ q.at = "chunks" /\ q.key = pass[i].key
        /\ q.request = pass[i].request
        /\ q.uncertain = pass[i].uncertain /\ q.answers = Append(pass[i].answers, a)
    BY <1>1, <1>3, <1>7, OneMoreAnswer
  <2>. QED
    BY <1>3, <2>1 DEF Waiting, Finished
<1>9. pass' = [pass EXCEPT ![i] = q]
  BY <1>4, <1>7
<1>10. RecognitionTypeOK'
  <2>1. pass' \in [Items -> Passes]
    BY <1>3, <1>8, <1>9
  <2>. QED
    BY <1>1, <1>4, <1>5, <2>1 DEF RecognitionTypeOK
<1>11. EntriesAreOlder' /\ CheckpointsAreTrue' /\ MergedFromOneRequest'
  BY <1>4, <1>5 DEF RecognitionInv, EntriesAreOlder, CheckpointsAreTrue, MergedFromOneRequest
<1>12. \A j \in Items : PassFits(pass[j])'
  <2>1. pass[i].answers \in Seq(Answer)
    BY <1>1, <1>3, PassKinds
  <2>2. \A n \in DOMAIN pass[i].answers : pass[i].answers[n].of = pass[i].request
    BY <1>1, <1>3 DEF PassFits
  <2>3. \A n \in DOMAIN q.answers : q.answers[n].of = q.request
    <3>1. /\ DOMAIN Append(pass[i].answers, a) = 1..(Len(pass[i].answers) + 1)
          /\ \A n \in 1..(Len(pass[i].answers) + 1) :
               Append(pass[i].answers, a)[n] =
                 IF n = Len(pass[i].answers) + 1 THEN a ELSE pass[i].answers[n]
          /\ DOMAIN pass[i].answers = 1..Len(pass[i].answers)
          /\ Len(pass[i].answers) \in Nat
      BY <2>1
    <3>2. \A n \in 1..(Len(pass[i].answers) + 1) :
            n = Len(pass[i].answers) + 1 \/ n \in 1..Len(pass[i].answers)
      BY <3>1
    <3>. QED
      BY <1>4, <1>8, <2>2, <3>1, <3>2
  <2>4. q.uncertain = q.request.uncertain
    BY <1>1, <1>3, <1>8 DEF PassFits
  <2>5. PassFits(q)'
    BY <1>6, <1>8, <2>3, <2>4 DEF PassFits
  <2>. QED
    BY <1>0, <1>5, <1>6, <1>8, <1>9, <2>5, PassesFit
<1>13. PaidSoFar'
  <2>. SUFFICES ASSUME NEW j \in Items
                PROVE  pass'[j].at = "structure" /\ pass'[j].key # Fresh => asked[j] < release
    BY <1>0, <1>5, <1>6 DEF RecognitionInv, PaidSoFar, Compatible
  <2>1. pass'[j] = IF j = i THEN q ELSE pass[j]
    BY <1>3, <1>9
  <2>. QED
    BY <1>8, <2>1 DEF RecognitionInv, PaidSoFar
<1>14. ASSUME ~concurrent' PROVE Careful'
  <2>1. /\ Careful /\ PassIsCareful(pass[i]) /\ \A j \in Items \ {i} : ~Active(j)
    BY <1>3, <1>5, <1>14
  <2>2. PassIsCareful(q)'
    BY <1>1, <1>3, <1>5, <1>8, <2>1 DEF PassIsCareful, Compatible
  <2>3. \A k \in Keys : Compatible(fasts[k])' =>
            Compatible(structures[k])' /\ structures'[k].structure = fasts'[k].structure
    BY <1>5, <2>1 DEF Careful, Compatible
  <2>. QED
    BY <1>5, <1>8, <1>9, <2>1, <2>2, <2>3, CarefulStays
<1>. QED
  BY <1>6, <1>10, <1>11, <1>12, <1>13, <1>14 DEF RecognitionInv

(* A step that stores no structure and begins none keeps what was paid.       *)
LEMMA PaidStays ==
  ASSUME RecognitionInv, NEW i \in Items, NEW q, pass' = [pass EXCEPT ![i] = q],
         q.at # "structure", UNCHANGED <<structures, asked, release>>, CacheKey' = CacheKey
  PROVE  PaidSoFar'
<1>. SUFFICES ASSUME NEW j \in Items
              PROVE  pass'[j].at = "structure" /\ pass'[j].key # Fresh => asked[j] < release
  BY DEF RecognitionInv, PaidSoFar, Compatible
<1>1. pass'[j] = IF j = i THEN q ELSE pass[j]
  BY DEF RecognitionInv, RecognitionTypeOK
<1>. QED
  BY <1>1 DEF RecognitionInv, PaidSoFar

LEMMA MergeChunksStep ==
  ASSUME RecognitionInv, NEW i \in Items, MergeChunks(i)
  PROVE  RecognitionInv'
<1>0. PICK K : K = CacheKey
  OBVIOUS
<1>1. RecognitionTypeOK /\ pass[i].at = "chunks"
  BY DEF RecognitionInv, MergeChunks
<1>2. Active(i)
  BY <1>1 DEF Active, Waiting, Finished
<1>3. /\ pass \in [Items -> Passes] /\ pass[i] \in Passes /\ PassFits(pass[i])
      /\ pass[i].key = K /\ K \in AnyKey
      /\ ~concurrent => /\ Careful /\ PassIsCareful(pass[i])
                        /\ \A j \in Items \ {i} : ~Active(j)
  BY <1>0, <1>2, Holds
<1>4. /\ UNCHANGED <<finals, structures, chunks, release, proposal, asked, concurrent>>
      /\ Len(pass[i].answers) = pass[i].request.parts
  BY DEF MergeChunks
<1>5. CacheKey' = K /\ OneDecision' /\ SameWorkbookSameDecision'
  BY <1>0, <1>4, DecisionsStay
<1>6. PICK merged : merged = [structure |-> pass[i].request, request |-> pass[i].request,
                              answers |-> pass[i].answers, governed |-> FALSE,
                              release |-> release]
  OBVIOUS
<1>7. PICK q : q = [at |-> "review", key |-> K, result |-> merged,
                    uncertain |-> pass[i].uncertain,
                    unrepaired |-> Say(pass[i].answers, "unrepaired")]
  OBVIOUS
<1>8. fasts' = Stored(fasts, K, merged) /\ pass' = [pass EXCEPT ![i] = q]
  BY <1>3, <1>6, <1>7 DEF MergeChunks, Set
<1>9. /\ pass[i].request \in Structures /\ pass[i].uncertain \in BOOLEAN
      /\ pass[i].answers \in Seq(Answer) /\ release \in 1..Releases
  BY <1>1, <1>3, PassKinds DEF RecognitionTypeOK
<1>10. /\ merged \in Result /\ merged # None
       /\ merged.structure = pass[i].request /\ merged.answers = pass[i].answers
       /\ merged.release = release
  <2>. DEFINE S == Seq(Answer)
              R == 1..Releases
  <2>1. pass[i].answers \in S /\ release \in R
    BY <1>9
  <2>. HIDE DEF S, R
  <2>2. merged \in [structure: Structures, request: Structures, answers: S,
                    governed: BOOLEAN, release: R]
    BY <1>6, <1>9, <2>1
  <2>3. merged \in Result
    BY <2>2 DEF Result, S, R
  <2>. QED
    BY <1>6, <2>3, ResultFields
<1>11. /\ q \in Passes /\ q.at = "review" /\ q.key = K /\ q.result = merged
       /\ q.uncertain = pass[i].uncertain /\ q \notin {Waiting, Finished}
  <2>1. Say(pass[i].answers, "unrepaired") \in BOOLEAN
    BY DEF Say
  <2>2. q \in Passes
    BY <1>3, <1>7, <1>9, <1>10, <2>1, PassShapes
  <2>. QED
    BY <1>7, <2>2 DEF Waiting, Finished
<1>12. /\ fasts' \in [Keys -> Result \cup {None}]
       /\ \A n \in Keys : fasts'[n] = IF n = K THEN merged ELSE fasts[n]
  <2>. DEFINE V == Result \cup {None}
  <2>1. fasts \in [Keys -> V] /\ merged \in V
    BY <1>1, <1>10 DEF RecognitionTypeOK
  <2>. HIDE DEF V
  <2>2. /\ fasts' \in [Keys -> V]
        /\ \A n \in Keys : fasts'[n] = IF n = K THEN merged ELSE fasts[n]
    BY <1>3, <1>8, <2>1, FreshIsNoKey DEF Stored, AnyKey
  <2>. QED
    BY <2>2 DEF V
<1>13. RecognitionTypeOK'
  <2>1. pass' \in [Items -> Passes]
    BY <1>3, <1>8, <1>11
  <2>. QED
    BY <1>1, <1>4, <1>12, <2>1 DEF RecognitionTypeOK
<1>14. EntriesAreOlder' /\ CheckpointsAreTrue'
  <2>1. release \in Nat
    BY <1>9, PassNumbers
  <2>. QED
    BY <1>4, <1>10, <1>12, <2>1 DEF RecognitionInv, EntriesAreOlder, CheckpointsAreTrue
<1>15. MergedFromOneRequest'
  <2>1. \A n \in DOMAIN pass[i].answers : pass[i].answers[n].of = pass[i].request
    BY <1>1, <1>3 DEF PassFits
  <2>2. /\ Len(merged.answers) = merged.structure.parts
        /\ \A a \in Range(merged.answers) : a.of = merged.structure
    BY <1>4, <1>10, <2>1 DEF Range
  <2>. QED
    BY <1>12, <2>2 DEF RecognitionInv, MergedFromOneRequest
<1>16. \A j \in Items : PassFits(pass[j])'
  <2>1. PassFits(q)'
    BY <1>4, <1>5, <1>10, <1>11 DEF PassFits
  <2>. QED
    BY <1>0, <1>4, <1>5, <1>8, <1>11, <2>1, PassesFit
<1>17. PaidSoFar'
  BY <1>0, <1>4, <1>5, <1>8, <1>11, PaidStays
<1>18. ASSUME ~concurrent' PROVE Careful'
  <2>1. /\ Careful /\ PassIsCareful(pass[i]) /\ \A j \in Items \ {i} : ~Active(j)
    BY <1>3, <1>4, <1>18
  <2>2. pass[i].uncertain = pass[i].request.uncertain
    BY <1>1, <1>3 DEF PassFits
  <2>3. PassIsCareful(q)'
    BY <1>10, <1>11, <2>2 DEF PassIsCareful
  <2>4. K # Fresh =>
          Compatible(structures[K]) /\ structures[K].structure = pass[i].request
    BY <1>1, <1>3, <2>1 DEF PassIsCareful
  <2>5. \A k \in Keys : Compatible(fasts[k])' =>
            Compatible(structures[k])' /\ structures'[k].structure = fasts'[k].structure
    BY <1>4, <1>10, <1>12, <2>1, <2>4, FreshIsNoKey DEF Careful, Compatible
  <2>. QED
    BY <1>4, <1>8, <1>11, <2>1, <2>3, <2>5, CarefulStays
<1>. QED
  BY <1>5, <1>13, <1>14, <1>15, <1>16, <1>17, <1>18 DEF RecognitionInv

(* What the review makes of the result it was given.                          *)
LEMMA ReviewKeepsTheLayout ==
  ASSUME RecognitionInv, NEW i \in Items, ReviewResult(i)
  PROVE  \E r \in Result :
           /\ pass' = [pass EXCEPT ![i] = [at |-> "final", key |-> pass[i].key, result |-> r]]
           /\ r.structure = pass[i].result.structure /\ r.release = pass[i].result.release
           /\ StructureReview(pass[i]) => r.governed
<1>. DEFINE p == pass[i]
            reviewed(answers, invalid) ==
              [p.result EXCEPT
                !.answers = answers,
                !.governed = \/ Say(answers, "unclear") \/ StructureReview(p)
                             \/ p.unrepaired \/ invalid]
            S == Seq(Answer)
            R == 1..Releases
<1>1. p \in Passes /\ p.at = "review"
  BY DEF ReviewResult, RecognitionInv, RecognitionTypeOK
<1>2. p.result \in Result /\ p.unrepaired \in BOOLEAN
  BY <1>1, PassKinds
<1>3. p.result.answers \in S /\ p.result.request \in Structures
  BY <1>2, ResultFields
<1>4. ASSUME NEW answers \in S, NEW invalid \in BOOLEAN
      PROVE  /\ reviewed(answers, invalid) \in Result
             /\ reviewed(answers, invalid).structure = p.result.structure
             /\ reviewed(answers, invalid).release = p.result.release
             /\ StructureReview(p) => reviewed(answers, invalid).governed
  <2>. DEFINE governed == \/ Say(answers, "unclear") \/ StructureReview(p)
                          \/ p.unrepaired \/ invalid
  <2>1. governed \in BOOLEAN /\ (StructureReview(p) => governed)
    BY DEF Say, StructureReview
  <2>. HIDE DEF S, R
  <2>2. Result = [structure: Structures, request: Structures, answers: S,
                  governed: BOOLEAN, release: R]
    BY DEF Result, S, R
  <2>3. p.result \in [structure: Structures, request: Structures, answers: S,
                      governed: BOOLEAN, release: R]
    BY <1>2, <2>2
  <2>. HIDE DEF governed, p
  <2>4. [p.result EXCEPT !.answers = answers, !.governed = governed]
          \in [structure: Structures, request: Structures, answers: S,
               governed: BOOLEAN, release: R]
    BY <2>1, <2>3
  <2>5. LET r == [p.result EXCEPT !.answers = answers, !.governed = governed]
        IN  /\ r.structure = p.result.structure /\ r.release = p.result.release
            /\ r.governed = governed
    BY <2>3
  <2>6. reviewed(answers, invalid) =
          [p.result EXCEPT !.answers = answers, !.governed = governed]
    BY DEF governed
  <2>. HIDE DEF reviewed
  <2>. QED
    BY <2>1, <2>2, <2>4, <2>5, <2>6
<1>5. \E answers \in S, invalid \in BOOLEAN :
        pass' = [pass EXCEPT ![i] = [at |-> "final", key |-> p.key,
                                     result |-> reviewed(answers, invalid)]]
  <2>. DEFINE said(says) == [n \in 1..p.result.request.parts |->
                               [says |-> says, of |-> p.result.request]]
  <2>1. \A says \in {"clear", "unclear"} : said(says) \in S
    <3>. SUFFICES ASSUME NEW says \in {"clear", "unclear"} PROVE said(says) \in S
      OBVIOUS
    <3>1. p.result.request.parts \in Nat
      BY <1>3, StructureFields
    <3>2. [says |-> says, of |-> p.result.request] \in Answer
      BY <1>3 DEF Answer, Says
    <3>. QED
      BY <3>1, <3>2
  <2>2. \/ Set(i, [at |-> "final", key |-> p.key, result |-> reviewed(p.result.answers, TRUE)])
        \/ \E says \in {"clear", "unclear"} :
             Set(i, [at |-> "final", key |-> p.key, result |-> reviewed(said(says), FALSE)])
        \/ Set(i, [at |-> "final", key |-> p.key,
                   result |-> reviewed(p.result.answers, FALSE)])
    BY Zenon DEF ReviewResult
  <2>. HIDE DEF said, reviewed, S
  <2>. QED
    BY <1>3, <2>1, <2>2 DEF Set
<1>. HIDE DEF reviewed, S
<1>6. PICK answers \in S, invalid \in BOOLEAN :
        pass' = [pass EXCEPT ![i] = [at |-> "final", key |-> p.key,
                                     result |-> reviewed(answers, invalid)]]
  BY <1>5
<1>7. /\ reviewed(answers, invalid) \in Result
      /\ reviewed(answers, invalid).structure = p.result.structure
      /\ reviewed(answers, invalid).release = p.result.release
      /\ StructureReview(p) => reviewed(answers, invalid).governed
  BY <1>4
<1>. QED
  BY <1>6, <1>7

LEMMA ReviewResultStep ==
  ASSUME RecognitionInv, NEW i \in Items, ReviewResult(i)
  PROVE  RecognitionInv'
<1>0. PICK K : K = CacheKey
  OBVIOUS
<1>1. RecognitionTypeOK /\ pass[i].at = "review"
  BY DEF RecognitionInv, ReviewResult
<1>2. Active(i)
  BY <1>1 DEF Active, Waiting, Finished
<1>3. /\ pass \in [Items -> Passes] /\ pass[i] \in Passes /\ PassFits(pass[i])
      /\ pass[i].key = K /\ K \in AnyKey
      /\ ~concurrent => /\ Careful /\ PassIsCareful(pass[i])
                        /\ \A j \in Items \ {i} : ~Active(j)
  BY <1>0, <1>2, Holds
<1>4. UNCHANGED <<finals, fasts, structures, chunks, release, proposal, asked, concurrent>>
  BY DEF ReviewResult, cacheVars
<1>5. CacheKey' = K /\ OneDecision' /\ SameWorkbookSameDecision'
  BY <1>0, <1>4, DecisionsStay
<1>6. PICK r \in Result :
        /\ pass' = [pass EXCEPT ![i] = [at |-> "final", key |-> pass[i].key, result |-> r]]
        /\ r.structure = pass[i].result.structure /\ r.release = pass[i].result.release
        /\ StructureReview(pass[i]) => r.governed
  BY ReviewKeepsTheLayout
<1>7. PICK q : q = [at |-> "final", key |-> K, result |-> r]
  OBVIOUS
<1>8. /\ q \in Passes /\ q.at = "final" /\ q.key = K /\ q.result = r
      /\ q \notin {Waiting, Finished} /\ pass' = [pass EXCEPT ![i] = q]
  BY <1>3, <1>6, <1>7, PassShapes DEF Waiting, Finished
<1>9. RecognitionTypeOK'
  <2>1. pass' \in [Items -> Passes]
    BY <1>3, <1>8
  <2>. QED
    BY <1>1, <1>4, <2>1 DEF RecognitionTypeOK
<1>10. EntriesAreOlder' /\ CheckpointsAreTrue' /\ MergedFromOneRequest'
  BY <1>4 DEF RecognitionInv, EntriesAreOlder, CheckpointsAreTrue, MergedFromOneRequest
<1>11. \A j \in Items : PassFits(pass[j])'
  <2>1. PassFits(q)'
    BY <1>1, <1>3, <1>4, <1>5, <1>6, <1>8 DEF PassFits
  <2>. QED
    BY <1>0, <1>4, <1>5, <1>8, <2>1, PassesFit
<1>12. PaidSoFar'
  BY <1>0, <1>4, <1>5, <1>8, PaidStays
<1>13. ASSUME ~concurrent' PROVE Careful'
  <2>1. /\ Careful /\ PassIsCareful(pass[i]) /\ \A j \in Items \ {i} : ~Active(j)
    BY <1>3, <1>4, <1>13
  <2>2. GovernedIfUncertain(r)
    BY <1>1, <1>6, <2>1 DEF PassIsCareful, StructureReview, GovernedIfUncertain
  <2>3. PassIsCareful(q)'
    BY <1>8, <2>2 DEF PassIsCareful, GovernedIfUncertain
  <2>4. \A k \in Keys : Compatible(fasts[k])' =>
            Compatible(structures[k])' /\ structures'[k].structure = fasts'[k].structure
    BY <1>4, <2>1 DEF Careful, Compatible
  <2>. QED
    BY <1>4, <1>8, <2>1, <2>3, <2>4, CarefulStays
<1>. QED
  BY <1>5, <1>9, <1>10, <1>11, <1>12, <1>13 DEF RecognitionInv

(* A final entry is only added, for the result of the pass that adds it.      *)
LEMMA FinalIsAdded ==
  ASSUME RecognitionInv, NEW i \in Items, CommitProposal(i), NEW r, r = pass[i].result,
         NEW K, K = CacheKey
  PROVE  /\ r \in Result /\ r.release = release
         /\ finals' \in [Keys -> Result \cup {None}]
         /\ \A k \in Keys : \/ finals'[k] = finals[k]
                            \/ k = K /\ finals[k] = None /\ finals'[k] = r
         /\ K # Fresh => K \in Keys /\ finals'[K] = r
<1>1. RecognitionTypeOK /\ pass[i].at \in {"final", "cached"}
  BY DEF RecognitionInv, CommitProposal
<1>2. Active(i)
  BY <1>1 DEF Active, Waiting, Finished
<1>3. pass[i] \in Passes /\ PassFits(pass[i]) /\ pass[i].key = K /\ K \in AnyKey
  BY <1>2, Holds
<1>4. r \in Result /\ r.release = release
  BY <1>1, <1>3, PassKinds DEF PassFits
<1>5. CASE pass[i].at = "cached"
  BY <1>1, <1>3, <1>4, <1>5 DEF CommitProposal, PassFits, RecognitionTypeOK, AnyKey
<1>6. CASE pass[i].at = "final"
  <2>. DEFINE V == Result \cup {None}
  <2>1. /\ K # Fresh => finals[K] = None
        /\ finals' = Stored(finals, K, r) /\ r \in V /\ finals \in [Keys -> V]
    BY <1>1, <1>3, <1>4, <1>6 DEF CommitProposal, MayInsertFinal, RecognitionTypeOK
  <2>. HIDE DEF V
  <2>2. /\ finals' \in [Keys -> V]
        /\ \A n \in Keys : finals'[n] = IF n = K THEN r ELSE finals[n]
    BY <1>3, <2>1, FreshIsNoKey DEF Stored, AnyKey
  <2>. QED
    <3>1. /\ \A k \in Keys : \/ finals'[k] = finals[k]
                             \/ k = K /\ finals[k] = None /\ finals'[k] = r
          /\ K # Fresh => K \in Keys /\ finals'[K] = r
      BY <1>3, <2>1, <2>2, FreshIsNoKey DEF AnyKey
    <3>2. finals' \in [Keys -> Result \cup {None}]
      BY <2>2 DEF V
    <3>. QED
      BY <1>4, <3>1, <3>2
<1>. QED
  BY <1>1, <1>5, <1>6

LEMMA CommitProposalStep ==
  ASSUME RecognitionInv, NEW i \in Items, CommitProposal(i)
  PROVE  RecognitionInv'
<1>0. PICK K, r : K = CacheKey /\ r = pass[i].result
  OBVIOUS
<1>1. RecognitionTypeOK /\ pass[i].at \in {"final", "cached"}
  BY DEF RecognitionInv, CommitProposal
<1>2. Active(i)
  BY <1>1 DEF Active, Waiting, Finished
<1>3. /\ pass \in [Items -> Passes] /\ PassFits(pass[i]) /\ K \in AnyKey
      /\ ~concurrent => /\ Careful /\ PassIsCareful(pass[i])
                        /\ \A j \in Items \ {i} : ~Active(j)
  BY <1>0, <1>2, Holds
<1>4. /\ proposal' = [proposal EXCEPT ![i] = r] /\ pass' = [pass EXCEPT ![i] = Finished]
      /\ UNCHANGED <<fasts, structures, chunks, release, asked, concurrent>>
  BY <1>0 DEF CommitProposal, Set
<1>5. /\ r \in Result /\ r.release = release
      /\ finals' \in [Keys -> Result \cup {None}]
      /\ \A k \in Keys : \/ finals'[k] = finals[k]
                         \/ k = K /\ finals[k] = None /\ finals'[k] = r
      /\ K # Fresh => K \in Keys /\ finals'[K] = r
  BY <1>0, FinalIsAdded
<1>6. CacheKey' = K
  <2>1. \A k \in Keys : \/ finals'[k] = finals[k]
                        \/ k \in Open /\ finals'[k].release = release
    BY <1>5 DEF Open
  <2>. QED
    BY <1>0, <1>4, <2>1, PassKeyStays
<1>7. \A j \in Items : proposal'[j] = IF j = i THEN r ELSE proposal[j]
  BY <1>1, <1>4 DEF RecognitionTypeOK
<1>8. Finished \in Passes /\ Finished.at = "finished"
  BY PassShapes DEF Finished
<1>9. RecognitionTypeOK'
  <2>1. pass' \in [Items -> Passes]
    BY <1>3, <1>4, <1>8
  <2>2. proposal' \in [Items -> Result \cup {None}]
    BY <1>1, <1>4, <1>5 DEF RecognitionTypeOK
  <2>. QED
    BY <1>1, <1>4, <1>5, <2>1, <2>2 DEF RecognitionTypeOK
<1>10. EntriesAreOlder' /\ CheckpointsAreTrue' /\ MergedFromOneRequest'
  <2>1. release \in Nat
    BY <1>1, PassNumbers DEF RecognitionTypeOK
  <2>2. EntriesAreOlder'
    BY <1>4, <1>5, <1>7, <2>1 DEF RecognitionInv, EntriesAreOlder
  <2>. QED
    BY <1>4, <2>2 DEF RecognitionInv, CheckpointsAreTrue, MergedFromOneRequest
<1>11. \A j \in Items : PassFits(pass[j])'
  <2>1. PassFits(Finished)'
    BY <1>8 DEF PassFits
  <2>2. \A k \in Keys : finals[k] # None => finals'[k] = finals[k]
    BY <1>5
  <2>. QED
    BY <1>0, <1>4, <1>6, <1>8, <2>1, <2>2, PassesFit
<1>12. OneDecision'
  <2>. SUFFICES ASSUME NEW j \in Items, proposal'[j] # None, proposal'[j].release = release,
                       K # Fresh
                PROVE  finals'[K] = proposal'[j]
    BY <1>4, <1>6 DEF OneDecision
  <2>1. CASE j = i
    BY <1>5, <1>7, <2>1
  <2>2. CASE j # i
    BY <1>0, <1>5, <1>7, <2>2 DEF RecognitionInv, OneDecision
  <2>. QED
    BY <2>1, <2>2
<1>13. SameWorkbookSameDecision'
  <2>. SUFFICES ASSUME NEW j \in Items, NEW k \in Items, NEW a, NEW b,
                       a = proposal'[j], b = proposal'[k],
                       a # None, b # None, a.release = b.release,
                       NEW n \in Keys, finals'[n] \in {a, b}
                PROVE  a = b
    BY DEF SameWorkbookSameDecision
  <2>1. CASE a.release = release
    <3>1. finals'[n] # None /\ finals'[n].release = release
      BY <2>1
    <3>2. n \in Open'
      BY <1>4, <3>1 DEF Open, Compatible
    <3>3. K # Fresh
      <4>1. (CacheKey = Fresh <=> Open = {})'
        BY KeyIsOpen, PTL
      <4>. QED
        BY <1>6, <3>2, <4>1 DEF Fresh
    <3>. QED
      BY <1>4, <1>6, <1>12, <2>1, <3>3 DEF OneDecision
  <2>2. CASE a.release # release
    <3>1. j # i /\ k # i
      BY <1>5, <1>7, <2>2
    <3>2. a = proposal[j] /\ b = proposal[k]
      BY <1>7, <3>1
    <3>3. finals[n] = finals'[n]
      BY <1>5, <2>2
    <3>. QED
      BY <3>2, <3>3 DEF RecognitionInv, SameWorkbookSameDecision
  <2>. QED
    BY <2>1, <2>2
<1>14. PaidSoFar'
  BY <1>0, <1>4, <1>6, <1>8, PaidStays
<1>15. ASSUME ~concurrent' PROVE Careful'
  <2>1. /\ ~concurrent /\ Careful /\ PassIsCareful(pass[i])
        /\ \A j \in Items \ {i} : ~Active(j)
    BY <1>3, <1>4, <1>15
  <2>2. GovernedIfUncertain(r)
    BY <1>0, <1>1, <2>1 DEF PassIsCareful
  <2>3. PassIsCareful(Finished)'
    BY <1>8 DEF PassIsCareful
  <2>4. \A k \in Keys : Compatible(fasts[k])' =>
            Compatible(structures[k])' /\ structures'[k].structure = fasts'[k].structure
    BY <1>4, <2>1 DEF Careful, Compatible
  <2>5. \A j \in Items : proposal'[j] = proposal[j] \/ GovernedIfUncertain(proposal'[j])
    BY <1>7, <2>2 DEF GovernedIfUncertain
  <2>6. \A k \in Keys : finals'[k] = finals[k] \/ GovernedIfUncertain(finals'[k])
    BY <1>5, <2>2 DEF GovernedIfUncertain
  <2>. QED
    BY <1>4, <1>8, <2>1, <2>3, <2>4, <2>5, <2>6, CarefulStays
<1>. QED
  BY <1>9, <1>10, <1>11, <1>12, <1>13, <1>14, <1>15 DEF RecognitionInv

LEMMA AbandonStep ==
  ASSUME RecognitionInv, NEW i \in Items, Abandon(i)
  PROVE  RecognitionInv'
<1>1. /\ Active(i) /\ pass' = [pass EXCEPT ![i] = Waiting]
      /\ UNCHANGED <<finals, fasts, structures, chunks, release, proposal, asked, concurrent>>
  BY DEF Abandon, Set, cacheVars
<1>2. /\ pass \in [Items -> Passes]
      /\ ~concurrent => Careful /\ \A j \in Items \ {i} : ~Active(j)
  BY <1>1, Holds
<1>3. CacheKey' = CacheKey /\ OneDecision' /\ SameWorkbookSameDecision'
  BY <1>1, DecisionsStay
<1>4. Waiting \in Passes /\ Waiting.at = "waiting"
  BY PassShapes DEF Waiting
<1>5. RecognitionTypeOK'
  <2>1. pass' \in [Items -> Passes]
    BY <1>1, <1>2, <1>4
  <2>. QED
    BY <1>1, <2>1 DEF RecognitionInv, RecognitionTypeOK
<1>6. EntriesAreOlder' /\ CheckpointsAreTrue' /\ MergedFromOneRequest'
  BY <1>1 DEF RecognitionInv, EntriesAreOlder, CheckpointsAreTrue, MergedFromOneRequest
<1>7. \A j \in Items : PassFits(pass[j])'
  <2>1. PassFits(Waiting)'
    BY <1>4 DEF PassFits
  <2>. QED
    BY <1>1, <1>3, <1>4, <2>1, PassesFit
<1>8. PaidSoFar'
  BY <1>1, <1>3, <1>4, PaidStays
<1>9. ASSUME ~concurrent' PROVE Careful'
  <2>1. Careful /\ \A j \in Items \ {i} : ~Active(j)
    BY <1>1, <1>2, <1>9
  <2>2. PassIsCareful(Waiting)'
    BY <1>4 DEF PassIsCareful
  <2>3. \A k \in Keys : Compatible(fasts[k])' =>
            Compatible(structures[k])' /\ structures'[k].structure = fasts'[k].structure
    BY <1>1, <2>1 DEF Careful, Compatible
  <2>. QED
    BY <1>1, <1>4, <2>1, <2>2, <2>3, CarefulStays
<1>. QED
  BY <1>3, <1>5, <1>6, <1>7, <1>8, <1>9 DEF RecognitionInv

(* A new release finds no pass under way and no entry compatible with it.     *)
LEMMA UpgradeStep ==
  ASSUME RecognitionInv, Upgrade
  PROVE  RecognitionInv'
<1>1. /\ release < Releases /\ release' = release + 1
      /\ \A i \in Items : pass[i] \in {Waiting, Finished}
      /\ UNCHANGED <<finals, fasts, structures, chunks, pass, proposal, asked, concurrent>>
  BY DEF Upgrade, Active, cacheVars
<1>2. RecognitionTypeOK /\ release \in Nat
  BY PassNumbers DEF RecognitionInv, RecognitionTypeOK
<1>3. RecognitionTypeOK'
  <2>1. release' \in 1..Releases
    BY <1>1, <1>2, PassNumbers
  <2>. QED
    BY <1>1, <1>2, <2>1 DEF RecognitionTypeOK
<1>4. /\ \A k \in Keys : /\ finals[k] # None =>
                              finals[k].release \in Nat /\ finals[k].release <= release
                         /\ fasts[k] # None =>
                              fasts[k].release \in Nat /\ fasts[k].release <= release
                         /\ structures[k] # None =>
                              structures[k].release \in Nat /\ structures[k].release <= release
      /\ \A i \in Items : proposal[i] # None =>
                              proposal[i].release \in Nat /\ proposal[i].release <= release
  <2>1. \A k \in Keys : /\ finals[k] \in Result \cup {None} /\ fasts[k] \in Result \cup {None}
                        /\ structures[k] \in Checkpoint \cup {None}
    BY <1>2 DEF RecognitionTypeOK
  <2>2. \A i \in Items : proposal[i] \in Result \cup {None}
    BY <1>2 DEF RecognitionTypeOK
  <2>3. \A entry \in Result : entry.release \in 1..Releases
    BY ResultFields
  <2>4. \A entry \in Checkpoint : entry.release \in 1..Releases
    BY CheckpointFields
  <2>. QED
    BY <2>1, <2>2, <2>3, <2>4, PassNumbers DEF RecognitionInv, EntriesAreOlder
<1>5. \A k \in Keys : ~Compatible(fasts[k])' /\ ~Compatible(structures[k])'
  BY <1>1, <1>2, <1>4 DEF Compatible
<1>6. EntriesAreOlder'
  BY <1>1, <1>2, <1>4 DEF EntriesAreOlder
<1>7. \A i \in Items : pass'[i].at \in {"waiting", "finished"}
                       /\ pass'[i] \in {Waiting, Finished}
  BY <1>1 DEF Waiting, Finished
<1>8. \A i \in Items : PassFits(pass[i])' /\ PassIsCareful(pass[i])'
  BY <1>7 DEF PassFits, PassIsCareful
<1>9. OneDecision'
  BY <1>1, <1>2, <1>4 DEF OneDecision
<1>10. SameWorkbookSameDecision' /\ CheckpointsAreTrue' /\ MergedFromOneRequest'
  BY <1>1 DEF RecognitionInv, SameWorkbookSameDecision, CheckpointsAreTrue,
     MergedFromOneRequest
<1>11. PaidSoFar'
  <2>. SUFFICES ASSUME NEW i \in Items PROVE asked[i] < release + 1
    BY <1>1, <1>2, <1>7 DEF PaidSoFar, RecognitionTypeOK
  <2>. QED
    BY <1>2 DEF RecognitionInv, PaidSoFar, RecognitionTypeOK
<1>12. ~concurrent' => Careful'
  <2>1. \A i \in Items : ~Active(i)'
    BY <1>7 DEF Active
  <2>. QED
    BY <1>1, <1>5, <1>8, <2>1 DEF RecognitionInv, Careful, GovernedIfUncertain
<1>. QED
  BY <1>3, <1>6, <1>8, <1>9, <1>10, <1>11, <1>12 DEF RecognitionInv

-----------------------------------------------------------------------------
(* The invariant and what it says *)

LEMMA RecognitionStep == RecognitionInv /\ [RecognitionNext]_passVars => RecognitionInv'
<1>. SUFFICES ASSUME RecognitionInv, [RecognitionNext]_passVars PROVE RecognitionInv'
  OBVIOUS
<1>1. CASE Upgrade
  BY <1>1, UpgradeStep
<1>2. ASSUME NEW i \in Items, Recognizes(i) PROVE RecognitionInv'
  <2>1. CASE Recognize(i)
    BY <2>1, RecognizeStep
  <2>2. CASE RecognizeStructure(i)
    BY <2>2, RecognizeStructureStep
  <2>3. CASE RecognizeChunk(i)
    BY <2>3, RecognizeChunkStep
  <2>4. CASE MergeChunks(i)
    BY <2>4, MergeChunksStep
  <2>5. CASE ReviewResult(i)
    BY <2>5, ReviewResultStep
  <2>6. CASE CommitProposal(i)
    BY <2>6, CommitProposalStep
  <2>7. CASE Abandon(i)
    BY <2>7, AbandonStep
  <2>. QED
    BY <1>2, <2>1, <2>2, <2>3, <2>4, <2>5, <2>6, <2>7 DEF Recognizes
<1>3. CASE UNCHANGED passVars
  <2>1. UNCHANGED <<finals, fasts, structures, chunks, release, pass, proposal, asked,
                    concurrent>>
    BY <1>3 DEF passVars
  <2>2. CacheKey' = CacheKey /\ OneDecision' /\ SameWorkbookSameDecision'
    BY <2>1, DecisionsStay
  <2>3. \A i \in Items : PassFits(pass[i])'
    BY <2>1, <2>2 DEF RecognitionInv, PassFits
  <2>4. RecognitionTypeOK' /\ EntriesAreOlder' /\ CheckpointsAreTrue' /\ MergedFromOneRequest'
    BY <2>1 DEF RecognitionInv, RecognitionTypeOK, EntriesAreOlder, CheckpointsAreTrue,
       MergedFromOneRequest
  <2>5. PaidSoFar'
    BY <2>1, <2>2 DEF RecognitionInv, PaidSoFar, Compatible
  <2>6. ~concurrent' => Careful'
    BY <2>1 DEF RecognitionInv, Careful, PassIsCareful, GovernedIfUncertain, Compatible, Active
  <2>. QED
    BY <2>2, <2>3, <2>4, <2>5, <2>6 DEF RecognitionInv
<1>. QED
  BY <1>1, <1>2, <1>3 DEF RecognitionNext

(* The rows of the cache, the passes under way and the proposals keep their   *)
(* shape through every overlap, failure and new release.                      *)
THEOREM RecognitionTypeCorrect == RecognitionSpec => []RecognitionTypeOK
<1>1. RecognitionInv => RecognitionTypeOK
  BY DEF RecognitionInv
<1>. QED
  BY <1>1, RecognitionFirst, RecognitionStep, PTL DEF RecognitionSpec

(* Files with the same workbook get one decision, however many are            *)
(* recognised at the same time and whatever the language model answers each.  *)
THEOREM WorkbooksAgree == RecognitionSpec => []SameWorkbookSameDecision
<1>1. RecognitionInv => SameWorkbookSameDecision
  BY DEF RecognitionInv
<1>. QED
  BY <1>1, RecognitionFirst, RecognitionStep, PTL DEF RecognitionSpec

(* As long as recognitions did not overlap, a layout that stayed uncertain    *)
(* does not lead to a result without governance, wherever a run died and from *)
(* whichever rows the next one resumed.                                       *)
THEOREM DoubtIsGoverned == RecognitionSpec => []UncertaintyIsGoverned
<1>1. RecognitionInv => UncertaintyIsGoverned
  BY DEF RecognitionInv, Careful, UncertaintyIsGoverned, GovernedIfUncertain
<1>. QED
  BY <1>1, RecognitionFirst, RecognitionStep, PTL DEF RecognitionSpec

(* The answers merged under a layout were all given for it, and a file stores *)
(* a structure at most once in a release: a resumed run asks for none again.  *)
THEOREM RunsResumeTheirWork == RecognitionSpec => []ResumesItsOwnWork
<1>1. RecognitionInv => ResumesItsOwnWork
  BY DEF RecognitionInv, PaidSoFar, ResumesItsOwnWork, StructurePaidOnce
<1>. QED
  BY <1>1, RecognitionFirst, RecognitionStep, PTL DEF RecognitionSpec

-----------------------------------------------------------------------------
(***************************************************************************)
(* Proofs about the connection to the language model: the process of a     *)
(* call and its pipe, for any number of repairs and events, and the stored *)
(* connection with the key that encrypts its secrets, for any number of    *)
(* starts, saves, presets, connections and edits.                          *)
(***************************************************************************)

-----------------------------------------------------------------------------
(* Calls of the model *)

(* While the receiver is open, what was sent is what was delivered followed   *)
(* by what waits in the pipe, the events first and the result last.           *)
PipeHoldsTheRest ==
  waiter.phase \in {"none", "starting", "waiting", "polled"} =>
    /\ Len(pipe) = Len(child.sent) - Len(delivered)
                     + (IF child.result = NoResult THEN 0 ELSE 1)
    /\ \A i \in 1 .. Len(pipe) :
         pipe[i] = IF Len(delivered) + i <= Len(child.sent)
                     THEN child.sent[Len(delivered) + i] ELSE child.result

DeliveredFirst ==
  /\ Len(delivered) <= Len(child.sent)
  /\ \A i \in 1 .. Len(delivered) : delivered[i] = child.sent[i]

(* Who is where: a call starts with its process, a process that goes on       *)
(* asking has ended with nothing, one that has sent its result is done, and   *)
(* only run_json joins.                                                       *)
CallStages ==
  /\ waiter.phase = "none" => /\ waiter.kind = "none" /\ child.phase = "none"
                             /\ child.sent = <<>> /\ child.result = NoResult
                             /\ ~registered
  /\ waiter.phase # "none" => waiter.kind # "none" /\ child.phase # "none"
  /\ child.phase = "asking" => child.result = NoResult
  /\ child.phase = "sent" => child.result # NoResult
  /\ waiter.kind = "json" => ~registered /\ child.sent = <<>>
  /\ waiter.phase = "starting" => waiter.kind = "chat" /\ ~registered
  /\ waiter.phase = "joining" => waiter.kind = "json" /\ child.result # NoResult
                                   /\ waiter.outcome = child.result.what
  /\ waiter.phase = "done" => child.phase \in {"sent", "gone"} /\ ~registered
  /\ waiter.phase \in {"none", "starting", "waiting", "polled"} => waiter.outcome = "none"
  /\ waiter.phase = "ending" => waiter.outcome # "none"

(* An outcome that is a message is the result of the process; the others are  *)
(* the deadline, a cancellation, and the end of a process without a result    *)
(* (or of a chat's process after the poll).                                   *)
OutcomesAreEarned ==
  /\ waiter.outcome \in {"answer"} \cup JsonErrors =>
       \/ waiter.outcome = child.result.what /\ delivered = child.sent
       \/ waiter.outcome = "unavailable" /\ child.result = NoResult
  /\ waiter.outcome = "end_of_pipe" => child.result = NoResult
  /\ waiter.outcome = "stopped" => waiter.kind = "chat"
  /\ waiter.outcome = "none" => waiter.phase \in {"none", "starting", "waiting", "polled"}

CallInv ==
  CallTypeOK /\ PipeHoldsTheRest /\ DeliveredFirst /\ CallStages /\ OutcomesAreEarned

LEMMA MessageKinds ==
  /\ \A m \in Events : m.kind = "event" /\ m.what = "event" /\ m \notin Results /\ m # NoResult
  /\ \A m \in Results : m.kind # "event" /\ m # NoResult /\ m.what \in {"answer"} \cup JsonErrors
  /\ FinalAnswer \in Results /\ FinalAnswer.what = "answer"
  /\ \A m \in Results : m.what = "answer" => m = FinalAnswer
  /\ \A what \in JsonErrors \cup ChatErrors : Error(what) \in Results
  /\ \A n \in Nat : Event(n) \in Events
  /\ NoResult \notin Results /\ NoResult.what = "none"
BY DEF Events, Results, NoResult, FinalAnswer, Error, Event, JsonErrors, ChatErrors

(* The fields of the two records, and what a change of some of them leaves.   *)
LEMMA WaiterFields ==
  ASSUME waiter \in Waiters
  PROVE  /\ waiter.kind \in {"none", "json", "chat"} /\ waiter.outcome \in Outcomes
         /\ waiter.repairs \in {0, 1}
         /\ waiter.phase \in {"none", "starting", "waiting", "polled", "ending", "joining", "done"}
BY DEF Waiters

LEMMA WaiterMoves ==
  ASSUME waiter \in Waiters, NEW p,
         p \in {"none", "starting", "waiting", "polled", "ending", "joining", "done"}
  PROVE  LET moved == [waiter EXCEPT !.phase = p]
         IN  /\ moved \in Waiters /\ moved.phase = p /\ moved.kind = waiter.kind
             /\ moved.outcome = waiter.outcome
BY DEF Waiters

LEMMA OutcomeNames ==
  /\ "none" \in Outcomes /\ "timeout" \in Outcomes /\ "stopped" \in Outcomes
  /\ "end_of_pipe" \in Outcomes /\ "cancelled" \in Outcomes /\ "unavailable" \in Outcomes
  /\ \A m \in Results : m.what \in Outcomes
BY MessageKinds DEF Outcomes, JsonErrors

LEMMA ProcessFields ==
  ASSUME child \in Processes
  PROVE  /\ child.phase \in {"none", "asking", "sent", "gone"} /\ child.asks \in {0, 1}
         /\ child.sent \in Seq(Events) /\ child.result \in Results \cup {NoResult}
<1>. DEFINE S == Seq(Events)
            R == Results \cup {NoResult}
<1>1. child \in [phase : {"none", "asking", "sent", "gone"}, asks : {0, 1}, sent : S, result : R]
  BY DEF Processes
<1>. HIDE DEF S, R
<1>2. /\ child.phase \in {"none", "asking", "sent", "gone"} /\ child.asks \in {0, 1}
      /\ child.sent \in S /\ child.result \in R
  BY <1>1
<1>. QED
  BY <1>2 DEF S, R

LEMMA ProcessMoves ==
  ASSUME child \in Processes
  PROVE  /\ \A p \in {"none", "asking", "sent", "gone"} :
              LET moved == [child EXCEPT !.phase = p]
              IN  /\ moved \in Processes /\ moved.phase = p /\ moved.sent = child.sent
                  /\ moved.result = child.result
         /\ \A r \in Results :
              LET ended == [child EXCEPT !.result = r, !.phase = "sent"]
              IN  /\ ended \in Processes /\ ended.phase = "sent" /\ ended.sent = child.sent
                  /\ ended.result = r
         /\ \A e \in Events :
              LET grown == [child EXCEPT !.sent = Append(@, e)]
              IN  /\ grown \in Processes /\ grown.phase = child.phase
                  /\ grown.sent = Append(child.sent, e) /\ grown.result = child.result
         /\ \A n \in {0, 1} :
              LET asking == [child EXCEPT !.asks = n]
              IN  /\ asking \in Processes /\ asking.phase = child.phase
                  /\ asking.sent = child.sent /\ asking.result = child.result
<1>. DEFINE S == Seq(Events)
            R == Results \cup {NoResult}
<1>1. \A e \in Events, s \in S : Append(s, e) \in S
  OBVIOUS
<1>. HIDE DEF S
<1>2. Processes = [phase : {"none", "asking", "sent", "gone"}, asks : {0, 1}, sent : S, result : R]
  BY DEF Processes, S
<1>. QED
  BY <1>1, <1>2

LEMMA CallFirst == CallInit => CallInv
<1>. SUFFICES ASSUME CallInit PROVE CallInv
  OBVIOUS
<1>1. /\ waiter.kind = "none" /\ waiter.phase = "none" /\ waiter.outcome = "none"
      /\ child.phase = "none" /\ child.sent = <<>> /\ child.result = NoResult
      /\ pipe = <<>> /\ delivered = <<>> /\ registered = FALSE
  BY DEF CallInit, NoModelCall, NoProcess
<1>2. waiter \in Waiters
  BY DEF CallInit, NoModelCall, Waiters, Outcomes
<1>3. child \in Processes
  <2>1. <<>> \in Seq(Events)
    BY EmptySeq
  <2>. DEFINE S == Seq(Events)
  <2>. HIDE DEF S
  <2>2. child = [phase |-> "none", asks |-> 0, sent |-> <<>>, result |-> NoResult] /\ <<>> \in S
    BY <2>1 DEF CallInit, NoProcess, S
  <2>. QED
    BY <2>2 DEF Processes, S
<1>4. CallTypeOK
  BY <1>1, <1>2, <1>3, EmptySeq DEF CallTypeOK
<1>5. PipeHoldsTheRest /\ DeliveredFirst
  BY <1>1 DEF PipeHoldsTheRest, DeliveredFirst
<1>6. CallStages /\ OutcomesAreEarned
  BY <1>1 DEF CallStages, OutcomesAreEarned, JsonErrors
<1>. QED
  BY <1>4, <1>5, <1>6 DEF CallInv

(* Messages that stay where they are. *)
MessagesStay ==
  /\ pipe' = pipe /\ delivered' = delivered
  /\ child'.sent = child.sent /\ child'.result = child.result
  /\ waiter'.phase \in {"none", "starting", "waiting", "polled"} =>
       waiter.phase \in {"none", "starting", "waiting", "polled"}

LEMMA StayingMessages ==
  ASSUME CallInv, MessagesStay
  PROVE  PipeHoldsTheRest' /\ DeliveredFirst'
BY DEF CallInv, PipeHoldsTheRest, DeliveredFirst, MessagesStay

(* What a message adds to the pipe. *)
LEMMA PipeGrows ==
  ASSUME NEW m, m \in Events \cup Results, pipe \in Seq(Events \cup Results)
  PROVE  /\ Append(pipe, m) \in Seq(Events \cup Results)
         /\ Len(Append(pipe, m)) = Len(pipe) + 1
         /\ \A i \in 1 .. Len(pipe) : Append(pipe, m)[i] = pipe[i]
         /\ Append(pipe, m)[Len(pipe) + 1] = m
BY AppendProperties

(* The step of an event: the rest of the pipe grows with what was sent.       *)
LEMMA SendingStep == CallInv /\ SendEvent => CallInv'
<1>. SUFFICES ASSUME CallInv, SendEvent PROVE CallInv'
  OBVIOUS
<1>a. /\ CallTypeOK /\ PipeHoldsTheRest /\ DeliveredFirst /\ CallStages /\ OutcomesAreEarned
      /\ waiter \in Waiters /\ child \in Processes
      /\ pipe \in Seq(Events \cup Results) /\ delivered \in Seq(Events)
  BY DEF CallInv, CallTypeOK
<1>. DEFINE event == Event(Len(child.sent) + 1)
<1>1. /\ child.sent \in Seq(Events) /\ Len(child.sent) \in Nat
      /\ Len(pipe) \in Nat /\ Len(delivered) \in Nat
  BY <1>a, ProcessFields, LenProperties
<1>2. event \in Events
  BY <1>1, MessageKinds
<1>3. /\ child.phase = "asking" /\ waiter.kind = "chat" /\ waiter' = waiter
      /\ registered' = registered /\ delivered' = delivered /\ child.result = NoResult
  BY <1>a DEF SendEvent, Sends, CallStages
<1>. HIDE DEF event
<1>4. CASE ReceiverOpen
  <2>1. /\ child' \in Processes /\ child'.phase = child.phase
        /\ child'.sent = Append(child.sent, event) /\ child'.result = child.result
        /\ pipe' = Append(pipe, event)
    BY <1>a, <1>2, <1>4, ProcessMoves DEF SendEvent, Sends, event
  <2>2. /\ Len(child'.sent) = Len(child.sent) + 1 /\ Len(pipe') = Len(pipe) + 1
        /\ \A i \in 1 .. Len(child.sent) : child'.sent[i] = child.sent[i]
        /\ child'.sent[Len(child.sent) + 1] = event
        /\ \A i \in 1 .. Len(pipe) : pipe'[i] = pipe[i]
        /\ pipe'[Len(pipe) + 1] = event
    BY <1>a, <1>1, <1>2, <2>1, AppendProperties, PipeGrows
  <2>3. CallTypeOK'
    BY <1>a, <1>2, <1>3, <2>1, PipeGrows DEF CallTypeOK
  <2>4. DeliveredFirst'
    BY <1>a, <1>1, <1>3, <2>2 DEF DeliveredFirst
  <2>5. Len(pipe) = Len(child.sent) - Len(delivered)
        /\ \A i \in 1 .. Len(pipe) : pipe[i] = child.sent[Len(delivered) + i]
    BY <1>a, <1>1, <1>3, <1>4 DEF PipeHoldsTheRest, DeliveredFirst, ReceiverOpen
  <2>6. PipeHoldsTheRest'
    <3>1. Len(pipe') = Len(child'.sent) - Len(delivered')
      BY <1>1, <1>3, <2>2, <2>5
    <3>2. ASSUME NEW i \in 1 .. Len(pipe')
          PROVE  pipe'[i] = child'.sent[Len(delivered') + i]
      <4>1. CASE i = Len(pipe) + 1
        <5>1. Len(delivered') + i = Len(child.sent) + 1
          BY <1>1, <1>3, <2>5, <4>1
        <5>. QED
          BY <2>2, <4>1, <5>1
      <4>2. CASE i # Len(pipe) + 1
        <5>1. i \in 1 .. Len(pipe) /\ Len(delivered) + i \in 1 .. Len(child.sent)
          <6>1. /\ i \in 1 .. Len(pipe) + 1 /\ Len(pipe) = Len(child.sent) - Len(delivered)
                /\ Len(pipe) \in Nat /\ Len(child.sent) \in Nat /\ Len(delivered) \in Nat
            BY <1>1, <2>2, <2>5
          <6>. QED
            BY <4>2, <6>1
        <5>. QED
          BY <1>3, <2>2, <2>5, <5>1
      <4>. QED
        BY <4>1, <4>2
    <3>3. \A i \in 1 .. Len(pipe') : Len(delivered') + i <= Len(child'.sent)
      <4>1. Len(delivered') \in Nat /\ Len(child'.sent) \in Nat /\ Len(pipe') \in Nat
        BY <1>1, <1>3, <2>2
      <4>. QED
        BY <3>1, <4>1
    <3>4. /\ child'.result = NoResult /\ Len(pipe') \in Nat
          /\ Len(child'.sent) \in Nat /\ Len(delivered') \in Nat
      BY <1>1, <1>3, <2>1, <2>2
    <3>5. Len(pipe') = Len(child'.sent) - Len(delivered')
                         + (IF child'.result = NoResult THEN 0 ELSE 1)
      BY <3>1, <3>4
    <3>6. \A i \in 1 .. Len(pipe') :
            pipe'[i] = IF Len(delivered') + i <= Len(child'.sent)
                         THEN child'.sent[Len(delivered') + i] ELSE child'.result
      BY <3>2, <3>3
    <3>. QED
      BY <3>5, <3>6 DEF PipeHoldsTheRest
  <2>7. CallStages'
    BY <1>a, <1>3, <1>4, <2>1 DEF CallStages, ReceiverOpen
  <2>8. OutcomesAreEarned'
    BY <1>a, <1>3, <1>4, <2>1 DEF CallStages, OutcomesAreEarned, ReceiverOpen, JsonErrors
  <2>. QED
    BY <2>3, <2>4, <2>6, <2>7, <2>8 DEF CallInv
<1>5. CASE ~ReceiverOpen
  <2>1. /\ child' \in Processes /\ child'.phase = "gone" /\ child'.sent = child.sent
        /\ child'.result = child.result /\ pipe' = pipe
    BY <1>a, <1>5, ProcessMoves DEF SendEvent, Sends
  <2>2. CallTypeOK'
    BY <1>a, <1>3, <2>1 DEF CallTypeOK
  <2>3. PipeHoldsTheRest' /\ DeliveredFirst'
    BY <1>3, <2>1, StayingMessages DEF MessagesStay
  <2>4. CallStages' /\ OutcomesAreEarned'
    BY <1>a, <1>3, <2>1 DEF CallStages, OutcomesAreEarned
  <2>. QED
    BY <2>2, <2>3, <2>4 DEF CallInv
<1>. QED
  BY <1>4, <1>5

(* The step of an answer or an error: it is the last of the pipe. *)
LEMMA EndingStep ==
  ASSUME CallInv, NEW m \in Results, child.phase = "asking", EndsWith(m)
  PROVE  CallInv'
<1>a. /\ CallTypeOK /\ PipeHoldsTheRest /\ DeliveredFirst /\ CallStages /\ OutcomesAreEarned
      /\ waiter \in Waiters /\ child \in Processes
      /\ pipe \in Seq(Events \cup Results) /\ delivered \in Seq(Events)
  BY DEF CallInv, CallTypeOK
<1>1. /\ Len(child.sent) \in Nat /\ Len(pipe) \in Nat /\ Len(delivered) \in Nat
  BY <1>a, ProcessFields, LenProperties
<1>2. /\ waiter' = waiter /\ registered' = registered /\ delivered' = delivered
      /\ child.result = NoResult /\ m # NoResult
  BY <1>a, MessageKinds DEF EndsWith, Sends, CallStages
<1>3. CASE ReceiverOpen
  <2>1. /\ child' \in Processes /\ child'.phase = "sent" /\ child'.sent = child.sent
        /\ child'.result = m /\ pipe' = Append(pipe, m)
    BY <1>a, <1>3, ProcessMoves DEF EndsWith, Sends
  <2>2. CallTypeOK'
    BY <1>a, <1>2, <2>1, PipeGrows DEF CallTypeOK
  <2>3. DeliveredFirst'
    BY <1>a, <1>2, <2>1 DEF DeliveredFirst
  <2>4. /\ Len(pipe) = Len(child.sent) - Len(delivered)
        /\ \A i \in 1 .. Len(pipe) : pipe[i] = child.sent[Len(delivered) + i]
    BY <1>a, <1>1, <1>2, <1>3 DEF PipeHoldsTheRest, DeliveredFirst, ReceiverOpen
  <2>5. PipeHoldsTheRest'
    <3>1. /\ Len(pipe') = Len(pipe) + 1 /\ pipe'[Len(pipe) + 1] = m
          /\ \A i \in 1 .. Len(pipe) : pipe'[i] = pipe[i]
      BY <1>a, <2>1, PipeGrows
    <3>2. Len(pipe') = Len(child'.sent) - Len(delivered') + 1
      BY <1>1, <1>2, <2>1, <2>4, <3>1
    <3>3. ASSUME NEW i \in 1 .. Len(pipe')
          PROVE  pipe'[i] = IF Len(delivered') + i <= Len(child'.sent)
                              THEN child'.sent[Len(delivered') + i] ELSE child'.result
      <4>1. CASE i = Len(pipe) + 1
        <5>1. ~(Len(delivered') + i <= Len(child'.sent))
          BY <1>1, <1>2, <2>1, <2>4, <4>1
        <5>. QED
          BY <2>1, <3>1, <4>1, <5>1
      <4>2. CASE i # Len(pipe) + 1
        <5>1. i \in 1 .. Len(pipe) /\ Len(delivered) + i <= Len(child.sent)
          <6>1. /\ i \in 1 .. Len(pipe) + 1 /\ Len(pipe) = Len(child.sent) - Len(delivered)
                /\ Len(pipe) \in Nat /\ Len(child.sent) \in Nat /\ Len(delivered) \in Nat
            BY <1>1, <2>4, <3>1
          <6>. QED
            BY <4>2, <6>1
        <5>. QED
          BY <1>2, <2>1, <2>4, <3>1, <5>1
      <4>. QED
        BY <4>1, <4>2
    <3>. QED
      BY <1>2, <2>1, <3>2, <3>3 DEF PipeHoldsTheRest
  <2>6. CallStages'
    BY <1>a, <1>2, <1>3, <2>1 DEF CallStages, ReceiverOpen
  <2>7. OutcomesAreEarned'
    BY <1>a, <1>2, <1>3, <2>1 DEF CallStages, OutcomesAreEarned, ReceiverOpen, JsonErrors
  <2>. QED
    BY <2>2, <2>3, <2>5, <2>6, <2>7 DEF CallInv
<1>4. CASE ~ReceiverOpen
  <2>1. /\ child' \in Processes /\ child'.phase = "gone" /\ child'.sent = child.sent
        /\ child'.result = child.result /\ pipe' = pipe
    BY <1>a, <1>4, ProcessMoves DEF EndsWith, Sends
  <2>2. CallTypeOK'
    BY <1>a, <1>2, <2>1 DEF CallTypeOK
  <2>3. PipeHoldsTheRest' /\ DeliveredFirst'
    BY <1>2, <2>1, StayingMessages DEF MessagesStay
  <2>4. CallStages' /\ OutcomesAreEarned'
    BY <1>a, <1>2, <2>1 DEF CallStages, OutcomesAreEarned
  <2>. QED
    BY <2>2, <2>3, <2>4 DEF CallInv
<1>. QED
  BY <1>3, <1>4

(* What waits first in the pipe of a waiting caller: the next event, or, when *)
(* all of them are delivered, the result.                                     *)
LEMMA FirstOfPipe ==
  ASSUME CallInv, waiter.phase = "waiting", pipe # <<>>
  PROVE  /\ Head(pipe) \in Events \cup Results /\ Tail(pipe) \in Seq(Events \cup Results)
         /\ Len(Tail(pipe)) = Len(pipe) - 1 /\ Len(pipe) \in Nat \ {0}
         /\ \A i \in 1 .. Len(Tail(pipe)) : Tail(pipe)[i] = pipe[i + 1]
         /\ IF Len(delivered) < Len(child.sent)
              THEN Head(pipe) = child.sent[Len(delivered) + 1] /\ Head(pipe) \in Events
              ELSE /\ Head(pipe) = child.result /\ child.result \in Results
                   /\ delivered = child.sent /\ Tail(pipe) = <<>>
<1>a. /\ PipeHoldsTheRest /\ DeliveredFirst /\ child \in Processes
      /\ pipe \in Seq(Events \cup Results) /\ delivered \in Seq(Events)
  BY DEF CallInv, CallTypeOK
<1>1. /\ Head(pipe) \in Events \cup Results /\ Tail(pipe) \in Seq(Events \cup Results)
      /\ Len(Tail(pipe)) = Len(pipe) - 1 /\ Len(pipe) \in Nat \ {0}
      /\ \A i \in 1 .. Len(Tail(pipe)) : Tail(pipe)[i] = pipe[i + 1]
      /\ Head(pipe) = pipe[1]
  BY <1>a, HeadTailProperties, EmptySeq
<1>2. /\ child.sent \in Seq(Events) /\ Len(child.sent) \in Nat /\ Len(delivered) \in Nat
      /\ child.result \in Results \cup {NoResult}
  BY <1>a, ProcessFields, LenProperties
<1>3. /\ child.result = NoResult => Len(pipe) = Len(child.sent) - Len(delivered)
      /\ child.result # NoResult => Len(pipe) = Len(child.sent) - Len(delivered) + 1
      /\ Len(delivered) <= Len(child.sent)
  <2>1. Len(delivered) <= Len(child.sent)
    BY <1>a DEF DeliveredFirst
  <2>2. Len(pipe) = Len(child.sent) - Len(delivered)
                      + (IF child.result = NoResult THEN 0 ELSE 1)
    BY <1>a DEF PipeHoldsTheRest
  <2>3. CASE child.result = NoResult
    BY <1>2, <2>1, <2>2, <2>3
  <2>4. CASE child.result # NoResult
    BY <1>2, <2>1, <2>2, <2>4
  <2>. QED
    BY <2>3, <2>4
<1>4. pipe[1] = IF Len(delivered) + 1 <= Len(child.sent)
                  THEN child.sent[Len(delivered) + 1] ELSE child.result
  <2>1. 1 \in 1 .. Len(pipe)
    BY <1>1
  <2>. QED
    BY <1>a, <2>1 DEF PipeHoldsTheRest
<1>5. CASE Len(delivered) < Len(child.sent)
  <2>1. Len(delivered) + 1 \in 1 .. Len(child.sent)
    BY <1>2, <1>5
  <2>2. child.sent[Len(delivered) + 1] \in Events
    BY <1>2, <2>1, ElementOfSeq
  <2>3. Head(pipe) = child.sent[Len(delivered) + 1]
    BY <1>1, <1>4, <2>1
  <2>. QED
    BY <1>1, <1>5, <2>2, <2>3
<1>6. CASE ~(Len(delivered) < Len(child.sent))
  <2>1. Len(delivered) = Len(child.sent)
    BY <1>2, <1>3, <1>6
  <2>2. child.result # NoResult /\ Len(pipe) = 1
    <3>1. Len(pipe) >= 1
      BY <1>1
    <3>. QED
      BY <1>2, <1>3, <2>1, <3>1
  <2>3. delivered = child.sent
    <3>1. \A i \in 1 .. Len(delivered) : delivered[i] = child.sent[i]
      BY <1>a DEF DeliveredFirst
    <3>. QED
      BY <1>a, <1>2, <2>1, <3>1, SeqEqual
  <2>4. Tail(pipe) = <<>>
    <3>1. Len(Tail(pipe)) = 0
      BY <1>1, <2>2
    <3>. QED
      BY <1>1, <3>1, EmptySeq
  <2>5. Head(pipe) = child.result
    <3>1. ~(Len(delivered) + 1 <= Len(child.sent))
      BY <1>2, <2>1
    <3>. QED
      BY <1>1, <1>4, <3>1
  <2>. QED
    BY <1>1, <1>2, <1>6, <2>2, <2>3, <2>4, <2>5
<1>. QED
  BY <1>5, <1>6

(* run_json takes the one message of its pipe. *)
LEMMA ReceivingJson == CallInv /\ ReceiveJson => CallInv'
<1>. SUFFICES ASSUME CallInv, ReceiveJson PROVE CallInv'
  OBVIOUS
<1>a. /\ CallTypeOK /\ DeliveredFirst /\ CallStages /\ OutcomesAreEarned
      /\ waiter \in Waiters /\ child \in Processes /\ delivered \in Seq(Events)
  BY DEF CallInv, CallTypeOK
<1>1. /\ waiter.phase = "waiting" /\ waiter.kind = "json" /\ pipe # <<>>
      /\ child' = child /\ registered' = registered /\ delivered' = delivered
  BY DEF ReceiveJson
<1>2. Len(child.sent) = 0 /\ Len(delivered) \in Nat
  BY <1>a, <1>1, EmptySeq, LenProperties DEF CallStages
<1>3. /\ Head(pipe) = child.result /\ child.result \in Results /\ delivered = child.sent
      /\ pipe' \in Seq(Events \cup Results)
  BY <1>1, <1>2, FirstOfPipe DEF ReceiveJson
<1>4. child.result.what \in {"answer"} \cup JsonErrors /\ child.result # NoResult
  BY <1>3, MessageKinds
<1>5. /\ waiter' \in Waiters /\ waiter'.kind = "json" /\ waiter'.phase = "joining"
      /\ waiter'.outcome = child.result.what
  BY <1>a, <1>1, <1>3, <1>4, OutcomeNames DEF Waiters, ReceiveJson
<1>6. CallTypeOK'
  BY <1>a, <1>1, <1>3, <1>5 DEF CallTypeOK
<1>7. PipeHoldsTheRest' /\ DeliveredFirst'
  BY <1>a, <1>1, <1>5 DEF PipeHoldsTheRest, DeliveredFirst
<1>8. CallStages'
  BY <1>a, <1>1, <1>4, <1>5 DEF CallStages
<1>9. OutcomesAreEarned'
  BY <1>1, <1>3, <1>4, <1>5 DEF OutcomesAreEarned, JsonErrors
<1>. QED
  BY <1>6, <1>7, <1>8, <1>9 DEF CallInv

(* stream_chat passes an event on, or ends with the result. *)
LEMMA ReceivingChat == CallInv /\ ReceiveChat => CallInv'
<1>. SUFFICES ASSUME CallInv, ReceiveChat PROVE CallInv'
  OBVIOUS
<1>a. /\ CallTypeOK /\ PipeHoldsTheRest /\ DeliveredFirst /\ CallStages /\ OutcomesAreEarned
      /\ waiter \in Waiters /\ child \in Processes
      /\ pipe \in Seq(Events \cup Results) /\ delivered \in Seq(Events)
  BY DEF CallInv, CallTypeOK
<1>1. /\ waiter.phase = "waiting" /\ waiter.kind = "chat" /\ pipe # <<>>
      /\ child' = child /\ registered' = registered /\ pipe' = Tail(pipe)
  BY DEF ReceiveChat
<1>2. /\ child.sent \in Seq(Events) /\ Len(child.sent) \in Nat
      /\ Len(pipe) \in Nat /\ Len(delivered) \in Nat
  BY <1>a, ProcessFields, LenProperties
<1>3. CASE Len(delivered) < Len(child.sent)
  <2>1. /\ Head(pipe) \in Events /\ Head(pipe) = child.sent[Len(delivered) + 1]
        /\ pipe' \in Seq(Events \cup Results) /\ Len(pipe') = Len(pipe) - 1
        /\ \A i \in 1 .. Len(pipe') : pipe'[i] = pipe[i + 1]
    BY <1>1, <1>3, FirstOfPipe
  <2>2. waiter' = waiter /\ delivered' = Append(delivered, Head(pipe))
    BY <2>1, MessageKinds DEF ReceiveChat
  <2>3. /\ delivered' \in Seq(Events) /\ Len(delivered') = Len(delivered) + 1
        /\ \A i \in 1 .. Len(delivered) : delivered'[i] = delivered[i]
        /\ delivered'[Len(delivered) + 1] = Head(pipe)
    BY <1>a, <2>1, <2>2, AppendProperties
  <2>4. CallTypeOK'
    BY <1>a, <1>1, <2>1, <2>2, <2>3 DEF CallTypeOK
  <2>5. DeliveredFirst'
    <3>1. Len(delivered') <= Len(child.sent)
      BY <1>2, <1>3, <2>3
    <3>2. ASSUME NEW i \in 1 .. Len(delivered') PROVE delivered'[i] = child.sent[i]
      <4>1. CASE i = Len(delivered) + 1
        BY <2>1, <2>3, <4>1
      <4>2. CASE i # Len(delivered) + 1
        <5>1. i \in 1 .. Len(delivered)
          BY <1>2, <2>3, <4>2
        <5>. QED
          BY <1>a, <2>3, <5>1 DEF DeliveredFirst
      <4>. QED
        BY <4>1, <4>2
    <3>. QED
      BY <1>1, <3>1, <3>2 DEF DeliveredFirst
  <2>6. PipeHoldsTheRest'
    <3>1. /\ Len(pipe) = Len(child.sent) - Len(delivered)
                           + (IF child.result = NoResult THEN 0 ELSE 1)
          /\ \A i \in 1 .. Len(pipe) :
               pipe[i] = IF Len(delivered) + i <= Len(child.sent)
                           THEN child.sent[Len(delivered) + i] ELSE child.result
      BY <1>a, <1>1 DEF PipeHoldsTheRest
    <3>2. Len(pipe') = Len(child.sent) - Len(delivered')
                         + (IF child.result = NoResult THEN 0 ELSE 1)
      BY <1>2, <2>1, <2>3, <3>1
    <3>3. ASSUME NEW i \in 1 .. Len(pipe')
          PROVE  pipe'[i] = IF Len(delivered') + i <= Len(child.sent)
                              THEN child.sent[Len(delivered') + i] ELSE child.result
      <4>1. i + 1 \in 1 .. Len(pipe) /\ Len(delivered') + i = Len(delivered) + (i + 1)
        BY <1>2, <2>1, <2>3
      <4>2. pipe'[i] = pipe[i + 1]
        BY <2>1
      <4>. QED
        BY <3>1, <4>1, <4>2
    <3>. QED
      BY <1>1, <3>2, <3>3 DEF PipeHoldsTheRest
  <2>7. CallStages' /\ OutcomesAreEarned'
    BY <1>a, <1>1, <2>2 DEF CallStages, OutcomesAreEarned, JsonErrors
  <2>. QED
    BY <2>4, <2>5, <2>6, <2>7 DEF CallInv
<1>4. CASE ~(Len(delivered) < Len(child.sent))
  <2>1. /\ Head(pipe) = child.result /\ child.result \in Results /\ delivered = child.sent
        /\ pipe' \in Seq(Events \cup Results)
    BY <1>1, <1>4, FirstOfPipe
  <2>2. child.result.what \in {"answer"} \cup JsonErrors /\ child.result # NoResult
    BY <2>1, MessageKinds
  <2>3. /\ waiter' \in Waiters /\ waiter'.kind = "chat" /\ waiter'.phase = "ending"
        /\ waiter'.outcome = child.result.what /\ delivered' = delivered
    <3>1. /\ waiter' = [waiter EXCEPT !.outcome = child.result.what, !.phase = "ending"]
          /\ delivered' = delivered
      BY <2>1, MessageKinds DEF ReceiveChat
    <3>. QED
      BY <1>a, <1>1, <2>1, <3>1, OutcomeNames DEF Waiters
  <2>4. CallTypeOK'
    BY <1>a, <1>1, <2>1, <2>3 DEF CallTypeOK
  <2>5. PipeHoldsTheRest' /\ DeliveredFirst'
    BY <1>a, <1>1, <2>3 DEF PipeHoldsTheRest, DeliveredFirst
  <2>6. CallStages'
    BY <1>a, <1>1, <2>2, <2>3 DEF CallStages, JsonErrors
  <2>7. OutcomesAreEarned'
    BY <1>1, <2>1, <2>2, <2>3 DEF OutcomesAreEarned, JsonErrors
  <2>. QED
    BY <2>4, <2>5, <2>6, <2>7 DEF CallInv
<1>. QED
  BY <1>3, <1>4

LEMMA CallStep == CallInv /\ [ModelCallNext]_callVars => CallInv'
<1> SUFFICES ASSUME CallInv, [ModelCallNext]_callVars
             PROVE  CallInv'
  OBVIOUS
<1>a. /\ CallTypeOK /\ PipeHoldsTheRest /\ DeliveredFirst /\ CallStages /\ OutcomesAreEarned
      /\ waiter \in Waiters /\ child \in Processes
      /\ pipe \in Seq(Events \cup Results) /\ delivered \in Seq(Events)
  BY DEF CallInv, CallTypeOK
<1>1. CASE StartJson
  <2>1. /\ waiter' \in Waiters /\ waiter'.kind = "json"
        /\ waiter'.phase = "waiting" /\ waiter'.outcome = "none"
        /\ child' \in Processes /\ child'.phase = "asking"
        /\ child'.sent = child.sent /\ child'.result = child.result
        /\ waiter.phase = "none"
    <3>1. /\ waiter' \in Waiters /\ waiter'.kind = "json"
          /\ waiter'.phase = "waiting" /\ waiter'.outcome = "none"
      BY <1>1, ModelCallBounds DEF StartJson, Waiters, Outcomes
    <3>. QED
      BY <1>a, <1>1, <3>1, ProcessMoves DEF StartJson, NoModelCall
  <2>2. CallTypeOK'
    BY <1>a, <1>1, <2>1 DEF CallTypeOK, StartJson
  <2>3. PipeHoldsTheRest' /\ DeliveredFirst'
    BY <1>a, <1>1, <2>1, StayingMessages DEF MessagesStay, StartJson
  <2>4. CallStages'
    BY <1>a, <1>1, <2>1 DEF CallStages, StartJson
  <2>5. OutcomesAreEarned'
    BY <1>a, <1>1, <2>1 DEF OutcomesAreEarned, JsonErrors, StartJson
  <2>. QED
    BY <2>2, <2>3, <2>4, <2>5 DEF CallInv
<1>2. CASE StartChat
  <2>1. /\ waiter' \in Waiters /\ waiter'.kind = "chat"
        /\ waiter'.phase = "starting" /\ waiter'.outcome = "none"
        /\ child' \in Processes /\ child'.phase = "asking"
        /\ child'.sent = child.sent /\ child'.result = child.result
        /\ waiter.phase = "none"
    <3>1. /\ waiter' \in Waiters /\ waiter'.kind = "chat"
          /\ waiter'.phase = "starting" /\ waiter'.outcome = "none"
      BY <1>2 DEF StartChat, Waiters, Outcomes
    <3>. QED
      BY <1>a, <1>2, <3>1, ProcessMoves DEF StartChat, NoModelCall
  <2>2. CallTypeOK'
    BY <1>a, <1>2, <2>1 DEF CallTypeOK, StartChat
  <2>3. PipeHoldsTheRest' /\ DeliveredFirst'
    BY <1>a, <1>2, <2>1, StayingMessages DEF MessagesStay, StartChat
  <2>4. CallStages'
    BY <1>a, <1>2, <2>1 DEF CallStages, StartChat
  <2>5. OutcomesAreEarned'
    BY <1>a, <1>2, <2>1 DEF OutcomesAreEarned, JsonErrors, StartChat
  <2>. QED
    BY <2>2, <2>3, <2>4, <2>5 DEF CallInv
<1>3. CASE Register
  <2>1. /\ waiter' \in Waiters /\ waiter'.kind = waiter.kind
        /\ waiter'.phase = "waiting" /\ waiter'.outcome = waiter.outcome
        /\ child' = child
    BY <1>a, <1>3, WaiterMoves DEF Register
  <2>2. CallTypeOK'
    BY <1>a, <1>3, <2>1 DEF CallTypeOK, Register
  <2>3. PipeHoldsTheRest' /\ DeliveredFirst'
    BY <1>a, <1>3, <2>1, StayingMessages DEF MessagesStay, Register
  <2>4. CallStages'
    BY <1>a, <1>3, <2>1, WaiterFields, ProcessFields DEF CallStages, Register
  <2>5. OutcomesAreEarned'
    BY <1>a, <1>3, <2>1, WaiterFields DEF CallStages, OutcomesAreEarned, JsonErrors, Register
  <2>. QED
    BY <2>2, <2>3, <2>4, <2>5 DEF CallInv
<1>4. CASE SendEvent
  <2>. QED
    BY <1>4, SendingStep
<1>5. CASE ModelAnswers
  <2>0. PICK m \in Results : EndsWith(m)
    BY <1>5, MessageKinds DEF ModelAnswers
  <2>. QED
    BY <1>5, <2>0, EndingStep DEF ModelAnswers
<1>6. CASE AskAgain
  <2>0. child.asks + 1 \in {0, 1}
    <3>1. child.asks \in {0, 1} /\ waiter.repairs \in {0, 1} /\ child.asks < waiter.repairs
      BY <1>a, <1>6, WaiterFields, ProcessFields DEF AskAgain
    <3>. QED
      BY <3>1
  <2>1. /\ waiter' = waiter
        /\ child' \in Processes /\ child'.phase = child.phase
        /\ child'.sent = child.sent /\ child'.result = child.result
    BY <1>a, <1>6, <2>0, ProcessMoves DEF AskAgain
  <2>2. CallTypeOK'
    BY <1>a, <1>6, <2>1 DEF CallTypeOK, AskAgain
  <2>3. PipeHoldsTheRest' /\ DeliveredFirst'
    BY <1>a, <1>6, <2>1, StayingMessages DEF MessagesStay, AskAgain
  <2>4. CallStages'
    BY <1>a, <1>6, <2>1, WaiterFields, ProcessFields DEF CallStages, AskAgain
  <2>5. OutcomesAreEarned'
    BY <1>a, <1>6, <2>1, WaiterFields DEF CallStages, OutcomesAreEarned, JsonErrors, AskAgain
  <2>. QED
    BY <2>2, <2>3, <2>4, <2>5 DEF CallInv
<1>7. CASE ModelFails
  <2>0. PICK m \in Results : EndsWith(m)
    BY <1>7, MessageKinds DEF ModelFails
  <2>. QED
    BY <1>7, <2>0, EndingStep DEF ModelFails
<1>8. CASE ProcessExits
  <2>1. /\ waiter' = waiter
        /\ child' \in Processes /\ child'.phase = "gone"
        /\ child'.sent = child.sent /\ child'.result = child.result
    BY <1>a, <1>8, ProcessMoves DEF ProcessExits, Alive
  <2>2. CallTypeOK'
    BY <1>a, <1>8, <2>1 DEF CallTypeOK, ProcessExits
  <2>3. PipeHoldsTheRest' /\ DeliveredFirst'
    BY <1>a, <1>8, <2>1, StayingMessages DEF MessagesStay, ProcessExits, Alive
  <2>4. CallStages'
    BY <1>a, <1>8, <2>1, WaiterFields, ProcessFields DEF CallStages, ProcessExits, Alive
  <2>5. OutcomesAreEarned'
    BY <1>a, <1>8, <2>1, WaiterFields
      DEF CallStages, OutcomesAreEarned, JsonErrors, ProcessExits, Alive
  <2>. QED
    BY <2>2, <2>3, <2>4, <2>5 DEF CallInv
<1>9. CASE PollEmpty
  <2>1. /\ waiter' \in Waiters /\ waiter'.kind = waiter.kind
        /\ waiter'.phase = "polled" /\ waiter'.outcome = waiter.outcome
        /\ child' = child
    BY <1>a, <1>9, WaiterMoves DEF PollEmpty
  <2>2. CallTypeOK'
    BY <1>a, <1>9, <2>1 DEF CallTypeOK, PollEmpty
  <2>3. PipeHoldsTheRest' /\ DeliveredFirst'
    BY <1>a, <1>9, <2>1, StayingMessages DEF MessagesStay, PollEmpty
  <2>4. CallStages'
    BY <1>a, <1>9, <2>1, WaiterFields, ProcessFields DEF CallStages, PollEmpty
  <2>5. OutcomesAreEarned'
    BY <1>a, <1>9, <2>1, WaiterFields DEF CallStages, OutcomesAreEarned, JsonErrors, PollEmpty
  <2>. QED
    BY <2>2, <2>3, <2>4, <2>5 DEF CallInv
<1>10. CASE JsonTimesOut
  <2>1. /\ waiter' \in Waiters /\ waiter'.kind = waiter.kind
        /\ waiter'.phase = "ending" /\ waiter'.outcome = "timeout"
        /\ child' = child
    BY <1>a, <1>10, OutcomeNames DEF Waiters, JsonTimesOut, EndsCall
  <2>2. CallTypeOK'
    BY <1>a, <1>10, <2>1 DEF CallTypeOK, JsonTimesOut, EndsCall
  <2>3. PipeHoldsTheRest' /\ DeliveredFirst'
    BY <1>a, <1>10, <2>1, StayingMessages DEF MessagesStay, JsonTimesOut, EndsCall
  <2>4. CallStages'
    BY <1>a, <1>10, <2>1, WaiterFields, ProcessFields DEF CallStages, JsonTimesOut, EndsCall
  <2>5. OutcomesAreEarned'
    BY <1>a, <1>10, <2>1, WaiterFields
      DEF CallStages, OutcomesAreEarned, JsonErrors, JsonTimesOut, EndsCall
  <2>. QED
    BY <2>2, <2>3, <2>4, <2>5 DEF CallInv
<1>11. CASE PollAgain
  <2>1. /\ waiter' \in Waiters /\ waiter'.kind = waiter.kind
        /\ waiter'.phase = "waiting" /\ waiter'.outcome = waiter.outcome
        /\ child' = child
    BY <1>a, <1>11, WaiterMoves DEF PollAgain, Alive
  <2>2. CallTypeOK'
    BY <1>a, <1>11, <2>1 DEF CallTypeOK, PollAgain
  <2>3. PipeHoldsTheRest' /\ DeliveredFirst'
    BY <1>a, <1>11, <2>1, StayingMessages DEF MessagesStay, PollAgain, Alive
  <2>4. CallStages'
    BY <1>a, <1>11, <2>1, WaiterFields, ProcessFields DEF CallStages, PollAgain, Alive
  <2>5. OutcomesAreEarned'
    BY <1>a, <1>11, <2>1, WaiterFields
      DEF CallStages, OutcomesAreEarned, JsonErrors, PollAgain, Alive
  <2>. QED
    BY <2>2, <2>3, <2>4, <2>5 DEF CallInv
<1>12. CASE ProcessStopped
  <2>1. /\ waiter' \in Waiters /\ waiter'.kind = waiter.kind
        /\ waiter'.phase = "ending" /\ waiter'.outcome = "stopped"
        /\ child' = child
    BY <1>a, <1>12, OutcomeNames DEF Waiters, ProcessStopped, EndsCall, Alive
  <2>2. CallTypeOK'
    BY <1>a, <1>12, <2>1 DEF CallTypeOK, ProcessStopped, EndsCall
  <2>3. PipeHoldsTheRest' /\ DeliveredFirst'
    BY <1>a, <1>12, <2>1, StayingMessages DEF MessagesStay, ProcessStopped, EndsCall, Alive
  <2>4. CallStages'
    BY <1>a, <1>12, <2>1, WaiterFields, ProcessFields
      DEF CallStages, ProcessStopped, EndsCall, Alive
  <2>5. OutcomesAreEarned'
    BY <1>a, <1>12, <2>1, WaiterFields
      DEF CallStages, OutcomesAreEarned, JsonErrors, ProcessStopped, EndsCall, Alive
  <2>. QED
    BY <2>2, <2>3, <2>4, <2>5 DEF CallInv
<1>13. CASE ChatTimesOut
  <2>1. /\ waiter' \in Waiters /\ waiter'.kind = waiter.kind
        /\ waiter'.phase = "ending" /\ waiter'.outcome = "timeout"
        /\ child' = child
    BY <1>a, <1>13, OutcomeNames DEF Waiters, ChatTimesOut, EndsCall
  <2>2. CallTypeOK'
    BY <1>a, <1>13, <2>1 DEF CallTypeOK, ChatTimesOut, EndsCall
  <2>3. PipeHoldsTheRest' /\ DeliveredFirst'
    BY <1>a, <1>13, <2>1, StayingMessages DEF MessagesStay, ChatTimesOut, EndsCall
  <2>4. CallStages'
    BY <1>a, <1>13, <2>1, WaiterFields, ProcessFields DEF CallStages, ChatTimesOut, EndsCall
  <2>5. OutcomesAreEarned'
    BY <1>a, <1>13, <2>1, WaiterFields
      DEF CallStages, OutcomesAreEarned, JsonErrors, ChatTimesOut, EndsCall
  <2>. QED
    BY <2>2, <2>3, <2>4, <2>5 DEF CallInv
<1>14. CASE ReceiveEnd
  <2>1. /\ waiter.phase = "waiting" /\ pipe = <<>> /\ child.phase = "gone" /\ child' = child
        /\ waiter' \in Waiters /\ waiter'.kind = waiter.kind
        /\ IF waiter.kind = "json"
             THEN waiter'.phase = "done" /\ waiter'.outcome = "unavailable"
             ELSE waiter'.phase = "ending" /\ waiter'.outcome = "end_of_pipe"
    BY <1>a, <1>14, OutcomeNames DEF Waiters, ReceiveEnd, AtEndOfPipe, EndsCall
  <2>2. CallTypeOK'
    BY <1>a, <1>14, <2>1 DEF CallTypeOK, ReceiveEnd, EndsCall
  <2>3. PipeHoldsTheRest' /\ DeliveredFirst'
    BY <1>a, <1>14, <2>1, StayingMessages DEF MessagesStay, ReceiveEnd, AtEndOfPipe, EndsCall
  <2>4. CallStages'
    BY <1>a, <1>14, <2>1, WaiterFields DEF CallStages, ReceiveEnd, AtEndOfPipe, EndsCall
  <2>5. child.result = NoResult
    <3>1. Len(pipe) = 0 /\ Len(child.sent) \in Nat /\ Len(delivered) \in Nat
      BY <1>a, <2>1, ProcessFields, EmptySeq, LenProperties
    <3>2. /\ Len(delivered) <= Len(child.sent)
          /\ child.result # NoResult => Len(pipe) = Len(child.sent) - Len(delivered) + 1
      BY <1>a, <2>1 DEF PipeHoldsTheRest, DeliveredFirst
    <3>. QED
      BY <3>1, <3>2
  <2>6. OutcomesAreEarned'
    BY <1>a, <1>14, <2>1, <2>5, WaiterFields DEF OutcomesAreEarned, JsonErrors
  <2>. QED
    BY <2>2, <2>3, <2>4, <2>6 DEF CallInv
<1>15. CASE ReceiveJson
  <2>. QED
    BY <1>15, ReceivingJson
<1>16. CASE ReceiveChat
  <2>. QED
    BY <1>16, ReceivingChat
<1>17. CASE Cancelled
  <2>1. /\ waiter' \in Waiters /\ waiter'.kind = waiter.kind
        /\ waiter'.phase = "ending" /\ waiter'.outcome = "cancelled"
        /\ child' = child
    BY <1>a, <1>17, OutcomeNames DEF Waiters, Cancelled, EndsCall
  <2>2. CallTypeOK'
    BY <1>a, <1>17, <2>1 DEF CallTypeOK, Cancelled, EndsCall
  <2>3. PipeHoldsTheRest' /\ DeliveredFirst'
    BY <1>a, <1>17, <2>1, StayingMessages DEF MessagesStay, Cancelled, EndsCall
  <2>4. CallStages'
    BY <1>a, <1>17, <2>1, WaiterFields, ProcessFields DEF CallStages, Cancelled, EndsCall
  <2>5. OutcomesAreEarned'
    BY <1>a, <1>17, <2>1, WaiterFields
      DEF CallStages, OutcomesAreEarned, JsonErrors, Cancelled, EndsCall
  <2>. QED
    BY <2>2, <2>3, <2>4, <2>5 DEF CallInv
<1>18. CASE JoinProcess
  <2>1. /\ waiter' \in Waiters /\ waiter'.kind = waiter.kind
        /\ waiter'.phase = "done" /\ waiter'.outcome = waiter.outcome
        /\ child' = child
    BY <1>a, <1>18, WaiterMoves DEF JoinProcess
  <2>2. CallTypeOK'
    BY <1>a, <1>18, <2>1 DEF CallTypeOK, JoinProcess
  <2>3. PipeHoldsTheRest' /\ DeliveredFirst'
    BY <1>a, <1>18, <2>1, StayingMessages DEF MessagesStay, JoinProcess
  <2>4. CallStages'
    BY <1>a, <1>18, <2>1, WaiterFields, ProcessFields DEF CallStages, JoinProcess
  <2>5. OutcomesAreEarned'
    BY <1>a, <1>18, <2>1, WaiterFields DEF CallStages, OutcomesAreEarned, JsonErrors, JoinProcess
  <2>. QED
    BY <2>2, <2>3, <2>4, <2>5 DEF CallInv
<1>19. CASE KillProcess
  <2>1. /\ waiter' \in Waiters /\ waiter'.kind = waiter.kind
        /\ waiter'.phase = "done" /\ waiter'.outcome = waiter.outcome
        /\ child' \in Processes /\ child'.phase = "gone"
        /\ child'.sent = child.sent /\ child'.result = child.result
    BY <1>a, <1>19, WaiterMoves, ProcessMoves DEF KillProcess
  <2>2. CallTypeOK'
    BY <1>a, <1>19, <2>1 DEF CallTypeOK, KillProcess
  <2>3. PipeHoldsTheRest' /\ DeliveredFirst'
    BY <1>a, <1>19, <2>1, StayingMessages DEF MessagesStay, KillProcess
  <2>4. CallStages'
    BY <1>a, <1>19, <2>1, WaiterFields, ProcessFields DEF CallStages, KillProcess
  <2>5. OutcomesAreEarned'
    BY <1>a, <1>19, <2>1, WaiterFields DEF CallStages, OutcomesAreEarned, JsonErrors, KillProcess
  <2>. QED
    BY <2>2, <2>3, <2>4, <2>5 DEF CallInv
<1>20. CASE StopChatRun
  <2>1. /\ waiter' = waiter
        /\ child' \in Processes /\ child'.phase = "gone"
        /\ child'.sent = child.sent /\ child'.result = child.result
    BY <1>a, <1>20, ProcessMoves DEF StopChatRun, Alive
  <2>2. CallTypeOK'
    BY <1>a, <1>20, <2>1 DEF CallTypeOK, StopChatRun
  <2>3. PipeHoldsTheRest' /\ DeliveredFirst'
    BY <1>a, <1>20, <2>1, StayingMessages DEF MessagesStay, StopChatRun, Alive
  <2>4. CallStages'
    BY <1>a, <1>20, <2>1, WaiterFields, ProcessFields DEF CallStages, StopChatRun, Alive
  <2>5. OutcomesAreEarned'
    BY <1>a, <1>20, <2>1, WaiterFields
      DEF CallStages, OutcomesAreEarned, JsonErrors, StopChatRun, Alive
  <2>. QED
    BY <2>2, <2>3, <2>4, <2>5 DEF CallInv
<1>21. CASE UNCHANGED callVars
  BY <1>a, <1>21 DEF callVars, CallInv, CallTypeOK, PipeHoldsTheRest, DeliveredFirst, CallStages,
              OutcomesAreEarned
<1>. QED
  BY <1>1, <1>2, <1>3, <1>4, <1>5, <1>6, <1>7, <1>8, <1>9, <1>10,
     <1>11, <1>12, <1>13, <1>14, <1>15, <1>16, <1>17, <1>18, <1>19, <1>20, <1>21 DEF ModelCallNext

LEMMA CallInvariant == ModelCallSpec => []CallInv
BY CallFirst, CallStep, PTL DEF ModelCallSpec

(* Every call, whatever its number of events and repairs, keeps the types of *)
(* its messages and records.                                                  *)
THEOREM CallTypeCorrect == ModelCallSpec => []CallTypeOK
<1>1. CallInv => CallTypeOK
  BY DEF CallInv
<1>. QED
  BY <1>1, CallInvariant, PTL

(* Every call ends with what its process sent and takes the process with it. *)
THEOREM CallsEnd == ModelCallSpec => []CallsEndWithTheirProcess
<1>1. ASSUME CallInv PROVE CallsEndWithTheirProcess
  <2>1. EndedCallsAskNoMore
    BY <1>1 DEF CallInv, CallStages, EndedCallsAskNoMore
  <2>2. IsPrefix(delivered, child.sent)
    <3>1. /\ delivered \in Seq(Events) /\ child.sent \in Seq(Events)
          /\ Len(delivered) <= Len(child.sent)
          /\ \A i \in 1 .. Len(delivered) : delivered[i] = child.sent[i]
      BY <1>1, ProcessFields DEF CallInv, CallTypeOK, DeliveredFirst
    <3>. QED
      BY <3>1 DEF IsPrefix
  <2>3. waiter.outcome = "answer" => child.result = FinalAnswer /\ delivered = child.sent
    <3>1. ASSUME waiter.outcome = "answer"
          PROVE  child.result.what = "answer" /\ delivered = child.sent
      BY <1>1, <3>1 DEF CallInv, OutcomesAreEarned
    <3>2. child.result \in Results \cup {NoResult}
      BY <1>1, ProcessFields DEF CallInv, CallTypeOK
    <3>. QED
      BY <3>1, <3>2, MessageKinds
  <2>4. AnswersAreNotLost
    <3>. SUFFICES ASSUME waiter.phase = "done", child.result = FinalAnswer
                  PROVE  \/ waiter.outcome \in {"answer", "timeout", "cancelled"}
                         \/ waiter.kind = "chat" /\ waiter.outcome = "stopped"
      BY DEF AnswersAreNotLost
    <3>1. waiter.outcome \in Outcomes
      BY <1>1, WaiterFields DEF CallInv, CallTypeOK
    <3>2. child.result # NoResult /\ child.result.what = "answer"
      BY MessageKinds
    <3>3. waiter.outcome # "end_of_pipe" /\ waiter.outcome # "none"
      BY <1>1, <3>2 DEF CallInv, OutcomesAreEarned
    <3>4. waiter.outcome \notin JsonErrors
      BY <1>1, <3>2 DEF CallInv, OutcomesAreEarned, JsonErrors
    <3>5. waiter.outcome = "stopped" => waiter.kind = "chat"
      BY <1>1 DEF CallInv, OutcomesAreEarned
    <3>. QED
      BY <3>1, <3>3, <3>4, <3>5 DEF Outcomes
  <2>. QED
    BY <2>1, <2>2, <2>3, <2>4 DEF CallsEndWithTheirProcess, DeliveredInOrder
<1>. QED
  BY <1>1, CallInvariant, PTL

-----------------------------------------------------------------------------
(* settings.key *)

StartWrites(s) == starts[s].step = "writing"
SaveWrites(g) == saves[g].step = "writing"

(* The key of whoever is writing it is the last one generated.                *)
WritersHoldTheNewKey ==
  /\ \A s \in Starts : StartWrites(s) => starts[s].key = generated /\ generated > 0
  /\ \A g \in Governors : SaveWrites(g) => saves[g].key = generated /\ generated > 0

(* While the key is written its file is partial, and only one writes it.      *)
OneWriter ==
  /\ \A s \in Starts : StartWrites(s) => keyFile = Partial
  /\ \A g \in Governors : SaveWrites(g) => keyFile = Partial
  /\ \A s, t \in Starts : StartWrites(s) /\ StartWrites(t) => s = t
  /\ \A g, h \in Governors : SaveWrites(g) /\ SaveWrites(h) => g = h
  /\ \A s \in Starts, g \in Governors : ~(StartWrites(s) /\ SaveWrites(g))

(* What is about to be committed is encrypted with the key in place, and so   *)
(* is all that is stored, but for the keys that were lost.                    *)
CommitsWithTheKey ==
  \A g \in Governors : saves[g].step = "committing" => keyFile \in Whole /\ saves[g].key = keyFile

RowsUseKeys ==
  /\ configuration = NoRow \/ configuration.key \in (lost \cup {keyFile}) \cap Whole
  /\ \A p \in Presets :
       credentials[p] = NoRow \/ credentials[p].key \in (lost \cup {keyFile}) \cap Whole

KeyInv == WritersHoldTheNewKey /\ OneWriter /\ CommitsWithTheKey /\ RowsUseKeys

-----------------------------------------------------------------------------
(* The rows and the page *)

SecretFits(row) == row = NoRow \/ row.secret = row.connection

(* The key of a form, when it has one, is for its connection.                 *)
FormFits(form) == form.preset \in Presets /\ form.secret \in {NoSecret, form.connection}

FormsFit ==
  /\ FormFits(page.form)
  /\ page.busy \in {"test", "save", "saved"} => FormFits(page.sent)
  /\ \A g \in Governors : saves[g] # NotSaving => FormFits(saves[g].payload)

ShapesFit == SettingsTypeOK /\ FormsFit

(* What a save stores fits its connection. *)
SavesFit ==
  \A g \in Governors :
    saves[g] # NotSaving => saves[g].secret = saves[g].payload.connection

OneSave ==
  /\ \A g, h \in Governors : saves[g] # NotSaving /\ saves[h] # NotSaving => g = h
  /\ \A g \in Governors :
       saves[g] # NotSaving =>
         saves[g].read = configuration /\ saves[g].known = credentials[saves[g].payload.preset]

RowsFit == SecretFits(configuration) /\ \A p \in Presets : SecretFits(credentials[p])

(* What counts as tested is the form as it is.                                *)
TestedForms ==
  /\ page.tested = page.revision => page.passed = page.form
  /\ page.busy = "test" => page.at <= page.revision
  /\ page.busy = "test" /\ page.at = page.revision => page.sent = page.form
  /\ page.busy = "save" => page.sent = page.passed

(* What the bounds of the constants come to. *)
LEMMA SettingsBounds ==
  /\ MaxKeys \in Nat /\ MaxRevision \in Nat /\ Absent \in 0 .. MaxKeys /\ 0 \in 0 .. MaxRevision
  /\ -1 \in -1 .. MaxRevision /\ 0 .. MaxRevision \subseteq -1 .. MaxRevision
  /\ 0 .. MaxKeys \subseteq 0 .. MaxKeys + 1 /\ Absent \in 0 .. MaxKeys + 1
  /\ Environment \in Connections /\ Presets # {} /\ Absent = 0 /\ Whole \subseteq 0 .. MaxKeys
<1>1. MaxKeys \in Nat /\ MaxRevision \in Nat
  BY SettingsAssumption
<1>. QED
  BY <1>1, SettingsAssumption DEF Absent, Whole

(* The shapes of a start and of a save after each kind of change. *)
LEMMA StartChanges ==
  ASSUME starts \in [Starts -> StartShapes], NEW s \in Starts
  PROVE  /\ starts[s].step \in {"idle", "looking", "creating", "writing", "reentry", "ready",
                                "failed"}
         /\ starts[s].key \in 0 .. MaxKeys
         /\ \A x \in StartShapes : [starts EXCEPT ![s] = x] \in [Starts -> StartShapes]
         /\ \A e \in {"looking", "creating", "reentry", "ready", "failed"} :
              /\ [starts EXCEPT ![s].step = e] \in [Starts -> StartShapes]
              /\ [starts EXCEPT ![s].step = e][s].step = e
              /\ \A t \in Starts : t # s => [starts EXCEPT ![s].step = e][t] = starts[t]
BY DEF StartShapes

LEMMA SettingsRowFields ==
  ASSUME NEW r \in RowShapes
  PROVE  /\ r.preset \in Presets \cup {"none"} /\ r.connection \in Connections \cup {"none"}
         /\ r.secret \in Connections \cup {NoSecret} /\ r.key \in 0 .. MaxKeys
BY DEF RowShapes

LEMMA NoRowShape == NoRow \in RowShapes
BY SettingsBounds DEF NoRow, RowShapes, NoSecret

LEMMA FormShape ==
  ASSUME NEW p, p.preset \in Presets, p.connection \in Connections \cup {"none"},
         p.secret \in {NoSecret, p.connection}, p.secret \in Connections \cup {NoSecret}
  PROVE  Form(p) \in RowShapes /\ FormFits(Form(p))
<1>1. /\ Form(p).preset = p.preset /\ Form(p).connection = p.connection
      /\ Form(p).secret = p.secret
  BY DEF Form, NoRow
<1>2. Form(p) \in RowShapes
  BY SettingsBounds DEF Form, NoRow, NoSecret, RowShapes
<1>. QED
  BY <1>1, <1>2 DEF FormFits

LEMMA PayloadForm ==
  ASSUME NEW p \in Payloads
  PROVE  Form(p) \in RowShapes /\ FormFits(Form(p))
<1>1. /\ p.preset \in Presets /\ p.connection \in Connections
      /\ p.secret \in Connections \cup {NoSecret} /\ p.secret \in {NoSecret, p.connection}
  BY DEF Payloads
<1>. QED
  BY <1>1, FormShape

LEMMA SaveFields ==
  ASSUME NEW s \in SaveShapes
  PROVE  /\ s.step \in {"idle", "encrypting", "writing", "committing"} /\ s.payload \in RowShapes
         /\ s.secret \in Connections \cup {NoSecret} /\ s.key \in 0 .. MaxKeys
         /\ s.read \in RowShapes /\ s.known \in RowShapes
BY DEF SaveShapes

LEMMA NotSavingShape == NotSaving \in SaveShapes /\ NotSaving.step = "idle"
BY NoRowShape, SettingsBounds DEF NotSaving, SaveShapes, NoSecret

LEMMA SaveMoves ==
  ASSUME saves \in [Governors -> SaveShapes], NEW g \in Governors, NEW x,
         NEW e \in {"encrypting", "writing", "committing"}, x = [saves EXCEPT ![g].step = e]
  PROVE  /\ x \in [Governors -> SaveShapes] /\ \A h \in Governors : h # g => x[h] = saves[h]
         /\ x[g].step = e /\ x[g].key = saves[g].key /\ x[g].payload = saves[g].payload
         /\ x[g].secret = saves[g].secret /\ x[g].read = saves[g].read
         /\ x[g].known = saves[g].known
BY DEF SaveShapes

LEMMA ShapesFirst == SettingsInit => ShapesFit
<1>. SUFFICES ASSUME SettingsInit PROVE ShapesFit
  OBVIOUS
<1>1. /\ keyFile \in 0 .. MaxKeys + 1 /\ generated \in 0 .. MaxKeys /\ lost \subseteq Whole
      /\ starts \in [Starts -> StartShapes]
  <2>1. [step |-> "idle", key |-> Absent] \in StartShapes
    BY SettingsBounds DEF StartShapes
  <2>. QED
    BY <2>1, SettingsBounds DEF SettingsInit
<1>2. /\ configuration \in RowShapes /\ credentials \in [Presets -> RowShapes]
      /\ saves \in [Governors -> SaveShapes]
  BY NoRowShape, NotSavingShape DEF SettingsInit
<1>3. page \in PageShapes
  <2>1. FirstPreset \in Presets
    BY SettingsBounds DEF FirstPreset
  <2>2. page.form \in RowShapes
    BY <2>1, SettingsBounds DEF SettingsInit, NoRow, RowShapes, NoSecret
  <2>. QED
    BY <2>2, NoRowShape, SettingsBounds DEF SettingsInit, PageShapes
<1>4. FormsFit
  <2>1. FirstPreset \in Presets
    BY SettingsBounds DEF FirstPreset
  <2>. QED
    BY <2>1 DEF SettingsInit, FormsFit, FormFits, NoRow
<1>. QED
  BY <1>1, <1>2, <1>3, <1>4 DEF SettingsTypeOK, ShapesFit

(* What a draft takes its secret from. *)
LEMMA DraftShape ==
  ASSUME SettingsTypeOK, NEW f \in RowShapes, FormFits(f)
  PROVE  DraftConnection(f) \in Connections \cup {NoSecret} /\ credentials[f.preset] \in RowShapes
<1>1. credentials[f.preset] \in RowShapes
  BY DEF SettingsTypeOK, FormFits
<1>2. Current \in RowShapes
  <2>1. [NoRow EXCEPT !.connection = Environment, !.secret = Environment] \in RowShapes
    BY SettingsBounds DEF NoRow, RowShapes
  <2>. QED
    BY <2>1, NoRowShape DEF Current, SettingsTypeOK
<1>3. /\ f.secret \in Connections \cup {NoSecret} /\ Current.secret \in Connections \cup {NoSecret}
      /\ credentials[f.preset].secret \in Connections \cup {NoSecret}
  BY <1>1, <1>2, SettingsRowFields
<1>. QED
  BY <1>1, <1>3 DEF DraftConnection

(* The fields of the page, and what an answer leaves.                         *)
LEMMA PageFields ==
  ASSUME page \in PageShapes
  PROVE  /\ page.form \in RowShapes /\ page.sent \in RowShapes /\ page.passed \in RowShapes
         /\ page.revision \in 0 .. MaxRevision /\ page.at \in 0 .. MaxRevision
         /\ page.busy \in {"idle", "test", "save", "saved"} /\ page.by \in Governors \cup {"none"}
         /\ page.tested \in -1 .. MaxRevision
<1>1. page.tested \in -1 .. MaxRevision
  BY DEF PageShapes
<1>2. /\ page.form \in RowShapes /\ page.sent \in RowShapes /\ page.passed \in RowShapes
      /\ page.revision \in 0 .. MaxRevision /\ page.at \in 0 .. MaxRevision
      /\ page.busy \in {"idle", "test", "save", "saved"} /\ page.by \in Governors \cup {"none"}
  BY DEF PageShapes
<1>. QED
  BY <1>1, <1>2

(* A new key has a number that no key has had. *)
LEMMA NextKey ==
  ASSUME SettingsTypeOK, generated < MaxKeys
  PROVE  /\ generated + 1 \in Whole /\ generated + 1 \in 0 .. MaxKeys /\ generated + 1 > generated
         /\ Partial \in 0 .. MaxKeys + 1
BY SettingsBounds DEF SettingsTypeOK, Whole, Partial

(* A step of the page, with or without one of a save, or of a commit.         *)
LEMMA PageStep ==
  ASSUME ShapesFit, page' \in PageShapes, FormFits(page'.form),
         page'.busy \in {"test", "save", "saved"} => FormFits(page'.sent), UnchangedServer
  PROVE  ShapesFit'
BY DEF ShapesFit, SettingsTypeOK, FormsFit, FormFits, UnchangedServer

LEMMA DraftStep ==
  ASSUME ShapesFit, NEW g \in Governors, NEW f \in RowShapes, FormFits(f), SaveDrafts(g, f),
         page' \in PageShapes, FormFits(page'.form),
         page'.busy \in {"test", "save", "saved"} => FormFits(page'.sent)
  PROVE  ShapesFit'
<1>1. DraftConnection(f) \in Connections \cup {NoSecret} /\ credentials[f.preset] \in RowShapes
  BY DraftShape DEF ShapesFit
<1>2. saves \in [Governors -> SaveShapes] /\ configuration \in RowShapes
  BY DEF ShapesFit, SettingsTypeOK
<1>. DEFINE drafted == [step |-> "encrypting", payload |-> f, secret |-> DraftConnection(f),
                        key |-> Absent, read |-> configuration, known |-> credentials[f.preset]]
<1>3. drafted \in SaveShapes /\ drafted.payload = f
  BY <1>1, <1>2, SettingsBounds DEF SaveShapes
<1>4. saves' = [saves EXCEPT ![g] = drafted]
  BY DEF SaveDrafts
<1>. HIDE DEF drafted
<1>5. /\ saves' \in [Governors -> SaveShapes] /\ saves'[g].payload = f
      /\ \A h \in Governors : h # g => saves'[h] = saves[h]
  BY <1>2, <1>3, <1>4
<1>6. SettingsTypeOK'
  BY <1>5 DEF ShapesFit, SettingsTypeOK, SaveDrafts
<1>7. FormsFit'
  <2>1. ASSUME NEW h \in Governors, saves'[h] # NotSaving PROVE FormFits(saves'[h].payload)
    BY <1>5, <2>1 DEF ShapesFit, FormsFit
  <2>. QED
    BY <2>1 DEF FormsFit, FormFits
<1>. QED
  BY <1>6, <1>7 DEF ShapesFit

(* A step of a save whose payload stays, or that is given up.                 *)
LEMMA SaveStep ==
  ASSUME ShapesFit, NEW g \in Governors, saves[g] # NotSaving,
         saves' \in [Governors -> SaveShapes],
         saves'[g] # NotSaving => saves'[g].payload = saves[g].payload,
         \A h \in Governors : h # g => saves'[h] = saves[h],
         keyFile' \in 0 .. MaxKeys + 1, generated' \in 0 .. MaxKeys, SaveKeeps
  PROVE  ShapesFit'
<1>1. SettingsTypeOK'
  BY DEF ShapesFit, SettingsTypeOK, SaveKeeps
<1>2. ASSUME NEW h \in Governors, saves'[h] # NotSaving PROVE FormFits(saves'[h].payload)
  BY <1>2 DEF ShapesFit, FormsFit
<1>3. FormsFit'
  BY <1>2 DEF ShapesFit, FormsFit, FormFits, SaveKeeps
<1>. QED
  BY <1>1, <1>3 DEF ShapesFit

(* A step of a start, or the loss of the key.                                 *)
LEMMA StartStep ==
  ASSUME ShapesFit, starts' \in [Starts -> StartShapes], keyFile' \in 0 .. MaxKeys + 1,
         generated' \in 0 .. MaxKeys, lost' \subseteq Whole, UnchangedRows
  PROVE  ShapesFit'
BY DEF ShapesFit, SettingsTypeOK, FormsFit, FormFits, UnchangedRows

(* What a commit writes into a row. *)
LEMMA FlushShape ==
  ASSUME NEW s \in SaveShapes, FormFits(s.payload), NEW read \in RowShapes, NEW row \in RowShapes
  PROVE  /\ Flush(s, read, row) \in RowShapes
         /\ Flush(s, read, row).preset = s.payload.preset /\ Flush(s, read, row).secret = s.secret
         /\ Flush(s, read, row).key = s.key
         /\ Flush(s, read, row).connection =
              IF read.connection = s.payload.connection THEN row.connection
                                                        ELSE s.payload.connection
<1>1. /\ s.payload \in RowShapes /\ s.payload.preset \in Presets
      /\ s.payload.connection \in Connections \cup {"none"}
      /\ row.connection \in Connections \cup {"none"}
      /\ s.secret \in Connections \cup {NoSecret} /\ s.key \in 0 .. MaxKeys
  BY SaveFields, SettingsRowFields DEF FormFits
<1>. QED
  BY <1>1 DEF Flush, RowShapes

LEMMA ShapesStep == ShapesFit /\ [SettingsNext]_settingsVars => ShapesFit'
<1>. SUFFICES ASSUME ShapesFit, [SettingsNext]_settingsVars PROVE ShapesFit'
  OBVIOUS
<1>a. /\ keyFile \in 0 .. MaxKeys + 1 /\ generated \in 0 .. MaxKeys /\ lost \subseteq Whole
      /\ configuration \in RowShapes /\ credentials \in [Presets -> RowShapes]
      /\ starts \in [Starts -> StartShapes] /\ saves \in [Governors -> SaveShapes]
      /\ page \in PageShapes /\ SettingsTypeOK /\ FormsFit
  BY DEF ShapesFit, SettingsTypeOK
<1>b. \A s \in Starts : starts[s].key \in 0 .. MaxKeys + 1
  BY <1>a, StartChanges, SettingsBounds
<1>c. \A g \in Governors : /\ saves[g] \in SaveShapes /\ saves[g].key \in 0 .. MaxKeys + 1
                           /\ saves[g].key \in 0 .. MaxKeys
  BY <1>a, SaveFields, SettingsBounds
<1>d. \A g \in Governors : saves[g].step # "idle" => saves[g] # NotSaving
  BY NotSavingShape
<1>1. ASSUME NEW s \in Starts, PreflightReads(s) \/ PreflightLooks(s) \/ PreflightIsLate(s)
      PROVE  ShapesFit'
  <2>1. PICK e \in {"looking", "creating", "reentry", "ready", "failed"} : Step(s, e)
    BY <1>1 DEF PreflightReads, PreflightLooks, PreflightIsLate
  <2>2. UNCHANGED <<keyFile, generated, lost>> /\ UnchangedRows
    BY <1>1 DEF PreflightReads, PreflightLooks, PreflightIsLate
  <2>3. starts' \in [Starts -> StartShapes]
    BY <1>a, <2>1, StartChanges DEF Step
  <2>. QED
    BY <1>a, <2>2, <2>3, StartStep
<1>2. ASSUME NEW s \in Starts, PreflightCreates(s) PROVE ShapesFit'
  <2>1. [step |-> "writing", key |-> generated + 1] \in StartShapes
    BY <1>a, <1>2, NextKey DEF PreflightCreates, OpensNew, StartShapes
  <2>2. starts' \in [Starts -> StartShapes]
    BY <1>a, <1>2, <2>1, StartChanges DEF PreflightCreates
  <2>3. /\ keyFile' \in 0 .. MaxKeys + 1 /\ generated' \in 0 .. MaxKeys /\ lost' = lost
        /\ UnchangedRows
    BY <1>a, <1>2, NextKey DEF PreflightCreates, OpensNew
  <2>. QED
    BY <1>a, <2>2, <2>3, StartStep
<1>3. ASSUME NEW s \in Starts, PreflightWrites(s) PROVE ShapesFit'
  <2>1. starts' \in [Starts -> StartShapes]
    BY <1>a, <1>3, StartChanges DEF PreflightWrites, Step
  <2>2. keyFile' \in 0 .. MaxKeys + 1 /\ UNCHANGED <<generated, lost>> /\ UnchangedRows
    BY <1>b, <1>3 DEF PreflightWrites
  <2>. QED
    BY <1>a, <2>1, <2>2, StartStep
<1>4. ASSUME NEW s \in Starts, PreflightDies(s) PROVE ShapesFit'
  <2>1. [step |-> "idle", key |-> Absent] \in StartShapes
    BY SettingsBounds DEF StartShapes
  <2>2. starts' \in [Starts -> StartShapes]
    BY <1>a, <1>4, <2>1, StartChanges DEF PreflightDies
  <2>. QED
    BY <1>a, <1>4, <2>2, StartStep DEF PreflightDies
<1>5. CASE LoseKey
  <2>1. keyFile' \in 0 .. MaxKeys + 1 /\ lost' \subseteq Whole
    BY <1>a, <1>5, SettingsBounds DEF LoseKey
  <2>. QED
    BY <1>a, <1>5, <2>1, StartStep DEF LoseKey
<1>6. ASSUME NEW g \in Governors, SaveDirectly(g) PROVE ShapesFit'
  <2>1. PICK p \in Payloads : SaveDrafts(g, Form(p))
    BY <1>6 DEF SaveDirectly
  <2>2. Form(p) \in RowShapes /\ FormFits(Form(p))
    BY PayloadForm
  <2>3. page' = page
    BY <1>6 DEF SaveDirectly
  <2>4. page' \in PageShapes /\ FormFits(page'.form)
        /\ (page'.busy \in {"test", "save", "saved"} => FormFits(page'.sent))
    BY <1>a, <2>3 DEF FormsFit
  <2>. QED
    BY <2>1, <2>2, <2>4, DraftStep
<1>7. ASSUME NEW g \in Governors, Submit(g) PROVE ShapesFit'
  <2>1. /\ SaveDrafts(g, page.form)
        /\ page' = [page EXCEPT !.busy = "save", !.sent = page.form, !.by = g]
    BY <1>7 DEF Submit
  <2>2. page.form \in RowShapes /\ FormFits(page.form)
    BY <1>a, PageFields DEF FormsFit
  <2>3. /\ page' \in PageShapes /\ page'.form = page.form /\ page'.sent = page.form
    BY <1>a, <2>1, <2>2 DEF PageShapes
  <2>. QED
    BY <2>1, <2>2, <2>3, DraftStep
<1>8. ASSUME NEW g \in Governors, SaveLoadsKey(g) PROVE ShapesFit'
  <2>1. /\ saves[g].step = "encrypting" /\ keyFile \in 0 .. MaxKeys
        /\ saves' = [saves EXCEPT ![g].step = "committing", ![g].key = keyFile]
        /\ UNCHANGED <<keyFile, generated>> /\ SaveKeeps
    BY <1>8, SettingsBounds DEF SaveLoadsKey
  <2>2. /\ saves' \in [Governors -> SaveShapes] /\ saves'[g].payload = saves[g].payload
        /\ \A h \in Governors : h # g => saves'[h] = saves[h]
    BY ZenonT(30), <1>a, <2>1 DEF SaveShapes
  <2>. QED
    BY <1>a, <1>d, <2>1, <2>2, SaveStep
<1>9. ASSUME NEW g \in Governors, SaveCreatesKey(g) PROVE ShapesFit'
  <2>1. /\ saves[g].step = "encrypting" /\ generated + 1 \in 0 .. MaxKeys
        /\ keyFile' \in 0 .. MaxKeys + 1 /\ generated' \in 0 .. MaxKeys
        /\ saves' = [saves EXCEPT ![g].step = "writing", ![g].key = generated + 1]
        /\ SaveKeeps
    BY <1>a, <1>9, NextKey DEF SaveCreatesKey, OpensNew
  <2>2. /\ saves' \in [Governors -> SaveShapes] /\ saves'[g].payload = saves[g].payload
        /\ \A h \in Governors : h # g => saves'[h] = saves[h]
    <3>1. PICK k \in 0 .. MaxKeys : k = generated + 1
      BY <2>1
    <3>2. saves' = [saves EXCEPT ![g].step = "writing", ![g].key = k]
      BY <2>1, <3>1
    <3>. QED
      BY <1>a, <3>2 DEF SaveShapes
  <2>. QED
    BY <1>a, <1>d, <2>1, <2>2, SaveStep
<1>10. ASSUME NEW g \in Governors, SaveWritesKey(g) PROVE ShapesFit'
  <2>1. /\ saves[g].step = "writing" /\ keyFile' \in 0 .. MaxKeys + 1 /\ generated' = generated
        /\ saves' = [saves EXCEPT ![g].step = "committing"] /\ SaveKeeps
    BY <1>c, <1>10 DEF SaveWritesKey
  <2>2. /\ saves' \in [Governors -> SaveShapes] /\ saves'[g].payload = saves[g].payload
        /\ \A h \in Governors : h # g => saves'[h] = saves[h]
    BY <1>a, <2>1, SaveMoves
  <2>. QED
    BY <1>a, <1>d, <2>1, <2>2, SaveStep
<1>11. ASSUME NEW g \in Governors, SaveRefused(g) \/ SaveDies(g) PROVE ShapesFit'
  <2>1. /\ saves[g] # NotSaving /\ saves' = [saves EXCEPT ![g] = NotSaving]
        /\ UNCHANGED <<keyFile, generated>> /\ SaveKeeps
    BY <1>d, <1>11 DEF SaveRefused, SaveDies
  <2>2. /\ saves' \in [Governors -> SaveShapes] /\ saves'[g] = NotSaving
        /\ \A h \in Governors : h # g => saves'[h] = saves[h]
    BY <1>a, <2>1, NotSavingShape
  <2>. QED
    BY <1>a, <2>1, <2>2, SaveStep
<1>12. ASSUME NEW g \in Governors, SaveCommits(g) PROVE ShapesFit'
  <2>. DEFINE s == saves[g]
              preset == s.payload.preset
  <2>1. s \in SaveShapes /\ FormFits(s.payload) /\ preset \in Presets /\ s.step = "committing"
    BY <1>a, <1>d, <1>12 DEF SaveCommits, FormsFit, FormFits
  <2>2. /\ configuration' = Flush(s, s.read, configuration)
        /\ credentials' = [credentials EXCEPT ![preset] = Flush(s, s.known, credentials[preset])]
        /\ saves' = [saves EXCEPT ![g] = NotSaving]
        /\ page' = IF page.by # g THEN page
                   ELSE [page EXCEPT !.busy = "saved",
                           !.sent = Form([configuration' EXCEPT !.secret = NoSecret])]
        /\ UNCHANGED <<keyFile, generated, lost, starts>>
    BY <1>12 DEF SaveCommits
  <2>. HIDE DEF s, preset
  <2>3. s.read \in RowShapes /\ s.known \in RowShapes
    BY <2>1, SaveFields
  <2>4. configuration' \in RowShapes /\ configuration'.preset \in Presets
    BY <1>a, <2>1, <2>2, <2>3, FlushShape DEF preset
  <2>5. credentials' \in [Presets -> RowShapes]
    <3>1. Flush(s, s.known, credentials[preset]) \in RowShapes
      BY <1>a, <2>1, <2>3, FlushShape
    <3>. QED
      BY <1>a, <2>1, <2>2, <3>1
  <2>6. /\ saves' \in [Governors -> SaveShapes]
        /\ \A h \in Governors : saves'[h] # NotSaving => saves'[h] = saves[h]
    BY <1>a, <2>2, NotSavingShape
  <2>7. /\ page' \in PageShapes /\ page'.form = page.form
        /\ page'.busy \in {"test", "save", "saved"} => FormFits(page'.sent)
    <3>1. CASE page.by # g
      BY <1>a, <2>2, <3>1 DEF FormsFit
    <3>2. CASE page.by = g
      <4>. DEFINE bare == [configuration' EXCEPT !.secret = NoSecret]
      <4>1. /\ bare.preset \in Presets /\ bare.connection \in Connections \cup {"none"}
            /\ bare.secret = NoSecret
        BY <2>4 DEF RowShapes
      <4>2. page' = [page EXCEPT !.busy = "saved", !.sent = Form(bare)]
        BY <2>2, <3>2
      <4>. HIDE DEF bare
      <4>3. Form(bare) \in RowShapes /\ FormFits(Form(bare))
        BY <4>1, FormShape
      <4>4. page' \in PageShapes /\ page'.form = page.form /\ page'.sent = Form(bare)
        BY <1>a, <4>2, <4>3 DEF PageShapes
      <4>. QED
        BY <4>3, <4>4
    <3>. QED
      BY <3>1, <3>2
  <2>8. SettingsTypeOK'
    BY <1>a, <2>2, <2>4, <2>5, <2>6, <2>7 DEF SettingsTypeOK
  <2>9. FormsFit'
    BY <1>a, <2>6, <2>7 DEF FormsFit, FormFits
  <2>. QED
    BY <2>8, <2>9 DEF ShapesFit
<1>13. CASE EditForm
  <2>1. PICK p \in Payloads :
          page' = [page EXCEPT !.form = Form(p), !.revision = @ + 1, !.tested = -1,
                               !.passed = IF page.busy = "save" THEN @ ELSE NoRow]
    BY <1>13, Zenon DEF EditForm
  <2>2. page.revision + 1 \in 0 .. MaxRevision
    BY <1>a, <1>13, PageFields, SettingsBounds DEF EditForm
  <2>3. Form(p) \in RowShapes /\ FormFits(Form(p))
    BY PayloadForm
  <2>4. /\ page' \in PageShapes /\ page'.form = Form(p) /\ page'.sent = page.sent
        /\ page'.busy = page.busy
    BY <1>a, <2>1, <2>2, <2>3, NoRowShape, SettingsBounds DEF PageShapes
  <2>. QED
    BY <1>a, <1>13, <2>3, <2>4, PageStep DEF EditForm, FormsFit
<1>14. CASE TestConnection
  <2>1. /\ page' \in PageShapes /\ page'.form = page.form
        /\ page'.sent = page.form \/ (page'.busy = "idle")
    <3>1. CASE DraftConnection(page.form) = NoSecret
      BY <1>a, <1>14, <3>1, SettingsBounds DEF TestConnection, PageShapes
    <3>2. CASE DraftConnection(page.form) # NoSecret
      BY <1>a, <1>14, <3>2, PageFields DEF TestConnection, PageShapes
    <3>. QED
      BY <3>1, <3>2
  <2>. QED
    BY <1>a, <1>14, <2>1, PageStep DEF TestConnection, FormsFit
<1>15. CASE TestPasses \/ TestFails \/ Saved \/ SaveFails
  <2>1. /\ Answered \in PageShapes /\ Answered.form = page.form /\ Answered.busy = "idle"
    BY <1>a, NoRowShape, SettingsBounds DEF Answered, PageShapes
  <2>2. CASE TestPasses \/ TestFails \/ SaveFails
    <3>1. page' \in PageShapes /\ page'.form = page.form /\ page'.busy = "idle"
      <4>1. page.at \in -1 .. MaxRevision /\ page.sent \in RowShapes
        BY <1>a, PageFields, SettingsBounds
      <4>. QED
        BY <2>1, <2>2, <4>1, SettingsBounds DEF TestPasses, TestFails, SaveFails, PageShapes
    <3>. QED
      BY <1>a, <2>2, <3>1, PageStep DEF FormsFit, TestPasses, TestFails, SaveFails
  <2>3. CASE Saved
    <3>1. page.sent \in RowShapes /\ FormFits(page.sent)
      BY <1>a, <2>3, PageFields DEF Saved, FormsFit
    <3>2. page' \in PageShapes /\ page'.form = page.sent /\ page'.busy = "idle"
      BY <2>1, <2>3, <3>1, SettingsBounds DEF Saved, PageShapes
    <3>. QED
      BY <1>a, <2>3, <3>1, <3>2, PageStep DEF Saved
  <2>. QED
    BY <1>15, <2>2, <2>3
<1>16. CASE UNCHANGED settingsVars
  BY <1>a, <1>16 DEF settingsVars, SettingsTypeOK, FormsFit, FormFits, ShapesFit
<1>. QED
  BY <1>1, <1>2, <1>3, <1>4, <1>5, <1>6, <1>7, <1>8, <1>9, <1>10, <1>11, <1>12, <1>13, <1>14,
     <1>15, <1>16 DEF SettingsNext

-----------------------------------------------------------------------------
(* The key in place *)

LEMMA KeyNumbers ==
  /\ Partial \notin Whole /\ Absent \notin Whole /\ Partial # Absent
  /\ \A k \in Whole : k > 0
BY SettingsBounds DEF Partial, Absent, Whole

(* A step that writes no key. *)
LEMMA KeyStays ==
  ASSUME KeyInv,
         UNCHANGED <<keyFile, generated, lost, configuration, credentials>>,
         \A s \in Starts : StartWrites(s)' => StartWrites(s) /\ starts'[s].key = starts[s].key,
         \A g \in Governors : SaveWrites(g)' => SaveWrites(g) /\ saves'[g].key = saves[g].key,
         \A g \in Governors : saves'[g].step = "committing" =>
           \/ saves[g].step = "committing" /\ saves'[g].key = saves[g].key
           \/ keyFile \in Whole /\ saves'[g].key = keyFile
  PROVE  KeyInv'
<1>1. WritersHoldTheNewKey'
  BY DEF KeyInv, WritersHoldTheNewKey
<1>2. OneWriter'
  BY DEF KeyInv, OneWriter
<1>3. CommitsWithTheKey'
  BY DEF KeyInv, CommitsWithTheKey
<1>4. RowsUseKeys'
  BY DEF KeyInv, RowsUseKeys
<1>. QED
  BY <1>1, <1>2, <1>3, <1>4 DEF KeyInv

LEMMA KeyFirst == SettingsInit => KeyInv
BY SettingsBounds DEF SettingsInit, KeyInv, WritersHoldTheNewKey, OneWriter, CommitsWithTheKey,
       RowsUseKeys, StartWrites, SaveWrites, NotSaving

LEMMA KeyStep == ShapesFit /\ KeyInv /\ [SettingsNext]_settingsVars => KeyInv'
<1>. SUFFICES ASSUME ShapesFit, KeyInv, [SettingsNext]_settingsVars PROVE KeyInv'
  OBVIOUS
<1>a. /\ generated \in 0 .. MaxKeys /\ SettingsTypeOK
      /\ starts \in [Starts -> StartShapes] /\ saves \in [Governors -> SaveShapes]
  BY DEF ShapesFit, SettingsTypeOK
<1>b. WritersHoldTheNewKey /\ OneWriter /\ CommitsWithTheKey /\ RowsUseKeys
  BY DEF KeyInv
<1>1. ASSUME NEW s \in Starts,
             PreflightReads(s) \/ PreflightLooks(s) \/ PreflightIsLate(s) \/ PreflightDies(s)
      PROVE  KeyInv'
  <2>1. UNCHANGED <<keyFile, generated, lost>> /\ UnchangedRows
    BY <1>1 DEF PreflightReads, PreflightLooks, PreflightIsLate, PreflightDies
  <2>2. ASSUME NEW t \in Starts, StartWrites(t)' PROVE t # s /\ starts'[t] = starts[t]
    <3>1. CASE PreflightDies(s)
      BY <1>a, <2>2, <3>1 DEF PreflightDies, StartWrites
    <3>2. CASE ~PreflightDies(s)
      <4>1. PICK e \in {"looking", "creating", "reentry", "ready", "failed"} : Step(s, e)
        BY <1>1, <3>2 DEF PreflightReads, PreflightLooks, PreflightIsLate
      <4>. QED
        BY <1>a, <2>2, <4>1, StartChanges DEF Step, StartWrites
    <3>. QED
      BY <3>1, <3>2
  <2>. QED
    BY <2>1, <2>2, KeyStays DEF UnchangedRows, StartWrites, SaveWrites
<1>2. ASSUME keyFile = Absent
      PROVE  /\ \A s \in Starts : ~StartWrites(s)
             /\ \A g \in Governors : ~SaveWrites(g) /\ saves[g].step # "committing"
  BY <1>b, <1>2, KeyNumbers DEF OneWriter, CommitsWithTheKey
<1>3. ASSUME NEW s \in Starts, PreflightCreates(s) PROVE KeyInv'
  <2>. DEFINE begun == [step |-> "writing", key |-> generated + 1]
  <2>1. /\ starts' = [starts EXCEPT ![s] = begun]
        /\ keyFile = Absent /\ keyFile' = Partial /\ generated' = generated + 1 /\ lost' = lost
        /\ UNCHANGED <<configuration, credentials, saves>>
    BY <1>3 DEF PreflightCreates, OpensNew, UnchangedRows
  <2>2. generated' > 0 /\ begun.key = generated'
    BY <1>a, <2>1
  <2>. HIDE DEF begun
  <2>3. starts'[s].key = generated' /\ \A t \in Starts : t # s => ~StartWrites(t)'
    BY <1>a, <1>2, <2>1, <2>2 DEF StartWrites
  <2>4. \A g \in Governors : ~SaveWrites(g)' /\ saves'[g].step # "committing"
    BY <1>2, <2>1 DEF SaveWrites
  <2>5. RowsUseKeys'
    BY <1>b, <2>1, KeyNumbers DEF RowsUseKeys
  <2>6. WritersHoldTheNewKey' /\ OneWriter' /\ CommitsWithTheKey'
    BY <2>1, <2>2, <2>3, <2>4 DEF WritersHoldTheNewKey, OneWriter, CommitsWithTheKey
  <2>. QED
    BY <2>5, <2>6 DEF KeyInv
<1>4. ASSUME NEW g \in Governors, SaveCreatesKey(g) PROVE KeyInv'
  <2>1. /\ saves' = [saves EXCEPT ![g].step = "writing", ![g].key = generated']
        /\ keyFile = Absent /\ keyFile' = Partial /\ generated' = generated + 1
        /\ UNCHANGED <<lost, configuration, credentials, starts>>
    BY <1>4 DEF SaveCreatesKey, OpensNew, SaveKeeps
  <2>2. generated' > 0
    BY <1>a, <2>1
  <2>3. saves'[g].key = generated' /\ \A h \in Governors : h # g => saves'[h] = saves[h]
    BY <1>a, <2>1 DEF SaveShapes
  <2>4. saves'[g].step = "writing"
    BY <1>a, <2>1 DEF SaveShapes
  <2>5. /\ \A h \in Governors : h # g => ~SaveWrites(h)'
        /\ \A h \in Governors : saves'[h].step # "committing"
        /\ \A s \in Starts : ~StartWrites(s)'
    BY <1>2, <2>1, <2>3, <2>4 DEF SaveWrites, StartWrites
  <2>6. RowsUseKeys'
    BY <1>b, <2>1, KeyNumbers DEF RowsUseKeys
  <2>7. WritersHoldTheNewKey' /\ OneWriter' /\ CommitsWithTheKey'
    BY <2>1, <2>2, <2>3, <2>5 DEF WritersHoldTheNewKey, OneWriter, CommitsWithTheKey
  <2>. QED
    BY <2>6, <2>7 DEF KeyInv
<1>5. ASSUME NEW k \in Whole, keyFile = Partial, keyFile' = k,
             UNCHANGED <<generated, lost, configuration, credentials>>,
             \A s \in Starts : ~StartWrites(s)', \A g \in Governors : ~SaveWrites(g)',
             \A g \in Governors : saves'[g].step = "committing" =>
               saves[g].step = "committing" \/ saves'[g].key = k
      PROVE  KeyInv'
  <2>1. \A g \in Governors : saves[g].step # "committing"
    BY <1>b, <1>5, KeyNumbers DEF CommitsWithTheKey
  <2>2. WritersHoldTheNewKey' /\ OneWriter'
    BY <1>5 DEF WritersHoldTheNewKey, OneWriter
  <2>3. CommitsWithTheKey'
    BY <1>5, <2>1 DEF CommitsWithTheKey
  <2>4. RowsUseKeys'
    BY <1>b, <1>5, KeyNumbers DEF RowsUseKeys
  <2>. QED
    BY <2>2, <2>3, <2>4 DEF KeyInv
<1>6. ASSUME NEW s \in Starts, PreflightWrites(s) PROVE KeyInv'
  <2>1. /\ StartWrites(s) /\ keyFile' = starts[s].key /\ Step(s, "ready")
        /\ UNCHANGED <<generated, lost>> /\ UnchangedRows
    BY <1>6 DEF PreflightWrites, StartWrites
  <2>2. keyFile = Partial /\ starts[s].key = generated /\ generated > 0
    BY <1>b, <2>1 DEF OneWriter, WritersHoldTheNewKey
  <2>3. generated \in Whole
    BY <1>a, <2>2, SettingsBounds DEF Whole
  <2>4. ASSUME NEW t \in Starts PROVE ~StartWrites(t)'
    BY <1>a, <1>b, <2>1, StartChanges DEF OneWriter, StartWrites, Step
  <2>5. \A g \in Governors : ~SaveWrites(g)'
    BY <1>b, <2>1 DEF OneWriter, SaveWrites, UnchangedRows
  <2>. QED
    BY <1>5, <2>1, <2>2, <2>3, <2>4, <2>5 DEF UnchangedRows
<1>7. ASSUME NEW g \in Governors, SaveWritesKey(g) PROVE KeyInv'
  <2>1. /\ SaveWrites(g) /\ keyFile' = saves[g].key /\ generated' = generated /\ SaveKeeps
        /\ saves' = [saves EXCEPT ![g].step = "committing"]
    BY <1>7 DEF SaveWritesKey, SaveWrites
  <2>2. keyFile = Partial /\ saves[g].key = generated /\ generated > 0
    BY <1>b, <2>1 DEF OneWriter, WritersHoldTheNewKey
  <2>3. generated \in Whole
    BY <1>a, <2>2, SettingsBounds DEF Whole
  <2>4. /\ \A h \in Governors : h # g => saves'[h] = saves[h]
        /\ saves'[g].step = "committing" /\ saves'[g].key = saves[g].key
    BY <1>a, <2>1, SaveMoves
  <2>5. ASSUME NEW h \in Governors
        PROVE  /\ ~SaveWrites(h)'
               /\ saves'[h].step = "committing" =>
                    saves[h].step = "committing" \/ saves'[h].key = generated
    BY <1>b, <2>1, <2>2, <2>4 DEF OneWriter, SaveWrites
  <2>6. \A s \in Starts : ~StartWrites(s)'
    BY <1>b, <2>1 DEF OneWriter, StartWrites, SaveKeeps
  <2>. QED
    BY <1>5, <2>1, <2>2, <2>3, <2>5, <2>6 DEF SaveKeeps
<1>8. CASE LoseKey
  <2>1. /\ \A s \in Starts : ~StartWrites(s)' /\ ~StartWrites(s)
        /\ \A g \in Governors : saves'[g].step = "idle"
    BY <1>8, NotSavingShape DEF LoseKey, StartWrites, UnchangedRows
  <2>2. RowsUseKeys'
    BY <1>b, <1>8 DEF RowsUseKeys, LoseKey, UnchangedRows
  <2>. QED
    BY <2>1, <2>2 DEF KeyInv, WritersHoldTheNewKey, OneWriter, CommitsWithTheKey, SaveWrites
<1>9. ASSUME NEW g \in Governors, SaveDirectly(g) \/ Submit(g) PROVE KeyInv'
  <2>1. PICK f : SaveDrafts(g, f)
    BY <1>9 DEF SaveDirectly, Submit
  <2>2. /\ saves'[g].step = "encrypting"
        /\ \A h \in Governors : h # g => saves'[h] = saves[h]
    BY <1>a, <2>1 DEF SaveDrafts
  <2>. QED
    BY <2>1, <2>2, KeyStays DEF SaveDrafts, StartWrites, SaveWrites
<1>10. ASSUME NEW g \in Governors, SaveLoadsKey(g) PROVE KeyInv'
  <2>1. /\ keyFile \in Whole /\ UNCHANGED <<keyFile, generated>> /\ SaveKeeps
        /\ saves' = [saves EXCEPT ![g].step = "committing", ![g].key = keyFile]
    BY <1>10 DEF SaveLoadsKey
  <2>2. /\ \A h \in Governors : h # g => saves'[h] = saves[h]
        /\ saves'[g].step = "committing" /\ saves'[g].key = keyFile
    BY <1>a, <2>1 DEF SaveShapes
  <2>. QED
    BY <2>1, <2>2, KeyStays DEF SaveKeeps, StartWrites, SaveWrites
<1>11. ASSUME NEW g \in Governors, SaveRefused(g) \/ SaveDies(g) PROVE KeyInv'
  <2>1. /\ saves' = [saves EXCEPT ![g] = NotSaving]
        /\ UNCHANGED <<keyFile, generated>> /\ SaveKeeps
    BY <1>11 DEF SaveRefused, SaveDies
  <2>2. saves'[g].step = "idle" /\ \A h \in Governors : h # g => saves'[h] = saves[h]
    BY <1>a, <2>1, NotSavingShape
  <2>. QED
    BY <2>1, <2>2, KeyStays DEF SaveKeeps, StartWrites, SaveWrites
<1>12. ASSUME NEW g \in Governors, SaveCommits(g) PROVE KeyInv'
  <2>1. /\ saves' = [saves EXCEPT ![g] = NotSaving]
        /\ UNCHANGED <<keyFile, generated, lost, starts>>
        /\ keyFile \in Whole /\ saves[g].key = keyFile
    BY <1>b, <1>12 DEF SaveCommits, CommitsWithTheKey
  <2>2. saves'[g].step = "idle" /\ \A h \in Governors : h # g => saves'[h] = saves[h]
    BY <1>a, <2>1, NotSavingShape
  <2>3. /\ configuration'.key = keyFile
        /\ \A p \in Presets : credentials'[p] = credentials[p] \/ credentials'[p].key = keyFile
    BY <1>12, <2>1 DEF SaveCommits, Flush, ShapesFit, SettingsTypeOK
  <2>4. RowsUseKeys'
    BY <1>b, <2>1, <2>3 DEF RowsUseKeys
  <2>5. WritersHoldTheNewKey' /\ OneWriter' /\ CommitsWithTheKey'
    BY <1>b, <2>1, <2>2
      DEF WritersHoldTheNewKey, OneWriter, CommitsWithTheKey, SaveWrites, StartWrites
  <2>. QED
    BY <2>4, <2>5 DEF KeyInv
<1>13. CASE EditForm \/ TestConnection \/ TestPasses \/ TestFails \/ Saved \/ SaveFails
  <2>1. UnchangedServer
    BY <1>13, Zenon DEF EditForm, TestConnection, TestPasses, TestFails, Saved, SaveFails
  <2>. QED
    BY <2>1, KeyStays DEF UnchangedServer, StartWrites, SaveWrites
<1>14. CASE UNCHANGED settingsVars
  BY <1>14, KeyStays DEF settingsVars, StartWrites, SaveWrites
<1>. QED
  BY <1>1, <1>3, <1>4, <1>6, <1>7, <1>8, <1>9, <1>10, <1>11, <1>12, <1>13, <1>14
  DEF SettingsNext

-----------------------------------------------------------------------------
(* A key goes with its connection, as long as saves do not overlap.           *)

RowInv == OneSave /\ SavesFit /\ RowsFit

LEMMA RowsFirst == SettingsInit => RowInv
<1>. SUFFICES ASSUME SettingsInit PROVE RowInv
  OBVIOUS
<1>1. /\ \A g \in Governors : saves[g] = NotSaving
      /\ configuration = NoRow /\ \A p \in Presets : credentials[p] = NoRow
  BY DEF SettingsInit
<1>. QED
  BY <1>1 DEF RowInv, OneSave, SavesFit, RowsFit, SecretFits

(* What is reused was entered for the connection it is reused for.            *)
LEMMA DraftFits ==
  ASSUME SettingsTypeOK, RowsFit, NEW f \in RowShapes, FormFits(f), DraftConnection(f) # NoSecret
  PROVE  DraftConnection(f) = f.connection
<1>1. Decrypts(credentials[f.preset]) =>
        credentials[f.preset].secret = credentials[f.preset].connection
  BY DEF RowsFit, SecretFits, Decrypts, FormFits
<1>2. Current = NoRow \/ Current.secret = Current.connection
  <2>1. LET environment == [NoRow EXCEPT !.connection = Environment, !.secret = Environment]
        IN  environment.secret = environment.connection
    BY DEF NoRow
  <2>. QED
    BY <2>1 DEF Current, RowsFit, SecretFits
<1>3. NoRow.secret = NoSecret
  BY DEF NoRow
<1>. QED
  BY <1>1, <1>2, <1>3 DEF DraftConnection, FormFits

(* Steps that leave the rows and begin no save. *)
LEMMA RowsStay ==
  ASSUME RowInv, UNCHANGED <<configuration, credentials>>,
         \A g \in Governors : saves'[g] # NotSaving =>
           /\ saves[g] # NotSaving /\ saves'[g].payload = saves[g].payload
           /\ saves'[g].secret = saves[g].secret /\ saves'[g].read = saves[g].read
           /\ saves'[g].known = saves[g].known
  PROVE  RowInv'
BY DEF RowInv, OneSave, SavesFit, RowsFit, SecretFits

LEMMA RowsStep ==
  ASSUME ~Overlap, ShapesFit, RowInv, [SettingsNext]_settingsVars
  PROVE  RowInv'
<1>a. /\ SettingsTypeOK /\ FormsFit /\ RowsFit /\ OneSave /\ SavesFit
      /\ saves \in [Governors -> SaveShapes] /\ credentials \in [Presets -> RowShapes]
      /\ configuration \in RowShapes /\ page \in PageShapes
  BY DEF ShapesFit, SettingsTypeOK, RowInv
<1>b. \A g \in Governors : saves[g].step # "idle" => saves[g] # NotSaving
  BY NotSavingShape
<1>1. ASSUME NEW g \in Governors, NEW f \in RowShapes, FormFits(f), SaveDrafts(g, f)
      PROVE  RowInv'
  <2>1. \A h \in Governors : saves[h] = NotSaving
    BY <1>1 DEF SaveDrafts
  <2>2. DraftConnection(f) = f.connection
    BY <1>a, <1>1, DraftFits DEF SaveDrafts
  <2>3. /\ \A h \in Governors : h # g => saves'[h] = saves[h]
        /\ saves'[g].payload = f /\ saves'[g].secret = f.connection
        /\ saves'[g].read = configuration /\ saves'[g].known = credentials[f.preset]
        /\ UNCHANGED <<configuration, credentials>>
    BY <1>a, <1>1, <2>2 DEF SaveDrafts
  <2>4. OneSave' /\ SavesFit'
    BY <2>1, <2>3 DEF OneSave, SavesFit
  <2>5. RowsFit'
    BY <1>a, <2>3 DEF RowsFit, SecretFits
  <2>. QED
    BY <2>4, <2>5 DEF RowInv
<1>2. ASSUME NEW g \in Governors, SaveDirectly(g) PROVE RowInv'
  <2>1. PICK p \in Payloads : SaveDrafts(g, Form(p))
    BY <1>2 DEF SaveDirectly
  <2>. QED
    BY <1>1, <2>1, PayloadForm
<1>3. ASSUME NEW g \in Governors, Submit(g) PROVE RowInv'
  BY <1>a, <1>1, <1>3, PageFields DEF Submit, FormsFit
<1>4. ASSUME NEW g \in Governors, SaveLoadsKey(g) \/ SaveCreatesKey(g) \/ SaveWritesKey(g)
      PROVE  RowInv'
  <2>1. saves[g] # NotSaving /\ SaveKeeps
    BY <1>b, <1>4 DEF SaveLoadsKey, SaveCreatesKey, SaveWritesKey
  <2>2. /\ \A h \in Governors : h # g => saves'[h] = saves[h]
        /\ saves'[g].payload = saves[g].payload /\ saves'[g].secret = saves[g].secret
        /\ saves'[g].read = saves[g].read /\ saves'[g].known = saves[g].known
    <3>1. CASE SaveLoadsKey(g)
      BY <1>a, <3>1 DEF SaveLoadsKey, SaveShapes
    <3>2. CASE SaveCreatesKey(g)
      BY <1>a, <3>2 DEF SaveCreatesKey, SaveShapes
    <3>3. CASE SaveWritesKey(g)
      BY <1>a, <3>3 DEF SaveWritesKey, SaveShapes
    <3>. QED
      BY <1>4, <3>1, <3>2, <3>3
  <2>. QED
    BY <2>1, <2>2, RowsStay DEF SaveKeeps, RowInv
<1>5. ASSUME NEW g \in Governors, SaveRefused(g) \/ SaveDies(g) PROVE RowInv'
  <2>1. saves' = [saves EXCEPT ![g] = NotSaving] /\ SaveKeeps
    BY <1>5 DEF SaveRefused, SaveDies
  <2>2. saves'[g] = NotSaving /\ \A h \in Governors : h # g => saves'[h] = saves[h]
    BY <1>a, <2>1
  <2>. QED
    BY <2>1, <2>2, RowsStay DEF SaveKeeps, RowInv
<1>6. ASSUME NEW g \in Governors, SaveCommits(g) PROVE RowInv'
  <2>. DEFINE s == saves[g]
              preset == s.payload.preset
  <2>1. s # NotSaving /\ s \in SaveShapes /\ FormFits(s.payload) /\ preset \in Presets
    BY <1>a, <1>b, <1>6 DEF SaveCommits, FormsFit, FormFits
  <2>2. /\ configuration' = Flush(s, s.read, configuration)
        /\ credentials' = [credentials EXCEPT ![preset] = Flush(s, s.known, credentials[preset])]
        /\ saves' = [saves EXCEPT ![g] = NotSaving]
    BY <1>6 DEF SaveCommits
  <2>3. /\ s.read = configuration /\ s.known = credentials[preset]
        /\ s.secret = s.payload.connection
        /\ \A h \in Governors : h # g => saves[h] = NotSaving
    BY <1>a, <2>1 DEF OneSave, SavesFit
  <2>. HIDE DEF s
  <2>4. \A h \in Governors : saves'[h] = NotSaving
    BY <1>a, <2>2, <2>3
  <2>5. ASSUME NEW row \in RowShapes
        PROVE  Flush(s, row, row).secret = Flush(s, row, row).connection
    BY <2>1, <2>3, FlushShape
  <2>6. RowsFit'
    BY <1>a, <2>1, <2>2, <2>3, <2>5 DEF RowsFit, SecretFits
  <2>. QED
    BY <2>4, <2>6 DEF RowInv, OneSave, SavesFit
<1>7. ASSUME NEW s \in Starts,
             \/ PreflightReads(s) \/ PreflightLooks(s) \/ PreflightCreates(s)
             \/ PreflightIsLate(s) \/ PreflightWrites(s) \/ PreflightDies(s)
      PROVE  RowInv'
  <2>1. UnchangedRows
    BY <1>7 DEF PreflightReads, PreflightLooks, PreflightCreates, PreflightIsLate,
                PreflightWrites, PreflightDies
  <2>. QED
    BY <2>1, RowsStay DEF UnchangedRows
<1>8. CASE LoseKey
  BY <1>8, RowsStay DEF LoseKey, UnchangedRows
<1>9. CASE EditForm \/ TestConnection \/ TestPasses \/ TestFails \/ Saved \/ SaveFails
  <2>1. UnchangedServer
    BY <1>9, Zenon DEF EditForm, TestConnection, TestPasses, TestFails, Saved, SaveFails
  <2>. QED
    BY <2>1, RowsStay DEF UnchangedServer
<1>10. CASE UNCHANGED settingsVars
  BY <1>10, RowsStay DEF settingsVars
<1>. QED
  BY <1>2, <1>3, <1>4, <1>5, <1>6, <1>7, <1>8, <1>9, <1>10 DEF SettingsNext

-----------------------------------------------------------------------------
(* The page *)

LEMMA TestedFirst == SettingsInit => TestedForms
BY DEF SettingsInit, TestedForms

LEMMA TestedStep ==
  ASSUME ShapesFit, TestedForms, [SettingsNext]_settingsVars
  PROVE  TestedForms'
<1>a. page \in PageShapes
  BY DEF ShapesFit, SettingsTypeOK
<1>b. page.revision \in Nat /\ page.at \in Nat /\ page.tested \in Int
  BY <1>a, PageFields, SettingsBounds
<1>1. CASE page' = page
  BY <1>1 DEF TestedForms
<1>2. CASE EditForm
  <2>1. /\ page'.revision = page.revision + 1 /\ page'.tested = -1 /\ page'.busy = page.busy
        /\ page'.at = page.at /\ page'.sent = page.sent
        /\ page.busy = "save" => page'.passed = page.passed
    BY <1>a, <1>2 DEF EditForm, PageShapes
  <2>. QED
    BY <1>b, <2>1 DEF TestedForms
<1>3. CASE TestConnection
  <2>1. \/ page' = [page EXCEPT !.tested = -1]
        \/ page' = [page EXCEPT !.busy = "test", !.sent = page.form, !.at = page.revision]
    BY <1>3 DEF TestConnection
  <2>2. /\ page'.revision = page.revision /\ page'.form = page.form /\ page'.passed = page.passed
        /\ \/ page'.tested = -1 /\ page'.busy = page.busy /\ page'.at = page.at
              /\ page'.sent = page.sent
           \/ page'.tested = page.tested /\ page'.busy = "test" /\ page'.sent = page.form
              /\ page'.at = page.revision
    BY <1>a, <2>1 DEF PageShapes
  <2>. QED
    BY <1>b, <2>2 DEF TestedForms
<1>4. Answered.revision = page.revision /\ Answered.form = page.form /\ Answered.busy = "idle"
      /\ Answered.tested = page.tested /\ Answered.passed = page.passed
  BY <1>a DEF Answered, PageShapes
<1>5. Answered \in PageShapes
  BY <1>a, NoRowShape, SettingsBounds DEF Answered, PageShapes
<1>6. CASE TestPasses
  <2>1. /\ page'.revision = page.revision /\ page'.form = page.form /\ page'.busy = "idle"
        /\ page'.tested = page.at /\ page'.passed = page.sent /\ page.busy = "test"
    BY <1>4, <1>5, <1>6 DEF TestPasses, PageShapes
  <2>. QED
    BY <2>1 DEF TestedForms
<1>7. CASE TestFails
  <2>1. page'.revision = page.revision /\ page'.tested = -1 /\ page'.busy = "idle"
    BY <1>4, <1>5, <1>7 DEF TestFails, PageShapes
  <2>. QED
    BY <1>b, <2>1 DEF TestedForms
<1>8. CASE Saved
  <2>1. page'.passed = page'.form /\ page'.busy = "idle"
    BY <1>4, <1>5, <1>8 DEF Saved, PageShapes
  <2>. QED
    BY <2>1 DEF TestedForms
<1>9. CASE SaveFails
  BY <1>4, <1>9 DEF SaveFails, TestedForms
<1>10. ASSUME NEW g \in Governors, Submit(g) PROVE TestedForms'
  <2>1. /\ page.tested = page.revision /\ page'.tested = page.tested /\ page'.form = page.form
        /\ page'.revision = page.revision /\ page'.busy = "save" /\ page'.sent = page.form
        /\ page'.passed = page.passed
    BY <1>a, <1>10 DEF Submit, PageShapes
  <2>. QED
    BY <2>1 DEF TestedForms
<1>11. ASSUME NEW g \in Governors, SaveCommits(g), page' # page PROVE TestedForms'
  <2>1. page' = [page EXCEPT !.busy = "saved",
                   !.sent = Form([configuration' EXCEPT !.secret = NoSecret])]
    BY <1>11 DEF SaveCommits
  <2>2. /\ page'.tested = page.tested /\ page'.form = page.form /\ page'.busy = "saved"
        /\ page'.revision = page.revision /\ page'.passed = page.passed
    BY <1>a, <2>1 DEF PageShapes
  <2>. QED
    BY <2>2 DEF TestedForms
<1>12. ASSUME NEW g \in Governors,
              \/ SaveDirectly(g) \/ SaveLoadsKey(g) \/ SaveCreatesKey(g) \/ SaveWritesKey(g)
              \/ SaveRefused(g) \/ SaveDies(g)
       PROVE  page' = page
  BY <1>12 DEF SaveDirectly, SaveLoadsKey, SaveCreatesKey, SaveWritesKey, SaveRefused, SaveDies,
               SaveKeeps
<1>13. ASSUME NEW s \in Starts,
              \/ PreflightReads(s) \/ PreflightLooks(s) \/ PreflightCreates(s)
              \/ PreflightIsLate(s) \/ PreflightWrites(s) \/ PreflightDies(s)
       PROVE  page' = page
  BY <1>13 DEF PreflightReads, PreflightLooks, PreflightCreates, PreflightIsLate,
               PreflightWrites, PreflightDies, UnchangedRows
<1>14. CASE LoseKey \/ UNCHANGED settingsVars
  BY <1>1, <1>14 DEF LoseKey, UnchangedRows, settingsVars
<1>. QED
  BY <1>1, <1>2, <1>3, <1>6, <1>7, <1>8, <1>9, <1>10, <1>11, <1>12, <1>13, <1>14
  DEF SettingsNext

-----------------------------------------------------------------------------

LEMMA SettingsInvariant == SettingsSpec => [](ShapesFit /\ KeyInv /\ TestedForms)
<1>1. SettingsInit => ShapesFit /\ KeyInv /\ TestedForms
  BY ShapesFirst, KeyFirst, TestedFirst
<1>2. /\ ShapesFit /\ KeyInv /\ TestedForms /\ [SettingsNext]_settingsVars
      => (ShapesFit /\ KeyInv /\ TestedForms)'
  BY ShapesStep, KeyStep, TestedStep
<1>. QED
  BY <1>1, <1>2, PTL DEF SettingsSpec

LEMMA RowsUseTheKeyInPlace == KeyInv => EncryptedWithTheKeyInPlace
BY DEF KeyInv, RowsUseKeys, EncryptedWithTheKeyInPlace, StoredRows, Rows

(* The key file, the starts and saves under way, the rows and the page keep   *)
(* their shapes.                                                              *)
THEOREM SettingsTypeCorrect == SettingsSpec => []SettingsTypeOK
<1>1. ShapesFit => SettingsTypeOK
  BY DEF ShapesFit
<1>. QED
  BY <1>1, SettingsInvariant, PTL

(* Whatever preflights and saves do at the same time, and whoever of them     *)
(* dies, what is stored is encrypted with the key in place, but for keys that *)
(* were lost, and the page saves only what it tested: saves may overlap.      *)
THEOREM SecretsKeepTheirKey ==
  SettingsSpec => [](EncryptedWithTheKeyInPlace /\ SavesOnlyWhatWasTested)
<1>1. ShapesFit /\ KeyInv /\ TestedForms => EncryptedWithTheKeyInPlace /\ SavesOnlyWhatWasTested
  BY RowsUseTheKeyInPlace DEF TestedForms, SavesOnlyWhatWasTested
<1>. QED
  BY <1>1, SettingsInvariant, PTL

(* As long as saves do not overlap, a secret is moreover stored for the very  *)
(* connection it was entered for.                                             *)
THEOREM SettingsSound ==
  ASSUME ~Overlap
  PROVE  SettingsSpec => []SettingsAreSound
<1>1. RowInv /\ ShapesFit /\ [SettingsNext]_settingsVars => RowInv'
  BY RowsStep
<1>2. ShapesFit /\ KeyInv /\ TestedForms /\ RowInv => SettingsAreSound
  <2>1. RowInv => KeysStayWithTheirConnection
    BY DEF RowInv, RowsFit, SecretFits, KeysStayWithTheirConnection, StoredRows, Rows
  <2>. QED
    BY <2>1, RowsUseTheKeyInPlace DEF TestedForms, SavesOnlyWhatWasTested, SettingsAreSound
<1>. QED
  BY <1>1, <1>2, RowsFirst, SettingsInvariant, PTL DEF SettingsSpec
=============================================================================
