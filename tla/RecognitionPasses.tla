--------------------------- MODULE RecognitionPasses ---------------------------
(***************************************************************************)
(* recognize_differences of hermes/recognition.py and the handler that     *)
(* calls it: the passes over one workbook (structure, chunks of columns,   *)
(* merge, review), the rows of HermesRecognitionCache they leave behind,   *)
(* and what a crash, a failure, a second worker or a new release of the    *)
(* program makes of them.                                                  *)
(*                                                                         *)
(* The items carry the same workbook, so that they ask the same request    *)
(* under the same cache key.  What the language model answers is chosen:   *)
(* a structure (how many chunks its columns make, whether something in it  *)
(* stayed unresolved) and for each chunk whether the answer is clear.      *)
(***************************************************************************)
EXTENDS Integers, Sequences, FiniteSets, SequencesExt, FiniteSetsExt

CONSTANTS
  Items,          \* files with the same workbook
  Structures,     \* what the structure pass may decide
  RecoveryLimit,  \* recovery keys tried for incompatible entries (32)
  Releases        \* bound: releases of the program

ASSUME RecognitionAssumption ==
  /\ Structures \subseteq [parts: Nat, uncertain: BOOLEAN]
  /\ RecoveryLimit \in Nat \ {0} /\ Releases \in Nat \ {0}

VARIABLES
  finals, fasts,  \* cached results by key
  structures,     \* structure checkpoints by key
  chunks,         \* chunk checkpoints
  release,        \* what entries are compatible with
  pass,           \* by item, where its recognition is and what it holds
  proposal,       \* by item, the result of its TemplateProposal
  asked,          \* by item, structure answers it has stored for later runs
  concurrent      \* did two recognitions of the same key ever overlap?

cacheVars == <<finals, fasts, structures, chunks>>
passVars == <<finals, fasts, structures, chunks, release, pass, proposal, asked,
              concurrent>>

-----------------------------------------------------------------------------
Keys == 1..RecoveryLimit

(* A fresh key holds a random number: what is stored under it is never found, *)
(* and the model does not keep it.                                            *)
Fresh == 0

Says == {"clear", "unclear", "unrepaired"}

(* The answer for a chunk, with the structure whose columns it was asked for. *)
Answer == [says: Says, of: Structures]

(* A TemplateDiffResult: its layout, the request it was validated for, the    *)
(* field decisions by chunk, and whether it requires governance.              *)
Result == [structure: Structures, request: Structures, answers: Seq(Answer),
           governed: BOOLEAN, release: 1..Releases]

None == [is |-> "none"]

Checkpoint == [structure: Structures, uncertain: BOOLEAN, release: 1..Releases]
ChunkEntry == [key: Keys, index: Nat \ {0}, of: Structures, answer: Answer,
               release: 1..Releases]

Waiting == [at |-> "waiting"]
Finished == [at |-> "finished"]

(* Where a recognition is and what its worker holds in memory. *)
AnyKey == Keys \cup {Fresh}
Passes ==
  {Waiting, Finished}
    \cup [at: {"structure"}, key: AnyKey]
    \cup [at: {"chunks"}, key: AnyKey, request: Structures, uncertain: BOOLEAN,
          answers: Seq(Answer)]
    \cup [at: {"review"}, key: AnyKey, result: Result, uncertain: BOOLEAN, unrepaired: BOOLEAN]
    \cup [at: {"final", "cached"}, key: AnyKey, result: Result]

RecognitionTypeOK ==
  /\ finals \in [Keys -> Result \cup {None}] /\ fasts \in [Keys -> Result \cup {None}]
  /\ structures \in [Keys -> Checkpoint \cup {None}]
  /\ chunks \subseteq ChunkEntry
  /\ release \in 1..Releases
  /\ pass \in [Items -> Passes]
  /\ proposal \in [Items -> Result \cup {None}]
  /\ asked \in [Items -> Nat] /\ concurrent \in BOOLEAN

RecognitionInit ==
  /\ finals = [k \in Keys |-> None] /\ fasts = [k \in Keys |-> None]
  /\ structures = [k \in Keys |-> None] /\ chunks = {}
  /\ release = 1
  /\ pass = [i \in Items |-> Waiting]
  /\ proposal = [i \in Items |-> None]
  /\ asked = [i \in Items |-> 0]
  /\ concurrent = FALSE

-----------------------------------------------------------------------------
(* _cache_metadata_matches, and the validation of what an entry holds. *)
Compatible(entry) == entry # None /\ entry.release = release

(* The final entry of a key decides: none, usable, or on to the next key; a   *)
(* chain of incompatible entries that is too long ends in a fresh key.        *)
CacheKey ==
  LET open == {k \in Keys : finals[k] = None \/ Compatible(finals[k])}
  IN  IF open = {} THEN Fresh ELSE Min(open)

Stored(table, k, entry) ==
  IF k = Fresh THEN table ELSE [table EXCEPT ![k] = entry]

(* Mutant: the key of a chunk does not depend on its request. *)
LoadSemanticChunkByIndex(p) ==
  {c \in chunks : /\ c.key = p.key /\ c.index = Len(p.answers) + 1
                  /\ Compatible(c)}

(* load_semantic_chunk_checkpoint: the key holds the hash of the request. *)
LoadSemanticChunk(p) ==
  {c \in chunks : /\ c.key = p.key /\ c.index = Len(p.answers) + 1
                  /\ c.of = p.request /\ Compatible(c)}

(* Mutant: the checkpoint keeps the decision and not its doubts. *)
DecisionOnly(s) == [structure |-> s, uncertain |-> FALSE, release |-> release]

StructureCheckpoint(s) ==
  [structure |-> s, uncertain |-> s.uncertain, release |-> release]

(* store_structure_checkpoint: inserts or replaces, and commits. *)
StoreStructureCheckpoint(k, entry) == Stored(structures, k, entry)

StoreSemanticChunk(p, answer) ==
  IF p.key = Fresh THEN chunks
  ELSE {c \in chunks : ~(c.key = p.key /\ c.index = Len(p.answers) + 1 /\ c.of = p.request)}
       \cup {[key |-> p.key, index |-> Len(p.answers) + 1, of |-> p.request,
              answer |-> answer, release |-> release]}

Active(i) == pass[i] \notin {Waiting, Finished}
Set(i, p) == pass' = [pass EXCEPT ![i] = p]

(* The handler commits the status; then the cache is consulted.  The result  *)
(* of the fast pass and the structure checkpoint are loaded each for itself.  *)
Recognize(i) ==
  LET key == CacheKey
      found(table) == IF key = Fresh THEN None ELSE table[key]
      fast == found(fasts)
      saved == found(structures)
      known == Compatible(saved)
  IN  /\ pass[i] = Waiting
      /\ IF Compatible(found(finals))
           THEN Set(i, [at |-> "cached", key |-> key, result |-> finals[key]])
         ELSE IF Compatible(fast)
           THEN Set(i, [at |-> "review", key |-> key,
                        result |-> [fast EXCEPT !.request =
                                      IF known THEN saved.structure ELSE fast.structure],
                        uncertain |-> known /\ saved.uncertain, unrepaired |-> FALSE])
         ELSE IF known
           THEN Set(i, [at |-> "chunks", key |-> key, request |-> saved.structure,
                        uncertain |-> saved.uncertain, answers |-> <<>>])
         ELSE Set(i, [at |-> "structure", key |-> key])
      /\ concurrent' = (concurrent \/ \E j \in Items \ {i} : Active(j))
      /\ UNCHANGED <<cacheVars, release, proposal, asked>>

(* recognize_workbook_structure: a fallback, one repair and a review of more  *)
(* evidence end in a valid decision, or the job fails.                        *)
RecognizeStructure(i) ==
  LET p == pass[i]
  IN  /\ p.at = "structure"
      /\ \E s \in Structures :
           /\ structures' = StoreStructureCheckpoint(p.key, StructureCheckpoint(s))
           /\ Set(i, [at |-> "chunks", key |-> p.key, request |-> s,
                      uncertain |-> s.uncertain, answers |-> <<>>])
      /\ asked' = [asked EXCEPT ![i] = IF p.key = Fresh THEN @ ELSE @ + 1]
      /\ UNCHANGED <<finals, fasts, chunks, release, proposal, concurrent>>

(* One chunk: from its checkpoint, or asked, repaired once and stored.  A     *)
(* repair that fails is tolerated when only a template suggestion is missing. *)
RecognizeChunk(i) ==
  LET p == pass[i]
      loaded == LoadSemanticChunk(p)
      take(answer) == Set(i, [p EXCEPT !.answers = Append(@, answer)])
  IN  /\ p.at = "chunks"
      /\ Len(p.answers) < p.request.parts
      /\ IF loaded # {}
           THEN /\ \E c \in loaded : take(c.answer)
                /\ UNCHANGED chunks
           ELSE \E answer \in [says: Says, of: {p.request}] :
                  /\ take(answer)
                  /\ chunks' = StoreSemanticChunk(p, answer)
      /\ UNCHANGED <<finals, fasts, structures, release, proposal, asked, concurrent>>

Say(answers, what) == \E a \in Range(answers) : a.says = what

(* _merge_chunk_results, normalised and validated, is the fast result. *)
MergeChunks(i) ==
  LET p == pass[i]
      merged == [structure |-> p.request, request |-> p.request,
                 answers |-> p.answers, governed |-> FALSE, release |-> release]
  IN  /\ p.at = "chunks"
      /\ Len(p.answers) = p.request.parts
      /\ fasts' = Stored(fasts, p.key, merged)
      /\ Set(i, [at |-> "review", key |-> p.key, result |-> merged,
                 uncertain |-> p.uncertain, unrepaired |-> Say(p.answers, "unrepaired")])
      /\ UNCHANGED <<finals, structures, chunks, release, proposal, asked, concurrent>>

(* A layout that retains no region asks for nothing and needs no governance. *)
StructureReview(p) == p.uncertain /\ p.result.structure.parts > 0

(* governance_reasons and the reasons recognize_differences adds. *)
FirstReasons(p) ==
  \/ Say(p.result.answers, "unclear")
  \/ StructureReview(p)
  \/ p.result.request # p.result.structure   \* HERMES_CONTRACT_CONFLICT

(* The second pass is asked of a workbook that was not chunked.  A valid      *)
(* answer replaces the first one, under the layout the result had; a review   *)
(* that fails keeps it and is a reason of its own.                            *)
ReviewResult(i) ==
  LET p == pass[i]
      finish(answers, invalid) ==
        Set(i, [at |-> "final", key |-> p.key,
                result |-> [p.result EXCEPT
                  !.answers = answers,
                  !.governed = \/ Say(answers, "unclear") \/ StructureReview(p)
                               \/ p.unrepaired \/ invalid]])
  IN  /\ p.at = "review"
      /\ IF FirstReasons(p) /\ p.result.request.parts <= 1
           THEN \/ finish(p.result.answers, TRUE)
                \/ \E says \in {"clear", "unclear"} :
                     finish([n \in 1..p.result.request.parts |->
                               [says |-> says, of |-> p.result.request]], FALSE)
           ELSE finish(p.result.answers, FALSE)
      /\ UNCHANGED <<cacheVars, release, proposal, asked, concurrent>>

(* Mutant: the final entry replaces one that came in between. *)
MayReplace(k) == TRUE

(* The final entry is inserted; its key is the primary key of the table. *)
MayInsertFinal(k) == k # Fresh => finals[k] = None

(* The final entry, the proposal, the provisional template, the fields that   *)
(* are published and the plan are one transaction.                            *)
CommitProposal(i) ==
  LET p == pass[i]
  IN  /\ p.at \in {"final", "cached"}
      /\ IF p.at = "cached" THEN UNCHANGED finals
         ELSE /\ MayInsertFinal(p.key)
              /\ finals' = Stored(finals, p.key, p.result)
      /\ proposal' = [proposal EXCEPT ![i] = p.result]
      /\ Set(i, Finished)
      /\ UNCHANGED <<fasts, structures, chunks, release, asked, concurrent>>

(* A pass that fails, the total timeout, a conflict of keys, a worker that    *)
(* dies: what was committed stays, the job is run again.                      *)
Abandon(i) ==
  /\ Active(i)
  /\ Set(i, Waiting)
  /\ UNCHANGED <<cacheVars, release, proposal, asked, concurrent>>

(* A release that rejects what the one before it stored; the workers restart. *)
Upgrade ==
  /\ release < Releases
  /\ \A i \in Items : ~Active(i)
  /\ release' = release + 1
  /\ UNCHANGED <<cacheVars, pass, proposal, asked, concurrent>>

(* The steps of one recognition. *)
Recognizes(i) ==
  \/ Recognize(i) \/ RecognizeStructure(i) \/ RecognizeChunk(i) \/ MergeChunks(i)
  \/ ReviewResult(i) \/ CommitProposal(i) \/ Abandon(i)

RecognitionNext == Upgrade \/ \E i \in Items : Recognizes(i)
RecognitionSpec == RecognitionInit /\ [][RecognitionNext]_passVars

-----------------------------------------------------------------------------
(* Two files with the same workbook get one decision, even when they are     *)
(* recognised at the same time and the model answers differently: the later  *)
(* commit finds the key taken and its retry takes the earlier result.        *)
SameWorkbookSameDecision ==
  \A i, j \in Items :
    LET a == proposal[i]  b == proposal[j]
    IN  (a # None /\ b # None /\ a.release = b.release
           /\ \E k \in Keys : finals[k] \in {a, b}) => a = b

(* A layout that stayed uncertain never leads to a result without            *)
(* governance, and so to fields published by the program: not when the run   *)
(* that found it uncertain died and another one resumed from its rows.       *)
UncertaintyIsGoverned ==
  ~concurrent => \A i \in Items :
    LET r == proposal[i]
    IN  r # None /\ r.structure.uncertain /\ r.structure.parts > 0 => r.governed

(* The answers merged into one result were all given for the columns of the  *)
(* layout it is merged under, whichever run stored them as checkpoints.      *)
MergedFromOneRequest ==
  \A k \in Keys : fasts[k] # None =>
    /\ Len(fasts[k].answers) = fasts[k].structure.parts
    /\ \A a \in Range(fasts[k].answers) : a.of = fasts[k].structure

(* "... resumes after structure recognition instead of paying for and        *)
(* varying that stage again": an item stores a structure once in a release,  *)
(* as long as its recovery keys last.                                        *)
StructurePaidOnce == \A i \in Items : asked[i] <= release

(* A run that is resumed or repeated builds on the work stored for its own    *)
(* request: it mixes in no other and asks for none of it again.              *)
ResumesItsOwnWork == MergedFromOneRequest /\ StructurePaidOnce
=============================================================================
