--------------------------- MODULE QuestionProofs ---------------------------
(***************************************************************************)
(* Proofs about what people ask for: the runs of their questions, the      *)
(* identities and scopes they ask with, and the answers they get.          *)
(***************************************************************************)
EXTENDS QuestionRuns, AccessControl, QueryAnswers, FiniteSetTheorems, SequenceTheorems, TLAPS

(***************************************************************************)
(* Proofs about the question runs: what their tools count was there when   *)
(* the run was created, and a finished run is only written by who had read *)
(* it running; for any number of files, runs, imports and requests.        *)
(***************************************************************************)

(* What the tools of a run can still read was stored, or was on its way, when *)
(* the scope was frozen: what arrives later is newer than its watermark.      *)
Present(run) == run.existed \cup run.underway

Scoped(run) ==
  /\ run.frozen.watermark <= clock
  /\ run.counted \cup run.facts \subseteq Present(run)
  /\ \A record \in run.counted \cup run.facts : record[1] \in run.frozen.sources
  /\ \A file \in Files : \A stamp \in stored[file] \cup arriving[file] :
       stamp <= run.frozen.watermark => <<file, stamp>> \in Present(run)

(* A stream whose end has not been read belongs to a running or stopped run,  *)
(* and what is about to be saved was read as running.                         *)
StagedRun(run) ==
  /\ run.phase \in {"streaming", "answered", "broken"} => run.status \in {"running", "stopped"}
  /\ run.phase \in {"saving", "failing"} => run.read = "running"

Sound(run) == run \in QuestionRows /\ Scoped(run) /\ StagedRun(run)

RequestFits(request) ==
  /\ request.kind = "create" => Sound(request.asked)
  /\ request.kind = "stop" => request.stops \in DOMAIN runs

QuestionInv ==
  /\ QuestionTypeOK
  /\ \A r \in DOMAIN runs : Sound(runs[r])
  /\ \A client \in Clients : RequestFits(requests[client])

-----------------------------------------------------------------------------
(* Rows and requests *)

LEMMA Bounds == FileCount \in Nat \ {0} /\ MaxRuns \in Nat \ {0} /\ MaxClock \in Nat \ {0}
BY QuestionBounds

LEMMA RunFields ==
  ASSUME NEW run \in QuestionRows
  PROVE  /\ run.status \in Statuses /\ run.frozen \in Scopes /\ run.existed \in RecordSets
         /\ run.underway \in RecordSets
         /\ run.counted \in RecordSets /\ run.facts \in RecordSets
         /\ run.read \in Statuses \cup {"nothing"} /\ run.alive \in BOOLEAN
         /\ run.phase \in
              {"none", "streaming", "answered", "broken", "saving", "failing", "closed"}
         /\ run.frozen.sources \subseteq Files /\ run.frozen.watermark \in 0 .. MaxClock
<1>1. run.frozen \in Scopes
  BY DEF QuestionRows
<1>2. run.frozen.sources \subseteq Files /\ run.frozen.watermark \in 0 .. MaxClock
  BY <1>1 DEF Scopes
<1>. QED
  BY <1>1, <1>2 DEF QuestionRows

LEMMA RequestKinds ==
  ASSUME NEW request \in QuestionRequests
  PROVE  /\ request.kind \in {"idle", "create", "stop", "delete"}
         /\ request.kind = "create" => request.asked \in QuestionRows
         /\ request.kind = "stop" => request.stops \in 1 .. MaxRuns
BY DEF QuestionRequests, Idle

LEMMA RunsFields ==
  ASSUME QuestionTypeOK
  PROVE  /\ Len(runs) \in Nat /\ DOMAIN runs = 1 .. Len(runs)
         /\ \A r \in DOMAIN runs : runs[r] \in QuestionRows
BY DEF QuestionTypeOK

(* One row changes, or one is added. *)
LEMMA RowChanges ==
  ASSUME QuestionTypeOK, NEW r \in DOMAIN runs, NEW row \in QuestionRows,
         runs' = [runs EXCEPT ![r] = row]
  PROVE  /\ runs' \in Seq(QuestionRows) /\ Len(runs') = Len(runs) /\ DOMAIN runs' = DOMAIN runs
         /\ runs'[r] = row
         /\ \A s \in DOMAIN runs : s # r => runs'[s] = runs[s]
BY DEF QuestionTypeOK

LEMMA RunAdded ==
  ASSUME QuestionTypeOK, NEW row \in QuestionRows, runs' = Append(runs, row)
  PROVE  /\ runs' \in Seq(QuestionRows) /\ Len(runs') = Len(runs) + 1
         /\ DOMAIN runs' = 1 .. Len(runs) + 1 /\ DOMAIN runs \subseteq DOMAIN runs'
         /\ runs'[Len(runs) + 1] = row
         /\ \A s \in DOMAIN runs : runs'[s] = runs[s]
BY DEF QuestionTypeOK

LEMMA QuestionsFirst == QuestionInit => QuestionInv
<1>. SUFFICES ASSUME QuestionInit PROVE QuestionInv
  OBVIOUS
<1>1. QuestionTypeOK
  <2>1. runs \in Seq(QuestionRows) /\ Len(runs) = 0 /\ DOMAIN runs = {}
    BY DEF QuestionInit
  <2>2. requests \in [Clients -> QuestionRequests]
    BY DEF QuestionInit, QuestionRequests
  <2>. QED
    BY <2>1, <2>2, Bounds DEF QuestionInit, QuestionTypeOK, AnyFile
<1>3. DOMAIN runs = {}
  BY DEF QuestionInit
<1>4. \A client \in Clients : RequestFits(requests[client])
  BY DEF QuestionInit, RequestFits, Idle
<1>. QED
  BY <1>1, <1>3, <1>4 DEF QuestionInv

LEMMA RecordsInSets ==
  ASSUME NEW stamps \in [Files -> SUBSET (1 .. MaxClock)]
  PROVE  /\ RecordsOf(stamps) \in RecordSets
         /\ \A file \in Files : \A stamp \in stamps[file] : <<file, stamp>> \in RecordsOf(stamps)
BY DEF RecordsOf, RecordSets

(* A run is created with what was stored or on its way then: its scope holds   *)
(* from there.                                                                *)
LEMMA NewRunSound ==
  ASSUME QuestionTypeOK, NEW status \in {"pending", "running"}
  PROVE  Sound(NewRun(status))
<1>. DEFINE run == NewRun(status)
<1>1. /\ run.status = status /\ run.frozen = Freeze(conversation.source)
      /\ run.existed = RecordsOf(stored) /\ run.underway = RecordsOf(arriving)
      /\ run.counted = {} /\ run.facts = {} /\ run.read = "nothing"
      /\ run.phase = (IF status = "running" THEN "streaming" ELSE "none")
  BY DEF NewRun
<1>2. Freeze(conversation.source).sources \subseteq Eligible
  BY DEF Freeze, DefaultSources
<1>3. Eligible \subseteq Files
  BY DEF Eligible
<1>4. clock \in 0 .. MaxClock
  BY DEF QuestionTypeOK
<1>5. Freeze(conversation.source) \in Scopes
  BY <1>2, <1>3, <1>4 DEF Freeze, Scopes
<1>6. RecordsOf(stored) \in RecordSets /\ RecordsOf(arriving) \in RecordSets
  BY RecordsInSets DEF QuestionTypeOK
<1>7. run \in QuestionRows
  <2>1. {} \in RecordSets
    BY DEF RecordSets
  <2>. QED
    BY <1>5, <1>6, <2>1 DEF NewRun, QuestionRows, Statuses
<1>8. Scoped(run)
  <2>1. run.frozen.watermark = clock /\ clock <= clock
    BY <1>1, <1>4 DEF Freeze
  <2>2. \A file \in Files :
          /\ \A stamp \in stored[file] : <<file, stamp>> \in RecordsOf(stored)
          /\ \A stamp \in arriving[file] : <<file, stamp>> \in RecordsOf(arriving)
    BY RecordsInSets DEF QuestionTypeOK
  <2>. HIDE DEF run
  <2>3. \A file \in Files : \A stamp \in stored[file] \cup arriving[file] :
          <<file, stamp>> \in Present(run)
    BY <1>1, <2>2 DEF Present
  <2>. QED
    BY <1>1, <2>1, <2>3 DEF Scoped
<1>9. StagedRun(run)
  BY <1>1 DEF StagedRun
<1>. QED
  BY <1>7, <1>8, <1>9 DEF Sound

-----------------------------------------------------------------------------
(* The data moves under the runs *)

LEMMA DataSteps ==
  ASSUME QuestionNext
  PROVE  \/ /\ \E file \in Files : \/ FlushRecords(file) \/ CommitRecords(file)
                                   \/ RollBackRecords(file) \/ DeleteRecords(file)
            /\ UNCHANGED <<runs, requests>>
         \/ UNCHANGED <<clock, stored, arriving>>
BY Zenon DEF QuestionNext, FlushRecords, CommitRecords, RollBackRecords, DeleteRecords,
     DeclareSourceSupersession,
     CreateConversation, AskQuestion, Begin, CreateRunRead, CreateRunCommit, StopRunRead,
     StopRunCommit, DeleteConversationRead, DeleteConversationCommit, Stream, Close, Saving,
     CallTool, CompleteAnswer, LoseProcess, ReadStoredRun, SaveAnswer, SaveFailure,
     CancelStream, dataVars

(* Whatever is imported, rolled back or deleted: what is stamped from now on   *)
(* is newer than a frozen scope.                                              *)
LEMMA ScopeLasts ==
  ASSUME QuestionTypeOK, QuestionNext, NEW run \in QuestionRows, Scoped(run)
  PROVE  Scoped(run)'
<1>1. /\ clock \in Nat /\ stored \in [Files -> SUBSET (1 .. MaxClock)]
      /\ arriving \in [Files -> SUBSET (1 .. MaxClock)]
      /\ run.frozen.watermark \in Nat /\ run.frozen.watermark <= clock
  BY RunFields, Bounds DEF QuestionTypeOK, Scoped
<1>2. \A file \in Files : \A stamp \in stored[file] \cup arriving[file] :
        stamp <= run.frozen.watermark => <<file, stamp>> \in Present(run)
  BY DEF Scoped
<1>3. ASSUME clock <= clock', clock' \in Nat,
             \A file \in Files : stored'[file] \cup arriving'[file]
                                   \subseteq stored[file] \cup arriving[file] \cup {clock + 1}
      PROVE  Scoped(run)'
  <2>1. run.frozen.watermark <= clock'
    BY <1>1, <1>3
  <2>2. ASSUME NEW file \in Files, NEW stamp \in stored'[file] \cup arriving'[file],
               stamp <= run.frozen.watermark
        PROVE  <<file, stamp>> \in Present(run)
    <3>1. stamp # clock + 1
      BY <1>1, <2>2
    <3>. QED
      BY <1>2, <1>3, <2>2, <3>1
  <2>. QED
    BY <2>1, <2>2 DEF Scoped
<1>4. CASE UNCHANGED <<clock, stored, arriving>>
  BY <1>1, <1>3, <1>4
<1>5. ASSUME NEW file \in Files, FlushRecords(file) PROVE Scoped(run)'
  BY <1>1, <1>3, <1>5 DEF FlushRecords
<1>6. ASSUME NEW file \in Files, CommitRecords(file) PROVE Scoped(run)'
  BY <1>1, <1>3, <1>6 DEF CommitRecords
<1>7. ASSUME NEW file \in Files, RollBackRecords(file) PROVE Scoped(run)'
  BY <1>1, <1>3, <1>7 DEF RollBackRecords
<1>8. ASSUME NEW file \in Files, DeleteRecords(file) PROVE Scoped(run)'
  BY <1>1, <1>3, <1>8 DEF DeleteRecords
<1>. QED
  BY <1>4, <1>5, <1>6, <1>7, <1>8, DataSteps

-----------------------------------------------------------------------------
(* Each request and each step of a stream *)

(* The steps that leave the rows and the requests alone.                      *)
LEMMA QuestionRest ==
  ASSUME QuestionInv, QuestionTypeOK', QuestionNext, UNCHANGED <<runs, requests>>
  PROVE  QuestionInv'
<1>2. ASSUME NEW run, Sound(run) PROVE Sound(run)'
  BY <1>2, ScopeLasts DEF QuestionInv, Sound, StagedRun
<1>3. \A r \in DOMAIN runs' : Sound(runs[r])'
  BY <1>2 DEF QuestionInv
<1>4. ASSUME NEW client \in Clients PROVE RequestFits(requests[client])'
  <2>1. RequestFits(requests[client])
    BY DEF QuestionInv
  <2>. QED
    BY <2>1, <1>2 DEF RequestFits
<1>. QED
  BY <1>3, <1>4 DEF QuestionInv

(* The steps that leave the data alone: every row that is new or changed must *)
(* be sound, and every request that is new must fit.                          *)
LEMMA RunRowsStep ==
  ASSUME QuestionInv, QuestionTypeOK', UNCHANGED <<clock, stored, arriving>>,
         DOMAIN runs \subseteq DOMAIN runs',
         \A r \in DOMAIN runs' : \/ r \in DOMAIN runs /\ runs'[r] = runs[r]
                                 \/ Sound(runs'[r]),
         \A client \in Clients : \/ requests'[client] = requests[client]
                                  \/ RequestFits(requests'[client])
  PROVE  QuestionInv'
<1>2. ASSUME NEW run, Sound(run) PROVE Sound(run)'
  BY <1>2 DEF Sound, StagedRun, Scoped
<1>3. \A r \in DOMAIN runs' : Sound(runs[r])'
  <2>1. \A r \in DOMAIN runs' : Sound(runs'[r])
    BY DEF QuestionInv
  <2>. QED
    BY <2>1 DEF Sound, StagedRun, Scoped
<1>4. ASSUME NEW client \in Clients PROVE RequestFits(requests[client])'
  <2>1. RequestFits(requests'[client])
    BY DEF QuestionInv
  <2>. QED
    BY <2>1 DEF RequestFits, Sound, StagedRun, Scoped
<1>. QED
  BY <1>3, <1>4 DEF QuestionInv

LEMMA StreamStep ==
  ASSUME QuestionInv, NEW r \in DOMAIN runs, NEW run, Sound(run), Stream(r, run)
  PROVE  QuestionInv'
<1>1. QuestionTypeOK /\ run \in QuestionRows /\ runs' = [runs EXCEPT ![r] = run]
  BY DEF QuestionInv, Sound, Stream
<1>2. /\ runs' \in Seq(QuestionRows) /\ Len(runs') = Len(runs) /\ DOMAIN runs' = DOMAIN runs
      /\ runs'[r] = run /\ \A s \in DOMAIN runs : s # r => runs'[s] = runs[s]
  BY <1>1, RowChanges
<1>3. UNCHANGED <<clock, stored, arriving, replacedBy, conversation, requests>>
  BY DEF Stream, dataVars
<1>4. QuestionTypeOK'
  BY <1>1, <1>2, <1>3 DEF QuestionTypeOK
<1>. QED
  BY <1>2, <1>3, <1>4, RunRowsStep

LEMMA CallToolSound ==
  ASSUME NEW run, Sound(run)
  PROVE  Sound([run EXCEPT !.counted = @ \cup VisibleTo(run)])
<1>. DEFINE more == [run EXCEPT !.counted = @ \cup VisibleTo(run)]
<1>1. run \in QuestionRows /\ Scoped(run) /\ StagedRun(run)
  BY DEF Sound
<1>2. /\ VisibleTo(run) \subseteq Present(run)
      /\ \A record \in VisibleTo(run) : record[1] \in run.frozen.sources
  <2>. SUFFICES ASSUME NEW record \in VisibleTo(run)
                PROVE  record \in Present(run) /\ record[1] \in run.frozen.sources
    OBVIOUS
  <2>1. PICK file \in Files : record \in {file} \X stored[file]
    BY DEF VisibleTo, RecordsOf
  <2>2. record = <<file, record[2]>> /\ record[2] \in stored[file]
    BY <2>1
  <2>3. record[2] <= run.frozen.watermark /\ record[1] \in run.frozen.sources
    BY DEF VisibleTo
  <2>. QED
    BY <1>1, <2>2, <2>3 DEF Scoped
<1>3. run.counted \cup VisibleTo(run) \in RecordSets
  BY <1>1, <1>2, RunFields DEF RecordSets, Present
<1>4. /\ more \in QuestionRows /\ more.counted = run.counted \cup VisibleTo(run)
      /\ more.facts = run.facts /\ more.existed = run.existed /\ more.underway = run.underway /\ more.frozen = run.frozen
      /\ more.phase = run.phase /\ more.status = run.status /\ more.read = run.read
  BY <1>1, <1>3 DEF QuestionRows
<1>5. Scoped(more)
  <2>. HIDE DEF more
  <2>. QED
    BY <1>1, <1>2, <1>4 DEF Scoped, Present
<1>6. StagedRun(more)
  BY <1>1, <1>4 DEF StagedRun
<1>. QED
  BY <1>4, <1>5, <1>6 DEF Sound

(* A step that changes the status, the stage or what was read of a row, or    *)
(* drops or stores what it counted, keeps its scope.                          *)
LEMMA StageSound ==
  ASSUME NEW run, Sound(run), NEW row \in QuestionRows, StagedRun(row),
         row.frozen = run.frozen, row.existed = run.existed /\ row.underway = run.underway,
         row.counted \in {run.counted, {}}, row.facts \in {run.facts, run.counted}
  PROVE  Sound(row)
BY DEF Sound, Scoped, Present

LEMMA ClosedRow ==
  ASSUME NEW run \in QuestionRows
  PROVE  LET row == Closed(run)
         IN  /\ row \in QuestionRows /\ row.phase = "closed" /\ row.counted = {}
             /\ row.facts = run.facts /\ row.frozen = run.frozen /\ row.existed = run.existed /\ row.underway = run.underway
             /\ row.status = run.status
BY DEF Closed, QuestionRows, RecordSets

LEMMA CloseSound == ASSUME NEW run, Sound(run) PROVE Sound(Closed(run))
<1>. DEFINE row == Closed(run)
<1>1. /\ row \in QuestionRows /\ row.phase = "closed" /\ row.counted = {}
      /\ row.facts = run.facts /\ row.frozen = run.frozen /\ row.existed = run.existed /\ row.underway = run.underway
  BY ClosedRow DEF Sound
<1>2. StagedRun(row)
  BY <1>1 DEF StagedRun
<1>. HIDE DEF row
<1>3. Sound(row)
  BY <1>1, <1>2, StageSound
<1>. QED
  BY <1>3 DEF row

LEMMA StreamActions ==
  ASSUME QuestionInv, NEW r \in DOMAIN runs,
         \/ CallTool(r) \/ CompleteAnswer(r) \/ LoseProcess(r) \/ ReadStoredRun(r)
         \/ SaveAnswer(r) \/ SaveFailure(r) \/ CancelStream(r)
  PROVE  QuestionInv'
<1>. DEFINE run == runs[r]
<1>1. Sound(run) /\ run \in QuestionRows /\ StagedRun(run)
  BY DEF QuestionInv, Sound
<1>2. CASE CallTool(r)
  BY <1>1, <1>2, CallToolSound, StreamStep DEF CallTool
<1>3. CASE CompleteAnswer(r) \/ LoseProcess(r)
  <2>1. PICK phase \in {"answered", "broken"} :
          Stream(r, [run EXCEPT !.phase = phase, !.alive = FALSE])
    BY <1>3 DEF CompleteAnswer, LoseProcess
  <2>. DEFINE row == [run EXCEPT !.phase = phase, !.alive = FALSE]
  <2>2. run.phase = "streaming"
    BY <1>3 DEF CompleteAnswer, LoseProcess
  <2>3. /\ row \in QuestionRows /\ row.phase = phase /\ row.status = run.status
        /\ row.read = run.read /\ row.counted = run.counted /\ row.facts = run.facts
        /\ row.frozen = run.frozen /\ row.existed = run.existed /\ row.underway = run.underway
    BY <1>1 DEF QuestionRows
  <2>. HIDE DEF row
  <2>4. StagedRun(row)
    BY <1>1, <2>2, <2>3 DEF StagedRun
  <2>5. Sound(row)
    BY <1>1, <2>3, <2>4, StageSound
  <2>. QED
    BY <2>1, <2>5, StreamStep DEF row
<1>4. ASSUME Close(r) PROVE QuestionInv'
  BY <1>1, <1>4, CloseSound, StreamStep DEF Close
<1>5. ASSUME NEW phase \in {"saving", "failing"}, run.status = "running", Saving(r, phase)
      PROVE  QuestionInv'
  <2>. DEFINE row == [run EXCEPT !.read = run.status, !.phase = phase]
  <2>1. /\ row \in QuestionRows /\ row.phase = phase /\ row.read = "running"
        /\ row.counted = run.counted /\ row.facts = run.facts
        /\ row.frozen = run.frozen /\ row.existed = run.existed /\ row.underway = run.underway
    BY <1>1, <1>5 DEF QuestionRows, Statuses
  <2>2. Stream(r, row)
    BY <1>5 DEF Saving
  <2>. HIDE DEF row
  <2>3. StagedRun(row)
    BY <2>1 DEF StagedRun
  <2>4. Sound(row)
    BY <1>1, <2>1, <2>3, StageSound
  <2>. QED
    BY <2>2, <2>4, StreamStep
<1>6. CASE ReadStoredRun(r)
  <2>1. \/ Close(r)
        \/ run.status = "running" /\ \E phase \in {"saving", "failing"} : Saving(r, phase)
    BY <1>1, <1>6 DEF ReadStoredRun, StagedRun, Running
  <2>. QED
    BY <2>1, <1>4, <1>5
<1>7. CASE SaveAnswer(r)
  <2>1. PICK end \in Ends :
          Stream(r, [Closed(run) EXCEPT !.status = end, !.facts = FactResults(run)])
    BY <1>7 DEF SaveAnswer
  <2>. DEFINE row == [Closed(run) EXCEPT !.status = end, !.facts = FactResults(run)]
  <2>2. /\ Closed(run) \in QuestionRows /\ Closed(run).phase = "closed"
        /\ Closed(run).counted = {} /\ Closed(run).frozen = run.frozen
        /\ Closed(run).existed = run.existed /\ Closed(run).underway = run.underway
    BY <1>1, ClosedRow
  <2>3. run.counted \in RecordSets
    BY <1>1, RunFields
  <2>4. /\ row \in QuestionRows /\ row.phase = "closed" /\ row.counted = {}
        /\ row.facts = run.counted /\ row.frozen = run.frozen /\ row.existed = run.existed /\ row.underway = run.underway
    BY <2>2, <2>3 DEF QuestionRows, FactResults, Statuses
  <2>. HIDE DEF row
  <2>5. StagedRun(row)
    BY <2>4 DEF StagedRun
  <2>6. Sound(row)
    BY <1>1, <2>4, <2>5, StageSound
  <2>. QED
    BY <2>1, <2>6, StreamStep DEF row
<1>8. CASE SaveFailure(r)
  <2>. DEFINE row == [Closed(run) EXCEPT !.status = "failed"]
  <2>1. Stream(r, row)
    BY <1>8 DEF SaveFailure
  <2>2. /\ Closed(run) \in QuestionRows /\ Closed(run).phase = "closed"
        /\ Closed(run).counted = {} /\ Closed(run).frozen = run.frozen
        /\ Closed(run).existed = run.existed /\ Closed(run).underway = run.underway /\ Closed(run).facts = run.facts
    BY <1>1, ClosedRow
  <2>3. /\ row \in QuestionRows /\ row.phase = "closed" /\ row.counted = {}
        /\ row.facts = run.facts /\ row.frozen = run.frozen /\ row.existed = run.existed /\ row.underway = run.underway
    BY <2>2 DEF QuestionRows, Statuses, Ends
  <2>. HIDE DEF row
  <2>4. StagedRun(row)
    BY <2>3 DEF StagedRun
  <2>5. Sound(row)
    BY <1>1, <2>3, <2>4, StageSound
  <2>. QED
    BY <2>1, <2>5, StreamStep
<1>9. CASE CancelStream(r)
  BY <1>4, <1>9 DEF CancelStream
<1>. QED
  BY <1>2, <1>3, <1>6, <1>7, <1>8, <1>9

LEMMA DataActions ==
  ASSUME QuestionInv, QuestionNext,
         \/ \E file \in Files : \/ FlushRecords(file) \/ CommitRecords(file)
                                \/ RollBackRecords(file) \/ DeleteRecords(file)
         \/ \E old, new \in Files : DeclareSourceSupersession(old, new)
         \/ \E source \in Files \cup {AnyFile} : CreateConversation(source)
  PROVE  QuestionInv'
<1>. USE Bounds
<1>1. QuestionTypeOK
  BY DEF QuestionInv
<1>2. ASSUME NEW file \in Files, FlushRecords(file) \/ CommitRecords(file)
                                  \/ RollBackRecords(file) \/ DeleteRecords(file)
      PROVE  QuestionTypeOK' /\ UNCHANGED <<runs, requests>>
  <2>1. /\ clock \in 0 .. MaxClock /\ stored \in [Files -> SUBSET (1 .. MaxClock)]
        /\ arriving \in [Files -> SUBSET (1 .. MaxClock)]
    BY <1>1 DEF QuestionTypeOK
  <2>2. /\ clock' \in 0 .. MaxClock /\ stored' \in [Files -> SUBSET (1 .. MaxClock)]
        /\ arriving' \in [Files -> SUBSET (1 .. MaxClock)]
    <3>1. CASE FlushRecords(file)
      <4>1. clock + 1 \in 1 .. MaxClock
        BY <2>1, <3>1 DEF FlushRecords
      <4>. QED
        BY <2>1, <3>1, <4>1 DEF FlushRecords
    <3>2. CASE CommitRecords(file)
      BY <2>1, <3>2 DEF CommitRecords
    <3>3. CASE RollBackRecords(file)
      BY <2>1, <3>3 DEF RollBackRecords
    <3>4. CASE DeleteRecords(file)
      BY <2>1, <3>4 DEF DeleteRecords
    <3>. QED
      BY <1>2, <3>1, <3>2, <3>3, <3>4
  <2>3. UNCHANGED <<replacedBy, conversation, runs, requests>>
    BY <1>2 DEF FlushRecords, CommitRecords, RollBackRecords, DeleteRecords
  <2>. QED
    BY <1>1, <2>2, <2>3 DEF QuestionTypeOK
<1>3. ASSUME NEW old \in Files, NEW new \in Files, DeclareSourceSupersession(old, new)
      PROVE  QuestionTypeOK' /\ UNCHANGED <<runs, requests>>
  <2>1. replacedBy' \in [Files -> 0 .. FileCount]
    BY SMTT(30), <1>1, <1>3 DEF QuestionTypeOK, DeclareSourceSupersession, Files
  <2>. QED
    BY <1>1, <1>3, <2>1 DEF QuestionTypeOK, DeclareSourceSupersession
<1>4. ASSUME NEW source \in Files \cup {AnyFile}, CreateConversation(source)
      PROVE  QuestionTypeOK' /\ UNCHANGED <<runs, requests>>
  <2>1. source \in 0 .. FileCount
    BY DEF Files, AnyFile
  <2>. QED
    BY <1>1, <1>4, <2>1 DEF QuestionTypeOK, CreateConversation, dataVars
<1>5. QuestionTypeOK' /\ UNCHANGED <<runs, requests>>
  BY <1>2, <1>3, <1>4
<1>. QED
  BY <1>5, QuestionRest

(* A row is added: by the compatibility entry, or by the commit of a request. *)
LEMMA AddRow ==
  ASSUME QuestionInv, NEW row, Sound(row), runs' = Append(runs, row), Len(runs) < MaxRuns,
         UNCHANGED dataVars,
         conversation' \in [status : {"none", "active", "deleted"}, source : 0 .. FileCount],
         requests' \in [Clients -> QuestionRequests],
         \A client \in Clients : requests'[client] \in {requests[client], Idle}
  PROVE  QuestionInv'
<1>1. QuestionTypeOK /\ row \in QuestionRows
  BY DEF QuestionInv, Sound
<1>2. /\ runs' \in Seq(QuestionRows) /\ Len(runs') = Len(runs) + 1
      /\ DOMAIN runs' = 1 .. Len(runs) + 1 /\ DOMAIN runs \subseteq DOMAIN runs'
      /\ runs'[Len(runs) + 1] = row
      /\ \A s \in DOMAIN runs : runs'[s] = runs[s]
  BY <1>1, RunAdded
<1>3. Len(runs') <= MaxRuns
  BY <1>1, <1>2, Bounds, RunsFields
<1>4. QuestionTypeOK'
  BY <1>1, <1>2, <1>3 DEF QuestionTypeOK, dataVars
<1>5. \A r \in DOMAIN runs' : r \in DOMAIN runs \/ r = Len(runs) + 1
  BY <1>1, <1>2, RunsFields
<1>6. \A client \in Clients : \/ requests'[client] = requests[client]
                               \/ RequestFits(requests'[client])
  BY DEF RequestFits, Idle
<1>. QED
  BY <1>2, <1>4, <1>5, <1>6, RunRowsStep DEF dataVars

(* A request starts or ends and no row is added: one row may have changed.    *)
LEMMA RequestStep ==
  ASSUME QuestionInv, NEW client \in Clients, NEW request \in QuestionRequests,
         requests' = [requests EXCEPT ![client] = request], RequestFits(request),
         UNCHANGED dataVars,
         conversation' \in [status : {"none", "active", "deleted"}, source : 0 .. FileCount],
         \/ runs' = runs
         \/ \E r \in DOMAIN runs : \E row : Sound(row) /\ runs' = [runs EXCEPT ![r] = row]
  PROVE  QuestionInv'
<1>1. QuestionTypeOK
  BY DEF QuestionInv
<1>2. /\ runs' \in Seq(QuestionRows) /\ Len(runs') = Len(runs) /\ DOMAIN runs' = DOMAIN runs
      /\ \A r \in DOMAIN runs : runs'[r] = runs[r] \/ Sound(runs'[r])
  <2>1. CASE runs' = runs
    BY <1>1, <2>1 DEF QuestionTypeOK
  <2>2. ASSUME NEW r \in DOMAIN runs, NEW row, Sound(row), runs' = [runs EXCEPT ![r] = row]
        PROVE  /\ runs' \in Seq(QuestionRows) /\ Len(runs') = Len(runs)
               /\ DOMAIN runs' = DOMAIN runs
               /\ \A s \in DOMAIN runs : runs'[s] = runs[s] \/ Sound(runs'[s])
    <3>1. row \in QuestionRows
      BY <2>2 DEF Sound
    <3>. QED
      BY <1>1, <2>2, <3>1, RowChanges
  <2>. QED
    BY <2>1, <2>2
<1>3. /\ requests' \in [Clients -> QuestionRequests]
      /\ \A other \in Clients : \/ requests'[other] = requests[other]
                                \/ RequestFits(requests'[other])
  BY <1>1 DEF QuestionTypeOK
<1>4. QuestionTypeOK'
  BY <1>1, <1>2, <1>3 DEF QuestionTypeOK, dataVars
<1>. QED
  BY <1>2, <1>3, <1>4, RunRowsStep DEF dataVars

LEMMA RequestActions ==
  ASSUME QuestionInv, NEW client \in Clients,
         \/ CreateRunRead(client) \/ CreateRunCommit(client)
         \/ StopRunRead(client) \/ StopRunCommit(client)
         \/ DeleteConversationRead(client) \/ DeleteConversationCommit(client)
  PROVE  QuestionInv'
<1>1. /\ QuestionTypeOK /\ requests[client] \in QuestionRequests
      /\ RequestFits(requests[client])
      /\ conversation \in [status : {"none", "active", "deleted"}, source : 0 .. FileCount]
      /\ requests \in [Clients -> QuestionRequests]
  BY DEF QuestionInv, QuestionTypeOK
<1>2. Idle \in QuestionRequests /\ RequestFits(Idle)
  BY DEF QuestionRequests, RequestFits, Idle
<1>3. CASE CreateRunRead(client)
  <2>. DEFINE asked == NewRun("running")
              request == [kind |-> "create", asked |-> asked]
  <2>1. Sound(asked) /\ asked \in QuestionRows
    BY <1>1, NewRunSound DEF Sound
  <2>. HIDE DEF asked
  <2>2. request \in QuestionRequests /\ RequestFits(request)
    BY <2>1 DEF QuestionRequests, RequestFits
  <2>3. requests' = [requests EXCEPT ![client] = request]
        /\ UNCHANGED <<dataVars, conversation, runs>>
    BY <1>3 DEF CreateRunRead, Begin, asked
  <2>. HIDE DEF request
  <2>. QED
    BY <1>1, <2>2, <2>3, RequestStep
<1>4. CASE CreateRunCommit(client)
  <2>1. /\ Sound(requests[client].asked) /\ Len(runs) < MaxRuns
        /\ runs' = Append(runs, requests[client].asked)
        /\ requests' = [requests EXCEPT ![client] = Idle] /\ UNCHANGED <<dataVars, conversation>>
    BY <1>1, <1>4 DEF CreateRunCommit, RequestFits
  <2>2. /\ requests' \in [Clients -> QuestionRequests]
        /\ \A other \in Clients : requests'[other] \in {requests[other], Idle}
    BY <1>1, <1>2, <2>1
  <2>. QED
    BY <1>1, <2>1, <2>2, AddRow
<1>5. CASE StopRunRead(client)
  <2>1. PICK last \in DOMAIN runs :
          /\ requests' = [requests EXCEPT ![client] = [kind |-> "stop", stops |-> last]]
          /\ runs' = [runs EXCEPT ![last].alive = FALSE]
          /\ UNCHANGED <<dataVars, conversation>>
    BY <1>5 DEF StopRunRead
  <2>. DEFINE row == [runs[last] EXCEPT !.alive = FALSE]
              request == [kind |-> "stop", stops |-> last]
  <2>2. Sound(runs[last]) /\ runs[last] \in QuestionRows /\ StagedRun(runs[last])
    BY DEF QuestionInv, Sound
  <2>3. /\ row \in QuestionRows /\ row.phase = runs[last].phase
        /\ row.status = runs[last].status /\ row.read = runs[last].read
        /\ row.counted = runs[last].counted /\ row.facts = runs[last].facts
        /\ row.frozen = runs[last].frozen /\ row.existed = runs[last].existed /\ row.underway = runs[last].underway
    BY <2>2 DEF QuestionRows
  <2>4. runs' = [runs EXCEPT ![last] = row]
    BY <2>1
  <2>5. last \in 1 .. MaxRuns
    BY <1>1, RunsFields, Bounds DEF QuestionTypeOK
  <2>6. request \in QuestionRequests /\ RequestFits(request)
    BY <2>5 DEF QuestionRequests, RequestFits
  <2>. HIDE DEF row, request
  <2>7. StagedRun(row)
    BY <2>2, <2>3 DEF StagedRun
  <2>8. Sound(row)
    BY <2>2, <2>3, <2>7, StageSound
  <2>9. requests' = [requests EXCEPT ![client] = request] /\ UNCHANGED <<dataVars, conversation>>
    BY <2>1 DEF request
  <2>. QED
    BY <1>1, <2>4, <2>6, <2>8, <2>9, RequestStep
<1>6. CASE StopRunCommit(client)
  <2>. DEFINE last == requests[client].stops
              row == [runs[last] EXCEPT !.status = "stopped"]
  <2>1. last \in DOMAIN runs
    BY <1>1, <1>6 DEF StopRunCommit, RequestFits
  <2>2. Sound(runs[last]) /\ runs[last] \in QuestionRows /\ StagedRun(runs[last])
    BY <2>1 DEF QuestionInv, Sound
  <2>3. /\ row \in QuestionRows /\ row.phase = runs[last].phase
        /\ row.status = "stopped" /\ row.read = runs[last].read
        /\ row.counted = runs[last].counted /\ row.facts = runs[last].facts
        /\ row.frozen = runs[last].frozen /\ row.existed = runs[last].existed /\ row.underway = runs[last].underway
    BY <2>2 DEF QuestionRows, Statuses
  <2>4. /\ runs' = [runs EXCEPT ![last] = row] /\ requests' = [requests EXCEPT ![client] = Idle]
        /\ UNCHANGED <<dataVars, conversation>>
    BY <1>6 DEF StopRunCommit
  <2>. HIDE DEF row, last
  <2>5. StagedRun(row)
    BY <2>2, <2>3 DEF StagedRun
  <2>6. Sound(row)
    BY <2>2, <2>3, <2>5, StageSound
  <2>. QED
    BY <1>1, <1>2, <2>1, <2>4, <2>6, RequestStep
<1>7. CASE DeleteConversationRead(client)
  <2>. DEFINE request == [kind |-> "delete"]
  <2>1. request \in QuestionRequests /\ RequestFits(request)
    BY DEF QuestionRequests, RequestFits
  <2>2. requests' = [requests EXCEPT ![client] = request]
        /\ UNCHANGED <<dataVars, conversation, runs>>
    BY <1>7 DEF DeleteConversationRead, Begin
  <2>. HIDE DEF request
  <2>. QED
    BY <1>1, <2>1, <2>2, RequestStep
<1>8. CASE DeleteConversationCommit(client)
  <2>1. /\ requests' = [requests EXCEPT ![client] = Idle] /\ UNCHANGED <<dataVars, runs>>
        /\ conversation' = [conversation EXCEPT !.status = "deleted"]
    BY <1>8 DEF DeleteConversationCommit
  <2>2. conversation' \in [status : {"none", "active", "deleted"}, source : 0 .. FileCount]
    BY <1>1, <2>1
  <2>. QED
    BY <1>2, <2>1, <2>2, RequestStep
<1>. QED
  BY <1>3, <1>4, <1>5, <1>6, <1>7, <1>8

LEMMA QuestionsStep == QuestionInv /\ [QuestionNext]_questionVars => QuestionInv'
<1>. SUFFICES ASSUME QuestionInv, [QuestionNext]_questionVars PROVE QuestionInv'
  OBVIOUS
<1>1. CASE UNCHANGED questionVars
  BY <1>1 DEF questionVars, QuestionInv, QuestionTypeOK, RequestFits, Sound,
       Scoped, StagedRun
<1>2. CASE QuestionNext
  <2>1. CASE AskQuestion
    <3>1. Sound(NewRun("pending"))
      BY NewRunSound DEF QuestionInv
    <3>2. /\ runs' = Append(runs, NewRun("pending")) /\ Len(runs) < MaxRuns
          /\ UNCHANGED <<dataVars, requests>>
          /\ conversation' = [status |-> "active", source |-> AnyFile]
      BY <2>1 DEF AskQuestion
    <3>3. conversation' \in [status : {"none", "active", "deleted"}, source : 0 .. FileCount]
      BY <3>2, Bounds DEF AnyFile
    <3>4. requests' \in [Clients -> QuestionRequests]
      BY <3>2 DEF QuestionInv, QuestionTypeOK
    <3>. HIDE DEF NewRun
    <3>. QED
      BY <3>1, <3>2, <3>3, <3>4, AddRow
  <2>2. CASE \/ \E file \in Files : \/ FlushRecords(file) \/ CommitRecords(file)
                                     \/ RollBackRecords(file) \/ DeleteRecords(file)
             \/ \E old, new \in Files : DeclareSourceSupersession(old, new)
             \/ \E source \in Files \cup {AnyFile} : CreateConversation(source)
    BY <1>2, <2>2, DataActions
  <2>. QED
    BY <1>2, <2>1, <2>2, RequestActions, StreamActions DEF QuestionNext
<1>. QED
  BY <1>1, <1>2

-----------------------------------------------------------------------------
(* The theorems *)

LEMMA QuestionsSound == QuestionSpec => []QuestionInv
BY QuestionsFirst, QuestionsStep, PTL DEF QuestionSpec

(* Records, conversation, runs and requests keep the shapes of their rows.    *)
THEOREM QuestionsTypeCorrect == QuestionSpec => []QuestionTypeOK
BY QuestionsSound, PTL DEF QuestionInv

(* For any number of files, imports, runs and overlapping requests: what the  *)
(* tools of a run count, and what is stored with its answer, belongs to the   *)
(* files frozen when the run was created, and was committed then or flushed   *)
(* by an import that was under way; nothing stamped later is counted.         *)
THEOREM RunsCountWhatWasThere == QuestionSpec => []CountsWhatWasThere
<1>1. QuestionInv => CountsWhatWasThere
  BY DEF QuestionInv, Sound, Scoped, Present, CountsWhatWasThere
<1>. QED
  BY <1>1, QuestionsSound, PTL

LEMMA FinishedStep ==
  ASSUME QuestionInv, [QuestionNext]_questionVars, NEW r \in DOMAIN runs,
         ~Running(runs[r]), ~WriteUnderWay(r)
  PROVE  Kept(r)
<1>. DEFINE Same(run) == run.status = runs[r].status /\ run.facts = runs[r].facts
<1>1. QuestionTypeOK /\ runs[r] \in QuestionRows /\ StagedRun(runs[r])
  BY DEF QuestionInv, Sound
<1>2. CASE runs' = runs
  BY <1>2 DEF Kept
<1>3. ASSUME NEW row, runs' = Append(runs, row) PROVE Kept(r)
  BY <1>1, <1>3, RunsFields DEF Kept, QuestionTypeOK
<1>4. ASSUME NEW s \in DOMAIN runs, NEW row, runs' = [runs EXCEPT ![s] = row],
             s # r \/ Same(row)
      PROVE  Kept(r)
  BY <1>4, <1>1, RunsFields DEF Kept
<1>5. ASSUME NEW client \in Clients, StopRunRead(client) PROVE Kept(r)
  <2>1. PICK last \in DOMAIN runs : runs' = [runs EXCEPT ![last].alive = FALSE]
    BY <1>5 DEF StopRunRead
  <2>2. last = r => Same([runs[last] EXCEPT !.alive = FALSE])
    BY <1>1 DEF QuestionRows
  <2>. QED
    BY <2>1, <2>2, <1>4
<1>6. ASSUME NEW client \in Clients, StopRunCommit(client) PROVE Kept(r)
  <2>1. requests[client].stops \in DOMAIN runs /\ requests[client].stops # r
    BY <1>6 DEF StopRunCommit, WriteUnderWay, QuestionInv, RequestFits
  <2>. QED
    BY <1>6, <2>1, <1>4 DEF StopRunCommit
<1>7. ASSUME NEW s \in DOMAIN runs, CallTool(s) PROVE Kept(r)
  <2>1. s = r => Same([runs[s] EXCEPT !.counted = @ \cup VisibleTo(runs[s])])
    BY <1>1 DEF QuestionRows
  <2>. QED
    BY <1>7, <2>1, <1>4 DEF CallTool, Stream
<1>8. ASSUME NEW s \in DOMAIN runs, CompleteAnswer(s) \/ LoseProcess(s) PROVE Kept(r)
  <2>1. PICK phase : runs' = [runs EXCEPT ![s] = [runs[s] EXCEPT !.phase = phase, !.alive = FALSE]]
    BY <1>8 DEF CompleteAnswer, LoseProcess, Stream
  <2>2. s = r => Same([runs[s] EXCEPT !.phase = phase, !.alive = FALSE])
    BY <1>1 DEF QuestionRows
  <2>. QED
    BY <2>1, <2>2, <1>4
<1>9. ASSUME NEW s \in DOMAIN runs, ReadStoredRun(s) \/ CancelStream(s) PROVE Kept(r)
  <2>1. \/ runs' = [runs EXCEPT ![s] = Closed(runs[s])]
        \/ \E phase : runs' = [runs EXCEPT ![s] = [runs[s] EXCEPT !.read = runs[s].status,
                                                               !.phase = phase]]
    BY <1>9 DEF ReadStoredRun, CancelStream, Close, Saving, Stream
  <2>2. s = r => Same(Closed(runs[s]))
    BY <1>1 DEF QuestionRows, Closed
  <2>3. ASSUME NEW phase
        PROVE  s = r => Same([runs[s] EXCEPT !.read = runs[s].status, !.phase = phase])
    BY <1>1 DEF QuestionRows
  <2>. QED
    BY <2>1, <2>2, <2>3, <1>4
<1>10. ASSUME NEW s \in DOMAIN runs, SaveAnswer(s) \/ SaveFailure(s) PROVE Kept(r)
  <2>1. s # r
    BY <1>10, <1>1 DEF SaveAnswer, SaveFailure, StagedRun, WriteUnderWay
  <2>2. \E row : runs' = [runs EXCEPT ![s] = row]
    BY <1>10 DEF SaveAnswer, SaveFailure, Stream
  <2>. QED
    BY <2>1, <2>2, <1>4
<1>11. ASSUME NEW client \in Clients, CreateRunRead(client) \/ CreateRunCommit(client)
                \/ DeleteConversationRead(client) \/ DeleteConversationCommit(client)
       PROVE  Kept(r)
  BY <1>11, <1>2, <1>3 DEF CreateRunRead, CreateRunCommit, DeleteConversationRead,
     DeleteConversationCommit, Begin
<1>12. ASSUME NEW file \in Files, FlushRecords(file) \/ CommitRecords(file)
                                   \/ RollBackRecords(file) \/ DeleteRecords(file)
       PROVE  Kept(r)
  BY <1>12, <1>2 DEF FlushRecords, CommitRecords, RollBackRecords, DeleteRecords
<1>13. CASE \/ \E old, new \in Files : DeclareSourceSupersession(old, new)
            \/ \E source \in Files \cup {AnyFile} : CreateConversation(source)
            \/ AskQuestion
  BY <1>13, <1>2, <1>3 DEF DeclareSourceSupersession, CreateConversation, AskQuestion
<1>14. CASE UNCHANGED questionVars
  BY <1>14, <1>2 DEF questionVars
<1>. QED
  BY <1>5, <1>6, <1>7, <1>8, <1>9, <1>10, <1>11, <1>12, <1>13, <1>14 DEF QuestionNext

(* A run that has ended keeps its status and its facts, unless a stop or a    *)
(* save that had read it running is still to commit.                          *)
THEOREM FinishedRunsStay == QuestionSpec => FinishedStaysFinished
<1>1. QuestionInv /\ [QuestionNext]_questionVars =>
        [\A r \in DOMAIN runs : ~Running(runs[r]) /\ ~WriteUnderWay(r) => Kept(r)]_questionVars
  BY FinishedStep
<1>. QED
  BY <1>1, QuestionsSound, PTL DEF QuestionSpec, FinishedStaysFinished

-----------------------------------------------------------------------------
(***************************************************************************)
(* Proofs about identities and scopes: sessions that resolve are current,  *)
(* an admin remains, and reads stay in their scope; for any accounts,      *)
(* tenants and units, any number of sessions and changes, and requests     *)
(* that overlap as they like.                                              *)
(***************************************************************************)

(* Only a revocation ends a session before its rights change: one that is not *)
(* revoked was opened, or kept by its password change, after the last change. *)
UnrevokedIsCurrent ==
  \A s \in DOMAIN sessions :
    ~sessions[s].revoked => sessions[s].since = accounts[sessions[s].user].since

ActiveIsKnown == \A u \in Accounts : accounts[u].active => accounts[u].known

(* What an admission checked of its actor stays true until the commit.        *)
KeepsActor(command, actor) ==
  /\ command.kind = "update_user" /\ command.user = actor => KeepsHimself(actor, command)
  /\ command.kind = "delete_user" => command.user # actor

CallFits(call) ==
  /\ call.kind = "password" => call.session \in DOMAIN sessions
  /\ call.kind = "admin" =>
       /\ call.session \in DOMAIN sessions
       /\ KeepsActor(call.command, sessions[call.session].user)
       /\ call.command.kind = "update_user" => accounts[call.command.user].known

AccessInv ==
  /\ AccessTypeOK
  /\ UnrevokedIsCurrent
  /\ ActiveIsKnown
  /\ AnAdminRemains
  /\ \A c \in Callers : CallFits(calls[c])

-----------------------------------------------------------------------------
(* Rows, commands and calls *)

LEMMA AccessNumbers == MaxSessions \in Nat /\ MaxChanges \in Nat /\ 0 \in 0 .. MaxChanges
<1>1. MaxSessions \in Nat /\ MaxChanges \in Nat
  BY AccessConstants
<1>. QED
  BY <1>1

LEMMA AccountFields ==
  ASSUME NEW account \in AccountRows
  PROVE  /\ account.known \in BOOLEAN /\ account.active \in BOOLEAN /\ account.member \in BOOLEAN
         /\ account.rights \in Rights /\ account.since \in 0 .. MaxChanges
BY DEF AccountRows

LEMMA CommandKinds ==
  ASSUME NEW command \in Commands
  PROVE  /\ command.kind \in {"update_user", "create_user", "delete_user", "update_tenant",
                              "delete_tenant", "update_unit"}
         /\ command.kind = "update_user" =>
              /\ command.user \in Accounts /\ command.status \in {"keep", "active", "disabled"}
              /\ command.rights = KeepRights \/ command.rights \in FittingRights
         /\ command.kind = "create_user" =>
              command.user \in Accounts /\ command.rights \in FittingRights
         /\ command.kind = "delete_user" => command.user \in Accounts
         /\ command.kind \in {"update_tenant", "delete_tenant"} => command.tenant \in Tenants
         /\ command.kind = "update_tenant" => command.on \in BOOLEAN
         /\ command.kind = "update_unit" => command.place \in Places /\ command.on \in BOOLEAN
BY DEF Commands

LEMMA CallKinds ==
  ASSUME NEW call \in CallRows
  PROVE  /\ call.kind \in {"none", "login", "password", "admin"}
         /\ call.kind = "login" => call.user \in Accounts
         /\ call.kind \in {"password", "admin"} => call.session \in 1 .. MaxSessions
         /\ call.kind = "admin" => call.command \in Commands /\ call.seen \in AccountRows
<1>. HIDE DEF Commands, AccountRows
<1>. QED
  BY DEF CallRows, NoCall

LEMMA SessionsFields ==
  ASSUME AccessTypeOK
  PROVE  /\ Len(sessions) \in Nat /\ DOMAIN sessions = 1 .. Len(sessions)
         /\ \A s \in DOMAIN sessions : /\ sessions[s] \in SessionRows
                                       /\ sessions[s].user \in Accounts
         /\ 0 \notin DOMAIN sessions
<1>1. /\ sessions \in Seq(SessionRows)
      /\ \A row \in SessionRows : row.user \in Accounts
  BY DEF AccessTypeOK, SessionRows
<1>2. /\ Len(sessions) \in Nat /\ DOMAIN sessions = 1 .. Len(sessions)
      /\ \A s \in 1 .. Len(sessions) : sessions[s] \in SessionRows
  BY <1>1, LenProperties, ElementOfSeq
<1>. QED
  BY <1>1, <1>2

LEMMA RightsKinds ==
  /\ KeepRights.tenant = "keep" /\ PlatformRights \in Rights
  /\ FittingRights \subseteq Rights
BY DEF KeepRights, PlatformRights, Rights, FittingRights, Platform, NoPlace

LEMMA RevokedRow ==
  ASSUME NEW session \in SessionRows
  PROVE  /\ Revoked(session) \in SessionRows /\ Revoked(session).revoked = TRUE
         /\ Revoked(session).user = session.user
<1>1. 0 \in 0 .. MaxChanges
  BY AccessNumbers
<1>. DEFINE Stamps == 0 .. MaxChanges
<1>. HIDE DEF Stamps
<1>2. 0 \in Stamps /\ SessionRows = [user : Accounts, revoked : BOOLEAN, since : Stamps]
  BY <1>1 DEF Stamps, SessionRows
<1>. QED
  BY <1>2 DEF Revoked

(* The sessions of some users are revoked: the others are as they were.       *)
RevokedOf(users, kept, after) ==
  /\ after \in Seq(SessionRows) /\ Len(after) = Len(sessions)
  /\ DOMAIN after = DOMAIN sessions
  /\ \A s \in DOMAIN sessions :
        /\ after[s] \in SessionRows /\ after[s].user = sessions[s].user
        /\ sessions[s].user \in users /\ s # kept => after[s].revoked = TRUE
        /\ sessions[s].user \notin users \/ s = kept => after[s] = sessions[s]

LEMMA RevokedRows ==
  ASSUME AccessTypeOK, NEW users, NEW kept
  PROVE  RevokedOf(users, kept, RevokedExcept(users, kept))
<1>. DEFINE n == Len(sessions)
            after == RevokedExcept(users, kept)
<1>1. /\ n \in Nat /\ DOMAIN sessions = 1 .. n
      /\ \A s \in DOMAIN sessions : sessions[s] \in SessionRows
  BY SessionsFields
<1>2. /\ DOMAIN after = 1 .. n
      /\ \A s \in 1 .. n : after[s] = IF sessions[s].user \in users /\ s # kept
                                        THEN Revoked(sessions[s]) ELSE sessions[s]
      /\ after = [s \in 1 .. n |-> after[s]]
  BY <1>1 DEF RevokedExcept
<1>3. \A s \in 1 .. n :
        /\ after[s] \in SessionRows /\ after[s].user = sessions[s].user
        /\ sessions[s].user \in users /\ s # kept => after[s].revoked = TRUE
        /\ sessions[s].user \notin users \/ s = kept => after[s] = sessions[s]
  <2>. SUFFICES ASSUME NEW s \in 1 .. n
                PROVE  /\ after[s] \in SessionRows /\ after[s].user = sessions[s].user
                       /\ sessions[s].user \in users /\ s # kept => after[s].revoked = TRUE
                       /\ sessions[s].user \notin users \/ s = kept => after[s] = sessions[s]
    OBVIOUS
  <2>1. sessions[s] \in SessionRows
    BY <1>1
  <2>2. CASE sessions[s].user \in users /\ s # kept
    BY <1>2, <2>1, <2>2, RevokedRow
  <2>3. CASE ~(sessions[s].user \in users /\ s # kept)
    BY <1>2, <2>1, <2>3
  <2>. QED
    BY <2>2, <2>3
<1>. HIDE DEF n, after
<1>4. after \in [1 .. n -> SessionRows]
  BY <1>2, <1>3
<1>5. after \in Seq(SessionRows) /\ Len(after) = n
  BY <1>1, <1>4
<1>. QED
  BY <1>1, <1>2, <1>3, <1>5 DEF n, after, RevokedOf

LEMMA AccessFirst == AccessInit => AccessInv
<1>. SUFFICES ASSUME AccessInit PROVE AccessInv
  OBVIOUS
<1>1. Nobody \in AccountRows
      /\ [Nobody EXCEPT !.known = TRUE, !.active = TRUE, !.member = TRUE] \in AccountRows
  <2>. DEFINE Stamps == 0 .. MaxChanges
  <2>. HIDE DEF Stamps
  <2>1. /\ 0 \in Stamps
        /\ AccountRows = [known : BOOLEAN, active : BOOLEAN, member : BOOLEAN, rights : Rights,
                          since : Stamps]
    BY AccessNumbers DEF Stamps, AccountRows
  <2>. QED
    BY <2>1, RightsKinds DEF Nobody
<1>2. \A u \in Accounts : accounts[u].since = 0
  BY DEF AccessInit, Nobody
<1>3. sessions \in Seq(SessionRows) /\ Len(sessions) = 0 /\ DOMAIN sessions = {}
  BY DEF AccessInit
<1>4. calls \in [Callers -> CallRows]
  BY DEF AccessInit, CallRows
<1>5. AccessTypeOK
  <2>1. accounts \in [Accounts -> AccountRows]
    BY <1>1 DEF AccessInit
  <2>2. Len(sessions) <= MaxSessions /\ changes \in 0 .. MaxChanges /\ deposed \in BOOLEAN
        /\ \A u \in Accounts : accounts[u].since <= changes
    <3>1. changes = 0 /\ deposed = FALSE
      BY DEF AccessInit
    <3>2. 0 <= MaxSessions /\ 0 <= 0
      BY AccessNumbers
    <3>. QED
      BY <1>2, <1>3, <3>1, <3>2, AccessNumbers
  <2>3. tenantOn \in [Tenants -> BOOLEAN] /\ placeOn \in [Places -> BOOLEAN]
    BY DEF AccessInit
  <2>. QED
    BY <1>3, <1>4, <2>1, <2>2, <2>3 DEF AccessTypeOK
<1>6. ActiveIsKnown
  BY DEF AccessInit, ActiveIsKnown, Nobody
<1>7. AnAdminRemains
  <2>1. /\ accounts[Admin].active /\ accounts[Admin].member
        /\ accounts[Admin].rights = PlatformRights
    BY AccessConstants DEF AccessInit, Nobody
  <2>. QED
    BY <2>1, AccessConstants DEF AnAdminRemains
<1>8. \A c \in Callers : CallFits(calls[c])
  BY DEF AccessInit, CallFits, NoCall
<1>. QED
  BY <1>3, <1>5, <1>6, <1>7, <1>8 DEF AccessInv, UnrevokedIsCurrent

-----------------------------------------------------------------------------
(* What a command does to the accounts *)

LEMMA UpdatedRow ==
  ASSUME NEW account \in AccountRows, NEW command \in Commands, NEW seen \in AccountRows,
         command.kind = "update_user", changes + 1 \in 0 .. MaxChanges
  PROVE  /\ Updated(account, command, seen) \in AccountRows
         /\ Updated(account, command, seen).since = changes + 1
         /\ Updated(account, command, seen).known = account.known
<1>. DEFINE active == Status(command, seen.active, account.active)
            member == Status(command, seen.member, account.member)
            rights == IF command.rights = KeepRights THEN account.rights
                      ELSE [tenant |-> ColumnWritten(command.rights.tenant, seen.rights.tenant,
                                                     account.rights.tenant),
                            role |-> ColumnWritten(command.rights.role, seen.rights.role,
                                                   account.rights.role),
                            place |-> command.rights.place]
<1>1. active \in BOOLEAN /\ member \in BOOLEAN
  BY AccountFields DEF Status, ColumnWritten
<1>2. rights \in Rights
  <2>1. account.rights \in Rights
    BY AccountFields
  <2>2. CASE command.rights = KeepRights
    BY <2>1, <2>2
  <2>3. CASE command.rights # KeepRights
    <3>1. command.rights \in Rights
      BY <2>3, CommandKinds, RightsKinds
    <3>. QED
      BY <2>1, <2>3, <3>1 DEF Rights, ColumnWritten
  <2>. QED
    BY <2>2, <2>3
<1>3. Updated(account, command, seen) =
        [account EXCEPT !.active = active, !.member = member, !.rights = rights,
                        !.since = changes + 1]
  BY DEF Updated, Changes, AccountRows
<1>. HIDE DEF active, member, rights
<1>. QED
  BY <1>1, <1>2, <1>3 DEF AccountRows

(* A command changes the accounts it touches, and only those; it forgets none *)
(* and activates only known ones.                                             *)
LEMMA AppliedRow ==
  ASSUME AccessTypeOK, ActiveIsKnown, NEW user \in Accounts, NEW command \in Commands,
         NEW seen \in AccountRows, changes + 1 \in 0 .. MaxChanges,
         command.kind = "update_user" => accounts[command.user].known
  PROVE  LET new == Applied(user, command, seen)
         IN  /\ new \in AccountRows
             /\ new.active => new.known
             /\ accounts[user].known => new.known
             /\ new = accounts[user] \/ new.since = changes + 1
             /\ user \notin Touched(command) => new = accounts[user]
<1>. DEFINE account == accounts[user]
            new == Applied(user, command, seen)
            Goal == /\ new \in AccountRows
                    /\ new.active => new.known
                    /\ account.known => new.known
                    /\ new = account \/ new.since = changes + 1
                    /\ user \notin Touched(command) => new = account
<1>1. account \in AccountRows /\ (account.active => account.known)
  BY DEF AccessTypeOK, ActiveIsKnown
<1>2. command.kind \in {"update_user", "create_user", "delete_user", "update_tenant",
                        "delete_tenant", "update_unit"}
  BY CommandKinds
<1>3. CASE command.kind = "update_user"
  <2>1. CASE user = command.user
    <3>1. new = Updated(account, command, seen)
      BY <1>3, <2>1 DEF Applied
    <3>2. user \in Touched(command)
      BY <1>3, <2>1 DEF Touched
    <3>3. new.known = account.known /\ account.known
      BY <1>1, <1>3, <2>1, <3>1, UpdatedRow
    <3>. QED
      BY <1>1, <1>3, <3>1, <3>2, <3>3, UpdatedRow
  <2>2. CASE user # command.user
    <3>1. new = account
      BY <1>3, <2>2 DEF Applied
    <3>. QED
      BY <1>1, <3>1
  <2>. QED
    BY <2>1, <2>2
<1>4. CASE command.kind = "create_user"
  <2>1. CASE user = command.user
    <3>1. new = [known |-> TRUE, active |-> TRUE, member |-> TRUE, rights |-> command.rights,
                 since |-> changes + 1]
      BY <1>4, <2>1 DEF Applied, Changes
    <3>2. command.rights \in Rights
      BY <1>4, CommandKinds, RightsKinds
    <3>3. user \in Touched(command)
      BY <1>4, <2>1 DEF Touched
    <3>4. new \in AccountRows
      BY <3>1, <3>2 DEF AccountRows
    <3>. QED
      BY <3>1, <3>3, <3>4
  <2>2. CASE user # command.user
    <3>1. new = account
      BY <1>4, <2>2 DEF Applied
    <3>. QED
      BY <1>1, <3>1
  <2>. QED
    BY <2>1, <2>2
<1>5. CASE command.kind = "delete_user"
  <2>1. CASE user = command.user
    <3>1. new = [account EXCEPT !.active = FALSE, !.member = FALSE, !.since = changes + 1]
      BY <1>1, <1>5, <2>1 DEF Applied, Changes, AccountRows
    <3>2. user \in Touched(command)
      BY <1>5, <2>1 DEF Touched
    <3>3. /\ new \in AccountRows /\ new.active = FALSE /\ new.known = account.known
          /\ new.since = changes + 1
      BY <1>1, <3>1 DEF AccountRows
    <3>. QED
      BY <3>2, <3>3
  <2>2. CASE user # command.user
    <3>1. new = account
      BY <1>5, <2>2 DEF Applied
    <3>. QED
      BY <1>1, <3>1
  <2>. QED
    BY <2>1, <2>2
<1>6. CASE command.kind = "delete_tenant"
  <2>1. CASE user \in MembersOf(command.tenant)
    <3>1. new = [account EXCEPT !.member = FALSE, !.since = changes + 1]
      BY <1>1, <1>6, <2>1 DEF Applied, Changes, AccountRows
    <3>2. user \in Touched(command)
      BY <1>6, <2>1 DEF Touched
    <3>3. /\ new \in AccountRows /\ new.active = account.active /\ new.known = account.known
          /\ new.since = changes + 1
      BY <1>1, <3>1 DEF AccountRows
    <3>. QED
      BY <1>1, <3>2, <3>3
  <2>2. CASE user \notin MembersOf(command.tenant)
    <3>1. new = account
      BY <1>6, <2>2 DEF Applied
    <3>. QED
      BY <1>1, <3>1
  <2>. QED
    BY <2>1, <2>2
<1>7. CASE command.kind \in {"update_tenant", "update_unit"}
  <2>1. new = account
    BY <1>7 DEF Applied
  <2>. QED
    BY <1>1, <2>1
<1>. QED
  BY <1>2, <1>3, <1>4, <1>5, <1>6, <1>7

(* An admin does not take himself away: what his request was admitted for     *)
(* leaves him active and an admin.                                            *)
LEMMA ActorStays ==
  ASSUME AccessTypeOK, ActiveIsKnown, NEW actor \in Accounts, NEW command \in Commands,
         NEW seen \in AccountRows, KeepsActor(command, actor),
         command.kind = "create_user" => ~accounts[command.user].known,
         accounts[actor].active, accounts[actor].member,
         accounts[actor].rights = PlatformRights
  PROVE  LET new == Applied(actor, command, seen)
         IN  new.active /\ new.member /\ new.rights = PlatformRights
<1>. DEFINE account == accounts[actor]
            new == Applied(actor, command, seen)
<1>1. account \in AccountRows /\ account.known
  BY DEF AccessTypeOK, ActiveIsKnown
<1>2. CASE command.kind = "update_user" /\ actor = command.user
  <2>1. command.status \in {"keep", "active"} /\ command.rights \in {KeepRights, PlatformRights}
    BY <1>2, CommandKinds DEF KeepsActor, KeepsHimself
  <2>2. new = Updated(account, command, seen)
    BY <1>2 DEF Applied
  <2>3. new.active = Status(command, seen.active, account.active)
        /\ new.member = Status(command, seen.member, account.member)
        /\ new.rights = IF command.rights = KeepRights THEN account.rights
                        ELSE [tenant |-> ColumnWritten(command.rights.tenant, seen.rights.tenant,
                                                       account.rights.tenant),
                              role |-> ColumnWritten(command.rights.role, seen.rights.role,
                                                     account.rights.role),
                              place |-> command.rights.place]
    BY <1>1, <2>2 DEF Updated, Changes, AccountRows
  <2>4. new.active /\ new.member
    BY <2>1, <2>3 DEF Status, ColumnWritten
  <2>5. new.rights = PlatformRights
    <3>1. CASE command.rights = KeepRights
      BY <2>3, <3>1
    <3>2. CASE command.rights # KeepRights
      BY <2>1, <2>3, <3>2 DEF PlatformRights, ColumnWritten
    <3>. QED
      BY <3>1, <3>2
  <2>. QED
    BY <2>4, <2>5
<1>3. CASE ~(command.kind = "update_user" /\ actor = command.user)
  <2>1. ~(command.kind = "create_user" /\ actor = command.user)
    BY <1>1
  <2>2. ~(command.kind = "delete_user" /\ actor = command.user)
    BY DEF KeepsActor
  <2>3. ~(command.kind = "delete_tenant" /\ actor \in MembersOf(command.tenant))
    BY CommandKinds, AccessConstants DEF MembersOf, PlatformRights, Platform
  <2>4. new = account
    BY <1>3, <2>1, <2>2, <2>3 DEF Applied
  <2>. QED
    BY <2>4
<1>. QED
  BY <1>2, <1>3

-----------------------------------------------------------------------------
(* Each request *)

(* Sessions keep their users and accounts stay known: the requests under way  *)
(* stay what they were admitted as.                                           *)
LEMMA CallsStay ==
  ASSUME AccessInv,
         \A s \in DOMAIN sessions :
            s \in DOMAIN sessions' /\ sessions'[s].user = sessions[s].user,
         \A u \in Accounts : accounts[u].known => accounts'[u].known,
         \A c \in Callers : calls'[c] \in {calls[c], NoCall}
  PROVE  \A c \in Callers : CallFits(calls[c])'
<1>. SUFFICES ASSUME NEW c \in Callers PROVE CallFits(calls[c])'
  OBVIOUS
<1>1. calls[c] \in CallRows /\ CallFits(calls[c])
  BY DEF AccessInv, AccessTypeOK
<1>2. CASE calls'[c] = NoCall
  BY <1>2 DEF CallFits, NoCall
<1>3. CASE calls'[c] = calls[c]
  <2>1. calls[c].kind = "admin" /\ calls[c].command.kind = "update_user" =>
          calls[c].command.user \in Accounts
    BY <1>1, CallKinds, CommandKinds
  <2>. QED
    BY <1>1, <1>3, <2>1 DEF CallFits, KeepsActor
<1>. QED
  BY <1>2, <1>3

LEMMA RequestBegins ==
  ASSUME AccessInv, NEW caller \in Callers, NEW call \in CallRows, CallFits(call),
         Begins(caller, call)
  PROVE  AccessInv'
<1>1. AccessTypeOK /\ UNCHANGED <<accounts, tenantOn, placeOn, sessions, changes, deposed>>
  BY DEF AccessInv, Begins
<1>2. /\ calls' \in [Callers -> CallRows]
      /\ \A c \in Callers : calls'[c] = IF c = caller THEN call ELSE calls[c]
  BY <1>1 DEF AccessTypeOK, Begins
<1>3. AccessTypeOK'
  BY <1>1, <1>2 DEF AccessTypeOK
<1>4. \A c \in Callers : CallFits(calls'[c])
  BY <1>2 DEF AccessInv
<1>5. \A c \in Callers : CallFits(calls[c])'
  BY <1>1, <1>4 DEF CallFits, KeepsActor
<1>. QED
  BY <1>1, <1>3, <1>5 DEF AccessInv, UnrevokedIsCurrent, ActiveIsKnown, AnAdminRemains

LEMMA CallEnds ==
  ASSUME AccessInv, NEW caller \in Callers, EndCall(caller)
  PROVE  /\ calls' \in [Callers -> CallRows]
         /\ \A c \in Callers : calls'[c] \in {calls[c], NoCall}
BY DEF AccessInv, AccessTypeOK, EndCall, CallRows

LEMMA LoginStep ==
  ASSUME AccessInv, NEW caller \in Callers, LoginCommit(caller)
  PROVE  AccessInv'
<1>. DEFINE user == calls[caller].user
            row == [user |-> user, revoked |-> FALSE, since |-> accounts[user].since]
            n == Len(sessions)
<1>1. AccessTypeOK /\ user \in Accounts /\ accounts[user] \in AccountRows
  <2>1. AccessTypeOK /\ calls[caller] \in CallRows /\ calls[caller].kind = "login"
    BY DEF AccessInv, AccessTypeOK, LoginCommit
  <2>2. user \in Accounts
    BY <2>1, CallKinds
  <2>. QED
    BY <2>1, <2>2 DEF AccessTypeOK
<1>2. row \in SessionRows /\ row.user = user /\ row.since = accounts[user].since
  BY <1>1, AccountFields DEF SessionRows
<1>3. /\ sessions' = Append(sessions, row) /\ Len(sessions) < MaxSessions
      /\ UNCHANGED <<accounts, tenantOn, placeOn, changes, deposed>> /\ EndCall(caller)
  BY DEF LoginCommit
<1>. HIDE DEF row, n
<1>4. /\ sessions' \in Seq(SessionRows) /\ Len(sessions') = Len(sessions) + 1
      /\ DOMAIN sessions' = 1 .. Len(sessions) + 1
      /\ sessions'[Len(sessions) + 1] = row
      /\ \A s \in DOMAIN sessions : s \in DOMAIN sessions' /\ sessions'[s] = sessions[s]
  BY <1>1, <1>2, <1>3 DEF AccessTypeOK
<1>5. Len(sessions') <= MaxSessions
  <2>1. Len(sessions) \in Nat
    BY <1>1, SessionsFields
  <2>. QED
    BY <1>3, <1>4, <2>1, AccessNumbers
<1>6. AccessTypeOK'
  BY <1>1, <1>3, <1>4, <1>5, CallEnds DEF AccessTypeOK
<1>7. UnrevokedIsCurrent'
  <2>1. \A s \in DOMAIN sessions' : s \in DOMAIN sessions \/ s = Len(sessions) + 1
    BY <1>1, <1>4, SessionsFields
  <2>. QED
    BY <1>2, <1>3, <1>4, <2>1 DEF AccessInv, UnrevokedIsCurrent
<1>8. \A c \in Callers : CallFits(calls[c])'
  BY <1>3, <1>4, CallEnds, CallsStay
<1>. QED
  BY <1>3, <1>6, <1>7, <1>8 DEF AccessInv, ActiveIsKnown, AnAdminRemains

LEMMA EndStep ==
  ASSUME AccessInv, NEW s \in DOMAIN sessions, EndSession(s)
  PROVE  AccessInv'
<1>1. AccessTypeOK /\ sessions[s] \in SessionRows
  BY SessionsFields DEF AccessInv
<1>2. /\ sessions' = [sessions EXCEPT ![s] = Revoked(sessions[s])]
      /\ UNCHANGED <<accounts, tenantOn, placeOn, calls, changes, deposed>>
  BY DEF EndSession
<1>3. /\ Revoked(sessions[s]) \in SessionRows /\ Revoked(sessions[s]).revoked = TRUE
      /\ Revoked(sessions[s]).user = sessions[s].user
  BY <1>1, RevokedRow
<1>4. /\ sessions' \in Seq(SessionRows) /\ Len(sessions') = Len(sessions)
      /\ DOMAIN sessions' = DOMAIN sessions
      /\ \A t \in DOMAIN sessions : /\ sessions'[t].user = sessions[t].user
                                    /\ sessions'[t] = sessions[t] \/ sessions'[t].revoked = TRUE
  BY <1>1, <1>2, <1>3 DEF AccessTypeOK
<1>5. AccessTypeOK'
  BY <1>1, <1>2, <1>4 DEF AccessTypeOK
<1>6. UnrevokedIsCurrent'
  BY <1>2, <1>4 DEF AccessInv, UnrevokedIsCurrent
<1>7. \A c \in Callers : CallFits(calls[c])'
  BY <1>2, <1>4, CallsStay
<1>. QED
  BY <1>2, <1>5, <1>6, <1>7 DEF AccessInv, ActiveIsKnown, AnAdminRemains

LEMMA PasswordStep ==
  ASSUME AccessInv, NEW caller \in Callers, ChangePasswordCommit(caller)
  PROVE  AccessInv'
<1>. DEFINE s == calls[caller].session
            user == sessions[s].user
            kept == RevokedExcept({user}, s)
<1>1. /\ AccessTypeOK /\ s \in DOMAIN sessions /\ user \in Accounts
      /\ accounts[user] \in AccountRows
  <2>1. AccessTypeOK /\ s \in DOMAIN sessions
    BY DEF AccessInv, CallFits, ChangePasswordCommit
  <2>2. user \in Accounts
    BY <2>1, SessionsFields
  <2>. QED
    BY <2>1, <2>2 DEF AccessTypeOK
<1>2. /\ accounts' = [accounts EXCEPT ![user] = Changes(accounts[user])]
      /\ sessions' = [kept EXCEPT ![s].since = changes + 1]
      /\ changes' = changes + 1 /\ changes < MaxChanges
      /\ EndCall(caller) /\ UNCHANGED <<tenantOn, placeOn, deposed>>
  BY DEF ChangePasswordCommit
<1>3. changes \in 0 .. MaxChanges /\ changes + 1 \in 0 .. MaxChanges
  BY <1>1, <1>2, AccessNumbers DEF AccessTypeOK
<1>. HIDE DEF user, s
<1>4. /\ kept \in Seq(SessionRows) /\ Len(kept) = Len(sessions)
      /\ DOMAIN kept = DOMAIN sessions
      /\ \A t \in DOMAIN sessions :
           /\ kept[t] \in SessionRows /\ kept[t].user = sessions[t].user
           /\ sessions[t].user \in {user} /\ t # s => kept[t].revoked = TRUE
           /\ sessions[t].user \notin {user} \/ t = s => kept[t] = sessions[t]
  <2>1. RevokedOf({user}, s, kept)
    BY <1>1, RevokedRows, Zenon
  <2>. HIDE DEF kept
  <2>. QED
    BY <2>1 DEF RevokedOf
<1>. DEFINE row == [kept[s] EXCEPT !.since = changes + 1]
<1>5. /\ row \in SessionRows /\ row.user = user /\ row.since = changes + 1
  <2>1. kept[s] \in SessionRows /\ kept[s].user = user
    BY <1>1, <1>4 DEF user
  <2>. QED
    BY <1>3, <2>1 DEF SessionRows
<1>6. sessions' = [kept EXCEPT ![s] = row]
  BY <1>2
<1>. HIDE DEF row, kept
<1>7. /\ sessions' \in Seq(SessionRows) /\ Len(sessions') = Len(sessions)
      /\ DOMAIN sessions' = DOMAIN sessions /\ sessions'[s] = row
      /\ \A t \in DOMAIN sessions : t # s => sessions'[t] = kept[t]
  BY <1>1, <1>4, <1>5, <1>6
<1>. DEFINE new == Changes(accounts[user])
<1>8. /\ new \in AccountRows /\ new.since = changes + 1 /\ new.known = accounts[user].known
      /\ new.active = accounts[user].active /\ new.member = accounts[user].member
      /\ new.rights = accounts[user].rights
  BY <1>1, <1>3 DEF Changes, AccountRows
<1>9. /\ accounts' \in [Accounts -> AccountRows]
      /\ \A u \in Accounts : accounts'[u] = IF u = user THEN new ELSE accounts[u]
  <2>. HIDE DEF new
  <2>. QED
    BY <1>1, <1>2, <1>8 DEF AccessTypeOK, new
<1>. HIDE DEF new
<1>10. AccessTypeOK'
  <2>1. \A u \in Accounts : accounts'[u].since <= changes'
    <3>1. \A u \in Accounts : accounts[u].since <= changes /\ accounts[u].since \in Nat
      BY <1>1, AccountFields, AccessNumbers DEF AccessTypeOK
    <3>2. changes \in Nat /\ changes' = changes + 1
      BY <1>2, <1>3, AccessNumbers
    <3>. QED
      BY <1>8, <1>9, <3>1, <3>2
  <2>. QED
    BY <1>1, <1>2, <1>3, <1>7, <1>9, <2>1, CallEnds DEF AccessTypeOK
<1>11. UnrevokedIsCurrent'
  <2>. SUFFICES ASSUME NEW t \in DOMAIN sessions, ~sessions'[t].revoked
                PROVE  sessions'[t].since = accounts'[sessions'[t].user].since
    BY <1>7 DEF UnrevokedIsCurrent
  <2>1. CASE t = s
    BY <1>1, <1>5, <1>7, <1>8, <1>9, <2>1
  <2>2. CASE t # s
    <3>1. sessions'[t] = kept[t] /\ kept[t] = sessions[t] /\ sessions[t].user # user
          /\ sessions[t].user \in Accounts
      BY <1>1, <1>4, <1>7, <2>2, SessionsFields
    <3>. QED
      BY <1>9, <3>1 DEF AccessInv, UnrevokedIsCurrent
  <2>. QED
    BY <2>1, <2>2
<1>12. ActiveIsKnown'
  BY <1>8, <1>9 DEF AccessInv, ActiveIsKnown
<1>13. AnAdminRemains'
  <2>1. deposed' = deposed
    BY <1>2
  <2>. QED
    BY <1>8, <1>9, <2>1 DEF AccessInv, AnAdminRemains
<1>14. \A c \in Callers : CallFits(calls[c])'
  <2>1. \A t \in DOMAIN sessions :
          t \in DOMAIN sessions' /\ sessions'[t].user = sessions[t].user
    BY <1>4, <1>5, <1>7 DEF user
  <2>2. \A u \in Accounts : accounts[u].known => accounts'[u].known
    BY <1>8, <1>9
  <2>. QED
    BY <1>2, <2>1, <2>2, CallEnds, CallsStay
<1>. QED
  BY <1>10, <1>11, <1>12, <1>13, <1>14 DEF AccessInv

LEMMA AdminStep ==
  ASSUME AccessInv, NEW caller \in Callers, AdminCommit(caller)
  PROVE  AccessInv'
<1>. DEFINE call == calls[caller]
            command == call.command
            seen == call.seen
            actor == sessions[call.session].user
<1>1. /\ AccessTypeOK /\ ActiveIsKnown /\ call.session \in DOMAIN sessions
      /\ command \in Commands /\ seen \in AccountRows /\ KeepsActor(command, actor)
      /\ command.kind = "update_user" => accounts[command.user].known
  <2>1. /\ AccessTypeOK /\ ActiveIsKnown /\ CallFits(call) /\ call \in CallRows
        /\ call.kind = "admin"
    BY DEF AccessInv, AccessTypeOK, AdminCommit
  <2>. HIDE DEF call
  <2>. QED
    BY <2>1, CallKinds DEF CallFits
<1>2. actor \in Accounts
  BY <1>1, SessionsFields
<1>. DEFINE Now == accounts[actor].active /\ accounts[actor].member
                   /\ accounts[actor].rights = PlatformRights
<1>3. /\ command.kind = "create_user" => ~accounts[command.user].known
      /\ accounts' = [u \in Accounts |-> Applied(u, command, seen)]
      /\ sessions' = RevokedExcept(Touched(command), 0)
      /\ tenantOn' = TenantsAfter(command) /\ placeOn' = PlacesAfter(command)
      /\ deposed' = (deposed \/ ~Now)
      /\ changes' = changes + 1 /\ changes < MaxChanges /\ EndCall(caller)
  BY DEF AdminCommit
<1>4. changes \in 0 .. MaxChanges /\ changes + 1 \in 0 .. MaxChanges
  BY <1>1, <1>3, AccessNumbers DEF AccessTypeOK
<1>. HIDE DEF call, command, seen, actor
<1>5. \A u \in Accounts :
        /\ accounts'[u] \in AccountRows
        /\ accounts'[u].active => accounts'[u].known
        /\ accounts[u].known => accounts'[u].known
        /\ accounts'[u] = accounts[u] \/ accounts'[u].since = changes + 1
        /\ u \notin Touched(command) => accounts'[u] = accounts[u]
  <2>1. \A u \in Accounts : accounts'[u] = Applied(u, command, seen)
    BY <1>3
  <2>. QED
    BY <1>1, <1>4, <2>1, AppliedRow
<1>6. /\ sessions' \in Seq(SessionRows) /\ Len(sessions') = Len(sessions)
      /\ DOMAIN sessions' = DOMAIN sessions
      /\ \A s \in DOMAIN sessions :
           /\ sessions'[s].user = sessions[s].user
           /\ sessions[s].user \in Touched(command) /\ s # 0 => sessions'[s].revoked = TRUE
           /\ sessions[s].user \notin Touched(command) \/ s = 0 => sessions'[s] = sessions[s]
  <2>1. RevokedOf(Touched(command), 0, RevokedExcept(Touched(command), 0))
    BY <1>1, RevokedRows, Zenon
  <2>2. RevokedOf(Touched(command), 0, sessions')
    BY <1>3, <2>1
  <2>. QED
    BY <2>2 DEF RevokedOf
<1>7. tenantOn' \in [Tenants -> BOOLEAN] /\ placeOn' \in [Places -> BOOLEAN]
  <2>1. tenantOn \in [Tenants -> BOOLEAN] /\ placeOn \in [Places -> BOOLEAN]
    BY <1>1 DEF AccessTypeOK
  <2>2. tenantOn' \in [Tenants -> BOOLEAN]
    BY <1>1, <1>3, <2>1, CommandKinds DEF TenantsAfter
  <2>3. placeOn' \in [Places -> BOOLEAN]
    BY <1>1, <1>3, <2>1, CommandKinds DEF PlacesAfter
  <2>. QED
    BY <2>2, <2>3
<1>8. AccessTypeOK'
  <2>1. accounts' \in [Accounts -> AccountRows]
    BY <1>3, <1>5
  <2>2. \A u \in Accounts : accounts'[u].since <= changes'
    <3>1. \A u \in Accounts : accounts[u].since <= changes /\ accounts[u].since \in Nat
      BY <1>1, AccountFields, AccessNumbers DEF AccessTypeOK
    <3>2. changes \in Nat /\ changes' = changes + 1
      BY <1>3, <1>4, AccessNumbers
    <3>. QED
      BY <1>5, <3>1, <3>2
  <2>3. deposed' \in BOOLEAN
    BY <1>3
  <2>. QED
    BY <1>1, <1>3, <1>4, <1>6, <1>7, <2>1, <2>2, <2>3, CallEnds DEF AccessTypeOK
<1>9. UnrevokedIsCurrent'
  <2>. SUFFICES ASSUME NEW s \in DOMAIN sessions, ~sessions'[s].revoked
                PROVE  sessions'[s].since = accounts'[sessions'[s].user].since
    BY <1>6 DEF UnrevokedIsCurrent
  <2>1. s # 0 /\ sessions[s].user \in Accounts
    BY <1>1, SessionsFields
  <2>2. sessions[s].user \notin Touched(command) /\ sessions'[s] = sessions[s]
    BY <1>6, <2>1
  <2>. QED
    BY <1>5, <2>1, <2>2 DEF AccessInv, UnrevokedIsCurrent
<1>10. ActiveIsKnown'
  BY <1>5 DEF ActiveIsKnown
<1>11. AnAdminRemains'
  <2>1. CASE Now
    <3>1. accounts'[actor] = Applied(actor, command, seen)
      BY <1>2, <1>3
    <3>2. /\ accounts'[actor].active /\ accounts'[actor].member
          /\ accounts'[actor].rights = PlatformRights
      BY <1>1, <1>2, <1>3, <2>1, <3>1, ActorStays
    <3>. QED
      BY <1>2, <3>2 DEF AnAdminRemains
  <2>2. CASE ~Now
    BY <1>3, <2>2 DEF AnAdminRemains
  <2>. QED
    BY <2>1, <2>2
<1>12. \A c \in Callers : CallFits(calls[c])'
  BY <1>3, <1>5, <1>6, CallEnds, CallsStay
<1>. QED
  BY <1>8, <1>9, <1>10, <1>11, <1>12 DEF AccessInv

(* The requests that read: what they are admitted for fits what they read.    *)
LEMMA ReadsStep ==
  ASSUME AccessInv, NEW caller \in Callers,
         \/ \E u \in Accounts : LoginRead(caller, u)
         \/ \E s \in DOMAIN sessions : ChangePasswordRead(caller, s) \/ AdminRequest(caller, s)
  PROVE  AccessInv'
<1>1. CASE \E u \in Accounts : LoginRead(caller, u)
  <2>1. PICK u \in Accounts : Begins(caller, [kind |-> "login", user |-> u])
    BY <1>1 DEF LoginRead
  <2>2. [kind |-> "login", user |-> u] \in CallRows
    BY DEF CallRows
  <2>3. CallFits([kind |-> "login", user |-> u])
    BY DEF CallFits
  <2>. QED
    BY <2>1, <2>2, <2>3, RequestBegins
<1>2. ASSUME NEW s \in DOMAIN sessions, ChangePasswordRead(caller, s) PROVE AccessInv'
  <2>. DEFINE call == [kind |-> "password", session |-> s]
  <2>1. s \in 1 .. MaxSessions
    BY SessionsFields, AccessNumbers DEF AccessInv, AccessTypeOK
  <2>2. call \in CallRows /\ CallFits(call)
    BY <2>1 DEF CallRows, CallFits
  <2>3. Begins(caller, call)
    BY <1>2 DEF ChangePasswordRead
  <2>. HIDE DEF call
  <2>. QED
    BY <2>2, <2>3, RequestBegins
<1>3. ASSUME NEW s \in DOMAIN sessions, NEW command \in Commands, AdminRead(caller, s, command)
      PROVE  AccessInv'
  <2>. DEFINE seen == IF command.kind = "update_user" THEN accounts[command.user] ELSE Nobody
              call == [kind |-> "admin", session |-> s, command |-> command, seen |-> seen]
  <2>1. s \in 1 .. MaxSessions
    BY SessionsFields, AccessNumbers DEF AccessInv, AccessTypeOK
  <2>2. Nobody \in AccountRows
    <3>. DEFINE Stamps == 0 .. MaxChanges
    <3>. HIDE DEF Stamps
    <3>1. /\ 0 \in Stamps
          /\ AccountRows = [known : BOOLEAN, active : BOOLEAN, member : BOOLEAN,
                            rights : Rights, since : Stamps]
      BY AccessNumbers DEF Stamps, AccountRows
    <3>. QED
      BY <3>1, RightsKinds DEF Nobody
  <2>3. seen \in AccountRows
    BY <2>2, CommandKinds DEF AccessInv, AccessTypeOK
  <2>4. Admissible(sessions[s].user, command) /\ Begins(caller, call)
    BY <1>3 DEF AdminRead
  <2>5. /\ KeepsActor(command, sessions[s].user)
        /\ command.kind = "update_user" => accounts[command.user].known
    BY <2>4 DEF Admissible, MayUpdate, KeepsActor
  <2>. HIDE DEF seen
  <2>6. call \in CallRows
    BY <2>1, <2>3 DEF CallRows
  <2>7. CallFits(call)
    BY <2>5 DEF CallFits
  <2>. HIDE DEF call
  <2>. QED
    BY <2>4, <2>6, <2>7, RequestBegins
<1>. QED
  BY <1>1, <1>2, <1>3 DEF AdminRequest

LEMMA AccessStep == AccessInv /\ [AccessNext]_accessVars => AccessInv'
<1>. SUFFICES ASSUME AccessInv, [AccessNext]_accessVars PROVE AccessInv'
  OBVIOUS
<1>1. CASE UNCHANGED accessVars
  BY <1>1 DEF accessVars, AccessInv, AccessTypeOK, UnrevokedIsCurrent, ActiveIsKnown,
       AnAdminRemains, CallFits, KeepsActor
<1>2. CASE AccessNext
  BY <1>2, ReadsStep, LoginStep, PasswordStep, AdminStep, EndStep DEF AccessNext
<1>. QED
  BY <1>1, <1>2

-----------------------------------------------------------------------------
(* The theorems *)

LEMMA AccessHolds == AccessSpec => []AccessInv
BY AccessFirst, AccessStep, PTL DEF AccessSpec

(* Accounts, sessions, tenants, units and requests keep the shapes of their   *)
(* rows.                                                                      *)
THEOREM AccessTypeCorrect == AccessSpec => []AccessTypeOK
BY AccessHolds, PTL DEF AccessInv

(* What a session that resolves reaches depends on rights that fit each       *)
(* other, whatever the state of tenants and units.                            *)
LEMMA ScopeOfRights ==
  ASSUME NEW rights, Fits(rights)
  PROVE  LET reached == BatchesListed(rights) \cup FilesShown(rights) \cup RecordsShown(rights)
         IN /\ rights # PlatformRights => \A p \in reached : Home[p] = rights.tenant
            /\ rights.role = "village_operator" => reached = {rights.place}
            /\ ImportTargets(rights) \subseteq BatchesOpened(rights)
            /\ BatchesOpened(rights) \subseteq BatchesListed(rights)
<1>1. CASE rights = PlatformRights
  <2>1. rights.role = "platform_admin"
    BY <1>1 DEF PlatformRights
  <2>2. ImportTargets(rights) = {} /\ BatchesOpened(rights) = Places
        /\ BatchesListed(rights) = Places
    BY <2>1 DEF ImportTargets, BatchesOpened, BatchesListed
  <2>. QED
    BY <1>1, <2>1, <2>2
<1>2. CASE rights # PlatformRights /\ rights.role = "tenant_admin"
  <2>1. rights.place \in Places /\ rights.tenant = Home[rights.place]
    BY <1>2 DEF Fits
  <2>2. Allowed(rights) \subseteq Places
    BY <1>2, <2>1 DEF Allowed
  <2>. QED
    BY <1>2, <2>1, <2>2 DEF BatchesListed, FilesShown, RecordsShown, ImportTargets, BatchesOpened
<1>3. CASE rights # PlatformRights /\ rights.role = "village_operator"
  <2>1. rights.place \in Places /\ rights.tenant = Home[rights.place]
    BY <1>3 DEF Fits
  <2>2. Allowed(rights) = {rights.place}
    BY <1>3 DEF Allowed
  <2>. QED
    BY <1>3, <2>1, <2>2 DEF BatchesListed, FilesShown, RecordsShown, ImportTargets, BatchesOpened
<1>. QED
  BY <1>1, <1>2, <1>3 DEF Fits

(* A session that resolves is newer than the last change of its user's        *)
(* rights; an active admin remains unless one was deposed under his own       *)
(* request; and what a session reaches lies in its own tenant or village.     *)
THEOREM AccessSound == AccessSpec => []AccessIsSound
<1>1. AccessInv => SessionsAreCurrent
  BY DEF AccessInv, UnrevokedIsCurrent, SessionsAreCurrent, ResolvesPrincipal
<1>2. AccessInv => AnAdminRemains
  BY DEF AccessInv
<1>3. ReadsStayInScope
  BY ScopeOfRights DEF ReadsStayInScope, ResolvesPrincipal, RightsOf
<1>4. AccessInv => AccessIsSound
  BY <1>1, <1>2, <1>3 DEF AccessIsSound
<1>. QED
  BY <1>4, AccessHolds, PTL

(***************************************************************************)
(* Proofs about the answers: the ways to ask for one number of the records *)
(* of a scope agree, for any contracts, records, files and values.         *)
(***************************************************************************)

-----------------------------------------------------------------------------
(* Sums over finite sets.  A family of subsets that holds a set whenever it   *)
(* holds the set without any one of its members holds them all.               *)

LEMMA BySubsets ==
  ASSUME NEW D, IsFiniteSet(D), NEW P,
         \A S \in SUBSET D : (\A x \in S : S \ {x} \in P) => S \in P
  PROVE  \A S \in SUBSET D : S \in P
<1>. DEFINE Bad == {S \in SUBSET D : S \notin P}
            order == StrictSubsetOrdering(D)
<1>. SUFFICES ASSUME Bad # {} PROVE FALSE
  OBVIOUS
<1>1. IsWellFoundedOn(order, FiniteSubsetsOf(D)) /\ FiniteSubsetsOf(D) = SUBSET D
  BY FS_StrictSubsetOrderingWellFounded, FS_FiniteSubsetsOfFinite
<1>2. Bad \subseteq SUBSET D
  OBVIOUS
<1>3. IsWellFoundedOn(order, SUBSET D)
  BY <1>1
<1>. HIDE DEF Bad, order
<1>4. PICK least \in Bad : \A S \in Bad : ~ (<<S, least>> \in order)
  BY <1>2, <1>3, WFMin
<1>5. least \in SUBSET D /\ least \notin P
  BY DEF Bad
<1>6. ASSUME NEW x \in least PROVE least \ {x} \in P
  <2>1. <<least \ {x}, least>> \in order
    BY <1>5, <1>6 DEF order, StrictSubsetOrdering
  <2>. QED
    BY <1>4, <1>5, <2>1 DEF Bad
<1>. QED
  BY <1>5, <1>6

Chosen(S) == CHOOSE x \in S : TRUE

(* A function that gives each subset the sum of its members' values. *)
Adds(total, value, D) ==
  /\ total \in [SUBSET D -> Nat]
  /\ \A S \in SUBSET D :
       total[S] = IF S = {} THEN 0 ELSE value[Chosen(S)] + total[S \ {Chosen(S)}]

LEMMA ChosenIs == \A S : S # {} => Chosen(S) \in S
  BY DEF Chosen

LEMMA NumbersUp ==
  ASSUME NEW N \in Nat, NEW P, 0 \in P,
         \A n \in 1..N : n - 1 \in P => n \in P
  PROVE  \A n \in 0..N : n \in P
<1>. DEFINE Q == {S \in SUBSET (1..N) : \A n \in 0..N : S = 1..n => n \in P}
<1>1. IsFiniteSet(1..N)
  BY FS_Interval
<1>2. ASSUME NEW S \in SUBSET (1..N), \A x \in S : S \ {x} \in Q PROVE S \in Q
  <2>. SUFFICES ASSUME NEW n \in 0..N, S = 1..n PROVE n \in P
    OBVIOUS
  <2>1. CASE n # 0
    <3>1. n \in 1..N /\ n - 1 \in 0..N /\ S \ {n} = 1..n - 1 /\ n \in S
      BY <2>1
    <3>2. n - 1 \in P
      BY <1>2, <3>1
    <3>. QED
      BY <3>1, <3>2
  <2>. QED
    BY <2>1
<1>. HIDE DEF Q
<1>3. \A S \in SUBSET (1..N) : S \in Q
  BY <1>1, <1>2, BySubsets
<1>4. ASSUME NEW n \in 0..N PROVE n \in P
  <2>1. 1..n \in Q
    BY <1>3
  <2>. QED
    BY <2>1 DEF Q
<1>. QED
  BY <1>4

LEMMA SumExists ==
  ASSUME NEW D, IsFiniteSet(D), NEW value \in [D -> Nat]
  PROVE  \E total : Adds(total, value, D)
<1>. DEFINE N == Cardinality(D)
            Small(n) == {S \in SUBSET D : Cardinality(S) <= n}
            SumsUp(g, n) ==
              /\ g \in [Small(n) -> Nat]
              /\ \A S \in Small(n) :
                   g[S] = IF S = {} THEN 0 ELSE value[Chosen(S)] + g[S \ {Chosen(S)}]
            P == {n \in 0..N : \E f : SumsUp(f, n)}
<1>1. N \in Nat /\ \A S \in SUBSET D : IsFiniteSet(S) /\ Cardinality(S) \in 0..N
  BY FS_CardinalityType, FS_Subset
<1>2. \A S \in SUBSET D : Cardinality(S) = 0 <=> S = {}
  BY <1>1, FS_EmptySet
<1>3. \A S \in SUBSET D : S # {} => Cardinality(S \ {Chosen(S)}) = Cardinality(S) - 1
  BY <1>1, ChosenIs, FS_RemoveElement
<1>. HIDE DEF N
<1>4. 0 \in P
  <2>. DEFINE g == [S \in Small(0) |-> 0]
  <2>1. \A S \in Small(0) : S = {}
    BY <1>1, <1>2
  <2>2. SumsUp(g, 0)
    <3>1. g \in [Small(0) -> Nat]
      OBVIOUS
    <3>2. \A S \in Small(0) : S = {} /\ g[S] = 0
      BY <2>1
    <3>. QED
      BY <3>1, <3>2
  <2>. HIDE DEF SumsUp, g
  <2>3. \E f : SumsUp(f, 0)
    BY <2>2
  <2>. QED
    BY <1>1, <2>3
<1>5. ASSUME NEW n \in 1..N, n - 1 \in P PROVE n \in P
  <2>1. PICK g : SumsUp(g, n - 1)
    BY <1>5
  <2>. DEFINE h == [S \in Small(n) |->
                      IF S \in Small(n - 1) THEN g[S]
                      ELSE value[Chosen(S)] + g[S \ {Chosen(S)}]]
  <2>2. \A S \in Small(n - 1) : g[S] \in Nat
    BY <2>1
  <2>3. ASSUME NEW S \in Small(n), S # {}
        PROVE  S \ {Chosen(S)} \in Small(n - 1) /\ Chosen(S) \in D
    <3>1. Cardinality(S) \in Nat /\ Cardinality(S) <= n
      BY <1>1
    <3>. QED
      BY <1>3, <2>3, <3>1, ChosenIs
  <2>4. \A S \in Small(n - 1) : S \in Small(n) /\ h[S] = g[S]
    BY <1>1
  <2>5. {} \in Small(n - 1)
    BY <1>1, <1>2
  <2>6. ASSUME NEW S \in Small(n)
        PROVE  h[S] = IF S = {} THEN 0 ELSE value[Chosen(S)] + h[S \ {Chosen(S)}]
    <3>1. CASE S \in Small(n - 1)
      BY <2>1, <2>3, <2>4, <3>1
    <3>2. CASE S \notin Small(n - 1)
      BY <2>3, <2>4, <2>5, <3>2
    <3>. QED
      BY <3>1, <3>2
  <2>7. ASSUME NEW S \in Small(n) PROVE h[S] \in Nat
    <3>1. CASE S \in Small(n - 1)
      BY <2>2, <2>4, <3>1
    <3>2. CASE S \notin Small(n - 1)
      <4>1. S # {}
        BY <2>5, <3>2
      <4>2. Chosen(S) \in D /\ g[S \ {Chosen(S)}] \in Nat
        BY <2>2, <2>3, <4>1
      <4>3. value[Chosen(S)] \in Nat
        BY <4>2
      <4>4. h[S] = value[Chosen(S)] + g[S \ {Chosen(S)}]
        BY <3>2
      <4>. QED
        BY <4>2, <4>3, <4>4
    <3>. QED
      BY <3>1, <3>2
  <2>8. h \in [Small(n) -> Nat]
    <3>. HIDE DEF Small
    <3>1. h = [S \in Small(n) |-> h[S]]
      OBVIOUS
    <3>. HIDE DEF h
    <3>. QED
      BY <2>7, <3>1
  <2>9. SumsUp(h, n)
    <3>. HIDE DEF h, Small
    <3>. QED
      BY <2>6, <2>8
  <2>. HIDE DEF SumsUp, h
  <2>10. \E f : SumsUp(f, n)
    BY <2>9
  <2>. QED
    BY <2>10
<1>. HIDE DEF P
<1>6. N \in P
  BY <1>1, <1>4, <1>5, NumbersUp
<1>7. PICK g : SumsUp(g, N)
  BY <1>6 DEF P
<1>8. Small(N) = SUBSET D
  BY <1>1
<1>9. Adds(g, value, D)
  BY <1>7, <1>8 DEF Adds
<1>. QED
  BY <1>9

LEMMA AddsOne ==
  ASSUME NEW D, IsFiniteSet(D), NEW value \in [D -> Nat],
         NEW f, Adds(f, value, D), NEW g, Adds(g, value, D)
  PROVE  \A S \in SUBSET D : f[S] = g[S]
<1>. DEFINE P == {S \in SUBSET D : f[S] = g[S]}
<1>1. ASSUME NEW S \in SUBSET D, \A x \in S : S \ {x} \in P PROVE S \in P
  BY <1>1, ChosenIs DEF Adds
<1>2. \A S \in SUBSET D : S \in P
  <2>. HIDE DEF P
  <2>. QED
    BY <1>1, BySubsets
<1>. QED
  BY <1>2

LEMMA SumTotals ==
  ASSUME NEW D, IsFiniteSet(D), NEW value \in [D -> Nat], NEW total, Adds(total, value, D)
  PROVE  SumOf(value) = total[D]
<1>. DEFINE Sums(f) == f = [S \in SUBSET D |->
                             IF S = {} THEN 0
                             ELSE value[CHOOSE x \in S : TRUE] + f[S \ {CHOOSE x \in S : TRUE}]]
            iter == CHOOSE f : Sums(f)
<1>1. DOMAIN value = D
  OBVIOUS
<1>2. SumOf(value) = iter[D]
  BY <1>1 DEF SumOf, MapThenSumSet, MapThenFoldSet
<1>3. Sums(total)
  BY DEF Adds, Chosen
<1>. HIDE DEF Sums
<1>4. Sums(iter)
  BY <1>3
<1>. HIDE DEF iter
<1>5. \A S \in SUBSET D :
        iter[S] = IF S = {} THEN 0 ELSE value[Chosen(S)] + iter[S \ {Chosen(S)}]
  BY <1>4 DEF Sums, Chosen
<1>. DEFINE P == {S \in SUBSET D : iter[S] = total[S]}
<1>6. ASSUME NEW S \in SUBSET D, \A x \in S : S \ {x} \in P PROVE S \in P
  BY <1>5, <1>6, ChosenIs DEF Adds
<1>7. \A S \in SUBSET D : S \in P
  <2>. HIDE DEF P
  <2>. QED
    BY <1>6, BySubsets
<1>. QED
  BY <1>2, <1>7

(* The sum over some of the members. *)
Part(value, S) == SumOf([x \in S |-> value[x]])

LEMMA PartTotals ==
  ASSUME NEW D, IsFiniteSet(D), NEW value \in [D -> Nat], NEW total, Adds(total, value, D),
         NEW S \in SUBSET D
  PROVE  Part(value, S) = total[S]
<1>. DEFINE own == [x \in S |-> value[x]]
            part == [T \in SUBSET S |-> total[T]]
<1>1. IsFiniteSet(S) /\ own \in [S -> Nat]
  BY FS_Subset
<1>2. Adds(part, own, S)
  <2>1. part \in [SUBSET S -> Nat]
    BY DEF Adds
  <2>2. ASSUME NEW T \in SUBSET S
        PROVE  part[T] = IF T = {} THEN 0 ELSE own[Chosen(T)] + part[T \ {Chosen(T)}]
    <3>1. total[T] = IF T = {} THEN 0 ELSE value[Chosen(T)] + total[T \ {Chosen(T)}]
      BY DEF Adds
    <3>2. T # {} => Chosen(T) \in S /\ T \ {Chosen(T)} \in SUBSET S
      BY ChosenIs
    <3>. QED
      BY <3>1, <3>2
  <2>. QED
    BY <2>1, <2>2 DEF Adds
<1>. HIDE DEF part, own
<1>3. SumOf(own) = part[S]
  BY <1>1, <1>2, SumTotals
<1>. QED
  BY <1>3 DEF Part, own, part

LEMMA Parts ==
  ASSUME NEW D, IsFiniteSet(D), NEW value \in [D -> Nat]
  PROVE  /\ \A S \in SUBSET D : Part(value, S) \in Nat
         /\ Part(value, {}) = 0
         /\ \A S \in SUBSET D : \A x \in S : Part(value, S) = value[x] + Part(value, S \ {x})
         /\ SumOf(value) = Part(value, D)
<1>1. PICK total : Adds(total, value, D)
  BY SumExists
<1>2. \A S \in SUBSET D : Part(value, S) = total[S]
  BY <1>1, PartTotals
<1>3. \A S \in SUBSET D : total[S] \in Nat
  BY <1>1 DEF Adds
<1>4. total[{}] = 0
  BY <1>1 DEF Adds
<1>. DEFINE P == {S \in SUBSET D : \A x \in S : total[S] = value[x] + total[S \ {x}]}
<1>5. ASSUME NEW S \in SUBSET D, \A x \in S : S \ {x} \in P PROVE S \in P
  <2>. SUFFICES ASSUME NEW x \in S PROVE total[S] = value[x] + total[S \ {x}]
    OBVIOUS
  <2>. DEFINE c == Chosen(S)
  <2>1. c \in S /\ total[S] = value[c] + total[S \ {c}]
    BY <1>1, ChosenIs DEF Adds
  <2>. HIDE DEF c
  <2>2. CASE x # c
    <3>1. x \in S \ {c} /\ c \in S \ {x} /\ (S \ {c}) \ {x} = (S \ {x}) \ {c}
      BY <2>1, <2>2
    <3>2. S \ {c} \in P /\ S \ {x} \in P
      BY <1>5, <2>1
    <3>3. total[S \ {c}] = value[x] + total[(S \ {c}) \ {x}]
      BY <3>1, <3>2
    <3>4. total[S \ {x}] = value[c] + total[(S \ {c}) \ {x}]
      BY <3>1, <3>2
    <3>5. value[c] \in Nat /\ value[x] \in Nat /\ total[(S \ {c}) \ {x}] \in Nat
      BY <1>3, <2>1
    <3>. QED
      BY <2>1, <3>3, <3>4, <3>5
  <2>. QED
    BY <2>1, <2>2
<1>6. \A S \in SUBSET D : S \in P
  <2>. HIDE DEF P
  <2>. QED
    BY <1>5, BySubsets
<1>7. SumOf(value) = total[D]
  BY <1>1, SumTotals
<1>8. {} \in SUBSET D /\ D \in SUBSET D
  OBVIOUS
<1>. QED
  BY <1>2, <1>3, <1>4, <1>6, <1>7, <1>8

LEMMA Ones ==
  ASSUME NEW S, IsFiniteSet(S)
  PROVE  SumOf([x \in S |-> 1]) = Cardinality(S)
<1>. DEFINE one == [x \in S |-> 1]
            P == {T \in SUBSET S : Part(one, T) = Cardinality(T)}
<1>1. one \in [S -> Nat] /\ \A x \in S : one[x] = 1
  OBVIOUS
<1>. HIDE DEF one
<1>2. /\ Part(one, {}) = 0
      /\ \A T \in SUBSET S : \A x \in T : Part(one, T) = one[x] + Part(one, T \ {x})
      /\ SumOf(one) = Part(one, S)
  BY <1>1, Parts
<1>3. ASSUME NEW T \in SUBSET S, \A x \in T : T \ {x} \in P PROVE T \in P
  <2>1. IsFiniteSet(T) /\ Cardinality(T) \in Nat
    BY FS_Subset, FS_CardinalityType
  <2>2. CASE T = {}
    BY <1>2, <2>2, FS_EmptySet
  <2>3. ASSUME NEW x \in T PROVE T \in P
    <3>1. Cardinality(T \ {x}) = Cardinality(T) - 1
      BY <2>1, FS_RemoveElement
    <3>2. Part(one, T) = 1 + Part(one, T \ {x}) /\ Part(one, T \ {x}) = Cardinality(T \ {x})
      BY <1>1, <1>2, <1>3
    <3>. QED
      BY <2>1, <3>1, <3>2
  <2>. QED
    BY <2>2, <2>3
<1>4. S \in P
  <2>. HIDE DEF P
  <2>. QED
    BY <1>3, BySubsets
<1>. QED
  BY <1>2, <1>4 DEF one

LEMMA PartsApart ==
  ASSUME NEW D, IsFiniteSet(D), NEW value \in [D -> Nat],
         NEW A \in SUBSET D, NEW B \in SUBSET D, A \cap B = {}
  PROVE  Part(value, A \cup B) = Part(value, A) + Part(value, B)
<1>. DEFINE P == {T \in SUBSET B : Part(value, A \cup T) = Part(value, A) + Part(value, T)}
<1>1. /\ \A S \in SUBSET D : Part(value, S) \in Nat
      /\ Part(value, {}) = 0
      /\ \A S \in SUBSET D : \A x \in S : Part(value, S) = value[x] + Part(value, S \ {x})
  BY Parts
<1>2. ASSUME NEW T \in SUBSET B, \A x \in T : T \ {x} \in P PROVE T \in P
  <2>1. CASE T = {}
    <3>1. A \cup T = A
      BY <2>1
    <3>. QED
      BY <1>1, <2>1, <3>1
  <2>2. ASSUME NEW x \in T PROVE T \in P
    <3>1. A \cup T \in SUBSET D /\ x \in A \cup T /\ (A \cup T) \ {x} = A \cup (T \ {x})
      OBVIOUS
    <3>2. Part(value, A \cup T) = value[x] + Part(value, A \cup (T \ {x}))
      BY <1>1, <3>1
    <3>3. Part(value, A \cup (T \ {x})) = Part(value, A) + Part(value, T \ {x})
      BY <1>2
    <3>4. Part(value, T) = value[x] + Part(value, T \ {x})
      BY <1>1
    <3>5. value[x] \in Nat /\ Part(value, A) \in Nat /\ Part(value, T \ {x}) \in Nat
      BY <1>1
    <3>. QED
      BY <3>2, <3>3, <3>4, <3>5
  <2>. QED
    BY <2>1, <2>2
<1>3. IsFiniteSet(B)
  BY FS_Subset
<1>4. B \in P
  <2>. HIDE DEF P
  <2>1. \A T \in SUBSET B : T \in P
    BY <1>2, <1>3, BySubsets
  <2>. QED
    BY <2>1
<1>. QED
  BY <1>4

(* The sums of groups add up to the sum. *)
LEMMA Grouped ==
  ASSUME NEW D, IsFiniteSet(D), NEW value \in [D -> Nat],
         NEW K, IsFiniteSet(K), NEW key \in [D -> K]
  PROVE  SumOf([k \in K |-> Part(value, {x \in D : key[x] = k})]) = SumOf(value)
<1>. DEFINE of(L) == {x \in D : key[x] \in L}
            own(k) == {x \in D : key[x] = k}
            sums == [k \in K |-> Part(value, own(k))]
            P == {L \in SUBSET K : Part(sums, L) = Part(value, of(L))}
<1>1. /\ \A S \in SUBSET D : Part(value, S) \in Nat
      /\ Part(value, {}) = 0 /\ SumOf(value) = Part(value, D)
  BY Parts
<1>2. sums \in [K -> Nat]
  BY <1>1
<1>3. \A k \in K : sums[k] = Part(value, own(k))
  OBVIOUS
<1>. HIDE DEF sums
<1>4. /\ Part(sums, {}) = 0 /\ SumOf(sums) = Part(sums, K)
      /\ \A L \in SUBSET K : \A k \in L : Part(sums, L) = sums[k] + Part(sums, L \ {k})
  BY <1>2, Parts
<1>5. ASSUME NEW L \in SUBSET K, \A k \in L : L \ {k} \in P PROVE L \in P
  <2>1. CASE L = {}
    <3>1. of(L) = {}
      BY <2>1
    <3>. QED
      BY <1>1, <1>4, <2>1, <3>1
  <2>2. ASSUME NEW k \in L PROVE L \in P
    <3>1. own(k) \in SUBSET D /\ of(L \ {k}) \in SUBSET D /\ own(k) \cap of(L \ {k}) = {}
      OBVIOUS
    <3>2. of(L) = own(k) \cup of(L \ {k})
      OBVIOUS
    <3>3. Part(value, own(k) \cup of(L \ {k})) = Part(value, own(k)) + Part(value, of(L \ {k}))
      <4>1. \A A, B \in SUBSET D :
              A \cap B = {} => Part(value, A \cup B) = Part(value, A) + Part(value, B)
        BY PartsApart
      <4>. HIDE DEF own, of
      <4>. QED
        BY <3>1, <4>1
    <3>4. Part(sums, L \ {k}) = Part(value, of(L \ {k}))
      BY <1>5
    <3>. QED
      BY <1>3, <1>4, <3>2, <3>3, <3>4
  <2>. QED
    BY <2>1, <2>2
<1>6. K \in P
  <2>. HIDE DEF P
  <2>1. \A L \in SUBSET K : L \in P
    BY <1>5, BySubsets
  <2>. QED
    BY <2>1
<1>7. of(K) = D
  OBVIOUS
<1>. QED
  BY <1>1, <1>4, <1>6, <1>7 DEF sums

(* Together groups have no more members than one by one. *)
LEMMA TogetherFewer ==
  ASSUME NEW K, IsFiniteSet(K), NEW U, IsFiniteSet(U), NEW F \in [K -> SUBSET U]
  PROVE  Cardinality(UNION {F[k] : k \in K}) <= SumOf([k \in K |-> Cardinality(F[k])])
<1>. DEFINE all(L) == UNION {F[k] : k \in L}
            sizes == [k \in K |-> Cardinality(F[k])]
            P == {L \in SUBSET K : Cardinality(all(L)) <= Part(sizes, L)}
<1>1. \A S \in SUBSET U : IsFiniteSet(S) /\ Cardinality(S) \in Nat
  BY FS_Subset, FS_CardinalityType
<1>2. sizes \in [K -> Nat] /\ \A k \in K : sizes[k] = Cardinality(F[k])
  BY <1>1
<1>. HIDE DEF sizes
<1>3. /\ Part(sizes, {}) = 0 /\ SumOf(sizes) = Part(sizes, K)
      /\ \A L \in SUBSET K : Part(sizes, L) \in Nat
      /\ \A L \in SUBSET K : \A k \in L : Part(sizes, L) = sizes[k] + Part(sizes, L \ {k})
  BY <1>2, Parts
<1>4. ASSUME NEW L \in SUBSET K, \A k \in L : L \ {k} \in P PROVE L \in P
  <2>1. CASE L = {}
    <3>1. all(L) = {}
      BY <2>1
    <3>. QED
      BY <1>3, <2>1, <3>1, FS_EmptySet
  <2>2. ASSUME NEW k \in L PROVE L \in P
    <3>1. F[k] \in SUBSET U /\ all(L \ {k}) \in SUBSET U /\ F[k] \cap all(L \ {k}) \in SUBSET U
      OBVIOUS
    <3>2. all(L) = F[k] \cup all(L \ {k})
      OBVIOUS
    <3>. HIDE DEF all
    <3>3. Cardinality(F[k] \cup all(L \ {k})) =
            Cardinality(F[k]) + Cardinality(all(L \ {k})) - Cardinality(F[k] \cap all(L \ {k}))
      BY <1>1, <3>1, FS_Union
    <3>4. Cardinality(all(L \ {k})) <= Part(sizes, L \ {k})
      BY <1>4
    <3>5. Part(sizes, L) = Cardinality(F[k]) + Part(sizes, L \ {k})
      BY <1>2, <1>3
    <3>6. /\ Cardinality(F[k]) \in Nat /\ Cardinality(all(L \ {k})) \in Nat
          /\ Cardinality(F[k] \cap all(L \ {k})) \in Nat /\ Part(sizes, L \ {k}) \in Nat
      BY <1>1, <1>3, <3>1
    <3>7. Cardinality(all(L)) <= Part(sizes, L)
      BY <3>2, <3>3, <3>4, <3>5, <3>6
    <3>. QED
      BY <3>7
  <2>. QED
    BY <2>1, <2>2
<1>5. K \in P
  <2>. HIDE DEF P
  <2>1. \A L \in SUBSET K : L \in P
    BY <1>4, BySubsets
  <2>. QED
    BY <2>1
<1>. QED
  BY <1>3, <1>5 DEF sizes

LEMMA SumOfFew ==
  /\ SumOf([v \in {} |-> v]) = 0
  /\ \A n \in Nat : SumOf([v \in {n} |-> v]) = n
<1>1. SumOf([v \in {} |-> v]) = 0
  <2>. DEFINE none == [v \in {} |-> v]
  <2>1. none \in [{} -> Nat] /\ IsFiniteSet({})
    BY FS_EmptySet
  <2>. HIDE DEF none
  <2>2. SumOf(none) = 0
    BY <2>1, Parts
  <2>. QED
    BY <2>2 DEF none
<1>2. ASSUME NEW n \in Nat PROVE SumOf([v \in {n} |-> v]) = n
  <2>. DEFINE one == [v \in {n} |-> v]
  <2>1. one \in [{n} -> Nat] /\ IsFiniteSet({n}) /\ one[n] = n
    BY FS_Singleton
  <2>. HIDE DEF one
  <2>2. /\ Part(one, {}) = 0 /\ SumOf(one) = Part(one, {n})
        /\ Part(one, {n}) = one[n] + Part(one, {n} \ {n})
    BY <2>1, Parts
  <2>3. {n} \ {n} = {}
    OBVIOUS
  <2>4. SumOf(one) = n
    BY <2>1, <2>2, <2>3
  <2>. QED
    BY <2>4 DEF one
<1>. QED
  BY <1>1, <1>2

-----------------------------------------------------------------------------
(* Answers.  What is published was publishable, and a published version is    *)
(* not published anew with other contents.                                    *)

QueriesFit ==
  /\ IsFiniteSet(facts) /\ \A r \in facts : r.origin \in Origins /\ r.row \in IndexRows
  /\ IsFiniteSet(factSets) /\ factSets \subseteq FactSetDrafts
  /\ \A f \in factSets : PublishableFactSet(f)
  /\ \A m \in metrics : PublishableMetric(m)

LEMMA QueriesStart == QueryInit => QueriesFit
  BY FS_EmptySet DEF QueryInit, QueriesFit

LEMMA QueriesStep == QueriesFit /\ [QueryNext]_queryVars => QueriesFit'
<1>. SUFFICES ASSUME QueriesFit, [QueryNext]_queryVars PROVE QueriesFit'
  OBVIOUS
<1>. USE DEF QueriesFit
<1>1. ASSUME NEW draft \in FactSetDrafts \ factSets, PublishFactSet(draft) PROVE QueriesFit'
  <2>1. factSets' = factSets \cup {draft} /\ PublishableFactSet(draft)
        /\ UNCHANGED <<manifests, metrics, facts>>
    BY <1>1 DEF PublishFactSet
  <2>2. \A d : PublishableFactSet(d)' <=> PublishableFactSet(d)
    BY DEF PublishableFactSet
  <2>3. \A m \in metrics : PublishableMetric(m)'
    <3>. SUFFICES ASSUME NEW m \in metrics PROVE PublishableMetric(m)'
      OBVIOUS
    <3>1. PublishableMetric(m)
      OBVIOUS
    <3>. QED
      BY <2>1, <3>1 DEF PublishableMetric, FactSetOf, ManifestsOf
  <2>4. IsFiniteSet(factSets')
    BY <2>1, FS_AddElement
  <2>. QED
    BY <2>1, <2>2, <2>3, <2>4
<1>2. ASSUME NEW draft \in ManifestDrafts \ manifests, PublishManifest(draft) PROVE QueriesFit'
  <2>1. manifests' = manifests \cup {draft} /\ UNCHANGED <<factSets, metrics, facts>>
    BY <1>2 DEF PublishManifest
  <2>2. \A m \in metrics : PublishableMetric(m)'
    BY <2>1 DEF PublishableMetric, FactSetOf, ManifestsOf
  <2>. QED
    BY <2>1, <2>2 DEF PublishableFactSet
<1>3. ASSUME NEW draft \in MetricDrafts \ metrics, PublishMetric(draft) PROVE QueriesFit'
  <2>1. /\ PublishableMetric(draft) /\ metrics' = metrics \cup {draft}
        /\ UNCHANGED <<factSets, manifests, facts>>
    BY <1>3 DEF PublishMetric
  <2>2. \A m \in metrics' : PublishableMetric(m)'
    BY <2>1 DEF PublishableMetric, FactSetOf, ManifestsOf
  <2>. QED
    BY <2>1, <2>2 DEF PublishableFactSet
<1>4. ASSUME NEW origin \in Origins, NEW row \in IndexRows, StoreRecord(origin, row)
      PROVE  QueriesFit'
  <2>1. /\ facts' = facts \cup {[origin |-> origin, row |-> row]}
        /\ UNCHANGED <<factSets, manifests, metrics>>
    BY <1>4 DEF StoreRecord
  <2>2. IsFiniteSet(facts')
    BY <2>1, FS_AddElement
  <2>3. \A m \in metrics' : PublishableMetric(m)'
    BY <2>1 DEF PublishableMetric, FactSetOf, ManifestsOf
  <2>. QED
    BY <2>1, <2>2, <2>3 DEF PublishableFactSet
<1>5. CASE UNCHANGED queryVars
  BY <1>5 DEF queryVars, PublishableFactSet, PublishableMetric, FactSetOf, ManifestsOf
<1>. QED
  BY <1>1, <1>2, <1>3, <1>4, <1>5 DEF QueryNext

LEMMA RowIs ==
  ASSUME NEW row \in IndexRows
  PROVE  DOMAIN row \subseteq {"name", "number"} /\ \A field \in DOMAIN row : row[field] \in Nat
<1>1. Names \subseteq Nat /\ Figures \subseteq Nat
  BY QueryAssumption
<1>2. CASE row \in [name : Names]
  BY <1>1, <1>2
<1>3. CASE row \in [name : Names, number : Figures]
  BY <1>1, <1>3
<1>. QED
  BY <1>2, <1>3 DEF IndexRows

LEMMA SelectedFinite ==
  ASSUME QueriesFit, NEW S, S \subseteq facts
  PROVE  IsFiniteSet(S) /\ Cardinality(S) \in Nat
  BY FS_Subset, FS_CardinalityType DEF QueriesFit

LEMMA IdentityIs ==
  ASSUME QueriesFit, NEW o
  PROVE  \/ \E f \in factSets : /\ {g \in factSets : MatchesFactSet(o, g)} = {f}
                                /\ FactIdentity(o) = GovernedFactSet(f)
         \/ FactIdentity(o) = DerivedFactSet(o)
<1>. DEFINE matches == {g \in factSets : MatchesFactSet(o, g)}
<1>1. IsFiniteSet(matches) /\ matches \subseteq factSets
  BY FS_Subset DEF QueriesFit
<1>2. FactIdentity(o) =
        IF Cardinality(matches) = 1 THEN GovernedFactSet(CHOOSE f \in matches : TRUE)
        ELSE DerivedFactSet(o)
  BY DEF FactIdentity
<1>. HIDE DEF matches
<1>3. CASE Cardinality(matches) = 1
  <2>1. PICK f : matches = {f}
    BY <1>1, <1>3, FS_Singleton
  <2>2. (CHOOSE g \in matches : TRUE) = f
    BY <2>1
  <2>. QED
    BY <1>1, <1>2, <1>3, <2>1, <2>2 DEF matches
<1>. QED
  BY <1>2, <1>3

LEMMA SameIdentity ==
  ASSUME NEW o, NEW q, o.type = q.type, o.rules[1] = q.rules[1],
         {g \in factSets : MatchesFactSet(o, g)} = {g \in factSets : MatchesFactSet(q, g)}
  PROVE  FactIdentity(o) = FactIdentity(q)
<1>1. DerivedFactSet(o) = DerivedFactSet(q)
  BY DEF DerivedFactSet
<1>. DEFINE of(p) == {g \in factSets : MatchesFactSet(p, g)}
<1>2. \A p : FactIdentity(p) = IF Cardinality(of(p)) = 1
                              THEN GovernedFactSet(CHOOSE f \in of(p) : TRUE)
                              ELSE DerivedFactSet(p)
  BY DEF FactIdentity
<1>3. of(o) = of(q)
  OBVIOUS
<1>. HIDE DEF of
<1>. QED
  BY <1>1, <1>2, <1>3

LEMMA OwnRule ==
  ASSUME NEW o \in Origins
  PROVE  Contains(o.rules, o.rules[1])
  BY QueryAssumption DEF Contains

LEMMA ListedMatches ==
  ASSUME QueriesFit, NEW r \in facts
  PROVE  MatchesFactSet(r.origin, FactIdentity(r.origin))
<1>. DEFINE o == r.origin
<1>1. o \in Origins
  BY DEF QueriesFit
<1>. HIDE DEF o
<1>2. ASSUME FactIdentity(o) = DerivedFactSet(o) PROVE MatchesFactSet(o, FactIdentity(o))
  <2>1. DerivedFactSet(o).type = o.type /\ DerivedFactSet(o).rule = o.rules[1]
    BY DEF DerivedFactSet
  <2>2. Contains(o.rules, o.rules[1])
    BY <1>1, OwnRule
  <2>. QED
    BY <1>2, <2>1, <2>2 DEF MatchesFactSet
<1>3. ASSUME NEW f \in factSets, {g \in factSets : MatchesFactSet(o, g)} = {f},
             FactIdentity(o) = GovernedFactSet(f)
      PROVE  MatchesFactSet(o, FactIdentity(o))
  <2>1. MatchesFactSet(o, f)
    BY <1>3
  <2>. QED
    BY <1>3, <2>1 DEF GovernedFactSet, MatchesFactSet
<1>. QED
  BY <1>2, <1>3, IdentityIs DEF o

LEMMA CatalogEntry ==
  ASSUME NEW fact \in FactCatalog
  PROVE  fact \in Entries /\ \E s \in ScopedRecords : fact = FactIdentity(s.origin)
<1>1. PICK code \in {e.code : e \in Entries} : fact = CHOOSE entry \in Entries : entry.code = code
  BY DEF FactCatalog
<1>2. \E entry \in Entries : entry.code = code
  BY <1>1
<1>3. fact \in Entries
  BY <1>1, <1>2
<1>. QED
  BY <1>3 DEF Entries

LEMMA Partition == QueriesFit => FactSetsPartitionTheScope
<1>. SUFFICES ASSUME QueriesFit, Orderly, NEW record \in ScopedRecords, NEW fact \in FactCatalog
              PROVE  FactIdentity(record.origin).code = fact.code <=>
                       record \in FactPredicates(fact)
  BY DEF FactSetsPartitionTheScope
<1>1. PICK s \in ScopedRecords : fact = FactIdentity(s.origin)
  BY CatalogEntry
<1>2. fact \in Entries /\ FactIdentity(record.origin) \in Entries
  BY CatalogEntry DEF Entries
<1>3. record \in facts /\ InScope(record) /\ s \in facts
  BY DEF ScopedRecords
<1>4. MatchesFactSet(s.origin, fact)
  BY <1>1, <1>3, ListedMatches
<1>5. ASSUME NEW r \in ScopedRecords, NEW f \in factSets \cup Entries, MatchesFactSet(r.origin, f)
      PROVE  f.rule = r.origin.rules[1]
  BY <1>5 DEF Orderly, RulesAreSpecific
<1>6. fact.rule = s.origin.rules[1] /\ fact.type = s.origin.type
  BY <1>2, <1>4, <1>5 DEF MatchesFactSet
<1>7. record \in FactPredicates(fact) <=> MatchesFactSet(record.origin, fact)
  BY <1>3 DEF FactPredicates, MatchesFactSet
<1>8. ASSUME FactIdentity(record.origin).code = fact.code
      PROVE  MatchesFactSet(record.origin, fact)
  <2>1. FactIdentity(record.origin) = fact
    BY <1>2, <1>8 DEF Orderly, OneVersionPerCode
  <2>2. MatchesFactSet(record.origin, FactIdentity(record.origin))
    BY <1>3, ListedMatches
  <2>. QED
    BY <2>1, <2>2
<1>9. ASSUME MatchesFactSet(record.origin, fact)
      PROVE  FactIdentity(record.origin).code = fact.code
  <2>1. fact.rule = record.origin.rules[1] /\ fact.type = record.origin.type
    BY <1>2, <1>5, <1>9 DEF MatchesFactSet
  <2>2. record.origin \in Origins /\ s.origin \in Origins
    BY <1>3 DEF QueriesFit
  <2>3. /\ Contains(record.origin.rules, record.origin.rules[1])
        /\ Contains(s.origin.rules, s.origin.rules[1])
    BY <2>2, OwnRule
  <2>4. ASSUME NEW g \in factSets
        PROVE  MatchesFactSet(record.origin, g) <=> MatchesFactSet(s.origin, g)
    <3>1. MatchesFactSet(record.origin, g) => g.rule = record.origin.rules[1]
      BY <1>5
    <3>2. MatchesFactSet(s.origin, g) => g.rule = s.origin.rules[1]
      BY <1>5
    <3>. QED
      BY <1>6, <2>1, <2>3, <3>1, <3>2 DEF MatchesFactSet
  <2>5. {g \in factSets : MatchesFactSet(record.origin, g)} =
          {g \in factSets : MatchesFactSet(s.origin, g)}
    BY <2>4
  <2>. QED
    BY <1>1, <1>6, <2>1, <2>5, SameIdentity
<1>. QED
  BY <1>7, <1>8, <1>9

LEMMA InCatalog ==
  ASSUME NEW r \in ScopedRecords
  PROVE  \E fact \in FactCatalog : fact.code = FactIdentity(r.origin).code
<1>1. FactIdentity(r.origin) \in Entries
  BY DEF Entries
<1>. DEFINE code == FactIdentity(r.origin).code
            fact == CHOOSE entry \in Entries : entry.code = code
<1>2. fact \in Entries /\ fact.code = code
  BY <1>1
<1>3. fact \in FactCatalog
  BY <1>1 DEF FactCatalog
<1>. QED
  BY <1>2, <1>3

LEMMA PassingNone == \A records : Passing(records, {}) = records
  BY DEF Passing

LEMMA PassingOne ==
  \A records, field, value :
    Passing(records, {[field |-> field, value |-> value]}) =
      {r \in records : Has(r, field) /\ r.row[field] = value}
  BY DEF Passing

LEMMA SelectedAre ==
  /\ \A fact : FactPredicates(fact) \subseteq facts /\ FactPredicates(fact) = QuestionRecords(fact)
  /\ \A f : Matching(f) \subseteq facts
  /\ \A records, filters : Passing(records, filters) \subseteq records
  BY DEF FactPredicates, QuestionRecords, ScopedRecords, Matching, Passing

LEMMA HouseholdsHold == QueriesFit => HouseholdsAreWhole
<1>. SUFFICES ASSUME QueriesFit, Orderly, NEW record \in ScopedRecords,
                     Has(record, "name"), Has(record, "number")
              PROVE  record \in Household(record.row["name"])
  BY DEF HouseholdsAreWhole
<1>1. PICK fact \in FactCatalog : fact.code = FactIdentity(record.origin).code
  BY InCatalog
<1>2. record \in FactPredicates(fact)
  BY <1>1, Partition DEF FactSetsPartitionTheScope
<1>3. {"name", "number"} \subseteq DOMAIN record.row
  BY DEF Has
<1>4. {"name", "number"} \subseteq FieldCodes(fact.code)
  BY <1>1, <1>3, QueryAssumption DEF FieldCodes
<1>5. fact \in FactSetsWith({"name", "number"})
  BY <1>4 DEF FactSetsWith
<1>. DEFINE name == record.row["name"]
            number == record.row["number"]
            called(field, value) ==
              Passing(FactPredicates(fact), {[field |-> field, value |-> value]})
<1>6. ASSUME NEW field, Has(record, field) PROVE record \in called(field, record.row[field])
  BY <1>2, <1>6 DEF Passing
<1>7. record \in called("name", name) /\ record \in called("number", number)
  <2>. HIDE DEF called
  <2>. QED
    BY <1>6
<1>8. number \in HouseholdNumbers(fact, name)
  BY <1>7 DEF HouseholdNumbers
<1>. HIDE DEF number
<1>9. record \in UNION {Passing(FactPredicates(fact), {[field |-> "number", value |-> n]}) :
                          n \in HouseholdNumbers(fact, name)}
  BY <1>7, <1>8
<1>. HIDE DEF name
<1>10. record \in Household(name)
  BY <1>5, <1>9 DEF Household
<1>. QED
  BY <1>10 DEF name

LEMMA SmallerIs ==
  \A m, n \in Nat : /\ Smaller(m, n) \in Nat /\ Smaller(m, n) <= m /\ Smaller(m, n) <= n
                     /\ (Smaller(m, n) = m \/ Smaller(m, n) = n)
  BY DEF Smaller

LEMMA ListsHold == QueriesFit => ListsShowWhatIsCounted
<1>. SUFFICES ASSUME QueriesFit, NEW fact \in FactCatalog,
                     NEW operation \in ToolOperations.lookup_records,
                     NEW limit \in 1 .. MaxRecords + 1,
                     NEW rows \in Lists(fact, {}, LimitOf(operation, limit))
              PROVE  /\ Cardinality(rows) < LimitOf(operation, limit) =>
                          Cardinality(rows) = Count(fact, {})
                     /\ AcceptanceOf(operation, FactPredicates(fact)) = "empty" <=> rows = {}
  BY DEF ListsShowWhatIsCounted
<1>. DEFINE records == FactPredicates(fact)
            most == LimitOf(operation, limit)
<1>1. operation \in {"lookup", "list"}
  BY DEF ToolOperations
<1>2. most \in Nat /\ most >= 1
  BY QueryAssumption DEF LimitOf
<1>3. IsFiniteSet(records) /\ Cardinality(records) \in Nat
  BY SelectedAre, SelectedFinite
<1>4. rows \subseteq records /\ Cardinality(rows) = Smaller(most, Cardinality(records))
  BY PassingNone DEF Lists
<1>5. Count(fact, {}) = Cardinality(records)
  BY PassingNone DEF Count
<1>6. IsFiniteSet(rows)
  BY <1>3, <1>4, FS_Subset
<1>7. (Cardinality(records) = 0 <=> records = {}) /\ (Cardinality(rows) = 0 <=> rows = {})
  BY <1>3, <1>6, FS_EmptySet
<1>8. AcceptanceOf(operation, records) = "empty" <=> records = {}
  BY <1>1 DEF AcceptanceOf
<1>. HIDE DEF records, most
<1>9. Cardinality(rows) = 0 <=> Cardinality(records) = 0
  BY <1>2, <1>3, <1>4 DEF Smaller
<1>10. Cardinality(rows) < most => Cardinality(rows) = Cardinality(records)
  BY <1>2, <1>3, <1>4 DEF Smaller
<1>. QED
  BY <1>5, <1>7, <1>8, <1>9, <1>10 DEF records, most

LEMMA EvidenceHolds == QueriesFit => SqlEvidenceIsBounded
<1>. SUFFICES ASSUME QueriesFit, Orderly, NEW fact \in FactCatalog, NEW selection \in Selections,
                     NEW limit \in 1 .. MaxRecords + 1, NEW rows \in SqlRows(fact, limit)
              PROVE  /\ \A claimed \in SqlEvidence(fact, selection, rows) :
                          claimed <= Count(fact, {})
                     /\ ~Truncated(rows, limit) => rows = QuestionRecords(fact)
  BY DEF SqlEvidenceIsBounded
<1>. DEFINE records == QuestionRecords(fact)
<1>1. records = FactPredicates(fact) /\ records \subseteq facts
  BY SelectedAre
<1>2. Count(fact, {}) = Cardinality(records)
  BY <1>1, PassingNone DEF Count
<1>3. limit \in Nat
  BY QueryAssumption
<1>4. rows \subseteq records /\ Cardinality(rows) = Smaller(limit, Cardinality(records))
  BY DEF SqlRows
<1>. HIDE DEF records
<1>5. /\ IsFiniteSet(records) /\ Cardinality(records) \in Nat
      /\ \A S \in SUBSET records :
           /\ IsFiniteSet(S) /\ Cardinality(S) \in Nat /\ Cardinality(S) <= Cardinality(records)
           /\ Cardinality(S) = Cardinality(records) => S = records
  BY <1>1, SelectedFinite, FS_Subset, FS_CardinalityType
<1>6. ASSUME ~Truncated(rows, limit) PROVE rows = records
  <2>1. Cardinality(rows) < limit
    BY <1>3, <1>4, <1>5, <1>6 DEF Truncated
  <2>2. Cardinality(rows) = Cardinality(records)
    BY <1>3, <1>4, <1>5, <2>1 DEF Smaller
  <2>. QED
    BY <1>4, <1>5, <2>2
<1>7. ASSUME NEW claimed \in ListedCounts(fact) PROVE claimed <= Cardinality(records)
  <2>1. PICK s \in ScopedRecords :
          /\ FactIdentity(s.origin).code = fact.code
          /\ claimed = Cardinality({r \in ScopedRecords : /\ r.origin.type = s.origin.type
                                                          /\ r.origin.rules = s.origin.rules})
    BY <1>7 DEF ListedCounts
  <2>2. s \in FactPredicates(fact)
    BY <2>1, Partition DEF FactSetsPartitionTheScope
  <2>. DEFINE group == {r \in ScopedRecords : /\ r.origin.type = s.origin.type
                                              /\ r.origin.rules = s.origin.rules}
  <2>3. group \subseteq records
    BY <1>1, <2>2 DEF FactPredicates, ScopedRecords
  <2>. QED
    BY <1>5, <2>1, <2>3
<1>8. \A claimed \in SqlEvidence(fact, selection, rows) : claimed <= Cardinality(records)
  <2>1. SqlEvidence(fact, selection, rows) \subseteq
          {Cardinality(records), Cardinality(rows)} \cup ListedCounts(fact)
    BY DEF SqlEvidence, Selections, records
  <2>2. Cardinality(rows) <= Cardinality(records) /\ Cardinality(records) <= Cardinality(records)
    BY <1>4, <1>5
  <2>. QED
    BY <1>7, <2>1, <2>2
<1>. QED
  BY <1>2, <1>6, <1>8 DEF records

LEMMA ImageFinite ==
  ASSUME NEW S, IsFiniteSet(S), NEW f, S \subseteq DOMAIN f
  PROVE  IsFiniteSet({f[x] : x \in S}) /\ Cardinality({f[x] : x \in S}) <= Cardinality(S)
<1>. DEFINE T == {f[x] : x \in S}
            g == [x \in S |-> f[x]]
<1>1. g \in Surjection(S, T)
  BY DEF Surjection
<1>. HIDE DEF g, T
<1>2. IsFiniteSet(T) /\ Cardinality(T) <= Cardinality(S)
  BY <1>1, FS_Surjection
<1>. QED
  BY <1>2 DEF T

(* Records of a set, counted by the value of a field that each of them has. *)
LEMMA CountedByValue ==
  ASSUME QueriesFit, NEW R, R \subseteq facts, NEW field, \A r \in R : field \in DOMAIN r.row,
         NEW K, IsFiniteSet(K), \A r \in R : r.row[field] \in K
  PROVE  SumOf([k \in K |-> Cardinality({r \in R : r.row[field] = k})]) = Cardinality(R)
<1>. DEFINE one == [r \in R |-> 1]
            key == [r \in R |-> r.row[field]]
            of(k) == {r \in R : key[r] = k}
<1>1. IsFiniteSet(R)
  BY SelectedFinite
<1>2. one \in [R -> Nat] /\ key \in [R -> K]
  OBVIOUS
<1>3. SumOf([k \in K |-> Part(one, of(k))]) = SumOf(one)
  <2>. HIDE DEF one, key
  <2>. QED
    BY <1>1, <1>2, Grouped
<1>4. ASSUME NEW k \in K PROVE Part(one, of(k)) = Cardinality({r \in R : r.row[field] = k})
  <2>1. of(k) = {r \in R : r.row[field] = k} /\ of(k) \subseteq R
    OBVIOUS
  <2>2. [r \in of(k) |-> one[r]] = [r \in of(k) |-> 1]
    BY <2>1
  <2>3. IsFiniteSet(of(k))
    BY <1>1, <2>1, FS_Subset
  <2>. HIDE DEF of, one
  <2>4. SumOf([r \in of(k) |-> 1]) = Cardinality(of(k))
    BY <2>3, Ones
  <2>. QED
    BY <2>1, <2>2, <2>4 DEF Part
<1>5. [k \in K |-> Part(one, of(k))] = [k \in K |-> Cardinality({r \in R : r.row[field] = k})]
  <2>. HIDE DEF one, of
  <2>. QED
    BY <1>4
<1>6. SumOf(one) = Cardinality(R)
  BY <1>1, Ones
<1>. QED
  BY <1>3, <1>5, <1>6

LEMMA GroupsHold == QueriesFit => GroupsAddUp
<1>. SUFFICES ASSUME QueriesFit, NEW field \in {"name", "number"},
                     NEW fact \in FactSetsWith({field}), NEW asked \in {{}, Names \ {Null}},
                     GroupCount(fact, {}, field, asked).accepted
              PROVE  LET answer == GroupCount(fact, {}, field, asked)
                     IN  /\ Count(fact, {}) = SumOf(answer.rows)
                         /\ \A v \in DOMAIN answer.rows :
                              answer.rows[v] = Count(fact, {[field |-> field, value |-> v]})
                         /\ Cardinality(QuestionRecords(fact)) = Count(fact, {})
  BY Zenon DEF GroupsAddUp
<1>. DEFINE records == FactPredicates(fact)
            grouped == {r \in records : Has(r, field)}
            values == {r.row[field] : r \in grouped}
            K == IF asked = {} THEN values ELSE asked
            rows == [v \in K |-> Cardinality({r \in grouped : r.row[field] = v})]
            answer == GroupCount(fact, {}, field, asked)
<1>1. Passing(records, {}) = records /\ records \subseteq facts
  BY PassingNone, SelectedAre
<1>2. /\ answer.rows = rows
      /\ answer.accepted = Covers(records, grouped, IF asked = {} THEN {} ELSE values \ asked)
  BY <1>1 DEF GroupCount
<1>3. grouped = records /\ values \subseteq K
  BY <1>2 DEF Covers
<1>4. IsFiniteSet(records)
  BY <1>1, SelectedFinite
<1>5. IsFiniteSet(K)
  <2>. DEFINE f == [r \in grouped |-> r.row[field]]
  <2>1. {f[r] : r \in grouped} = values
    OBVIOUS
  <2>2. IsFiniteSet({f[r] : r \in grouped})
    <3>. HIDE DEF grouped
    <3>1. IsFiniteSet(grouped) /\ grouped \subseteq DOMAIN f
      BY <1>3, <1>4
    <3>. HIDE DEF f
    <3>. QED
      BY <3>1, ImageFinite
  <2>3. IsFiniteSet(Names \ {Null})
    BY QueryAssumption, FS_RemoveElement
  <2>. QED
    BY <2>1, <2>2, <2>3
<1>6. \A r \in records : field \in DOMAIN r.row /\ r.row[field] \in K
  <2>1. \A r \in records : r.row[field] \in values
    BY <1>3
  <2>. QED
    BY <1>3, <2>1 DEF Has
<1>7. SumOf([k \in K |-> Cardinality({r \in records : r.row[field] = k})]) = Cardinality(records)
  <2>. HIDE DEF K, records
  <2>. QED
    BY <1>1, <1>5, <1>6, CountedByValue
<1>8. rows = [k \in K |-> Cardinality({r \in records : r.row[field] = k})]
  BY <1>3
<1>9. Count(fact, {}) = Cardinality(records)
  BY <1>1 DEF Count
<1>10. ASSUME NEW v \in K PROVE rows[v] = Count(fact, {[field |-> field, value |-> v]})
  <2>1. Passing(records, {[field |-> field, value |-> v]}) = {r \in grouped : r.row[field] = v}
    BY DEF Passing
  <2>. QED
    BY <2>1 DEF Count
<1>11. QuestionRecords(fact) = records
  BY SelectedAre
<1>. HIDE DEF rows, answer, records, K
<1>. QED
  BY <1>2, <1>7, <1>8, <1>9, <1>10, <1>11 DEF rows, answer

LEMMA OneVersion ==
  ASSUME QueriesFit, NEW f \in factSets, NEW g \in factSets,
         f.code = g.code, f.version = g.version
  PROVE  f = g
  BY QueryAssumption DEF QueriesFit

LEMMA MetricsHold == QueriesFit => OfficialNumbersAgree
<1>. SUFFICES ASSUME QueriesFit, NEW metric \in metrics, NEW fact \in FactCatalog,
                     NEW f \in CompiledFactSets(fact) \cap FactSetOf(metric),
                     \A r \in Matching(f) : /\ metric.field \in DOMAIN r.row
                                            /\ \A field \in f.identity : Has(r, field)
              PROVE  MetricCount(metric) = SafeCount(f, {})
  BY DEF OfficialNumbersAgree
<1>1. f \in factSets /\ f.code = metric.factSet[1] /\ f.version = metric.factSet[2]
  BY DEF FactSetOf
<1>2. FactSetOf(metric) = {f}
  BY <1>1, OneVersion DEF FactSetOf
<1>3. PublishableMetric(metric) /\ PublishableFactSet(f)
  BY <1>1 DEF QueriesFit
<1>4. metric.identity = f.identity /\ f.identity # {}
  BY <1>2, <1>3 DEF PublishableMetric, PublishableFactSet
<1>. DEFINE records == UNION {{r \in Matching(g) : metric.field \in DOMAIN r.row} :
                                g \in FactSetOf(metric)}
<1>5. records = Matching(f)
  BY <1>2
<1>6. MetricCount(metric) =
        IF metric.identity = {} THEN Cardinality(records)
        ELSE Cardinality({Identified(r, metric.identity) :
                            r \in {p \in records : metric.identity \subseteq DOMAIN p.row}})
  BY DEF MetricCount
<1>7. {p \in records : metric.identity \subseteq DOMAIN p.row} = Matching(f)
  BY <1>4, <1>5 DEF Has
<1>8. {p \in Passing(Matching(f), {}) : \A field \in f.identity : Has(p, field)} = Matching(f)
  BY PassingNone
<1>. HIDE DEF records
<1>. QED
  BY <1>4, <1>6, <1>7, <1>8 DEF SafeCount

LEMMA GreatestIs ==
  ASSUME NEW S, S \subseteq Nat, NEW x \in S
  PROVE  /\ (\A y \in S : y <= x) => Max(S) = x
         /\ (\A y \in S : x <= y) => Min(S) = x
<1>1. ASSUME \A y \in S : y <= x PROVE Max(S) = x
  <2>1. \A y \in S : x >= y
    BY <1>1
  <2>2. \A z \in S : (\A y \in S : z >= y) => z = x
    BY <1>1
  <2>. QED
    BY <2>1, <2>2 DEF Max
<1>2. ASSUME \A y \in S : x <= y PROVE Min(S) = x
  <2>1. \A z \in S : (\A y \in S : z =< y) => z = x
    BY <1>2
  <2>. QED
    BY <1>2, <2>1 DEF Min
<1>. QED
  BY <1>1, <1>2

LEMMA FiniteExtremes ==
  ASSUME NEW D, IsFiniteSet(D), D \subseteq Nat, D # {}
  PROVE  /\ Max(D) \in D /\ \A y \in D : y <= Max(D)
         /\ Min(D) \in D /\ \A y \in D : Min(D) <= y
<1>. DEFINE P == {S \in SUBSET D :
                   S # {} => /\ \E x \in S : \A y \in S : y <= x
                             /\ \E x \in S : \A y \in S : x <= y}
<1>1. ASSUME NEW S \in SUBSET D, \A x \in S : S \ {x} \in P PROVE S \in P
  <2>. SUFFICES ASSUME NEW z \in S
                PROVE  /\ \E x \in S : \A y \in S : y <= x
                       /\ \E x \in S : \A y \in S : x <= y
    OBVIOUS
  <2>1. z \in Nat /\ S \subseteq Nat
    OBVIOUS
  <2>2. CASE S \ {z} = {}
    <3>1. S = {z}
      BY <2>2
    <3>. QED
      BY <2>1, <3>1
  <2>3. CASE S \ {z} # {}
    <3>1. PICK x \in S \ {z} : \A y \in S \ {z} : y <= x
      BY <1>1, <2>3
    <3>2. PICK w \in S \ {z} : \A y \in S \ {z} : w <= y
      BY <1>1, <2>3
    <3>3. \E u \in S : \A y \in S : y <= u
      BY <2>1, <3>1
    <3>4. \E u \in S : \A y \in S : u <= y
      BY <2>1, <3>2
    <3>. QED
      BY <3>3, <3>4
  <2>. QED
    BY <2>2, <2>3
<1>2. D \in P
  <2>. HIDE DEF P
  <2>1. \A S \in SUBSET D : S \in P
    BY <1>1, BySubsets
  <2>. QED
    BY <2>1
<1>3. PICK x \in D : \A y \in D : y <= x
  BY <1>2
<1>4. PICK w \in D : \A y \in D : w <= y
  BY <1>2
<1>5. Max(D) = x /\ Min(D) = w
  BY <1>3, <1>4, GreatestIs
<1>. QED
  BY <1>3, <1>4, <1>5

ValuesOfField(R, field) == {r.row[field] : r \in Valued(R, field)}

LEMMA ValuedIs ==
  ASSUME QueriesFit, NEW R, R \subseteq facts, NEW field
  PROVE  /\ Valued(R, field) \subseteq R /\ IsFiniteSet(Valued(R, field))
         /\ \A r \in Valued(R, field) : field \in DOMAIN r.row /\ r.row[field] \in Nat
         /\ ValuesOfField(R, field) \subseteq Nat /\ IsFiniteSet(ValuesOfField(R, field))
         /\ Valued(Valued(R, field), field) = Valued(R, field)
<1>1. Valued(R, field) \subseteq R
  BY DEF Valued
<1>2. IsFiniteSet(Valued(R, field))
  BY <1>1, SelectedFinite
<1>3. \A r \in Valued(R, field) : field \in DOMAIN r.row /\ r.row[field] \in Nat
  BY RowIs DEF Valued, Has, QueriesFit
<1>. DEFINE f == [r \in Valued(R, field) |-> r.row[field]]
<1>4. {f[r] : r \in Valued(R, field)} = ValuesOfField(R, field)
  BY DEF ValuesOfField
<1>5. Valued(R, field) \subseteq DOMAIN f
  OBVIOUS
<1>. HIDE DEF f
<1>6. IsFiniteSet(ValuesOfField(R, field))
  BY <1>2, <1>4, <1>5, ImageFinite
<1>. QED
  BY <1>1, <1>2, <1>3, <1>6 DEF ValuesOfField, Valued

LEMMA SummaryIs ==
  ASSUME NEW R, NEW field
  PROVE  /\ Valued(R, field) = {} =>
              \A aggregation : SummaryOf(R, field, aggregation) = {}
         /\ Valued(R, field) # {} =>
              /\ SummaryOf(R, field, "sum") = {SumOf([r \in Valued(R, field) |-> r.row[field]])}
              /\ SummaryOf(R, field, "min") = {Min(ValuesOfField(R, field))}
              /\ SummaryOf(R, field, "max") = {Max(ValuesOfField(R, field))}
  BY DEF SummaryOf, ValuesOfField

LEMMA RankingsHold == QueriesFit => RankingsAgreeWithSummaries
<1>. SUFFICES ASSUME QueriesFit, NEW fact \in FactCatalog, NEW field \in AskedFields,
                     NEW direction \in {"asc", "desc"}, NEW limit \in 1 .. MaxRecords,
                     NEW order \in Ranks(fact, {}, field, direction)
              PROVE  LET shown == TopOf(order, limit) IN
                     /\ SummaryAnswer(fact, {}, field, IF direction = "desc" THEN "max" ELSE "min")
                          = {shown[i].row[field] : i \in DOMAIN shown \cap {1}}
                     /\ \A r \in Valued(FactPredicates(fact), field) \ Range(shown) :
                          \A s \in Range(shown) :
                            IF direction = "desc" THEN r.row[field] <= s.row[field]
                            ELSE r.row[field] >= s.row[field]
  BY Zenon DEF RankingsAgreeWithSummaries
<1>. DEFINE V == Valued(FactPredicates(fact), field)
            n == Cardinality(V)
            m == Smaller(limit, n)
            value(i) == order[i].row[field]
            shown == TopOf(order, limit)
<1>1. IsFiniteSet(V) /\ n \in Nat /\ \A r \in V : r.row[field] \in Nat
  BY SelectedAre, ValuedIs, FS_CardinalityType
<1>2. /\ order \in [1..n -> V]
      /\ \A i, j \in 1..n : i # j => order[i] # order[j]
      /\ \A i, j \in 1..n : i < j => IF direction = "desc" THEN value(i) >= value(j)
                                     ELSE value(i) <= value(j)
  <2>1. Passing(FactPredicates(fact), {}) = FactPredicates(fact)
    BY PassingNone
  <2>2. /\ order \in SetToSeqs(V)
        /\ \A i, j \in DOMAIN order : i < j =>
             ~ IF direction = "desc" THEN order[i].row[field] < order[j].row[field]
               ELSE order[i].row[field] > order[j].row[field]
    BY <2>1 DEF Ranks
  <2>3. order \in [1..n -> V] /\ \A i, j \in 1..n : i # j => order[i] # order[j]
    BY <2>2 DEF SetToSeqs
  <2>4. \A i \in 1..n : value(i) \in Nat
    <3>. HIDE DEF n, V
    <3>. QED
      BY <1>1, <2>3
  <2>. HIDE DEF n, V
  <2>. QED
    BY <2>2, <2>3, <2>4
<1>. HIDE DEF n
<1>3. \A i \in 1..n : order[i] \in V /\ value(i) \in Nat
  <2>. HIDE DEF V
  <2>. QED
    BY <1>1, <1>2
<1>4. \A r \in V : \E i \in 1..n : order[i] = r
  <2>. HIDE DEF V
  <2>1. order \in Injection(1..n, V)
    BY <1>2 DEF Injection, IsInjective
  <2>2. IsFiniteSet(1..n) /\ Cardinality(1..n) = n
    BY <1>1, FS_Interval
  <2>3. Cardinality(1..n) = Cardinality(V)
    BY <2>2 DEF n
  <2>4. order \in Surjection(1..n, V)
    BY <1>1, <2>1, <2>3, FS_Injection
  <2>. QED
    BY <2>4 DEF Surjection
<1>5. /\ m \in Nat /\ m <= n /\ (n # 0 => m >= 1)
      /\ shown = [i \in 1..m |-> order[i]]
  <2>1. Len(order) = n /\ order \in Seq(V)
    BY <1>1, <1>2
  <2>2. limit \in Nat /\ limit >= 1
    BY QueryAssumption
  <2>3. m \in Nat /\ m <= n /\ (n # 0 => m >= 1)
    BY <1>1, <2>2 DEF Smaller
  <2>. HIDE DEF m
  <2>4. shown = SubSeq(order, 1, m)
    BY <2>1 DEF TopOf, m
  <2>5. SubSeq(order, 1, m) = [i \in 1..m |-> order[i]]
    BY <2>1, <2>3
  <2>. QED
    BY <2>3, <2>4, <2>5
<1>. HIDE DEF shown, m
<1>6. ASSUME NEW r \in V \ Range(shown), NEW s \in Range(shown)
      PROVE  IF direction = "desc" THEN r.row[field] <= s.row[field]
             ELSE r.row[field] >= s.row[field]
  <2>1. PICK j \in 1..n : order[j] = r
    BY <1>4
  <2>2. PICK i \in 1..m : order[i] = s
    BY <1>5 DEF Range
  <2>3. j \notin 1..m
    BY <1>5, <2>1 DEF Range
  <2>4. i \in 1..n /\ i < j
    BY <1>1, <1>5, <2>3
  <2>. QED
    BY <1>2, <1>3, <2>1, <2>2, <2>4
<1>. DEFINE values == ValuesOfField(FactPredicates(fact), field)
<1>7. values = {value(i) : i \in 1..n} /\ values \subseteq Nat
  <2>1. values = {r.row[field] : r \in V}
    BY DEF ValuesOfField
  <2>. HIDE DEF V
  <2>. QED
    BY <1>3, <1>4, <2>1
<1>8. n = 0 <=> V = {}
  BY <1>1, FS_EmptySet DEF n
<1>9. SummaryAnswer(fact, {}, field, IF direction = "desc" THEN "max" ELSE "min") =
        IF V = {} THEN {}
        ELSE {IF direction = "desc" THEN Max(values) ELSE Min(values)}
  BY PassingNone, SummaryIs DEF SummaryAnswer
<1>10. ASSUME n # 0
       PROVE  (IF direction = "desc" THEN Max(values) ELSE Min(values)) = value(1)
  <2>1. 1 \in 1..n
    BY <1>1, <1>10
  <2>2. value(1) \in values
    BY <1>7, <2>1
  <2>3. \A y \in values : IF direction = "desc" THEN y <= value(1) ELSE value(1) <= y
    <3>. SUFFICES ASSUME NEW i \in 1..n
                  PROVE  IF direction = "desc" THEN value(i) <= value(1) ELSE value(1) <= value(i)
      BY <1>7
    <3>1. CASE i = 1
      BY <1>3, <2>1, <3>1
    <3>2. CASE i # 1
      <4>1. 1 < i
        BY <3>2
      <4>. QED
        BY <1>2, <1>3, <2>1, <4>1
    <3>. QED
      BY <3>1, <3>2
  <2>. HIDE DEF values, value
  <2>. QED
    BY <1>7, <2>2, <2>3, GreatestIs
<1>11. {shown[i].row[field] : i \in DOMAIN shown \cap {1}} = IF n = 0 THEN {} ELSE {value(1)}
  <2>1. DOMAIN shown = 1..m
    BY <1>5
  <2>2. CASE n = 0
    <3>1. DOMAIN shown \cap {1} = {}
      BY <1>5, <2>1, <2>2
    <3>. QED
      BY <2>2, <3>1
  <2>3. CASE n # 0
    <3>1. DOMAIN shown \cap {1} = {1} /\ shown[1] = order[1]
      BY <1>5, <2>1, <2>3
    <3>. QED
      BY <2>3, <3>1
  <2>. QED
    BY <1>1, <2>2, <2>3
<1>. HIDE DEF value, values
<1>12. SummaryAnswer(fact, {}, field, IF direction = "desc" THEN "max" ELSE "min") =
         {shown[i].row[field] : i \in DOMAIN shown \cap {1}}
  BY <1>8, <1>9, <1>10, <1>11
<1>. QED
  BY <1>6, <1>12 DEF shown, V

GroupOf(R, key, k) == {r \in R : key[r] = k}
SumsOfGroups(R, K, key, field) ==
  SumOf([k \in K |-> SumOf([v \in SummaryOf(GroupOf(R, key, k), field, "sum") |-> v])])
CountsOfGroups(R, K, key, field) ==
  SumOf([k \in K |-> Cardinality(ValuesOfField(GroupOf(R, key, k), field))])
SumIn(R, field) == SumOf([r \in Valued(R, field) |-> r.row[field]])

(* Records in groups: the sums of the groups add up to the sum, their counts  *)
(* of values to no less than the count, and one of them holds the extreme.    *)
LEMMA GroupsOfRecords ==
  ASSUME QueriesFit, NEW R, R \subseteq facts, NEW field,
         NEW K, IsFiniteSet(K), NEW key \in [R -> K]
  PROVE  /\ SumsOfGroups(R, K, key, field) = SumIn(R, field)
         /\ Cardinality(ValuesOfField(R, field)) <= CountsOfGroups(R, K, key, field)
         /\ \A extreme \in {"min", "max"} :
              \A v \in SummaryOf(R, field, extreme) :
                \E r \in R : v \in SummaryOf(GroupOf(R, key, key[r]), field, extreme)
<1>. DEFINE V == Valued(R, field)
            of(k) == {r \in R : key[r] = k}
            value == [r \in V |-> r.row[field]]
            place == [r \in V |-> key[r]]
            own(k) == {r \in V : place[r] = k}
<1>1. /\ V \subseteq R /\ V \subseteq facts /\ IsFiniteSet(V)
      /\ \A r \in V : r.row[field] \in Nat
  BY ValuedIs
<1>2. value \in [V -> Nat] /\ place \in [V -> K]
  BY <1>1
<1>3. \A k : of(k) \subseteq facts /\ of(k) \subseteq R /\ Valued(of(k), field) = own(k)
             /\ own(k) \subseteq V
  BY <1>1 DEF Valued
<1>4. SumOf([k \in K |-> SumOf([v \in SummaryOf(of(k), field, "sum") |-> v])]) = SumOf(value)
  <2>1. SumOf([k \in K |-> Part(value, own(k))]) = SumOf(value)
    <3>. HIDE DEF value, place, V
    <3>. QED
      BY <1>1, <1>2, Grouped
  <2>2. ASSUME NEW k \in K
        PROVE  SumOf([v \in SummaryOf(of(k), field, "sum") |-> v]) = Part(value, own(k))
    <3>1. /\ Part(value, own(k)) \in Nat
          /\ Part(value, {}) = 0
      <4>. HIDE DEF value, own, V
      <4>. QED
        BY <1>1, <1>2, <1>3, Parts
    <3>2. [r \in own(k) |-> value[r]] = [r \in own(k) |-> r.row[field]]
      BY <1>3
    <3>3. Part(value, own(k)) = SumOf([r \in own(k) |-> r.row[field]])
      <4>. HIDE DEF value, own
      <4>. QED
        BY <3>2 DEF Part
    <3>4. CASE own(k) = {}
      <4>1. SummaryOf(of(k), field, "sum") = {}
        <5>. HIDE DEF of, own
        <5>. QED
          BY <1>3, <3>4, SummaryIs
      <4>. HIDE DEF own, value, of
      <4>2. SumOf([v \in {} |-> v]) = 0
        BY SumOfFew
      <4>. QED
        BY <3>1, <3>4, <4>1, <4>2
    <3>5. CASE own(k) # {}
      <4>1. SummaryOf(of(k), field, "sum") = {SumOf([r \in own(k) |-> r.row[field]])}
        <5>. HIDE DEF of, own
        <5>. QED
          BY <1>3, <3>5, SummaryIs
      <4>. HIDE DEF own, value, of
      <4>. DEFINE n == Part(value, own(k))
      <4>2. SummaryOf(of(k), field, "sum") = {n}
        BY <3>3, <4>1
      <4>. HIDE DEF n
      <4>3. n \in Nat
        BY <3>1 DEF n
      <4>4. SumOf([v \in {n} |-> v]) = n
        BY <4>3, SumOfFew
      <4>5. SumOf([v \in SummaryOf(of(k), field, "sum") |-> v]) = n
        BY <4>2, <4>4
      <4>. QED
        BY <4>5 DEF n
    <3>. QED
      BY <3>4, <3>5
  <2>3. [k \in K |-> SumOf([v \in SummaryOf(of(k), field, "sum") |-> v])] =
          [k \in K |-> Part(value, own(k))]
    <3>. HIDE DEF of, own, value
    <3>. QED
      BY <2>2
  <2>. HIDE DEF value, of, own
  <2>. QED
    BY <2>1, <2>3
<1>5. Cardinality(ValuesOfField(R, field)) <=
        SumOf([k \in K |-> Cardinality(ValuesOfField(of(k), field))])
  <2>. DEFINE U == ValuesOfField(R, field)
              F == [k \in K |-> ValuesOfField(of(k), field)]
  <2>1. IsFiniteSet(U)
    BY ValuedIs
  <2>2. \A k : ValuesOfField(of(k), field) = {r.row[field] : r \in own(k)}
    <3>. HIDE DEF of, own
    <3>. QED
      BY <1>3 DEF ValuesOfField
  <2>3. U = {r.row[field] : r \in V}
    BY DEF ValuesOfField
  <2>4. \A k : ValuesOfField(of(k), field) \subseteq U
    <3>1. \A k : own(k) \subseteq V
      BY <1>3
    <3>. HIDE DEF of, own, U, V
    <3>. QED
      BY <2>2, <2>3, <3>1
  <2>5. \A u \in U : \E k \in K : u \in ValuesOfField(of(k), field)
    <3>. HIDE DEF of, U
    <3>. SUFFICES ASSUME NEW u \in U PROVE \E k \in K : u \in ValuesOfField(of(k), field)
      OBVIOUS
    <3>1. PICK r \in V : u = r.row[field]
      BY <2>3
    <3>2. r \in own(place[r]) /\ place[r] \in K
      BY <1>2
    <3>. HIDE DEF own, place
    <3>. QED
      BY <2>2, <3>1, <3>2
  <2>6. F \in [K -> SUBSET U] /\ \A k \in K : F[k] = ValuesOfField(of(k), field)
    <3>. HIDE DEF of, U
    <3>. QED
      BY <2>4
  <2>7. UNION {F[k] : k \in K} = U
    <3>. HIDE DEF of, U, F
    <3>. QED
      BY <2>4, <2>5, <2>6
  <2>8. [k \in K |-> Cardinality(F[k])] = [k \in K |-> Cardinality(ValuesOfField(of(k), field))]
    <3>. HIDE DEF of, F
    <3>. QED
      BY <2>6
  <2>. HIDE DEF F, U, of
  <2>9. Cardinality(UNION {F[k] : k \in K}) <= SumOf([k \in K |-> Cardinality(F[k])])
    BY <2>1, <2>6, TogetherFewer
  <2>. QED
    BY <2>7, <2>8, <2>9 DEF U
<1>6. ASSUME NEW extreme \in {"min", "max"}, NEW v \in SummaryOf(R, field, extreme)
      PROVE  \E r \in R : v \in SummaryOf(of(key[r]), field, extreme)
  <2>. DEFINE U == ValuesOfField(R, field)
  <2>1. V # {} /\ v = IF extreme = "max" THEN Max(U) ELSE Min(U)
    BY SummaryIs
  <2>2. IsFiniteSet(U) /\ U \subseteq Nat /\ U # {} /\ U = {r.row[field] : r \in V}
    BY <2>1, ValuedIs DEF ValuesOfField
  <2>. HIDE DEF U
  <2>3. /\ v \in U
        /\ \A y \in U : IF extreme = "max" THEN y <= v ELSE v <= y
    BY <2>1, <2>2, FiniteExtremes
  <2>4. PICK r \in V : v = r.row[field]
    BY <2>2, <2>3
  <2>5. r \in own(key[r]) /\ r \in R
    BY <1>1
  <2>. DEFINE W == ValuesOfField(of(key[r]), field)
  <2>6. W = {s.row[field] : s \in own(key[r])}
    <3>. HIDE DEF of, own
    <3>. QED
      BY <1>3 DEF ValuesOfField
  <2>7. v \in W /\ W \subseteq U
    <3>1. own(key[r]) \subseteq V
      OBVIOUS
    <3>. HIDE DEF W, own, V
    <3>. QED
      BY <2>2, <2>4, <2>5, <2>6, <3>1
  <2>8. v = IF extreme = "max" THEN Max(W) ELSE Min(W)
    <3>. HIDE DEF W
    <3>. QED
      BY <2>2, <2>3, <2>7, GreatestIs
  <2>9. SummaryOf(of(key[r]), field, extreme) = {IF extreme = "max" THEN Max(W) ELSE Min(W)}
    <3>1. Valued(of(key[r]), field) # {}
      <4>. HIDE DEF of, own
      <4>. QED
        BY <1>3, <2>5
    <3>. HIDE DEF of
    <3>. QED
      BY <3>1, SummaryIs
  <2>. HIDE DEF of, W
  <2>. QED
    BY <2>5, <2>8, <2>9
<1>7. \A k : of(k) = GroupOf(R, key, k)
  BY DEF GroupOf
<1>8. SumsOfGroups(R, K, key, field) =
        SumOf([k \in K |-> SumOf([v \in SummaryOf(of(k), field, "sum") |-> v])])
  BY DEF SumsOfGroups, GroupOf
<1>9. CountsOfGroups(R, K, key, field) =
        SumOf([k \in K |-> Cardinality(ValuesOfField(of(k), field))])
  BY DEF CountsOfGroups, GroupOf
<1>. HIDE DEF of
<1>. QED
  BY <1>4, <1>5, <1>6, <1>7, <1>8, <1>9 DEF SumIn

LEMMA SummaryOfValued ==
  ASSUME QueriesFit, NEW R, R \subseteq facts, NEW field, NEW aggregation
  PROVE  SummaryOf(Valued(R, field), field, aggregation) = SummaryOf(R, field, aggregation)
<1>1. Valued(Valued(R, field), field) = Valued(R, field)
  BY ValuedIs
<1>. QED
  BY <1>1 DEF SummaryOf

LEMMA SummariesHold == QueriesFit => SummariesAddUp
<1>. SUFFICES ASSUME QueriesFit, NEW fact \in FactCatalog, NEW field, NEW group,
                     \A r \in Valued(FactPredicates(fact), field) : Has(r, group)
              PROVE  LET groups(aggregation) == SummaryBy(fact, {}, field, aggregation, group)
                         whole(aggregation) == SummaryAnswer(fact, {}, field, aggregation)
                     IN  IF whole("sum") = {} THEN DOMAIN groups("sum") = {}
                         ELSE /\ whole("sum") = {TotalOfGroups(groups("sum"))}
                              /\ \A extreme \in {"min", "max"} :
                                   whole(extreme) \subseteq UNION Range(groups(extreme))
  BY Zenon DEF SummariesAddUp
<1>. DEFINE records == FactPredicates(fact)
            V == Valued(records, field)
            K == {r.row[group] : r \in V}
            key == [r \in V |-> r.row[group]]
            of(k) == {r \in V : key[r] = k}
            groups(aggregation) == SummaryBy(fact, {}, field, aggregation, group)
            whole(aggregation) == SummaryAnswer(fact, {}, field, aggregation)
<1>1. Passing(records, {}) = records /\ records \subseteq facts
  BY PassingNone, SelectedAre
<1>2. V \subseteq facts /\ IsFiniteSet(V) /\ Valued(V, field) = V /\ Valued(V, group) = V
  <2>1. Valued(V, group) = V
    BY DEF Valued
  <2>. HIDE DEF records
  <2>. QED
    BY <1>1, <2>1, ValuedIs
<1>3. IsFiniteSet(K) /\ key \in [V -> K]
  <2>1. K = {key[r] : r \in V} /\ DOMAIN key = V /\ key \in [V -> K]
    OBVIOUS
  <2>. HIDE DEF K, key, V
  <2>. QED
    BY <1>2, <2>1, ImageFinite
<1>4. /\ SumsOfGroups(V, K, key, field) = SumOf([r \in V |-> r.row[field]])
      /\ \A extreme \in {"min", "max"} :
           \A v \in SummaryOf(V, field, extreme) :
             \E r \in V : v \in SummaryOf(of(key[r]), field, extreme)
  <2>1. SumIn(V, field) = SumOf([r \in V |-> r.row[field]])
    BY <1>2 DEF SumIn
  <2>2. \A k : of(k) = GroupOf(V, key, k)
    BY DEF GroupOf
  <2>. HIDE DEF V, K, key, of
  <2>3. /\ SumsOfGroups(V, K, key, field) = SumIn(V, field)
        /\ \A extreme \in {"min", "max"} :
             \A v \in SummaryOf(V, field, extreme) :
               \E r \in V : v \in SummaryOf(GroupOf(V, key, key[r]), field, extreme)
    BY <1>2, <1>3, GroupsOfRecords
  <2>. QED
    BY <2>1, <2>2, <2>3
<1>5. \A aggregation : groups(aggregation) = [k \in K |-> SummaryOf(of(k), field, aggregation)]
  <2>1. \A k : {r \in V : r.row[group] = k} = of(k)
    OBVIOUS
  <2>2. \A aggregation :
          groups(aggregation) =
            [k \in K |-> SummaryOf({r \in V : r.row[group] = k}, field, aggregation)]
    BY <1>1, <1>2 DEF SummaryBy
  <2>. HIDE DEF groups, K, V, of
  <2>. QED
    BY <2>1, <2>2
<1>6. \A aggregation : whole(aggregation) = SummaryOf(V, field, aggregation)
  <2>1. \A aggregation : SummaryOf(V, field, aggregation) = SummaryOf(records, field, aggregation)
    <3>. HIDE DEF records
    <3>. QED
      BY <1>1, SummaryOfValued
  <2>. QED
    BY <1>1, <2>1 DEF SummaryAnswer
<1>. HIDE DEF V, key, K, groups, whole
<1>7. CASE V = {}
  <2>1. whole("sum") = {} /\ K = {}
    BY <1>2, <1>6, <1>7, SummaryIs DEF K
  <2>. QED
    BY <1>5, <2>1 DEF groups, whole
<1>8. CASE V # {}
  <2>1. whole("sum") = {SumOf([r \in V |-> r.row[field]])}
    BY <1>2, <1>6, <1>8, SummaryIs
  <2>2. TotalOfGroups(groups("sum")) = SumsOfGroups(V, K, key, field)
    <3>. DEFINE G == [k \in K |-> SummaryOf(of(k), field, "sum")]
    <3>1. G = groups("sum") /\ DOMAIN G = K
      BY <1>5
    <3>2. [k \in DOMAIN G |-> SumOf([v \in G[k] |-> v])] =
            [k \in K |-> SumOf([v \in SummaryOf(of(k), field, "sum") |-> v])]
      <4>. HIDE DEF of
      <4>. QED
        OBVIOUS
    <3>3. SumsOfGroups(V, K, key, field) =
            SumOf([k \in K |-> SumOf([v \in SummaryOf(of(k), field, "sum") |-> v])])
      BY DEF SumsOfGroups, GroupOf
    <3>. HIDE DEF G
    <3>. QED
      BY <3>1, <3>2, <3>3 DEF TotalOfGroups
  <2>3. ASSUME NEW extreme \in {"min", "max"}, NEW v \in whole(extreme)
        PROVE  v \in UNION Range(groups(extreme))
    <3>1. PICK r \in V : v \in SummaryOf(of(key[r]), field, extreme)
      <4>. HIDE DEF of
      <4>. QED
        BY <1>4, <1>6, <2>3
    <3>2. key[r] \in K
      BY <1>3
    <3>. HIDE DEF of
    <3>. QED
      BY <1>5, <3>1, <3>2 DEF Range
  <2>. HIDE DEF of
  <2>. QED
    BY <1>4, <2>1, <2>2, <2>3 DEF groups, whole
<1>. QED
  BY <1>7, <1>8

(* A fact set that compiles for an entry of the catalog selects its records. *)
LEMMA CompiledIs ==
  ASSUME QueriesFit, NEW fact \in FactCatalog, NEW f \in CompiledFactSets(fact)
  PROVE  /\ Matching(f) = FactPredicates(fact)
         /\ Matching(f) \subseteq facts
<1>1. PICK s \in ScopedRecords : fact = FactIdentity(s.origin)
  BY CatalogEntry
<1>2. f \in factSets /\ fact.governance = "published" /\ <<f.code>> = fact.code
      /\ f.version = fact.version
  BY DEF CompiledFactSets
<1>3. fact # DerivedFactSet(s.origin)
  BY <1>2 DEF DerivedFactSet
<1>4. PICK g \in factSets : fact = GovernedFactSet(g)
  BY <1>1, <1>3, IdentityIs
<1>5. f.code = g.code /\ f.version = g.version
  BY <1>2, <1>4 DEF GovernedFactSet
<1>6. fact.type = f.type /\ fact.rule = f.rule
  BY <1>2, <1>4, <1>5, OneVersion DEF GovernedFactSet
<1>. QED
  BY <1>6, SelectedAre DEF Matching, FactPredicates

LEMMA SafeCountsHold ==
  ASSUME QueriesFit, NEW fact \in FactCatalog, NEW f \in CompiledFactSets(fact), NEW filters
  PROVE  SafeCount(f, filters) <= Count(fact, filters)
<1>. DEFINE R == Passing(Matching(f), filters)
            S == {p \in R : \A field \in f.identity : Has(p, field)}
            image == [r \in S |-> Identified(r, f.identity)]
<1>1. Count(fact, filters) = Cardinality(R) /\ R \subseteq facts
  BY CompiledIs, SelectedAre DEF Count
<1>2. SafeCount(f, filters) = Cardinality({image[r] : r \in S})
  <2>1. {image[r] : r \in S} = {Identified(r, f.identity) : r \in S}
    OBVIOUS
  <2>. QED
    BY <2>1 DEF SafeCount
<1>3. IsFiniteSet(R) /\ Cardinality(R) \in Nat
  <2>. HIDE DEF R
  <2>. QED
    BY <1>1, SelectedFinite
<1>4. IsFiniteSet(S) /\ Cardinality(S) \in Nat /\ Cardinality(S) <= Cardinality(R)
  <2>1. S \subseteq R
    OBVIOUS
  <2>. HIDE DEF R, S
  <2>. QED
    BY <1>3, <2>1, FS_Subset, FS_CardinalityType
<1>5. IsFiniteSet({image[r] : r \in S}) /\ Cardinality({image[r] : r \in S}) <= Cardinality(S)
  <2>1. S \subseteq DOMAIN image
    OBVIOUS
  <2>. HIDE DEF S, image
  <2>. QED
    BY <1>4, <2>1, ImageFinite
<1>. DEFINE n == Cardinality({image[r] : r \in S})
<1>6. n \in Nat
  BY <1>5, FS_CardinalityType
<1>. HIDE DEF n, R, S
<1>. QED
  BY <1>1, <1>2, <1>3, <1>4, <1>5, <1>6 DEF n

IdentitiesOfField(R, field) == {Identified(r, {field}) : r \in Valued(R, field)}

(* Values of a field and identities of that field alone are as many. *)
LEMMA OneFieldIdentities ==
  ASSUME QueriesFit, NEW R, R \subseteq facts, NEW field
  PROVE  Cardinality(IdentitiesOfField(R, field)) = Cardinality(ValuesOfField(R, field))
<1>. DEFINE V == Valued(R, field)
            W == ValuesOfField(R, field)
            I == IdentitiesOfField(R, field)
            up == [w \in W |-> [y \in {field} |-> w]]
            down == [t \in I |-> t[field]]
<1>1. IsFiniteSet(W)
  BY ValuedIs
<1>2. /\ \A r \in V : r.row[field] \in W /\ Identified(r, {field}) \in I
      /\ \A w \in W : \E r \in V : w = r.row[field]
      /\ \A i \in I : \E r \in V : i = Identified(r, {field})
  BY DEF ValuesOfField, IdentitiesOfField
<1>3. \A r \in V : Identified(r, {field}) = [y \in {field} |-> r.row[field]]
  BY DEF Identified
<1>4. /\ \A r \in V : up[r.row[field]] = Identified(r, {field})
      /\ W \subseteq DOMAIN up
  BY <1>2, <1>3
<1>5. /\ \A r \in V : down[Identified(r, {field})] = r.row[field]
      /\ I \subseteq DOMAIN down
  BY <1>2, <1>3
<1>. HIDE DEF V, W, I, up, down
<1>6. I \subseteq {up[w] : w \in W} /\ {up[w] : w \in W} \subseteq I
  <2>1. ASSUME NEW i \in I PROVE i \in {up[w] : w \in W}
    <3>1. PICK r \in V : i = Identified(r, {field})
      BY <1>2
    <3>. QED
      BY <1>2, <1>4, <3>1
  <2>2. ASSUME NEW w \in W PROVE up[w] \in I
    BY <1>2, <1>4
  <2>. QED
    BY <2>1, <2>2
<1>7. W \subseteq {down[t] : t \in I} /\ {down[t] : t \in I} \subseteq W
  <2>1. ASSUME NEW w \in W PROVE w \in {down[t] : t \in I}
    <3>1. PICK r \in V : w = r.row[field]
      BY <1>2
    <3>. QED
      BY <1>2, <1>5, <3>1
  <2>2. ASSUME NEW t \in I PROVE down[t] \in W
    BY <1>2, <1>5
  <2>. QED
    BY <2>1, <2>2
<1>8. {up[w] : w \in W} = I /\ {down[t] : t \in I} = W
  BY <1>6, <1>7
<1>9. IsFiniteSet(I) /\ Cardinality(I) <= Cardinality(W)
  <2>1. /\ IsFiniteSet({up[w] : w \in W})
        /\ Cardinality({up[w] : w \in W}) <= Cardinality(W)
    BY <1>1, <1>4, ImageFinite
  <2>. QED
    BY <1>8, <2>1
<1>10. Cardinality(W) <= Cardinality(I)
  <2>1. Cardinality({down[t] : t \in I}) <= Cardinality(I)
    BY <1>5, <1>9, ImageFinite
  <2>. QED
    BY <1>8, <2>1
<1>11. Cardinality(W) \in Nat /\ Cardinality(I) \in Nat
  BY <1>1, <1>9, FS_CardinalityType
<1>12. Cardinality(I) = Cardinality(W)
  BY <1>9, <1>10, <1>11
<1>. QED
  BY <1>12 DEF I, W

LEMMA AggregatesHold ==
  ASSUME QueriesFit, NEW fact \in FactCatalog, NEW f \in CompiledFactSets(fact), NEW filters,
         NEW plan, NEW field, plan.measure = {field}
  PROVE  AggregateAgrees(plan, fact, f, filters)
<1>. DEFINE R == Passing(Matching(f), filters)
<1>1. R = Passing(FactPredicates(fact), filters) /\ R \subseteq facts
  BY CompiledIs, SelectedAre
<1>2. Measure(plan) = field
  BY DEF Measure
<1>3. CASE plan.aggregation # "count"
  BY <1>1, <1>2, <1>3 DEF AggregateAgrees, SafeSummary, SummaryAnswer
<1>4. ASSUME plan.aggregation = "count", f.identity = {field}
      PROVE  SafeSummary(R, field, "count") = {SafeCount(f, filters)}
  <2>1. Valued(R, field) = {p \in R : \A x \in f.identity : Has(p, x)}
    BY <1>4 DEF Valued
  <2>2. SafeCount(f, filters) = Cardinality(IdentitiesOfField(R, field))
    BY <1>4, <2>1 DEF SafeCount, IdentitiesOfField
  <2>3. SafeSummary(R, field, "count") = {Cardinality(ValuesOfField(R, field))}
    BY DEF SafeSummary, ValuesOfField
  <2>. HIDE DEF R
  <2>. QED
    BY <1>1, <2>2, <2>3, OneFieldIdentities
<1>. HIDE DEF R
<1>5. CASE plan.aggregation = "count"
  BY <1>2, <1>4, <1>5 DEF AggregateAgrees, R
<1>. QED
  BY <1>3, <1>5

LEMMA OneOf == \A n \in Nat : Max({n}) = n
<1>. SUFFICES ASSUME NEW n \in Nat PROVE Max({n}) = n
  OBVIOUS
<1>. QED
  BY GreatestIs

LEMMA GroupedPlansHold ==
  ASSUME QueriesFit, NEW fact \in FactCatalog, NEW f \in CompiledFactSets(fact), NEW filters,
         NEW manifest, NEW offered, NEW plan, Compiles(plan, offered, f, manifest),
         plan.operation = "group_by", NEW field, plan.measure = {field},
         plan.aggregation \in Summaries \cup {"count"}
  PROVE  GroupsAgree(plan, f, manifest, filters)
<1>. DEFINE all == Passing(Matching(f), filters)
            R == {r \in all : plan.groupBy \cup {field} \subseteq DOMAIN r.row}
            K == {Identified(r, plan.groupBy) : r \in R}
            key == [r \in R |-> Identified(r, plan.groupBy)]
            groups == SafeGroups(f, filters, field, plan.aggregation, plan.groupBy)
            records == Valued(all, field)
            whole == SafeSummary(records, field, plan.aggregation)
            covered == \A r \in records : plan.groupBy \subseteq DOMAIN r.row
<1>1. Measure(plan) = field
  BY DEF Measure
<1>2. plan.aggregation # "count" => plan.measure \subseteq manifest.additive
  BY DEF Compiles, GroupedDistinctCount
<1>3. all \subseteq facts /\ R \subseteq facts
  BY CompiledIs, SelectedAre
<1>4. IsFiniteSet(K) /\ key \in [R -> K] /\ K = {key[r] : r \in R}
  <2>1. K = {key[r] : r \in R} /\ DOMAIN key = R /\ key \in [R -> K]
    OBVIOUS
  <2>2. IsFiniteSet(R)
    <3>. HIDE DEF R
    <3>. QED
      BY <1>3, SelectedFinite
  <2>. HIDE DEF K, key, R
  <2>. QED
    BY <2>1, <2>2, ImageFinite
<1>5. groups = [k \in K |-> SafeSummary(GroupOf(R, key, k), field, plan.aggregation)]
  <2>1. \A k : GroupOf(R, key, k) = {r \in R : Identified(r, plan.groupBy) = k}
    BY DEF GroupOf
  <2>2. groups =
          [k \in K |-> SafeSummary({r \in R : Identified(r, plan.groupBy) = k}, field,
                                   plan.aggregation)]
    BY DEF SafeGroups
  <2>. HIDE DEF groups, K, R, key
  <2>. QED
    BY <2>1, <2>2
<1>6. ASSUME covered PROVE Valued(R, field) = records
  BY <1>6 DEF Valued, Has
<1>7. /\ records \subseteq facts /\ Valued(records, field) = records
      /\ ValuesOfField(records, field) = ValuesOfField(all, field)
  <2>. HIDE DEF all
  <2>1. Valued(all, field) \subseteq all /\ Valued(Valued(all, field), field) = Valued(all, field)
    BY <1>3, ValuedIs
  <2>. QED
    BY <1>3, <2>1 DEF ValuesOfField
<1>8. /\ SumsOfGroups(R, K, key, field) = SumIn(R, field)
      /\ Cardinality(ValuesOfField(R, field)) <= CountsOfGroups(R, K, key, field)
      /\ \A extreme \in {"min", "max"} :
           \A v \in SummaryOf(R, field, extreme) :
             \E r \in R : v \in SummaryOf(GroupOf(R, key, key[r]), field, extreme)
  <2>. HIDE DEF R, K, key
  <2>. QED
    BY <1>3, <1>4, GroupsOfRecords
<1>9. \A k : GroupOf(R, key, k) \subseteq facts
  BY <1>3 DEF GroupOf
<1>. HIDE DEF all, R, K, key, groups
<1>10. ASSUME covered, plan.aggregation = "sum", whole # {}
       PROVE  whole = {TotalOfGroups(groups)}
  <2>1. Valued(R, field) = records
    BY <1>6, <1>10
  <2>2. whole = SummaryOf(records, field, "sum") /\ records # {}
    BY <1>7, <1>10, SummaryIs DEF SafeSummary
  <2>3. whole = {SumOf([r \in Valued(records, field) |-> r.row[field]])}
    <3>. HIDE DEF records, whole
    <3>. QED
      BY <1>7, <2>2, SummaryIs
  <2>4. whole = {SumIn(R, field)}
    <3>1. Valued(records, field) = Valued(R, field)
      BY <1>7, <2>1
    <3>. HIDE DEF records, whole
    <3>. QED
      BY <2>3, <3>1 DEF SumIn
  <2>5. groups = [k \in K |-> SummaryOf(GroupOf(R, key, k), field, "sum")]
    BY <1>5, <1>10 DEF SafeSummary
  <2>6. TotalOfGroups(groups) = SumsOfGroups(R, K, key, field)
    <3>1. DOMAIN groups = K
      BY <2>5
    <3>2. [k \in DOMAIN groups |-> SumOf([v \in groups[k] |-> v])] =
            [k \in K |-> SumOf([v \in SummaryOf(GroupOf(R, key, k), field, "sum") |-> v])]
      BY <2>5, <3>1
    <3>. QED
      BY <3>2 DEF TotalOfGroups, SumsOfGroups
  <2>. QED
    BY <1>8, <2>4, <2>6
<1>11. ASSUME covered, plan.aggregation = "count"
       PROVE  Max(whole) <= TotalOfGroups(groups)
  <2>. DEFINE n(k) == Cardinality(ValuesOfField(GroupOf(R, key, k), field))
              m == Cardinality(ValuesOfField(records, field))
  <2>1. whole = {m}
    BY <1>11 DEF SafeSummary, ValuesOfField
  <2>2. m \in Nat
    <3>. HIDE DEF records
    <3>. QED
      BY <1>7, ValuedIs, FS_CardinalityType
  <2>3. m = Cardinality(ValuesOfField(R, field))
    BY <1>6, <1>7, <1>11 DEF ValuesOfField
  <2>4. groups = [k \in K |-> {n(k)}]
    BY <1>5, <1>11 DEF SafeSummary, ValuesOfField
  <2>5. \A k : n(k) \in Nat
    BY <1>9, ValuedIs, FS_CardinalityType
  <2>. HIDE DEF n, m
  <2>6. TotalOfGroups(groups) = SumOf([k \in K |-> n(k)])
    <3>1. DOMAIN groups = K
      BY <2>4
    <3>2. \A k \in K : SumOf([v \in groups[k] |-> v]) = n(k)
      <4>1. \A k \in K : groups[k] = {n(k)}
        BY <2>4
      <4>2. \A k \in K : SumOf([v \in {n(k)} |-> v]) = n(k)
        BY <2>5, SumOfFew
      <4>. QED
        BY <4>1, <4>2
    <3>3. [k \in DOMAIN groups |-> SumOf([v \in groups[k] |-> v])] = [k \in K |-> n(k)]
      BY <3>1, <3>2
    <3>. QED
      BY <3>3 DEF TotalOfGroups
  <2>7. TotalOfGroups(groups) = CountsOfGroups(R, K, key, field)
    BY <2>6 DEF CountsOfGroups, n
  <2>8. Max(whole) = m
    BY <2>1, <2>2, OneOf
  <2>. QED
    BY <1>8, <2>3, <2>7, <2>8
<1>12. ASSUME covered, NEW extreme \in {"min", "max"}, plan.aggregation = extreme,
              NEW v \in whole
       PROVE  v \in UNION Range(groups)
  <2>1. Valued(R, field) = records
    BY <1>6, <1>12
  <2>2. whole = SummaryOf(records, field, extreme)
    BY <1>12 DEF SafeSummary
  <2>3. SummaryOf(records, field, extreme) = SummaryOf(R, field, extreme)
    BY <1>3, <2>1, SummaryOfValued
  <2>4. PICK r \in R : v \in SummaryOf(GroupOf(R, key, key[r]), field, extreme)
    BY <1>8, <1>12, <2>2, <2>3
  <2>5. key[r] \in K /\ groups[key[r]] = SummaryOf(GroupOf(R, key, key[r]), field, extreme)
    BY <1>4, <1>5, <1>12 DEF SafeSummary
  <2>. QED
    BY <1>5, <2>4, <2>5 DEF Range
<1>13. covered /\ whole # {} =>
          CASE plan.aggregation = "sum" -> whole = {TotalOfGroups(groups)}
            [] plan.aggregation = "count" -> Max(whole) <= TotalOfGroups(groups)
            [] OTHER -> whole \subseteq UNION Range(groups)
  <2>. HIDE DEF whole, covered
  <2>. QED
    BY <1>10, <1>11, <1>12 DEF Summaries
<1>. QED
  BY <1>1, <1>2, <1>13 DEF GroupsAgree, all, groups

LEMMA ContractsHold == QueriesFit => ContractsAgreeWithCatalog
<1>. SUFFICES ASSUME QueriesFit, NEW fact \in FactCatalog, NEW f \in CompiledFactSets(fact),
                     NEW m \in ManifestsOf(f), NEW plan \in SafePlans,
                     Compiles(plan, FieldCodes(fact.code), f, m)
              PROVE  LET filters == {[field |-> x, value |-> 1] : x \in plan.filters}
                     IN  CASE plan.operation = "count" ->
                                SafeCount(f, filters) <= Count(fact, filters)
                           [] plan.operation = "lookup" ->
                                SafeLists(f, filters, 1) = Lists(fact, filters, 1)
                           [] plan.operation = "list" ->
                                SafeLists(f, filters, MaxRecords) = Lists(fact, filters, MaxRecords)
                           [] plan.operation = "aggregate" ->
                                AggregateAgrees(plan, fact, f, filters)
                           [] plan.operation = "group_by" -> GroupsAgree(plan, f, m, filters)
  BY ZenonT(60) DEF ContractsAgreeWithCatalog
<1>. DEFINE filters == {[field |-> x, value |-> 1] : x \in plan.filters}
<1>. HIDE DEF filters
<1>1. SafeCount(f, filters) <= Count(fact, filters)
  BY SafeCountsHold
<1>2. \A limit : SafeLists(f, filters, limit) = Lists(fact, filters, limit)
  BY CompiledIs DEF SafeLists, Lists
<1>3. ASSUME plan.operation \in {"aggregate", "group_by"}
      PROVE  /\ \E field : plan.measure = {field}
             /\ plan.aggregation \in Summaries \cup {"count"}
  BY <1>3 DEF SafePlans
<1>4. ASSUME plan.operation = "aggregate" PROVE AggregateAgrees(plan, fact, f, filters)
  BY <1>3, <1>4, AggregatesHold
<1>5. ASSUME plan.operation = "group_by" PROVE GroupsAgree(plan, f, m, filters)
  BY <1>3, <1>5, GroupedPlansHold
<1>6. plan.operation \in {"count", "lookup", "list", "aggregate", "group_by"}
  BY DEF SafePlans
<1>. QED
  BY <1>1, <1>2, <1>4, <1>5, <1>6 DEF filters

-----------------------------------------------------------------------------
(* Looking up the source.  The record asked about is one the upload may hold. *)

SourceFits == sourceRecord \in SourceRecords \cup {Blank}

LEMMA SourceStart == SourceInit => SourceFits
  BY DEF SourceInit, SourceFits

LEMMA SourceStep == SourceFits /\ [SourceNext]_sourceRecord => SourceFits'
  BY DEF SourceNext, SourceFits

LEMMA SequenceOf ==
  ASSUME NEW n \in Nat, NEW S, NEW f \in [1..n -> S]
  PROVE  f \in Seq(S) /\ Len(f) = n
  OBVIOUS

(* The columns of a record are counted up, and those indexed are among them. *)
LEMMA ColumnsAre ==
  ASSUME SourceFits
  PROVE  /\ IsFiniteSet(DOMAIN sourceRecord.columns) /\ DOMAIN sourceRecord.columns \subseteq Nat
         /\ sourceRecord.indexed \subseteq DOMAIN sourceRecord.columns
         /\ \A i \in DOMAIN sourceRecord.columns : sourceRecord.columns[i].text \in Texts
<1>1. CASE sourceRecord = Blank
  <2>1. sourceRecord.columns = <<>> /\ sourceRecord.indexed = {}
    BY <1>1 DEF Blank
  <2>2. DOMAIN sourceRecord.columns = {}
    BY <2>1
  <2>. QED
    BY <2>1, <2>2, FS_EmptySet
<1>2. ASSUME sourceRecord \in SourceRecords
      PROVE  /\ IsFiniteSet(DOMAIN sourceRecord.columns)
             /\ DOMAIN sourceRecord.columns \subseteq Nat
             /\ sourceRecord.indexed \subseteq DOMAIN sourceRecord.columns
             /\ \A i \in DOMAIN sourceRecord.columns : sourceRecord.columns[i].text \in Texts
  <2>1. PICK n \in 1..2 :
          sourceRecord \in [columns : [1 .. n -> [header : SourceHeaders, text : Texts]],
                            indexed : SUBSET (1 .. n)]
    BY <1>2 DEF SourceRecords
  <2>2. DOMAIN sourceRecord.columns = 1..n /\ sourceRecord.indexed \subseteq 1..n
        /\ \A i \in 1..n : sourceRecord.columns[i].text \in Texts
    <3>. HIDE DEF Texts
    <3>. QED
      BY <2>1
  <2>3. IsFiniteSet(1..n)
    BY FS_Interval
  <2>. QED
    BY <2>2, <2>3
<1>. QED
  BY <1>1, <1>2 DEF SourceFits

LEMMA TextIs ==
  ASSUME NEW text \in Texts
  PROVE  /\ text \in Seq({"a", "A", "-"})
         /\ IsFiniteSet(DOMAIN text) /\ DOMAIN text \subseteq Nat
<1>1. PICK m \in 0..TextLength : text \in [1..m -> {"a", "A", "-"}]
  BY DEF Texts, SeqOf
<1>2. m \in Nat /\ DOMAIN text = 1..m
  BY <1>1, ProbeBounds
<1>3. IsFiniteSet(1..m)
  BY <1>2, FS_Interval
<1>. QED
  BY <1>1, <1>2, <1>3, SequenceOf

(* Places in their order: every one of them has its turn. *)
LEMMA InOrderIs ==
  ASSUME NEW places, IsFiniteSet(places), places \subseteq Nat
  PROVE  /\ Cardinality(places) \in Nat
         /\ DOMAIN InOrder(places) = 1..Cardinality(places)
         /\ \A i \in places : \E k \in DOMAIN InOrder(places) : InOrder(places)[k] = i
<1>. DEFINE upTo(i) == {j \in places : j <= i}
            turn(i) == Cardinality(upTo(i))
<1>1. Cardinality(places) \in Nat
  BY FS_CardinalityType
<1>2. InOrder(places) =
        [k \in 1..Cardinality(places) |-> CHOOSE i \in places : turn(i) = k]
  BY DEF InOrder
<1>3. \A i \in places : IsFiniteSet(upTo(i)) /\ turn(i) \in 1..Cardinality(places)
  <2>. SUFFICES ASSUME NEW i \in places
                PROVE  IsFiniteSet(upTo(i)) /\ turn(i) \in 1..Cardinality(places)
    OBVIOUS
  <2>1. upTo(i) \subseteq places /\ i \in upTo(i)
    OBVIOUS
  <2>. HIDE DEF upTo
  <2>2. IsFiniteSet(upTo(i)) /\ turn(i) <= Cardinality(places) /\ turn(i) \in Nat
    BY <2>1, FS_Subset, FS_CardinalityType
  <2>3. turn(i) # 0
    BY <2>1, <2>2, FS_EmptySet
  <2>. QED
    BY <1>1, <2>2, <2>3
<1>4. ASSUME NEW i \in places, NEW j \in places, i < j PROVE turn(i) < turn(j)
  <2>1. upTo(i) \subseteq upTo(j) /\ upTo(i) # upTo(j)
    <3>1. ASSUME NEW x \in upTo(i) PROVE x \in upTo(j)
      <4>1. x \in Nat /\ i \in Nat /\ j \in Nat /\ x <= i /\ x \in places
        OBVIOUS
      <4>2. x <= j
        BY <1>4, <4>1
      <4>. QED
        BY <4>1, <4>2
    <3>2. j \in upTo(j) /\ j \notin upTo(i)
      BY <1>4
    <3>. HIDE DEF upTo
    <3>. QED
      BY <3>1, <3>2
  <2>. HIDE DEF upTo
  <2>2. Cardinality(upTo(i)) < Cardinality(upTo(j))
    BY <1>3, <2>1, FS_Subset
  <2>. QED
    BY <2>2
<1>5. ASSUME NEW i \in places PROVE \E k \in DOMAIN InOrder(places) : InOrder(places)[k] = i
  <2>. HIDE DEF turn
  <2>1. ASSUME NEW j \in places, turn(j) = turn(i) PROVE j = i
    <3>. HIDE DEF upTo
    <3>0. turn(i) \in 1..Cardinality(places)
      BY <1>3
    <3>1. i \in Nat /\ j \in Nat /\ turn(i) \in Nat
      BY <1>1, <3>0
    <3>2. ~(i < j) /\ ~(j < i)
      BY <1>4, <2>1, <3>1
    <3>. QED
      BY <3>1, <3>2
  <2>2. (CHOOSE j \in places : turn(j) = turn(i)) = i
    BY <2>1
  <2>. QED
    BY <1>2, <1>3, <2>2
<1>. QED
  BY <1>1, <1>2, <1>5

LEMMA NormalizedIs ==
  ASSUME NEW text \in Texts
  PROVE  \E S : NormalizedText(text) \in Seq(S)
<1>. DEFINE places == {i \in DOMAIN text : text[i] # "-"}
            kept == InOrder(places)
            n == Cardinality(places)
            S == {Fold(text[kept[k]]) : k \in 1..n}
<1>1. IsFiniteSet(places) /\ places \subseteq Nat
  <2>1. places \subseteq DOMAIN text
    OBVIOUS
  <2>. HIDE DEF places
  <2>. QED
    BY <2>1, TextIs, FS_Subset
<1>. HIDE DEF places
<1>2. n \in Nat /\ DOMAIN kept = 1..n
  BY <1>1, InOrderIs
<1>3. NormalizedText(text) = [k \in 1..n |-> Fold(text[kept[k]])]
  BY <1>2 DEF NormalizedText, places
<1>4. NormalizedText(text) \in [1..n -> S]
  BY <1>3
<1>. HIDE DEF n, S
<1>. QED
  BY <1>2, <1>4, SequenceOf

LEMMA OccursInItself ==
  ASSUME NEW S, NEW text \in Seq(S)
  PROVE  Occurs(text, text)
<1>1. SubSeq(text, 1, Len(text)) = text /\ Len(text) \in Nat
  OBVIOUS
<1>2. text = SubSeq(text, 0 + 1, 0 + Len(text)) /\ 0 \in 0..Len(text) - Len(text)
  BY <1>1
<1>. QED
  BY <1>2 DEF Occurs

(* Where a text occurs, so does its end. *)
LEMMA EndOccurs ==
  ASSUME NEW A, NEW part \in Seq(A), NEW B, NEW text \in Seq(B), Occurs(part, text),
         NEW n \in Nat \ {0}, Len(part) > n
  PROVE  Occurs(SubSeq(part, Len(part) - n + 1, Len(part)), text)
<1>1. PICK from \in 0..Len(text) - Len(part) :
        part = SubSeq(text, from + 1, from + Len(part))
  BY DEF Occurs
<1>. DEFINE skip == Len(part) - n
            end == SubSeq(part, skip + 1, Len(part))
            there == SubSeq(text, from + skip + 1, from + skip + n)
<1>2. Len(part) \in Nat /\ Len(text) \in Nat /\ skip \in Nat /\ skip + n = Len(part)
      /\ from \in Nat /\ from + Len(part) <= Len(text)
  OBVIOUS
<1>3. /\ end \in Seq(A) /\ Len(end) = n
      /\ \A i \in 1..n : end[i] = part[skip + i]
  <2>1. \A i \in skip + 1 .. Len(part) : part[i] \in A
    BY <1>2
  <2>. HIDE DEF skip
  <2>. DEFINE m == skip + 1
              l == Len(part)
  <2>2. m \in Int /\ l \in Int /\ m <= l /\ l - m + 1 = n
        /\ \A i \in 1..n : m + i - 1 = skip + i
    BY <1>2
  <2>. HIDE DEF m, l
  <2>3. /\ SubSeq(part, m, l) \in Seq(A)
        /\ Len(SubSeq(part, m, l)) = IF m <= l THEN l - m + 1 ELSE 0
        /\ \A i \in 1 .. l - m + 1 : SubSeq(part, m, l)[i] = part[m + i - 1]
    BY <2>1, <2>2, SubSeqProperties DEF m, l
  <2>. QED
    BY <2>2, <2>3 DEF m, l
<1>4. \A i \in 1..Len(part) : part[i] = text[from + i]
  <2>1. \A i \in from + 1 .. from + Len(part) : text[i] \in B
    BY <1>2
  <2>2. \A i \in 1 .. from + Len(part) - (from + 1) + 1 :
          SubSeq(text, from + 1, from + Len(part))[i] = text[(from + 1) + i - 1]
    BY <1>2, <2>1, SubSeqProperties
  <2>3. from + Len(part) - (from + 1) + 1 = Len(part)
        /\ \A i \in 1..Len(part) : (from + 1) + i - 1 = from + i
    BY <1>2
  <2>. QED
    BY <1>1, <2>2, <2>3
<1>5. /\ there \in Seq(B) /\ Len(there) = n
      /\ \A i \in 1..n : there[i] = text[from + skip + i]
  <2>1. \A i \in from + skip + 1 .. from + skip + n : text[i] \in B
    BY <1>2
  <2>. HIDE DEF skip
  <2>. DEFINE m == from + skip + 1
              l == from + skip + n
  <2>2. m \in Int /\ l \in Int /\ m <= l /\ l - m + 1 = n
        /\ \A i \in 1..n : m + i - 1 = from + skip + i
    BY <1>2
  <2>. HIDE DEF m, l
  <2>3. /\ SubSeq(text, m, l) \in Seq(B)
        /\ Len(SubSeq(text, m, l)) = IF m <= l THEN l - m + 1 ELSE 0
        /\ \A i \in 1 .. l - m + 1 : SubSeq(text, m, l)[i] = text[m + i - 1]
    BY <2>1, <2>2, SubSeqProperties DEF m, l
  <2>. QED
    BY <2>2, <2>3 DEF m, l
<1>. HIDE DEF skip, end, there
<1>6. end = there
  <2>1. \A i \in 1..n : end[i] = there[i]
    <3>. SUFFICES ASSUME NEW i \in 1..n PROVE end[i] = there[i]
      OBVIOUS
    <3>1. skip + i \in 1..Len(part) /\ from + (skip + i) = from + skip + i
      BY <1>2
    <3>. QED
      BY <1>3, <1>4, <1>5, <3>1
  <2>2. end = [i \in 1..n |-> end[i]] /\ there = [i \in 1..n |-> there[i]]
    BY <1>3, <1>5
  <2>. QED
    BY <2>1, <2>2
<1>7. from + skip \in 0..Len(text) - Len(end)
  BY <1>2, <1>3
<1>8. there = SubSeq(text, (from + skip) + 1, (from + skip) + Len(end))
  BY <1>3 DEF there
<1>. QED
  BY <1>6, <1>7, <1>8 DEF Occurs, end, skip

LEMMA PlainTextHolds == SourceFits => PlainTextIsFound
<1>. SUFFICES ASSUME SourceFits, NEW filter \in SourceFilters, NEW i \in sourceRecord.indexed,
                     sourceRecord.columns[i].header \in filter.terms,
                     sourceRecord.columns[i].text # <<>>,
                     sourceRecord.columns[i].text =
                       NormalizedText(sourceRecord.columns[i].text),
                     IF filter.operator = "eq"
                       THEN sourceRecord.columns[i].text = NormalizedText(filter.value)
                       ELSE Occurs(NormalizedText(filter.value), sourceRecord.columns[i].text)
              PROVE  LooksUp(sourceRecord, filter)
  BY Zenon DEF PlainTextIsFound
<1>. DEFINE column == sourceRecord.columns[i]
            text == column.text
            expected == NormalizedText(filter.value)
            places == {j \in DOMAIN sourceRecord.columns :
                         /\ sourceRecord.columns[j].header \in filter.terms
                         /\ sourceRecord.columns[j].text # <<>>}
            cells == FilteredCells(sourceRecord, filter.terms)
            values == [k \in DOMAIN cells |-> NormalizedText(sourceRecord.columns[cells[k]].text)]
<1>1. i \in places /\ text \in Texts
  BY ColumnsAre
<1>2. filter.value \in Texts
  BY DEF SourceFilters
<1>3. PICK S : expected \in Seq(S)
  BY <1>2, NormalizedIs
<1>4. text \in Seq({"a", "A", "-"})
  BY <1>1, TextIs
<1>. HIDE DEF text, expected
<1>5. IF filter.operator = "eq" THEN text = expected ELSE Occurs(expected, text)
  BY DEF text, expected
<1>6. Occurs(Probe(filter), text)
  <2>1. CASE filter.operator = "eq"
    BY <1>4, <1>5, <2>1, OccursInItself DEF Probe, expected
  <2>2. CASE filter.operator # "eq" /\ Len(expected) <= ProbeLength
    BY <1>5, <2>2 DEF Probe, expected
  <2>3. CASE filter.operator # "eq" /\ ~(Len(expected) <= ProbeLength)
    <3>1. ProbeLength \in Nat \ {0} /\ Len(expected) \in Nat
      BY <1>3, ProbeBounds
    <3>2. Len(expected) > ProbeLength
      BY <2>3, <3>1
    <3>3. Occurs(SubSeq(expected, Len(expected) - ProbeLength + 1, Len(expected)), text)
      BY <1>3, <1>4, <1>5, <2>3, <3>1, <3>2, EndOccurs
    <3>. QED
      BY <2>3, <3>3 DEF Probe, expected
  <2>. QED
    BY <2>1, <2>2, <2>3
<1>7. Prefiltered(sourceRecord, filter)
  BY <1>6 DEF Prefiltered, Indexed, text
<1>8. PICK k \in DOMAIN cells : cells[k] = i
  <2>1. IsFiniteSet(places) /\ places \subseteq Nat
    <3>1. places \subseteq DOMAIN sourceRecord.columns
      OBVIOUS
    <3>. HIDE DEF places
    <3>. QED
      BY <3>1, ColumnsAre, FS_Subset
  <2>2. cells = InOrder(places)
    BY DEF FilteredCells
  <2>. HIDE DEF places, cells
  <2>. QED
    BY <1>1, <2>1, <2>2, InOrderIs
<1>9. k \in DOMAIN values /\ values[k] = text
  BY <1>8 DEF text
<1>. HIDE DEF values, cells
<1>10. IF filter.operator = "eq" THEN \E j \in DOMAIN values : values[j] = expected
       ELSE \E j \in DOMAIN values : Occurs(expected, values[j])
  BY <1>5, <1>9
<1>11. MatchesSourceFilter(sourceRecord, filter)
  BY <1>10 DEF MatchesSourceFilter, values, cells, expected
<1>. QED
  BY <1>7, <1>11 DEF LooksUp

LEMMA ContainedHolds == SourceFits => ContainedIsWider
<1>. SUFFICES ASSUME SourceFits, NEW filter \in SourceFilters, LooksUp(sourceRecord, filter)
              PROVE  /\ LooksUp(sourceRecord, [filter EXCEPT !.operator = "contains"])
                     /\ NormalizedText(filter.value) # <<>> =>
                          /\ ShownCells(sourceRecord, filter.terms) # {}
                          /\ filter.terms \cap AvailableHeaders(sourceRecord) # {}
  BY Zenon DEF ContainedIsWider
<1>. DEFINE wider == [filter EXCEPT !.operator = "contains"]
            expected == NormalizedText(filter.value)
            cells == FilteredCells(sourceRecord, filter.terms)
            values == [k \in DOMAIN cells |-> NormalizedText(sourceRecord.columns[cells[k]].text)]
            combined == FlattenSeq(values)
<1>1. /\ wider.operator = "contains" /\ wider.terms = filter.terms /\ wider.value = filter.value
      /\ filter.value \in Texts /\ filter.operator \in {"eq", "contains"}
  BY DEF SourceFilters
<1>2. PICK S : expected \in Seq(S)
  BY <1>1, NormalizedIs
<1>. HIDE DEF expected, wider, values, cells, combined
<1>3. IF filter.operator = "eq"
        THEN (\E k \in DOMAIN values : values[k] = expected) \/ combined = expected
        ELSE (\E k \in DOMAIN values : Occurs(expected, values[k])) \/ Occurs(expected, combined)
  BY DEF LooksUp, MatchesSourceFilter, expected, values, cells, combined
<1>4. (\E k \in DOMAIN values : Occurs(expected, values[k])) \/ Occurs(expected, combined)
  BY <1>2, <1>3, OccursInItself
<1>5. MatchesSourceFilter(sourceRecord, wider)
  BY <1>1, <1>4 DEF MatchesSourceFilter, expected, values, cells, combined
<1>6. PICK text \in Indexed(sourceRecord) : Occurs(Probe(filter), text)
  BY DEF LooksUp, Prefiltered
<1>7. text \in Seq({"a", "A", "-"})
  BY ColumnsAre, TextIs DEF Indexed
<1>8. Occurs(Probe(wider), text)
  <2>1. CASE filter.operator = "contains"
    BY <1>1, <1>6, <2>1 DEF Probe
  <2>2. CASE filter.operator = "eq"
    <3>1. Occurs(expected, text)
      BY <1>6, <2>2 DEF Probe, expected
    <3>2. CASE Len(expected) <= ProbeLength
      BY <1>1, <3>1, <3>2 DEF Probe, expected
    <3>3. CASE ~(Len(expected) <= ProbeLength)
      <4>1. ProbeLength \in Nat \ {0} /\ Len(expected) \in Nat
        BY <1>2, ProbeBounds
      <4>2. Len(expected) > ProbeLength
        BY <3>3, <4>1
      <4>3. Occurs(SubSeq(expected, Len(expected) - ProbeLength + 1, Len(expected)), text)
        BY <1>2, <1>7, <3>1, <4>1, <4>2, EndOccurs
      <4>. QED
        BY <1>1, <3>3, <4>3 DEF Probe, expected
    <3>. QED
      BY <3>2, <3>3
  <2>. QED
    BY <1>1, <2>1, <2>2
<1>9. LooksUp(sourceRecord, wider)
  BY <1>5, <1>6, <1>8 DEF LooksUp, Prefiltered
<1>10. ASSUME expected # <<>>
       PROVE  /\ ShownCells(sourceRecord, filter.terms) # {}
              /\ filter.terms \cap AvailableHeaders(sourceRecord) # {}
  <2>. DEFINE places == {j \in DOMAIN sourceRecord.columns :
                           /\ sourceRecord.columns[j].header \in filter.terms
                           /\ sourceRecord.columns[j].text # <<>>}
  <2>1. ASSUME places = {} PROVE FALSE
    <3>1. cells = InOrder({})
      BY <2>1 DEF cells, FilteredCells
    <3>2. DOMAIN cells = {}
      BY <3>1, InOrderIs, FS_EmptySet
    <3>3. values = <<>>
      BY <3>2 DEF values
    <3>4. Len(values) = 0
      BY <3>3
    <3>5. combined = <<>>
      BY <3>3, <3>4 DEF combined, FlattenSeq
    <3>6. ~ \E k \in DOMAIN values : Occurs(expected, values[k])
      BY <3>2 DEF values
    <3>7. Occurs(expected, <<>>)
      BY <1>4, <3>5, <3>6
    <3>8. Len(expected) \in Nat \ {0} /\ Len(<<>>) = 0
      BY <1>2, <1>10, EmptySeq
    <3>9. 0 .. 0 - Len(expected) = {}
      BY <3>8
    <3>. QED
      BY <3>7, <3>8, <3>9 DEF Occurs
  <2>2. PICK j \in DOMAIN sourceRecord.columns : sourceRecord.columns[j].header \in filter.terms
    BY <2>1
  <2>. QED
    BY <2>2 DEF ShownCells, AvailableHeaders
<1>. QED
  BY <1>9, <1>10 DEF wider, expected

LEMMA AnswersFit == QueriesFit /\ SourceFits => AnswersAgree
  BY Partition, GroupsHold, MetricsHold, HouseholdsHold, ListsHold, RankingsHold, SummariesHold,
     ContractsHold, EvidenceHolds, PlainTextHolds, ContainedHolds
     DEF AnswersAgree, LookupIsComplete

(* Whatever contracts are published and whatever records are stored, fact     *)
(* sets part the scope, every two ways to ask for one number give one number  *)
(* (groups and counts, lists, rankings and summaries, contracts and catalog   *)
(* queries, official and safe counts, SQL evidence), and looking up the       *)
(* source misses no record whose plain text is asked for (question_catalog.py, *)
(* catalog_query.py, safe_query.py, questions.py, question_tools.py).         *)
THEOREM AnswersAgreeAlways == QuerySpec /\ SourceSpec => []AnswersAgree
<1>1. QuerySpec => []QueriesFit
  BY QueriesStart, QueriesStep, PTL DEF QuerySpec
<1>2. SourceSpec => []SourceFits
  BY SourceStart, SourceStep, PTL DEF SourceSpec
<1>. QED
  BY <1>1, <1>2, AnswersFit, PTL
=============================================================================
