---------------------------- MODULE QuestionRuns ----------------------------
(* Conversations over the imported data and the question runs asked in them: *)
(* api/routes/questions.py, the scope frozen when a run is created           *)
(* (question_scope.py, question_source_versions.py), the chat process of     *)
(* hermes/runtime.py and the end of the event stream.  One user, one         *)
(* conversation; files are numbered in the order of their upload.            *)
(* A request reads in one step and commits in a later one, as its session    *)
(* does, so requests, the stream and the import of data interleave.          *)
EXTENDS Naturals, Sequences, FiniteSets

CONSTANTS
    Clients,    \* request slots of the user: how many requests may overlap
    FileCount,  \* uploaded source files 1 .. FileCount
    MaxRuns,    \* bound: runs of the conversation
    MaxClock    \* bound: creation stamps given to imported records

ASSUME QuestionBounds == {FileCount, MaxRuns, MaxClock} \subseteq Nat \ {0}

VARIABLES
    clock,        \* creation stamps given out to imported records so far
    stored,       \* file -> creation stamps of its approved records
    arriving,     \* file -> stamps of records flushed but not yet committed
    replacedBy,   \* file -> newer file that was declared to replace it, 0 when none
    conversation, \* the conversation row
    runs,         \* its QuestionRun rows with the state of their streams
    requests      \* client -> the request it has under way

questionVars == <<clock, stored, arriving, replacedBy, conversation, runs, requests>>
dataVars == <<clock, stored, arriving, replacedBy>>

Files == 1 .. FileCount
AnyFile == 0            \* a conversation over every file of the scope
Idle == [kind |-> "idle"]
Ends == {"succeeded", "needs_clarification", "failed"}

RecordsOf(stamps) == UNION {{file} \X stamps[file] : file \in Files}

(* freeze_question_scope: the files with approved records up to the watermark *)
(* that no declaration replaces, or the selected file alone.                 *)
Eligible == {file \in Files : \E stamp \in stored[file] : stamp <= clock}
DefaultSources == {file \in Eligible : replacedBy[file] = 0}
Freeze(source) ==
    [sources |-> IF source = AnyFile THEN DefaultSources ELSE Eligible \cap {source},
     watermark |-> clock]

(* Mutant: the tools forget the watermark.                                   *)
VisibleLive(run) == {record \in RecordsOf(stored) : record[1] \in run.frozen.sources}

(* Every tool restricts its query to the frozen files and to the watermark. *)
VisibleTo(run) ==
    {record \in RecordsOf(stored) :
        record[1] \in run.frozen.sources /\ record[2] <= run.frozen.watermark}

(* What existed and what was on its way are no part of the row:              *)
(* CountsWhatWasThere speaks of them.                                        *)
NewRun(status) ==
    [status |-> status, frozen |-> Freeze(conversation.source),
     existed |-> RecordsOf(stored), underway |-> RecordsOf(arriving),
     counted |-> {}, facts |-> {}, read |-> "nothing",
     phase |-> IF status = "running" THEN "streaming" ELSE "none",
     alive |-> status = "running"]

Running(run) == run.status = "running"
AnyRunning == \E r \in DOMAIN runs : Running(runs[r])

(* _owned_conversation with _conversation_context: the row is not deleted and *)
(* its file still has records.  A request refused because the session or the  *)
(* scope is no longer granted changes nothing, and such a refusal may come at *)
(* any request: it is a request that is not made.                             *)
Owned ==
    /\ conversation.status = "active"
    /\ conversation.source # AnyFile => stored[conversation.source] # {}

-----------------------------------------------------------------------------
(* The data under the questions *)

(* materialize_plan deletes the records of the plan's predecessor and adds    *)
(* new ones, stamped one by one as they are flushed, in a transaction that    *)
(* the worker commits or rolls back: the others see the old ones until then.  *)
FlushRecords(file) ==
    /\ clock < MaxClock
    /\ clock' = clock + 1
    /\ arriving' = [arriving EXCEPT ![file] = @ \cup {clock + 1}]
    /\ UNCHANGED <<stored, replacedBy, conversation, runs, requests>>

CommitRecords(file) ==
    /\ arriving[file] # {}
    /\ stored' = [stored EXCEPT ![file] = arriving[file]]
    /\ arriving' = [arriving EXCEPT ![file] = {}]
    /\ UNCHANGED <<clock, replacedBy, conversation, runs, requests>>

RollBackRecords(file) ==
    /\ arriving[file] # {}
    /\ arriving' = [arriving EXCEPT ![file] = {}]
    /\ UNCHANGED <<clock, stored, replacedBy, conversation, runs, requests>>

(* The deletion of a file's build result.                                     *)
DeleteRecords(file) ==
    /\ stored[file] # {}
    /\ stored' = [stored EXCEPT ![file] = {}]
    /\ UNCHANGED <<clock, arriving, replacedBy, conversation, runs, requests>>

(* declare_source_supersession: a newer file of the same unit replaces an     *)
(* older one, once, while both hold approved records.  The walk that refuses  *)
(* a cycle never meets one, since a replacement is always the newer file.     *)
DeclareSourceSupersession(old, new) ==
    /\ old < new
    /\ stored[old] # {} /\ stored[new] # {}
    /\ replacedBy[old] = 0
    /\ replacedBy' = [replacedBy EXCEPT ![old] = new]
    /\ UNCHANGED <<clock, stored, arriving, conversation, runs, requests>>

-----------------------------------------------------------------------------
(* Conversations and requests *)

CreateConversation(source) ==
    /\ conversation.status = "none"
    /\ source # AnyFile => stored[source] # {}
    /\ conversation' = [status |-> "active", source |-> source]
    /\ UNCHANGED <<dataVars, runs, requests>>

(* The compatibility entry makes a conversation and a run that stays pending. *)
AskQuestion ==
    /\ conversation.status = "none" /\ Len(runs) < MaxRuns
    /\ conversation' = [status |-> "active", source |-> AnyFile]
    /\ runs' = Append(runs, NewRun("pending"))
    /\ UNCHANGED <<dataVars, requests>>

Begin(client, request) ==
    /\ requests[client] = Idle
    /\ requests' = [requests EXCEPT ![client] = request]
    /\ UNCHANGED <<dataVars, conversation, runs>>

(* create_run up to its commit: refused while a run of the conversation runs. *)
CreateRunRead(client) ==
    /\ Owned /\ ~AnyRunning /\ Len(runs) < MaxRuns
    /\ Begin(client, [kind |-> "create", asked |-> NewRun("running")])

CreateRunCommit(client) ==
    /\ requests[client].kind = "create" /\ Len(runs) < MaxRuns
    /\ runs' = Append(runs, requests[client].asked)
    /\ requests' = [requests EXCEPT ![client] = Idle]
    /\ UNCHANGED <<dataVars, conversation>>

(* stop_run reads the latest running run and terminates its process ... *)
StopRunRead(client) ==
    /\ Owned /\ requests[client] = Idle
    /\ \E last \in DOMAIN runs :
          /\ Running(runs[last])
          /\ \A later \in DOMAIN runs : later > last => ~Running(runs[later])
          /\ requests' = [requests EXCEPT ![client] = [kind |-> "stop", stops |-> last]]
          /\ runs' = [runs EXCEPT ![last].alive = FALSE]
    /\ UNCHANGED <<dataVars, conversation>>

(* ... and then writes the status over whatever the row holds by now. *)
StopRunCommit(client) ==
    /\ requests[client].kind = "stop"
    /\ runs' = [runs EXCEPT ![requests[client].stops].status = "stopped"]
    /\ requests' = [requests EXCEPT ![client] = Idle]
    /\ UNCHANGED <<dataVars, conversation>>

DeleteConversationRead(client) ==
    /\ Owned /\ ~AnyRunning
    /\ Begin(client, [kind |-> "delete"])

DeleteConversationCommit(client) ==
    /\ requests[client].kind = "delete"
    /\ conversation' = [conversation EXCEPT !.status = "deleted"]
    /\ requests' = [requests EXCEPT ![client] = Idle]
    /\ UNCHANGED <<dataVars, runs>>

-----------------------------------------------------------------------------
(* The event stream of a run *)

Stream(r, run) ==
    /\ runs' = [runs EXCEPT ![r] = run]
    /\ UNCHANGED <<dataVars, conversation, requests>>

(* What the stream held in memory goes with it. *)
Closed(run) == [run EXCEPT !.phase = "closed", !.alive = FALSE, !.counted = {}, !.read = "nothing"]
Close(r) == Stream(r, Closed(runs[r]))
Saving(r, phase) == Stream(r, [runs[r] EXCEPT !.read = runs[r].status, !.phase = phase])

(* A tool call of the chat process reads the records of the frozen scope. *)
CallTool(r) ==
    /\ runs[r].phase = "streaming" /\ runs[r].alive
    /\ Stream(r, [runs[r] EXCEPT !.counted = @ \cup VisibleTo(runs[r])])

(* answer.completed: the process hands over its answer, clarification or not, *)
(* and ends.                                                                  *)
CompleteAnswer(r) ==
    /\ runs[r].phase = "streaming" /\ runs[r].alive
    /\ Stream(r, [runs[r] EXCEPT !.phase = "answered", !.alive = FALSE])

(* The process was stopped, died, timed out or reported an error. *)
LoseProcess(r) ==
    /\ runs[r].phase = "streaming"
    /\ Stream(r, [runs[r] EXCEPT !.phase = "broken", !.alive = FALSE])

ReadStoredRunBlindly(r) ==
    \/ runs[r].phase = "answered" /\ Saving(r, "saving")
    \/ runs[r].phase = "broken" /\ IF Running(runs[r]) THEN Saving(r, "failing") ELSE Close(r)

(* The end of the stream reads the stored run in a session of its own: an     *)
(* answer for a stopped run is dropped, an error leaves a finished run alone. *)
ReadStoredRun(r) ==
    \/ /\ runs[r].phase = "answered"
       /\ IF runs[r].status = "stopped" THEN Close(r) ELSE Saving(r, "saving")
    \/ /\ runs[r].phase = "broken"
       /\ IF Running(runs[r]) THEN Saving(r, "failing") ELSE Close(r)

(* What the tools answered is stored with the run, whatever its status. *)
FactResults(run) == run.counted

SaveAnswer(r) ==
    /\ runs[r].phase = "saving"
    /\ \E end \in Ends :
          Stream(r, [Closed(runs[r]) EXCEPT !.status = end, !.facts = FactResults(runs[r])])

SaveFailure(r) ==
    /\ runs[r].phase = "failing"
    /\ Stream(r, [Closed(runs[r]) EXCEPT !.status = "failed"])

(* The client goes away or the server stops: the stream is cancelled where it *)
(* waits, the process is terminated and the row keeps its status.             *)
CancelStream(r) ==
    /\ runs[r].phase \in {"streaming", "answered"}
    /\ Close(r)

-----------------------------------------------------------------------------
QuestionInit ==
    /\ clock = 0
    /\ stored = [file \in Files |-> {}]
    /\ arriving = [file \in Files |-> {}]
    /\ replacedBy = [file \in Files |-> 0]
    /\ conversation = [status |-> "none", source |-> AnyFile]
    /\ runs = <<>>
    /\ requests = [client \in Clients |-> Idle]

QuestionNext ==
    \/ \E file \in Files :
          \/ FlushRecords(file) \/ CommitRecords(file)
          \/ RollBackRecords(file) \/ DeleteRecords(file)
    \/ \E old, new \in Files : DeclareSourceSupersession(old, new)
    \/ \E source \in Files \cup {AnyFile} : CreateConversation(source)
    \/ AskQuestion
    \/ \E client \in Clients :
          \/ CreateRunRead(client) \/ CreateRunCommit(client)
          \/ StopRunRead(client) \/ StopRunCommit(client)
          \/ DeleteConversationRead(client) \/ DeleteConversationCommit(client)
    \/ \E r \in DOMAIN runs :
          \/ CallTool(r) \/ CompleteAnswer(r) \/ LoseProcess(r) \/ ReadStoredRun(r)
          \/ SaveAnswer(r) \/ SaveFailure(r) \/ CancelStream(r)

QuestionSpec == QuestionInit /\ [][QuestionNext]_questionVars

-----------------------------------------------------------------------------
Statuses == {"pending", "running", "stopped"} \cup Ends
RecordSets == SUBSET (Files \X (1 .. MaxClock))
Scopes == [sources : SUBSET Files, watermark : 0 .. MaxClock]

QuestionRows ==
    [status : Statuses, frozen : Scopes, existed : RecordSets, underway : RecordSets,
     counted : RecordSets, facts : RecordSets, read : Statuses \cup {"nothing"}, alive : BOOLEAN,
     phase : {"none", "streaming", "answered", "broken", "saving", "failing", "closed"}]

QuestionRequests ==
    {Idle} \cup [kind : {"create"}, asked : QuestionRows] \cup [kind : {"delete"}]
           \cup [kind : {"stop"}, stops : 1 .. MaxRuns]

QuestionTypeOK ==
    /\ clock \in 0 .. MaxClock
    /\ stored \in [Files -> SUBSET (1 .. MaxClock)]
    /\ arriving \in [Files -> SUBSET (1 .. MaxClock)]
    /\ replacedBy \in [Files -> 0 .. FileCount]
    /\ conversation \in [status : {"none", "active", "deleted"}, source : 0 .. FileCount]
    /\ runs \in Seq(QuestionRows) /\ Len(runs) <= MaxRuns
    /\ requests \in [Clients -> QuestionRequests]

(* Whatever is imported, deleted, imported again or replaced while a question *)
(* runs, its tools count only records of the files frozen when the run was    *)
(* created, and none that was stamped later: each was committed then, or had  *)
(* been flushed by an import that was under way and has committed since       *)
(* (question_scope.py, question_tools.py, materialization.py).                *)
CountsWhatWasThere ==
    \A r \in DOMAIN runs :
        LET used == runs[r].counted \cup runs[r].facts
        IN /\ used \subseteq runs[r].existed \cup runs[r].underway
           /\ \A record \in used : record[1] \in runs[r].frozen.sources

(* A run that has ended keeps its status and its stored facts, except that a  *)
(* stop or a save that had already read the row as running may still write it *)
(* (routes/questions.py, stop_run and the end of event_stream).               *)
WriteUnderWay(r) ==
    \/ runs[r].phase \in {"saving", "failing"} /\ runs[r].read = "running"
    \/ \E client \in Clients : requests[client].kind = "stop" /\ requests[client].stops = r

Kept(r) == runs'[r].status = runs[r].status /\ runs'[r].facts = runs[r].facts

FinishedStaysFinished ==
    [][\A r \in DOMAIN runs : ~Running(runs[r]) /\ ~WriteUnderWay(r) => Kept(r)]_questionVars
=============================================================================
