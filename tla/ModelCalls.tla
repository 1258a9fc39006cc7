------------------------------ MODULE ModelCalls ------------------------------
(* EmbeddedHermesRuntime of hermes/runtime.py: every call of the language     *)
(* model runs in a forked process of its own, which sends what it has to say  *)
(* through a pipe, while the caller polls the pipe up to a deadline.  Two     *)
(* kinds of call: run_json, which asks again when the answer does not fit the *)
(* schema, and stream_chat, which passes events on while it waits and which a *)
(* request of the user may stop (stop_chat_run).  The model is external: it   *)
(* answers anything, or never.                                                *)
EXTENDS Naturals, Sequences, SequencesExt

CONSTANTS
    Repairs,    \* repair_attempts of a call: 0 or 1
    MaxEvents   \* bound: events of a chat call

ASSUME ModelCallBounds == Repairs \subseteq {0, 1} /\ MaxEvents \in Nat

VARIABLES
    waiter,      \* the coroutine that waits
    child,       \* the forked process
    pipe,        \* messages sent and not received
    registered,  \* is the process in _active_chat_processes?
    delivered    \* events passed on to the consumer

callVars == <<waiter, child, pipe, registered, delivered>>

NoModelCall == [kind |-> "none", phase |-> "none", outcome |-> "none", repairs |-> 0]

(* What the process sends: an event of the chat, the answer, or an error.     *)
Event(n) == [kind |-> "event", what |-> "event", number |-> n]
FinalAnswer == [kind |-> "answer", what |-> "answer", number |-> 0]
Error(what) == [kind |-> "error", what |-> what, number |-> 0]
NoResult == [kind |-> "none", what |-> "none", number |-> 0]

(* A process keeps the events it has sent and the answer or error it ended with. *)
NoProcess == [phase |-> "none", asks |-> 0, sent |-> <<>>, result |-> NoResult]

(* run_json tells errors apart by name; stream_chat does not.                 *)
JsonErrors == {"invalid_response", "operator_action", "unavailable"}
ChatErrors == {"unavailable"}

Events == [kind : {"event"}, what : {"event"}, number : Nat]
Results == {FinalAnswer} \cup {Error(what) : what \in JsonErrors \cup ChatErrors}
Outcomes == {"none", "timeout", "stopped", "end_of_pipe", "cancelled", "answer"} \cup JsonErrors
Waiters ==
    [kind : {"none", "json", "chat"},
     phase : {"none", "starting", "waiting", "polled", "ending", "joining", "done"},
     outcome : Outcomes, repairs : {0, 1}]
Processes ==
    [phase : {"none", "asking", "sent", "gone"}, asks : {0, 1}, sent : Seq(Events),
     result : Results \cup {NoResult}]

Alive == child.phase \in {"asking", "sent"}

CallTypeOK ==
    /\ waiter \in Waiters /\ child \in Processes
    /\ pipe \in Seq(Events \cup Results) /\ delivered \in Seq(Events)
    /\ registered \in BOOLEAN

CallInit ==
    /\ waiter = NoModelCall /\ child = NoProcess /\ pipe = <<>>
    /\ registered = FALSE /\ delivered = <<>>

-----------------------------------------------------------------------------
(* The start of a call *)

StartJson ==
    /\ waiter = NoModelCall
    /\ \E r \in Repairs :
         waiter' = [kind |-> "json", phase |-> "waiting", outcome |-> "none", repairs |-> r]
    /\ child' = [child EXCEPT !.phase = "asking"]
    /\ UNCHANGED <<pipe, registered, delivered>>

(* The process runs before the call is registered where a stop looks for it.  *)
StartChat ==
    /\ waiter = NoModelCall
    /\ waiter' = [kind |-> "chat", phase |-> "starting", outcome |-> "none", repairs |-> 0]
    /\ child' = [child EXCEPT !.phase = "asking"]
    /\ UNCHANGED <<pipe, registered, delivered>>

Register ==
    /\ waiter.phase = "starting"
    /\ waiter' = [waiter EXCEPT !.phase = "waiting"]
    /\ registered' = TRUE
    /\ UNCHANGED <<child, pipe, delivered>>

-----------------------------------------------------------------------------
(* The process *)

ReceiverOpen == waiter.phase \in {"starting", "waiting", "polled"}

(* What is sent into a closed pipe raises, and so does the report of that.    *)
Sends(message, after) ==
    /\ pipe' = IF ReceiverOpen THEN Append(pipe, message) ELSE pipe
    /\ child' = IF ReceiverOpen THEN after ELSE [child EXCEPT !.phase = "gone"]
    /\ UNCHANGED <<waiter, registered, delivered>>

SendEvent ==
    /\ child.phase = "asking" /\ waiter.kind = "chat" /\ Len(child.sent) < MaxEvents
    /\ LET event == Event(Len(child.sent) + 1)
       IN Sends(event, [child EXCEPT !.sent = Append(@, event)])

EndsWith(message) == Sends(message, [child EXCEPT !.result = message, !.phase = "sent"])

(* (In a chat the text of a refused request is an answer like any other.)     *)
ModelAnswers ==
    /\ child.phase = "asking"
    /\ EndsWith(FinalAnswer)

(* An answer of run_json that does not fit is repaired, up to repair_attempts. *)
AskAgain ==
    /\ child.phase = "asking" /\ waiter.kind = "json" /\ child.asks < waiter.repairs
    /\ child' = [child EXCEPT !.asks = @ + 1]
    /\ UNCHANGED <<waiter, pipe, registered, delivered>>

(* HTTP 401, 402 and 403 call for the operator; anything else that raises, a   *)
(* refused request or a fault, is unavailability.                              *)
ModelFails ==
    /\ child.phase = "asking"
    /\ \E what \in IF waiter.kind = "json" THEN JsonErrors ELSE ChatErrors :
         /\ what = "invalid_response" => child.asks = waiter.repairs
         /\ EndsWith(Error(what))

(* The process ends once it has sent, or dies before.                         *)
ProcessExits ==
    /\ Alive
    /\ child' = [child EXCEPT !.phase = "gone"]
    /\ UNCHANGED <<waiter, pipe, registered, delivered>>

-----------------------------------------------------------------------------
(* The caller *)

AtEndOfPipe == pipe = <<>> /\ child.phase = "gone"

EndsCall(outcome, phase) ==
    /\ waiter' = [waiter EXCEPT !.outcome = outcome, !.phase = phase]
    /\ UNCHANGED <<child, pipe, registered, delivered>>

(* receiver.poll found nothing: for run_json, up to the deadline.             *)
PollEmpty ==
    /\ waiter.phase = "waiting" /\ pipe = <<>> /\ ~AtEndOfPipe
    /\ waiter' = [waiter EXCEPT !.phase = "polled"]
    /\ UNCHANGED <<child, pipe, registered, delivered>>

(* An answer that is sent by now comes too late.                              *)
JsonTimesOut ==
    /\ waiter.phase = "polled" /\ waiter.kind = "json"
    /\ EndsCall("timeout", "ending")

(* stream_chat polls again, unless the process is no longer alive by then.    *)
PollAgain ==
    /\ waiter.phase = "polled" /\ waiter.kind = "chat" /\ Alive
    /\ waiter' = [waiter EXCEPT !.phase = "waiting"]
    /\ UNCHANGED <<child, pipe, registered, delivered>>

ProcessStopped ==
    /\ waiter.phase = "polled" /\ waiter.kind = "chat" /\ ~Alive
    /\ EndsCall("stopped", "ending")

ChatTimesOut ==
    /\ waiter.phase = "waiting" /\ waiter.kind = "chat"
    /\ EndsCall("timeout", "ending")

(* The end of the pipe is readable: run_json reports it, in stream_chat the   *)
(* EOFError passes through.                                                   *)
ReceiveEnd ==
    /\ waiter.phase = "waiting" /\ AtEndOfPipe
    /\ IF waiter.kind = "json" THEN EndsCall("unavailable", "done")
                               ELSE EndsCall("end_of_pipe", "ending")

ReceiveJson ==
    /\ waiter.phase = "waiting" /\ waiter.kind = "json" /\ pipe # <<>>
    /\ waiter' = [waiter EXCEPT !.outcome = Head(pipe).what, !.phase = "joining"]
    /\ pipe' = Tail(pipe)
    /\ UNCHANGED <<child, registered, delivered>>

ReceiveChat ==
    /\ waiter.phase = "waiting" /\ waiter.kind = "chat" /\ pipe # <<>>
    /\ pipe' = Tail(pipe)
    /\ IF Head(pipe).kind = "event"
         THEN delivered' = Append(delivered, Head(pipe)) /\ UNCHANGED waiter
         ELSE /\ waiter' = [waiter EXCEPT !.outcome = Head(pipe).what, !.phase = "ending"]
              /\ UNCHANGED delivered
    /\ UNCHANGED <<child, registered>>

(* The task of the caller is cancelled, or its consumer goes away.            *)
Cancelled ==
    /\ waiter.phase \in {"waiting", "polled"}
    /\ EndsCall("cancelled", "ending")

(* After a message of run_json the process gets five seconds to leave.        *)
JoinProcess ==
    /\ waiter.phase = "joining"
    /\ waiter' = [waiter EXCEPT !.phase = "done"]
    /\ UNCHANGED <<child, pipe, registered, delivered>>

(* Mutant: the call ends and leaves its process to itself. *)
LeaveProcess ==
    /\ waiter.phase = "ending"
    /\ waiter' = [waiter EXCEPT !.phase = "done"]
    /\ registered' = FALSE
    /\ UNCHANGED <<child, pipe, delivered>>

(* The receiver is closed; terminate, join, and kill what is left.            *)
KillProcess ==
    /\ waiter.phase = "ending"
    /\ waiter' = [waiter EXCEPT !.phase = "done"]
    /\ child' = [child EXCEPT !.phase = "gone"]
    /\ registered' = FALSE
    /\ UNCHANGED <<pipe, delivered>>

(* stop_chat_run on behalf of a request of the user: without a registered,    *)
(* living process it does nothing.                                            *)
StopChatRun ==
    /\ registered /\ Alive
    /\ child' = [child EXCEPT !.phase = "gone"]
    /\ UNCHANGED <<waiter, pipe, registered, delivered>>

ModelCallNext ==
    \/ StartJson \/ StartChat \/ Register
    \/ SendEvent \/ ModelAnswers \/ AskAgain \/ ModelFails \/ ProcessExits
    \/ PollEmpty \/ JsonTimesOut \/ PollAgain \/ ProcessStopped \/ ChatTimesOut
    \/ ReceiveEnd \/ ReceiveJson \/ ReceiveChat \/ Cancelled
    \/ JoinProcess \/ KillProcess \/ StopChatRun

ModelCallSpec == CallInit /\ [][ModelCallNext]_callVars

-----------------------------------------------------------------------------
(* A call that has ended, however it did, leaves no process that goes on      *)
(* asking the model, and nothing behind where stops look for it.              *)
EndedCallsAskNoMore ==
    waiter.phase = "done" => child.phase \in {"sent", "gone"} /\ ~registered

(* The consumer saw the events in the order they were sent, all of them when  *)
(* it gets the answer; an outcome is the answer only if the process sent it.  *)
DeliveredInOrder ==
    /\ IsPrefix(delivered, child.sent)
    /\ waiter.outcome = "answer" => child.result = FinalAnswer /\ delivered = child.sent

(* An answer is given up for a deadline or a cancellation only; in            *)
(* stream_chat also for a process that answers and leaves between the poll    *)
(* and the look at it, or that is stopped.                                    *)
AnswersAreNotLost ==
    waiter.phase = "done" /\ child.result = FinalAnswer
    => \/ waiter.outcome \in {"answer", "timeout", "cancelled"}
       \/ waiter.kind = "chat" /\ waiter.outcome = "stopped"

(* However the process, the deadline, a stop and a cancellation interleave,   *)
(* a call ends with what its process sent and takes the process with it.      *)
CallsEndWithTheirProcess ==
    EndedCallsAskNoMore /\ DeliveredInOrder /\ AnswersAreNotLost
=============================================================================
