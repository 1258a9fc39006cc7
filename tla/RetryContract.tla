---------------------------- MODULE RetryContract ----------------------------
(***************************************************************************)
(* What the job table promises its clients, without leases, workers or     *)
(* crashes: a job is worked on by at most one party at a time, it is given *)
(* up after exactly MaxAttempts runs that failed, runs that were handed    *)
(* back or whose worker died cost nothing, and an outcome is final.        *)
(***************************************************************************)
EXTENDS Integers

CONSTANTS Jobs, MaxAttempts

VARIABLES
  state,   \* where each job stands
  spent    \* how many of its runs ended in an error

contractVars == <<state, spent>>

ContractInit ==
  /\ state = [j \in Jobs |-> "absent"]
  /\ spent = [j \in Jobs |-> 0]

Submit(j) ==
  /\ state[j] = "absent"
  /\ state' = [state EXCEPT ![j] = "waiting"]
  /\ UNCHANGED spent

Begin(j) ==
  /\ state[j] = "waiting" /\ spent[j] < MaxAttempts
  /\ state' = [state EXCEPT ![j] = "active"]
  /\ UNCHANGED spent

Finish(j) ==
  /\ state[j] = "active"
  /\ state' = [state EXCEPT ![j] = "succeeded"]
  /\ UNCHANGED spent

(* The last permitted failure is the one that gives the job up. *)
Err(j) ==
  /\ state[j] = "active"
  /\ spent' = [spent EXCEPT ![j] = @ + 1]
  /\ state' = [state EXCEPT ![j] =
                 IF spent[j] + 1 = MaxAttempts THEN "failed" ELSE "waiting"]

HandBack(j) ==
  /\ state[j] = "active"
  /\ state' = [state EXCEPT ![j] = "waiting"]
  /\ UNCHANGED spent

Withdraw(S) ==
  /\ \A j \in S : state[j] = "waiting"
  /\ state' = [j \in Jobs |-> IF j \in S THEN "cancelled" ELSE state[j]]
  /\ UNCHANGED spent

Purge(S) ==
  /\ \A j \in S : state[j] \notin {"absent", "active"}
  /\ state' = [j \in Jobs |-> IF j \in S THEN "purged" ELSE state[j]]
  /\ spent' = [j \in Jobs |-> IF j \in S THEN 0 ELSE spent[j]]

ContractNext ==
  \/ \E j \in Jobs : Submit(j) \/ Begin(j) \/ Finish(j) \/ Err(j) \/ HandBack(j)
  \/ \E S \in SUBSET Jobs : Withdraw(S) \/ Purge(S)

ContractSpec == ContractInit /\ [][ContractNext]_contractVars
=============================================================================
