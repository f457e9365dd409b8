-------------------------- MODULE CredentialStore --------------------------
(***************************************************************************)
(* The llm service's credential file auth.json (llm/file-credential-store  *)
(* .ts): pi-ai refreshes an expired login through `modify`, the login      *)
(* command of another process (scripts/llm-login.sh) writes the same file. *)
(*                                                                         *)
(* A login is the number of its refresh token, which the provider accepts  *)
(* once, and whether its access token is still good.  `modify` reads the   *)
(* file, waits for the provider, reads the file again and renames a copy   *)
(* over it; tasks wait for each other, other processes do not.             *)
(***************************************************************************)
EXTENDS Integers, Sequences, FiniteSets, SequencesExt

CONSTANTS Engine,    \* providers with a subscription login
          Slot       \* turns that can run at once; each may refresh its login

VARIABLES
  file,      \* file[e]: the login of e in auth.json
  queue,     \* #writes: the slots whose task is not settled, in order
  task,      \* task[s]: the task of slot s
  issued,    \* issued[e]: how many refresh tokens e has issued
  \* History, read by properties only.
  spent,     \* tokens sent to a provider
  reused,    \* a token was sent twice
  torn,      \* a login was written between a task's second read and its rename
  orphaned   \* a token was sent and the new login it gave was not stored

storeVars == <<file, queue, task, issued, spent, reused, torn, orphaned>>

NoLogin == [token |-> 0, good |-> FALSE]
Login(n) == [token |-> n, good |-> TRUE]
NoTask == [stage |-> "none", engine |-> CHOOSE e \in Engine : TRUE,
           copy |-> [e \in Engine |-> NoLogin]]

\* The service starts with some providers logged in.
StoreInit ==
  /\ \E on \in SUBSET Engine :
       /\ file = [e \in Engine |-> IF e \in on THEN Login(1) ELSE NoLogin]
       /\ issued = [e \in Engine |-> IF e \in on THEN 1 ELSE 0]
  /\ queue = <<>> /\ task = [s \in Slot |-> NoTask]
  /\ spent = {} /\ reused = FALSE /\ torn = FALSE /\ orphaned = FALSE

history == <<spent, reused, torn, orphaned>>

\* The command writes its provider's entry into what the file holds.
LoginCommand(e) ==
  /\ issued' = [issued EXCEPT ![e] = @ + 1]
  /\ file' = [file EXCEPT ![e] = Login(issued'[e])]
  /\ torn' = (torn \/ \E s \in Slot : task[s].stage = "writing")
  /\ UNCHANGED <<queue, task, spent, reused, orphaned>>

Expire(e) ==
  /\ file[e].good
  /\ file' = [file EXCEPT ![e].good = FALSE]
  /\ UNCHANGED <<queue, task, issued, history>>

\* modify: the task is chained behind #writes.
Enqueue(s, e) ==
  /\ queue' = Append(queue, s)
  /\ task' = [task EXCEPT ![s] = [NoTask EXCEPT !.stage = "queued", !.engine = e]]
  /\ UNCHANGED <<file, issued, history>>

IsFirst(s) == task[s].stage = "queued" /\ Head(queue) = s

\* Mutant: the rejection of one task is passed on to those behind it.
Settled_Blocks(s, stage) ==
  /\ queue' = IF stage = "failed" THEN queue ELSE Tail(queue)
  /\ task' = [task EXCEPT ![s] = [NoTask EXCEPT !.stage = stage]]

\* The first task is settled, well or not, and lets the next one begin.
Settled(s, stage) ==
  /\ queue' = Tail(queue)
  /\ task' = [task EXCEPT ![s] = [NoTask EXCEPT !.stage = stage]]

\* `change` finds the login refreshed meanwhile and returns undefined.
FindRefreshed(s) ==
  /\ IsFirst(s)
  /\ file[task[s].engine].good \/ file[task[s].engine] = NoLogin
  /\ Settled(s, "done")
  /\ UNCHANGED <<file, issued, history>>

\* `change` sends the refresh token of the login it was given.
SendToken(s) ==
  /\ IsFirst(s)
  /\ LET e == task[s].engine
     IN /\ file[e] # NoLogin /\ ~file[e].good
        /\ spent' = spent \cup {<<e, file[e].token>>}
        /\ reused' = (reused \/ <<e, file[e].token>> \in spent)
  /\ task' = [task EXCEPT ![s].stage = "refreshing", ![s].copy = file]
  /\ UNCHANGED <<file, queue, issued, torn, orphaned>>

\* Mutant: what was read before the provider's answer is written back.
Merged_Stale(s, login) == [task[s].copy EXCEPT ![task[s].engine] = login]

Merged(s, login) == [file EXCEPT ![task[s].engine] = login]

\* { ...this.#readAll(), [providerId]: next } goes to the temporary file.
ReadAgain(s) ==
  /\ task[s].stage = "refreshing"
  /\ LET e == task[s].engine
     IN /\ issued' = [issued EXCEPT ![e] = @ + 1]
        /\ task' = [task EXCEPT ![s].stage = "writing",
                                ![s].copy = Merged(s, Login(issued'[e]))]
  /\ UNCHANGED <<file, queue, history>>

Rename(s) ==
  /\ task[s].stage = "writing"
  /\ file' = task[s].copy
  /\ Settled(s, "done")
  /\ UNCHANGED <<issued, history>>

RefreshFails(s) ==
  /\ task[s].stage = "refreshing"
  /\ Settled(s, "failed")
  /\ orphaned' = TRUE
  /\ UNCHANGED <<file, issued, spent, reused, torn>>

\* The file has no part of a write that was not renamed.
StoreDies ==
  /\ orphaned' = (orphaned \/ \E s \in Slot : task[s].stage \in {"refreshing", "writing"})
  /\ queue' = <<>> /\ task' = [s \in Slot |-> NoTask]
  /\ UNCHANGED <<file, issued, spent, reused, torn>>

StoreStep(s) ==
  FindRefreshed(s) \/ SendToken(s) \/ ReadAgain(s) \/ Rename(s) \/ RefreshFails(s)

\* ------------------------------------------------------------------- properties
StoreTypeOK ==
  /\ \A e \in Engine : file[e].token \in 0..issued[e] /\ file[e].good \in BOOLEAN
  /\ IsInjective(queue) /\ Range(queue) = {s \in Slot : task[s].stage \in
                                           {"queued", "refreshing", "writing"}}

\* file-credential-store.ts:15: overlapping refreshes do not send one token twice.
\* Only one whose answer was lost, on the way or with the service, is sent again.
RefreshTokensAreSentOnce == reused => orphaned

\* A login is never put back to an older one by a refresh of another provider: the
\* file is read again after the provider's answer.
LoginsAreNotUndone ==
  [][\A e \in Engine : file'[e].token < file[e].token => torn']_<<file, torn>>
=============================================================================
