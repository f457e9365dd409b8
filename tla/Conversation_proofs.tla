------------------------- MODULE Conversation_proofs -------------------------
(***************************************************************************)
(* Proofs about the conversation and the logins it uses, for any number of *)
(* engines, turns at once, sessions, questions and events.                 *)
(***************************************************************************)
EXTENDS Conversation, SequenceTheorems, FiniteSetTheorems, WellFoundedInduction, TLAPS

Holds(q, x) == \E i \in DOMAIN q : q[i] = x

(***************************************************************************)
(* The credential file: its types, the queue, and what keeps a token from  *)
(* being sent twice and a login from being undone.                         *)
(***************************************************************************)
TaskStage == {"none", "queued", "refreshing", "writing", "done", "failed"}
LoginValue == [token: Nat, good: BOOLEAN]
Task == [stage: TaskStage, engine: Engine \cup {NoTask.engine}, copy: [Engine -> LoginValue]]

IsPending(s) == task[s].stage \in {"queued", "refreshing", "writing"}
\* The provider has been sent the token of the task.
IsActive(s) == task[s].stage \in {"refreshing", "writing"}

StoreTypes ==
  /\ file \in [Engine -> LoginValue] /\ issued \in [Engine -> Nat]
  /\ queue \in Seq(Slot) /\ task \in [Slot -> Task]

QueueInv ==
  /\ \A s \in Slot : IsPending(s) => Holds(queue, s) /\ task[s].engine \in Engine
  /\ \A s \in Slot : IsActive(s) => Head(queue) = s

IssuedInv ==
  /\ \A e \in Engine : file[e].token <= issued[e]
  /\ \A e \in Engine : \A n \in Nat : <<e, n>> \in spent => n <= issued[e]

\* A login the file holds has been sent only if the task that sent it is not done;
\* what that task will write has not been sent.
TokenInv ==
  /\ \A e \in Engine : <<e, file[e].token>> \in spent =>
       \E s \in Slot : IsActive(s) /\ task[s].engine = e
  /\ \A s \in Slot : task[s].stage = "writing" =>
       \A e \in Engine : <<e, task[s].copy[e].token>> \notin spent

CopyInv ==
  \A s \in Slot : task[s].stage = "writing" =>
    \A e \in Engine :
      /\ task[s].copy[e].token <= issued[e]
      /\ ~torn => file[e].token <= task[s].copy[e].token

StoreInv ==
  /\ StoreTypes /\ QueueInv /\ IssuedInv /\ CopyInv
  /\ ~orphaned => TokenInv /\ ~reused

(***************************************************************************)
(* The types of the conversation.                                          *)
(***************************************************************************)
TurnStage == {"free", "sent", "passed", "checking", "calling", "answered"}
AnswerKind == {"none", "ok", "llm-unreachable", "conversation-expired", "llm-unavailable",
               "llm-failed"}
ClientKind == {"closed", "page", "left"}
MaybeEngine == Engine \cup {NoEngine}
Turn == [stage: TurnStage, ask: Nat, session: Nat, engine: MaybeEngine, base: Seq(Nat),
         client: ClientKind, answer: AnswerKind]
Session == [engine: MaybeEngine, history: Seq(Nat)]

\* A session that is not another page's has an engine.
IsOurs(id) == id = 0 \/ (id \in 1..Len(objects) /\ objects[id].engine \in Engine)

TypeInv ==
  /\ objects \in Seq(Session) /\ sessions \in Seq(1..Len(objects))
  /\ used \in Seq(Nat) /\ Len(used) = Len(objects)
  /\ turn \in [Slot -> Turn] /\ asks \in Nat
  /\ {"known", "session"} \subseteq DOMAIN page
  /\ page.known \subseteq Engine /\ page.session \in Nat /\ IsOurs(page.session)
  /\ \A s \in Slot : IsOurs(turn[s].session)
  /\ \A s \in Slot : turn[s].stage # "free" => turn[s].engine \in Engine

\* Only a turn that calls its model has a refresh on its way.
LinkInv == \A s \in Slot : task[s].stage # "none" => turn[s].stage = "calling"

(***************************************************************************)
(* Where a question can be.                                                *)
(***************************************************************************)
\* Its answer may still be stored, or was not and never will be.
IsLive(s) ==
  turn[s].stage # "free" /\ ~(turn[s].stage = "answered" /\ turn[s].answer = "ok")
IsCalling(s) == turn[s].stage = "calling"

LiveInv ==
  /\ \A s \in Slot : IsLive(s) => turn[s].ask <= asks
  /\ \A s, r \in Slot : IsLive(s) /\ IsLive(r) /\ s # r => turn[s].ask # turn[r].ask
  /\ \A s \in Slot : IsLive(s) =>
       \A id \in DOMAIN objects : ~Holds(objects[id].history, turn[s].ask)
  /\ \A s, r \in Slot : IsCalling(s) /\ IsLive(r) => ~Holds(turn[s].base, turn[r].ask)

AreApart(p, q) == \A x \in Nat : ~(Holds(p, x) /\ Holds(q, x))
IsOfAsked(q) == IsInjective(q) /\ \A x \in Nat : Holds(q, x) => x <= asks

HistoryInv ==
  /\ \A id \in DOMAIN objects : IsOfAsked(objects[id].history)
  /\ \A id, other \in DOMAIN objects :
       id # other => AreApart(objects[id].history, objects[other].history)

\* The messages a turn was sent with are of its session, whatever was stored since.
BaseInv ==
  /\ \A s \in Slot : IsCalling(s) =>
       /\ IsOfAsked(turn[s].base)
       /\ turn[s].session = 0 => turn[s].base = <<>>
       /\ \A id \in DOMAIN objects :
            id # turn[s].session => AreApart(turn[s].base, objects[id].history)
  /\ \A s, r \in Slot :
       IsCalling(s) /\ IsCalling(r) /\ turn[s].session # turn[r].session =>
         AreApart(turn[s].base, turn[r].base)

OwnerInv == LiveInv /\ HistoryInv /\ BaseInv

(***************************************************************************)
(* The map: `used` orders the sessions, and the map is its end.            *)
(***************************************************************************)
IsRanking(u) == IsInjective(u) /\ \A id \in DOMAIN u : u[id] \in 1..Len(u)

IsLatest(order, u) ==
  /\ \A i, j \in DOMAIN order : i < j => u[order[i]] < u[order[j]]
  /\ \A id, other \in DOMAIN u : Holds(order, id) /\ ~Holds(order, other) => u[id] > u[other]

MapInv ==
  /\ IsRanking(used) /\ IsLatest(sessions, used)
  /\ Len(sessions) <= MaxSessions

Inv == StoreInv /\ TypeInv /\ LinkInv /\ OwnerInv /\ MapInv

-----------------------------------------------------------------------------
(***************************************************************************)
(* The credential file.                                                    *)
(***************************************************************************)
LEMMA NoTaskFacts ==
  /\ NoTask \in Task
  /\ NoTask.stage = "none"
  /\ \A stage \in TaskStage : /\ [NoTask EXCEPT !.stage = stage] \in Task
                              /\ [NoTask EXCEPT !.stage = stage].stage = stage
<1>1. NoLogin \in LoginValue
  BY DEF NoLogin, LoginValue
<1>2. [e \in Engine |-> NoLogin] \in [Engine -> LoginValue]
  BY <1>1
<1> DEFINE first == CHOOSE e \in Engine : TRUE
<1>3. NoTask = [stage |-> "none", engine |-> first, copy |-> [e \in Engine |-> NoLogin]]
  BY DEF NoTask
<1>4. NoTask.engine = first
  BY <1>3
<1> HIDE DEF first
<1>5. NoTask \in Task
  BY <1>2, <1>3, <1>4 DEF Task, TaskStage
<1> QED
  BY <1>3, <1>4, <1>5, <1>2 DEF Task

LEMMA TailHolds ==
  ASSUME NEW S, NEW q \in Seq(S), NEW x, Holds(q, x), x # Head(q)
  PROVE  Tail(q) \in Seq(S) /\ Holds(Tail(q), x)
<1>1. PICK i \in 1..Len(q) : q[i] = x
  BY DEF Holds
<1>2. q # <<>> /\ i # 1
  BY <1>1
<1>3. Tail(q) \in Seq(S) /\ Len(Tail(q)) = Len(q) - 1 /\ Len(q) \in Nat
  BY <1>2
<1>4. i - 1 \in 1..Len(Tail(q)) /\ Tail(q)[i - 1] = q[i]
  BY <1>1, <1>2, <1>3
<1>5. DOMAIN Tail(q) = 1..Len(Tail(q))
  BY <1>3
<1> QED
  BY <1>1, <1>3, <1>4, <1>5 DEF Holds

LEMMA SettledFacts ==
  ASSUME StoreInv, NEW s \in Slot, NEW stage \in {"done", "failed"}, Settled(s, stage),
         IsPending(s), Head(queue) = s
  PROVE  /\ queue' \in Seq(Slot) /\ task' \in [Slot -> Task] /\ QueueInv'
         /\ \A r \in Slot : ~IsActive(r)' /\ task'[r].stage # "writing"
<1>1. queue \in Seq(Slot) /\ task \in [Slot -> Task] /\ QueueInv
  BY DEF StoreInv, StoreTypes
<1>2. queue' = Tail(queue) /\ task' = [task EXCEPT ![s] = [NoTask EXCEPT !.stage = stage]]
  BY DEF Settled
<1>3. stage \in TaskStage
  BY DEF TaskStage
<1>4. task' \in [Slot -> Task] /\ task'[s].stage = stage
  BY <1>1, <1>2, <1>3, NoTaskFacts
<1>5. Tail(queue) \in Seq(Slot)
  <2>1. Holds(queue, s)
    BY <1>1 DEF QueueInv
  <2>2. queue # <<>>
    BY <1>1, <2>1 DEF Holds
  <2> QED
    BY <1>1, <2>2
<1>6. ASSUME NEW r \in Slot, r # s
      PROVE  /\ task'[r] = task[r] /\ ~IsActive(r)
             /\ IsPending(r) => Holds(queue', r)
  <2>1. task'[r] = task[r]
    BY <1>1, <1>2, <1>6
  <2>2. ~IsActive(r)
    BY <1>1, <1>6 DEF QueueInv
  <2>3. IsPending(r) => Holds(Tail(queue), r)
    BY <1>1, <1>6, TailHolds DEF QueueInv
  <2> QED
    BY <1>2, <2>1, <2>2, <2>3
<1>7. \A r \in Slot : ~IsActive(r)' /\ task'[r].stage # "writing"
  BY <1>4, <1>6 DEF IsActive
<1>8. \A r \in Slot : IsPending(r)' => Holds(queue', r) /\ task'[r].engine \in Engine
  BY <1>1, <1>4, <1>6 DEF IsPending, QueueInv
<1>9. QueueInv'
  BY <1>7, <1>8 DEF QueueInv, Holds
<1> QED
  BY <1>2, <1>4, <1>5, <1>7, <1>9

LEMMA FindRefreshedInv ==
  ASSUME StoreInv, NEW s \in Slot, FindRefreshed(s) PROVE StoreInv'
<1>1. IsPending(s) /\ Head(queue) = s /\ Settled(s, "done")
  BY DEF FindRefreshed, IsFirst, IsPending
<1>2. /\ queue' \in Seq(Slot) /\ task' \in [Slot -> Task] /\ QueueInv'
      /\ \A r \in Slot : ~IsActive(r)' /\ task'[r].stage # "writing"
  BY <1>1, SettledFacts
<1>3. UNCHANGED <<file, issued, spent, reused, torn, orphaned>>
  BY DEF FindRefreshed, history
<1>4. \A r \in Slot : r # s => ~IsActive(r)
  BY <1>1 DEF StoreInv, QueueInv
<1>5. ~IsActive(s)
  BY DEF FindRefreshed, IsFirst, IsActive
<1>6. TokenInv => TokenInv'
  BY <1>2, <1>3, <1>4, <1>5 DEF TokenInv
<1> QED
  BY <1>2, <1>3, <1>6 DEF StoreInv, StoreTypes, IssuedInv, CopyInv

LEMMA SendTokenInv ==
  ASSUME StoreInv, NEW s \in Slot, SendToken(s) PROVE StoreInv'
<1> DEFINE e == task[s].engine
<1>1. /\ IsPending(s) /\ ~IsActive(s) /\ Head(queue) = s /\ e \in Engine
      /\ spent' = spent \cup {<<e, file[e].token>>}
      /\ reused' = (reused \/ <<e, file[e].token>> \in spent)
      /\ task' = [task EXCEPT ![s].stage = "refreshing", ![s].copy = file]
      /\ UNCHANGED <<file, queue, issued, torn, orphaned>>
  BY DEF SendToken, IsFirst, IsPending, IsActive, StoreInv, QueueInv
<1>2. /\ task \in [Slot -> Task] /\ file \in [Engine -> LoginValue]
      /\ issued \in [Engine -> Nat] /\ queue \in Seq(Slot)
  BY DEF StoreInv, StoreTypes
<1>3. task[s] \in Task /\ task'[s] = [task[s] EXCEPT !.stage = "refreshing", !.copy = file]
  BY <1>1, <1>2
<1>4. /\ task'[s] \in Task /\ task'[s].stage = "refreshing" /\ task'[s].engine = e
  BY <1>2, <1>3 DEF Task, TaskStage
<1>5. \A r \in Slot : r # s => task'[r] = task[r]
  BY <1>1, <1>2
<1>6. task' \in [Slot -> Task]
  BY <1>1, <1>2, <1>4, <1>5
<1>7. \A r \in Slot : ~IsActive(r)
  BY <1>1 DEF StoreInv, QueueInv
<1> HIDE DEF e
<1>8. QueueInv'
  BY <1>1, <1>4, <1>5 DEF StoreInv, QueueInv, IsPending, IsActive, Holds
<1>9. \A r \in Slot : task'[r].stage # "writing"
  BY <1>4, <1>5, <1>7 DEF IsActive
<1>10. IssuedInv'
  BY <1>1, <1>2 DEF StoreInv, IssuedInv, LoginValue
<1>11. ~orphaned => TokenInv' /\ ~reused'
  <2> SUFFICES ASSUME ~orphaned PROVE TokenInv' /\ ~reused'
    OBVIOUS
  <2>1. TokenInv /\ ~reused
    BY DEF StoreInv
  <2>2. ~reused'
    BY <1>1, <1>7, <2>1 DEF TokenInv
  <2>3. \A f \in Engine : <<f, file[f].token>> \in spent' => f = e
    BY <1>1, <1>7, <2>1 DEF TokenInv
  <2>4. IsActive(s)' /\ task'[s].engine = e
    BY <1>4 DEF IsActive
  <2>5. TokenInv'
    BY <1>1, <1>9, <2>3, <2>4 DEF TokenInv
  <2> QED
    BY <2>2, <2>5
<1>12. CopyInv'
  BY <1>9 DEF CopyInv
<1> QED
  BY <1>1, <1>2, <1>6, <1>8, <1>10, <1>11, <1>12 DEF StoreInv, StoreTypes

LEMMA ReadAgainInv ==
  ASSUME StoreInv, NEW s \in Slot, ReadAgain(s) PROVE StoreInv'
<1> DEFINE e == task[s].engine
           copy == Merged(s, Login(issued'[e]))
<1>1. /\ task[s].stage = "refreshing" /\ e \in Engine
      /\ issued' = [issued EXCEPT ![e] = @ + 1]
      /\ task' = [task EXCEPT ![s].stage = "writing", ![s].copy = copy]
      /\ UNCHANGED <<file, queue, spent, reused, torn, orphaned>>
  BY DEF ReadAgain, history, StoreInv, QueueInv, IsPending
<1>2. /\ task \in [Slot -> Task] /\ file \in [Engine -> LoginValue]
      /\ issued \in [Engine -> Nat] /\ queue \in Seq(Slot)
      /\ IssuedInv /\ QueueInv /\ CopyInv
  BY DEF StoreInv, StoreTypes
<1>3. /\ issued' \in [Engine -> Nat] /\ issued'[e] = issued[e] + 1
      /\ \A f \in Engine : issued[f] <= issued'[f]
  BY <1>1, <1>2
<1>4. Login(issued'[e]) \in LoginValue /\ Login(issued'[e]).token = issued'[e]
  BY <1>1, <1>3 DEF Login, LoginValue
<1>5. copy = [file EXCEPT ![e] = Login(issued'[e])]
  BY DEF Merged
<1>6. /\ copy \in [Engine -> LoginValue] /\ copy[e].token = issued'[e]
      /\ \A f \in Engine : f # e => copy[f] = file[f]
  BY <1>1, <1>2, <1>4, <1>5
<1> HIDE DEF copy
<1>7. task[s] \in Task /\ task'[s] = [task[s] EXCEPT !.stage = "writing", !.copy = copy]
  BY <1>1, <1>2
<1>8. /\ task'[s] \in Task /\ task'[s].stage = "writing" /\ task'[s].engine = e
      /\ task'[s].copy = copy
  BY <1>6, <1>7 DEF Task, TaskStage
<1>9. \A r \in Slot : r # s => task'[r] = task[r] /\ ~IsActive(r)
  BY <1>1, <1>2 DEF QueueInv, IsActive
<1>10. task' \in [Slot -> Task]
  BY <1>1, <1>2, <1>8, <1>9
<1> HIDE DEF e
<1>11. QueueInv'
  BY <1>1, <1>2, <1>8, <1>9 DEF QueueInv, IsPending, IsActive, Holds
<1>12. \A f \in Engine : file[f].token \in Nat /\ issued[f] \in Nat /\ issued'[f] \in Nat
  BY <1>2, <1>3 DEF LoginValue
<1>13. IssuedInv'
  BY <1>1, <1>2, <1>3, <1>12 DEF IssuedInv
<1>14. CopyInv'
  <2>1. \A r \in Slot : task'[r].stage = "writing" => r = s
    BY <1>9 DEF IsActive
  <2>2. \A f \in Engine : file[f].token <= copy[f].token /\ copy[f].token <= issued'[f]
    <3> TAKE f \in Engine
    <3>1. CASE f = e
      BY <1>2, <1>3, <1>6, <1>12, <3>1 DEF IssuedInv
    <3>2. CASE f # e
      BY <1>2, <1>3, <1>6, <1>12, <3>2 DEF IssuedInv
    <3> QED
      BY <3>1, <3>2
  <2> QED
    BY <1>1, <1>8, <2>1, <2>2 DEF CopyInv
<1>15. ~orphaned => TokenInv' /\ ~reused'
  <2> SUFFICES ASSUME ~orphaned PROVE TokenInv' /\ ~reused'
    OBVIOUS
  <2>1. TokenInv /\ ~reused
    BY DEF StoreInv
  <2>2. \A f \in Engine : <<f, file[f].token>> \in spent => f = e
    BY <1>1, <1>9, <2>1 DEF TokenInv, e
  <2>3. <<e, copy[e].token>> \notin spent
    BY <1>1, <1>2, <1>3, <1>6, <1>12 DEF IssuedInv
  <2>4. \A f \in Engine : <<f, copy[f].token>> \notin spent
    BY <1>6, <2>2, <2>3
  <2>5. \A r \in Slot : task'[r].stage = "writing" => r = s
    BY <1>9 DEF IsActive
  <2>6. IsActive(s)'
    BY <1>8 DEF IsActive
  <2>7. \A f \in Engine : <<f, file'[f].token>> \in spent' => f = e
    BY <1>1, <2>2
  <2>8. \A r \in Slot : task'[r].stage = "writing" =>
          \A f \in Engine : <<f, task'[r].copy[f].token>> \notin spent'
    <3> SUFFICES ASSUME NEW r \in Slot, task'[r].stage = "writing", NEW f \in Engine
                 PROVE  <<f, task'[r].copy[f].token>> \notin spent
      BY <1>1
    <3>1. r = s /\ task'[r].copy = copy
      BY <1>8, <2>5
    <3> QED
      BY <2>4, <3>1
  <2>9. TokenInv'
    BY <1>8, <2>6, <2>7, <2>8 DEF TokenInv
  <2> QED
    BY <1>1, <2>1, <2>9
<1> QED
  BY <1>1, <1>2, <1>3, <1>10, <1>11, <1>13, <1>14, <1>15 DEF StoreInv, StoreTypes

LEMMA RenameInv ==
  ASSUME StoreInv, NEW s \in Slot, Rename(s)
  PROVE  /\ StoreInv'
         /\ torn \/ \A e \in Engine : file[e].token <= file'[e].token
<1>1. IsPending(s) /\ Head(queue) = s /\ Settled(s, "done")
  BY DEF Rename, IsPending, IsActive, StoreInv, QueueInv
<1>2. /\ queue' \in Seq(Slot) /\ task' \in [Slot -> Task] /\ QueueInv'
      /\ \A r \in Slot : ~IsActive(r)' /\ task'[r].stage # "writing"
  BY <1>1, SettledFacts
<1>3. /\ task[s].stage = "writing" /\ file' = task[s].copy
      /\ UNCHANGED <<issued, spent, reused, torn, orphaned>>
  BY DEF Rename, history
<1>4. file' \in [Engine -> LoginValue]
  BY <1>3 DEF StoreInv, StoreTypes, Task
<1>5. IssuedInv'
  BY <1>3 DEF StoreInv, CopyInv, IssuedInv
<1>6. TokenInv => TokenInv'
  BY <1>2, <1>3 DEF TokenInv
<1>7. CopyInv'
  BY <1>2 DEF CopyInv
<1>8. torn \/ \A e \in Engine : file[e].token <= file'[e].token
  BY <1>3 DEF StoreInv, CopyInv
<1> QED
  BY <1>2, <1>3, <1>4, <1>5, <1>6, <1>7, <1>8 DEF StoreInv, StoreTypes

LEMMA RefreshFailsInv ==
  ASSUME StoreInv, NEW s \in Slot, RefreshFails(s) PROVE StoreInv'
<1>1. IsPending(s) /\ Head(queue) = s /\ Settled(s, "failed")
  BY DEF RefreshFails, IsPending, IsActive, StoreInv, QueueInv
<1>2. /\ queue' \in Seq(Slot) /\ task' \in [Slot -> Task] /\ QueueInv'
      /\ \A r \in Slot : ~IsActive(r)' /\ task'[r].stage # "writing"
  BY <1>1, SettledFacts
<1>3. UNCHANGED <<file, issued, spent, reused, torn>> /\ orphaned'
  BY DEF RefreshFails
<1> QED
  BY <1>2, <1>3 DEF StoreInv, StoreTypes, IssuedInv, CopyInv

LEMMA StoreStepInv ==
  ASSUME StoreInv, NEW s \in Slot, StoreStep(s)
  PROVE  StoreInv'
BY FindRefreshedInv, SendTokenInv, ReadAgainInv, RenameInv, RefreshFailsInv DEF StoreStep

\* A task that is added, or forgotten when it is settled.
LEMMA EnqueueInv ==
  ASSUME StoreInv, NEW s \in Slot, NEW e \in Engine, task[s].stage = "none", Enqueue(s, e)
  PROVE  StoreInv'
<1>1. /\ queue' = Append(queue, s)
      /\ task' = [task EXCEPT ![s] = [NoTask EXCEPT !.stage = "queued", !.engine = e]]
      /\ UNCHANGED <<file, issued, spent, reused, torn, orphaned>>
  BY DEF Enqueue, history
<1>2. task \in [Slot -> Task] /\ queue \in Seq(Slot) /\ QueueInv
  BY DEF StoreInv, StoreTypes
<1>3. /\ [NoTask EXCEPT !.stage = "queued", !.engine = e] \in Task
      /\ [NoTask EXCEPT !.stage = "queued", !.engine = e].stage = "queued"
      /\ [NoTask EXCEPT !.stage = "queued", !.engine = e].engine = e
  BY NoTaskFacts DEF Task, TaskStage
<1>4. /\ task' \in [Slot -> Task] /\ task'[s].stage = "queued" /\ task'[s].engine = e
      /\ \A r \in Slot : r # s => task'[r] = task[r]
  BY <1>1, <1>2, <1>3
<1>5. queue' \in Seq(Slot) /\ \A r : Holds(queue, r) \/ r = s => Holds(queue', r)
  <2>1. /\ queue' \in Seq(Slot) /\ Len(queue') = Len(queue) + 1 /\ Len(queue) \in Nat
        /\ DOMAIN queue' = 1..(Len(queue) + 1) /\ DOMAIN queue = 1..Len(queue)
        /\ queue'[Len(queue) + 1] = s
        /\ \A i \in 1..Len(queue) : queue'[i] = queue[i]
    BY <1>1, <1>2
  <2> QED
    BY <2>1 DEF Holds
<1>6. \A r \in Slot : IsActive(r)' <=> IsActive(r)
  BY <1>4 DEF IsActive
<1>7. QueueInv'
  <2>1. \A r \in Slot : IsPending(r)' => Holds(queue', r) /\ task'[r].engine \in Engine
    BY <1>2, <1>4, <1>5 DEF QueueInv, IsPending
  <2>2. \A r \in Slot : IsActive(r) => Head(queue') = r
    <3> SUFFICES ASSUME NEW r \in Slot, IsActive(r) PROVE Head(queue') = r
      OBVIOUS
    <3>1. Head(queue) = r /\ Holds(queue, r)
      BY <1>2 DEF QueueInv, IsPending, IsActive
    <3>2. queue # <<>>
      BY <3>1 DEF Holds
    <3> QED
      BY <1>1, <1>2, <3>1, <3>2
  <2> QED
    BY <1>6, <2>1, <2>2 DEF QueueInv, Holds
<1>8. CopyInv'
  BY <1>1, <1>4 DEF StoreInv, CopyInv
<1>9. TokenInv => TokenInv'
  <2>1. \A r \in Slot : IsActive(r) => task'[r].engine = task[r].engine
    BY <1>4 DEF IsActive
  <2>2. \A r \in Slot : task'[r].stage = "writing" =>
          task[r].stage = "writing" /\ task'[r].copy = task[r].copy
    BY <1>4
  <2> QED
    BY <1>1, <1>6, <2>1, <2>2 DEF TokenInv
<1> QED
  BY <1>1, <1>4, <1>5, <1>7, <1>8, <1>9 DEF StoreInv, StoreTypes, IssuedInv

LEMMA ForgetTaskInv ==
  ASSUME StoreInv, NEW s \in Slot, ~IsPending(s), task' = [task EXCEPT ![s] = NoTask],
         UNCHANGED <<file, queue, issued, history>>
  PROVE  StoreInv'
<1>1. UNCHANGED <<file, queue, issued, spent, reused, torn, orphaned>>
  BY DEF history
<1>2. task \in [Slot -> Task] /\ QueueInv
  BY DEF StoreInv, StoreTypes
<1>3. /\ task' \in [Slot -> Task] /\ task'[s].stage = "none"
      /\ \A r \in Slot : r # s => task'[r] = task[r]
  BY <1>2, NoTaskFacts
<1>4. \A r \in Slot : /\ IsPending(r)' \/ IsActive(r)' => r # s
                      /\ task'[r].stage = "writing" => r # s
  BY <1>3 DEF IsPending, IsActive
<1>5. \A r \in Slot : IsActive(r) => r # s
  BY DEF IsPending, IsActive
<1>6. QueueInv'
  BY <1>1, <1>2, <1>3, <1>4 DEF QueueInv, IsPending, IsActive, Holds
<1>7. CopyInv'
  BY <1>1, <1>3, <1>4 DEF StoreInv, CopyInv
<1>8. TokenInv => TokenInv'
  BY <1>1, <1>3, <1>4, <1>5 DEF TokenInv, IsActive
<1> QED
  BY <1>1, <1>3, <1>6, <1>7, <1>8 DEF StoreInv, StoreTypes, IssuedInv

LEMMA StoreDiesInv == StoreInv /\ StoreDies => StoreInv'
<1> SUFFICES ASSUME StoreInv, StoreDies PROVE StoreInv'
  OBVIOUS
<1>1. /\ orphaned' = (orphaned \/ \E s \in Slot : IsActive(s))
      /\ queue' = <<>> /\ task' = [s \in Slot |-> NoTask]
      /\ UNCHANGED <<file, issued, spent, reused, torn>>
  BY DEF StoreDies, IsActive
<1>2. task' \in [Slot -> Task] /\ \A s \in Slot : task'[s].stage = "none"
  BY <1>1, NoTaskFacts
<1>3. QueueInv' /\ CopyInv'
  BY <1>2 DEF QueueInv, CopyInv, IsPending, IsActive
<1>4. ~orphaned' => TokenInv' /\ ~reused'
  BY <1>1, <1>2 DEF StoreInv, TokenInv
<1>5. queue' \in Seq(Slot)
  BY <1>1
<1> QED
  BY <1>1, <1>2, <1>3, <1>4, <1>5 DEF StoreInv, StoreTypes, IssuedInv

LEMMA LoginCommandInv ==
  ASSUME StoreInv, NEW e \in Engine, LoginCommand(e)
  PROVE  /\ StoreInv'
         /\ \A f \in Engine : file[f].token <= file'[f].token
<1>1. /\ issued' = [issued EXCEPT ![e] = @ + 1]
      /\ file' = [file EXCEPT ![e] = Login(issued'[e])]
      /\ torn' = (torn \/ \E s \in Slot : task[s].stage = "writing")
      /\ UNCHANGED <<queue, task, spent, reused, orphaned>>
  BY DEF LoginCommand
<1>2. /\ file \in [Engine -> LoginValue] /\ issued \in [Engine -> Nat]
      /\ IssuedInv /\ CopyInv /\ task \in [Slot -> Task]
  BY DEF StoreInv, StoreTypes
<1>3. /\ issued' \in [Engine -> Nat] /\ issued'[e] = issued[e] + 1
      /\ \A f \in Engine : issued[f] <= issued'[f]
  BY <1>1, <1>2
<1>4. Login(issued'[e]) \in LoginValue /\ Login(issued'[e]).token = issued'[e]
  BY <1>3 DEF Login, LoginValue
<1>5. /\ file' \in [Engine -> LoginValue] /\ file'[e].token = issued'[e]
      /\ \A f \in Engine : f # e => file'[f] = file[f]
  BY <1>1, <1>2, <1>4
<1>6. \A f \in Engine : /\ file[f].token \in Nat /\ issued[f] \in Nat /\ issued'[f] \in Nat
                        /\ file'[f].token \in Nat
  BY <1>2, <1>3, <1>5 DEF LoginValue
<1>7. IssuedInv' /\ \A f \in Engine : file[f].token <= file'[f].token
  BY <1>1, <1>2, <1>3, <1>5, <1>6 DEF IssuedInv
<1>8. CopyInv'
  <2> SUFFICES ASSUME NEW s \in Slot, task[s].stage = "writing", NEW f \in Engine
               PROVE  /\ task[s].copy[f].token <= issued'[f] /\ torn'
    BY <1>1 DEF CopyInv
  <2>1. task[s].copy[f].token \in Nat /\ task[s].copy[f].token <= issued[f]
    BY <1>2 DEF CopyInv, Task, LoginValue
  <2>2. issued[f] \in Nat /\ issued'[f] \in Nat /\ issued[f] <= issued'[f]
    BY <1>3, <1>6
  <2>3. task[s].copy[f].token <= issued'[f]
    BY <2>1, <2>2
  <2>4. torn'
    BY <1>1
  <2> QED
    BY <2>3, <2>4
<1>9. TokenInv => TokenInv'
  <2>1. <<e, issued'[e]>> \notin spent
    BY <1>2, <1>3, <1>6 DEF IssuedInv
  <2> QED
    BY <1>1, <1>5, <2>1 DEF TokenInv, IsActive
<1>10. QueueInv'
  BY <1>1 DEF StoreInv, QueueInv, IsPending, IsActive, Holds
<1> QED
  BY <1>1, <1>3, <1>5, <1>7, <1>8, <1>9, <1>10 DEF StoreInv, StoreTypes

LEMMA ExpireInv ==
  ASSUME StoreInv, NEW e \in Engine, Expire(e)
  PROVE  /\ StoreInv'
         /\ \A f \in Engine : file'[f].token = file[f].token
<1>1. /\ file' = [file EXCEPT ![e].good = FALSE]
      /\ UNCHANGED <<queue, task, issued, spent, reused, torn, orphaned>>
  BY DEF Expire, history
<1>2. file \in [Engine -> LoginValue]
  BY DEF StoreInv, StoreTypes
<1>3. file' \in [Engine -> LoginValue] /\ \A f \in Engine : file'[f].token = file[f].token
  BY <1>1, <1>2 DEF LoginValue
<1> QED
  BY <1>1, <1>3 DEF StoreInv, StoreTypes, QueueInv, IssuedInv, CopyInv, TokenInv, IsPending,
     IsActive, Holds

LEMMA StoreStutters == StoreInv /\ UNCHANGED storeVars => StoreInv'
BY DEF storeVars, StoreInv, StoreTypes, QueueInv, IssuedInv, CopyInv, TokenInv, IsPending, IsActive,
   Holds

LEMMA StoreInvInit == StoreInit => StoreInv
<1> SUFFICES ASSUME StoreInit PROVE StoreInv
  OBVIOUS
<1>1. PICK on \in SUBSET Engine :
        /\ file = [e \in Engine |-> IF e \in on THEN Login(1) ELSE NoLogin]
        /\ issued = [e \in Engine |-> IF e \in on THEN 1 ELSE 0]
  BY DEF StoreInit
<1>2. /\ queue = <<>> /\ task = [s \in Slot |-> NoTask]
      /\ spent = {} /\ ~reused /\ ~torn /\ ~orphaned
  BY DEF StoreInit
<1>3. /\ file \in [Engine -> LoginValue] /\ issued \in [Engine -> Nat]
      /\ \A e \in Engine : file[e].token = issued[e]
  BY <1>1 DEF Login, NoLogin, LoginValue
<1>4. task \in [Slot -> Task] /\ \A s \in Slot : task[s].stage = "none"
  BY <1>2, NoTaskFacts
<1>5. IssuedInv /\ TokenInv
  BY <1>2, <1>3, <1>4 DEF IssuedInv, TokenInv
<1>6. QueueInv /\ CopyInv /\ queue \in Seq(Slot)
  BY <1>2, <1>4 DEF QueueInv, CopyInv, IsPending, IsActive
<1> QED
  BY <1>2, <1>3, <1>4, <1>5, <1>6 DEF StoreInv, StoreTypes

(***************************************************************************)
(* Choosing an engine, and taking an id out of the map.                    *)
(***************************************************************************)
LEMMA LeastIsMin ==
  ASSUME NEW T \in SUBSET Nat, T # {}
  PROVE  Min(T) \in T
<1> DEFINE R == OpToRel(<, Nat)
<1>1. \A x, y \in Nat : x < y => <<x, y>> \in R
  BY DEF OpToRel
<1>2. IsWellFoundedOn(R, Nat)
  BY NatLessThanWellFounded
<1> HIDE DEF R
<1>3. \E i \in T : \A j \in T : ~(<<j, i>> \in R)
  BY <1>2, WFMin, Zenon
<1>4. PICK i \in T : \A j \in T : ~(<<j, i>> \in R)
  BY <1>3
<1>5. \A j \in T : i <= j
  <2>1. \A j \in T : j \in Nat /\ i \in Nat /\ ~(j < i)
    BY <1>1, <1>4
  <2> QED
    BY <2>1
<1> QED
  BY <1>5 DEF Min

LEMMA ChoiceIsEngine ==
  ASSUME NEW known \in SUBSET Engine, NEW choice
  PROVE  pickLlmChoice(known, choice) \in MaybeEngine
<1>1. CASE choice \in known
  BY <1>1 DEF pickLlmChoice, MaybeEngine
<1>2. CASE choice \notin known /\ known = {}
  BY <1>2 DEF pickLlmChoice, MaybeEngine
<1>3. CASE choice \notin known /\ known # {}
  <2> DEFINE T == {i \in 1..Len(Engines) : Engines[i] \in known}
  <2>1. Engines \in Seq(Engine) /\ Engine = Range(Engines)
    BY ConversationAssumption
  <2>2. DOMAIN Engines = 1..Len(Engines) /\ Len(Engines) \in Nat
    BY <2>1
  <2>3. T \in SUBSET Nat /\ T # {}
    BY <1>3, <2>1, <2>2 DEF Range
  <2>4. Min(T) \in T
    BY <2>3, LeastIsMin
  <2>5. pickLlmChoice(known, choice) = Engines[Min(T)]
    BY <1>3, <2>3 DEF pickLlmChoice, SelectInSeq
  <2> QED
    BY <2>1, <2>2, <2>4, <2>5 DEF MaybeEngine
<1> QED
  BY <1>1, <1>2, <1>3

LEMMA RemoveFirstFacts ==
  ASSUME NEW S, NEW q \in Seq(S), NEW x, Holds(q, x)
  PROVE  \E k \in 1..Len(q) :
           /\ q[k] = x
           /\ RemoveFirst(q, x) = [i \in 1..(Len(q) - 1) |-> IF i < k THEN q[i] ELSE q[i + 1]]
<1> DEFINE T == {i \in 1..Len(q) : q[i] = x}
<1>1. Len(q) \in Nat /\ DOMAIN q = 1..Len(q)
  OBVIOUS
<1>2. T \in SUBSET Nat /\ T # {}
  BY <1>1 DEF Holds
<1>3. Min(T) \in T
  BY <1>2, LeastIsMin
<1>4. PICK k : k = Min(T)
  OBVIOUS
<1>5. k \in 1..Len(q) /\ q[k] = x
  BY <1>3, <1>4
<1>6. RemoveFirst(q, x) = SubSeq(q, 1, k - 1) \o SubSeq(q, k + 1, Len(q))
  BY <1>2, <1>4, <1>5 DEF RemoveFirst, RemoveAt, SelectInSeq
<1>7. /\ SubSeq(q, 1, k - 1) \in Seq(S) /\ Len(SubSeq(q, 1, k - 1)) = k - 1
      /\ \A i \in 1..(k - 1) : SubSeq(q, 1, k - 1)[i] = q[i]
  BY <1>1, <1>5
<1>8. /\ SubSeq(q, k + 1, Len(q)) \in Seq(S) /\ Len(SubSeq(q, k + 1, Len(q))) = Len(q) - k
      /\ \A i \in 1..(Len(q) - k) : SubSeq(q, k + 1, Len(q))[i] = q[k + i]
  <2>1. PICK m, n : m = k + 1 /\ n = Len(q)
    OBVIOUS
  <2>2. m \in Int /\ n \in Int /\ \A i \in m..n : q[i] \in S
    BY <1>1, <1>5, <2>1
  <2>3. /\ SubSeq(q, m, n) \in Seq(S)
        /\ Len(SubSeq(q, m, n)) = IF m <= n THEN n - m + 1 ELSE 0
        /\ \A i \in 1..(n - m + 1) : SubSeq(q, m, n)[i] = q[m + i - 1]
    BY <2>2, SubSeqProperties
  <2>4. /\ (IF m <= n THEN n - m + 1 ELSE 0) = Len(q) - k /\ n - m + 1 = Len(q) - k
        /\ \A i \in 1..(Len(q) - k) : m + i - 1 = k + i
    <3>1. m = k + 1 /\ n = Len(q) /\ k \in Int /\ n \in Int /\ k <= n
      BY <1>1, <1>5, <2>1
    <3>2. n - m + 1 = n - k /\ (IF m <= n THEN n - m + 1 ELSE 0) = n - k
      BY <3>1
    <3>3. \A i \in 1..(n - k) : m + i - 1 = k + i
      BY <3>1
    <3> QED
      BY <3>1, <3>2, <3>3
  <2> QED
    BY <2>1, <2>3, <2>4
<1> DEFINE a == SubSeq(q, 1, k - 1)
           b == SubSeq(q, k + 1, Len(q))
<1>9. /\ a \o b \in Seq(S) /\ Len(a \o b) = Len(q) - 1
      /\ \A i \in 1..(Len(q) - 1) : (a \o b)[i] = IF i < k THEN q[i] ELSE q[i + 1]
  <2>1. a \in Seq(S) /\ b \in Seq(S) /\ Len(a) = k - 1 /\ Len(b) = Len(q) - k
    BY <1>7, <1>8
  <2>2. \A i \in 1..(k - 1) : a[i] = q[i]
    BY <1>7
  <2>3. \A i \in 1..(Len(q) - k) : b[i] = q[k + i]
    BY <1>8
  <2> HIDE DEF a, b
  <2>4. /\ a \o b \in Seq(S) /\ Len(a \o b) = Len(q) - 1
        /\ \A i \in 1..(Len(q) - 1) : (a \o b)[i] = IF i < k THEN a[i] ELSE b[i - (k - 1)]
    <3>1. /\ a \o b \in Seq(S) /\ Len(a \o b) = Len(a) + Len(b)
          /\ \A i \in 1..(Len(a) + Len(b)) :
               (a \o b)[i] = IF i <= Len(a) THEN a[i] ELSE b[i - Len(a)]
      BY <2>1, ConcatProperties
    <3>2. Len(a) + Len(b) = Len(q) - 1 /\ \A i \in Nat : i <= Len(a) <=> i < k
      BY <1>1, <1>5, <2>1
    <3> QED
      BY <2>1, <3>1, <3>2
  <2>5. \A i \in 1..(Len(q) - 1) : ~(i < k) => b[i - (k - 1)] = q[i + 1]
    <3> SUFFICES ASSUME NEW i \in 1..(Len(q) - 1), ~(i < k) PROVE b[i - (k - 1)] = q[i + 1]
      OBVIOUS
    <3>1. i - (k - 1) \in 1..(Len(q) - k) /\ k + (i - (k - 1)) = i + 1
      BY <1>1, <1>5
    <3> QED
      BY <2>3, <3>1
  <2> QED
    BY <1>1, <1>5, <2>2, <2>4, <2>5
<1>10. a \o b = [i \in 1..(Len(q) - 1) |-> IF i < k THEN q[i] ELSE q[i + 1]]
  <2> DEFINE r == a \o b
  <2>1. r \in Seq(S) /\ Len(r) = Len(q) - 1
    BY <1>9
  <2>2. \A i \in 1..(Len(q) - 1) : r[i] = IF i < k THEN q[i] ELSE q[i + 1]
    BY <1>9
  <2> HIDE DEF r
  <2>3. r = [i \in 1..(Len(q) - 1) |-> r[i]]
    BY <2>1
  <2> QED
    BY <2>2, <2>3 DEF r
<1> QED
  BY <1>5, <1>6, <1>10

(***************************************************************************)
(* The map.                                                                *)
(***************************************************************************)
Ranked(u, id) ==
  IF id > Len(u) THEN Append(u, Len(u) + 1)
  ELSE [i \in DOMAIN u |-> IF i = id THEN Len(u)
                           ELSE u[i] - (IF u[i] > u[id] THEN 1 ELSE 0)]

LEMMA RankedFacts ==
  ASSUME NEW u \in Seq(Nat), IsRanking(u), NEW id \in 1..(Len(u) + 1)
  PROVE  LET v == Ranked(u, id) IN
         /\ v \in Seq(Nat) /\ IsRanking(v)
         /\ DOMAIN v = DOMAIN u \cup {id} /\ DOMAIN v = 1..Len(v)
         /\ Len(v) = IF id > Len(u) THEN Len(u) + 1 ELSE Len(u)
         /\ \A i \in DOMAIN u : i # id => v[i] < v[id]
         /\ \A i, j \in DOMAIN u : i # id /\ j # id /\ u[i] < u[j] => v[i] < v[j]
<1> DEFINE v == Ranked(u, id)
           n == Len(u)
<1>1. /\ n \in Nat /\ DOMAIN u = 1..n /\ id \in Nat \ {0}
      /\ \A i \in 1..n : u[i] \in 1..n
      /\ \A i, j \in 1..n : u[i] = u[j] => i = j
  BY DEF IsRanking, IsInjective
<1>2. CASE id > n
  <2>1. v = Append(u, n + 1) /\ id = n + 1
    BY <1>1, <1>2 DEF Ranked
  <2>2. /\ v \in Seq(Nat) /\ Len(v) = n + 1 /\ DOMAIN v = 1..(n + 1)
        /\ v[n + 1] = n + 1 /\ \A i \in 1..n : v[i] = u[i]
    BY <1>1, <2>1
  <2> HIDE DEF v, n
  <2>3. \A i \in 1..n : v[i] \in 1..n
    BY <1>1, <2>2
  <2>4. IsRanking(v)
    <3>1. \A i \in 1..(n + 1) : v[i] \in 1..(n + 1)
      BY <1>1, <2>2, <2>3
    <3>2. \A i, j \in 1..(n + 1) : v[i] = v[j] => i = j
      BY <1>1, <2>2, <2>3, SMTT(30)
    <3> QED
      BY <2>2, <3>1, <3>2 DEF IsRanking, IsInjective
  <2>5. DOMAIN v = DOMAIN u \cup {id}
    BY <1>1, <2>1, <2>2
  <2>6. \A i \in DOMAIN u : v[i] < v[id]
    BY <1>1, <2>1, <2>2, <2>3
  <2>7. \A i, j \in DOMAIN u : u[i] < u[j] => v[i] < v[j]
    BY <1>1, <2>2
  <2> QED
    BY <1>2, <2>1, <2>2, <2>4, <2>5, <2>6, <2>7 DEF v, n
<1>3. CASE ~(id > n)
  <2>1. /\ id \in 1..n
        /\ v = [i \in 1..n |-> IF i = id THEN n ELSE u[i] - (IF u[i] > u[id] THEN 1 ELSE 0)]
    BY <1>1, <1>3 DEF Ranked
  <2> HIDE DEF v, n
  <2>2. v[id] = n
    BY <2>1
  <2>3. \A i \in 1..n : i # id =>
          /\ u[i] # u[id]
          /\ u[i] < u[id] => v[i] = u[i]
          /\ u[i] > u[id] => v[i] = u[i] - 1
    BY <1>1, <2>1
  <2>4. \A i \in 1..n : i # id => v[i] \in 1..n /\ v[i] < n
    <3> SUFFICES ASSUME NEW i \in 1..n, i # id PROVE v[i] \in 1..n /\ v[i] < n
      OBVIOUS
    <3>1. u[i] \in 1..n /\ u[id] \in 1..n /\ u[i] # u[id]
      BY <1>1, <2>1, <2>3
    <3>2. n \in Nat /\ (u[i] < u[id] \/ u[i] > u[id])
      BY <1>1, <3>1
    <3>3. CASE u[i] < u[id]
      <4>1. v[i] = u[i]
        BY <2>3, <3>3
      <4> QED
        BY <3>1, <3>2, <3>3, <4>1
    <3>4. CASE u[i] > u[id]
      <4>1. v[i] = u[i] - 1
        BY <2>3, <3>4
      <4> QED
        BY <3>1, <3>2, <3>4, <4>1
    <3> QED
      BY <3>2, <3>3, <3>4
  <2>5. \A i, j \in 1..n : i # id /\ j # id /\ u[i] < u[j] => v[i] < v[j]
    <3> SUFFICES ASSUME NEW i \in 1..n, NEW j \in 1..n, i # id, j # id, u[i] < u[j]
                 PROVE  v[i] < v[j]
      OBVIOUS
    <3>1. u[i] \in Nat /\ u[j] \in Nat /\ u[id] \in Nat /\ u[i] # u[id] /\ u[j] # u[id]
      <4>1. u[i] \in 1..n /\ u[j] \in 1..n /\ u[id] \in 1..n /\ n \in Nat
        BY <1>1, <2>1
      <4>2. u[i] # u[id] /\ u[j] # u[id]
        BY <2>3
      <4> QED
        BY <4>1, <4>2
    <3>2. u[i] > u[id] \/ u[i] < u[id]
      BY <3>1
    <3>3. CASE u[i] > u[id]
      <4>1. u[j] > u[id]
        BY <3>1, <3>3
      <4>2. v[i] = u[i] - 1 /\ v[j] = u[j] - 1
        BY <2>3, <3>3, <4>1
      <4> QED
        BY <3>1, <4>2
    <3>4. CASE u[i] < u[id]
      <4>1. v[i] = u[i]
        BY <2>3, <3>4
      <4>2. CASE u[j] < u[id]
        <5>1. v[j] = u[j]
          BY <2>3, <4>2
        <5> QED
          BY <4>1, <5>1
      <4>3. CASE u[j] > u[id]
        <5>1. v[j] = u[j] - 1
          BY <2>3, <4>3
        <5>2. u[i] < u[j] - 1
          BY <3>1, <3>4, <4>3
        <5> QED
          BY <4>1, <5>1, <5>2
      <4> QED
        BY <3>1, <4>2, <4>3
    <3> QED
      BY <3>2, <3>3, <3>4
  <2>6. v \in [1..n -> Nat]
    BY <1>1, <2>1, <2>2, <2>4
  <2>7. v \in Seq(Nat) /\ Len(v) = n /\ DOMAIN v = 1..n
    BY <1>1, <2>6
  <2>8. IsRanking(v)
    <3>1. \A i \in 1..n : v[i] \in 1..n
      BY <1>1, <2>1, <2>2, <2>4
    <3>2. ASSUME NEW i \in 1..n, NEW j \in 1..n, v[i] = v[j], i # j
          PROVE  FALSE
      <4>1. i # id /\ j # id
        <5>1. ASSUME i = id PROVE FALSE
          <6>1. v[j] < n
            BY <2>4, <3>2, <5>1
          <6>2. v[j] = n
            BY <2>2, <3>2, <5>1
          <6> QED
            BY <1>1, <6>1, <6>2
        <5>2. ASSUME j = id PROVE FALSE
          <6>1. v[i] < n
            BY <2>4, <3>2, <5>2
          <6>2. v[i] = n
            BY <2>2, <3>2, <5>2
          <6> QED
            BY <1>1, <6>1, <6>2
        <5> QED
          BY <5>1, <5>2
      <4>2. u[i] # u[j] /\ u[i] \in Nat /\ u[j] \in Nat /\ v[i] \in Nat /\ v[j] \in Nat
        <5>1. u[i] # u[j]
          BY <1>1, <3>2
        <5>2. u[i] \in 1..n /\ u[j] \in 1..n /\ v[i] \in 1..n /\ v[j] \in 1..n /\ n \in Nat
          BY <1>1, <3>1
        <5> QED
          BY <5>1, <5>2
      <4>3. u[i] < u[j] \/ u[j] < u[i]
        BY <4>2
      <4>4. v[i] < v[j] \/ v[j] < v[i]
        BY <2>5, <4>1, <4>3
      <4> QED
        BY <3>2, <4>2, <4>4
    <3> QED
      BY <2>7, <3>1, <3>2 DEF IsRanking, IsInjective
  <2>9. DOMAIN v = DOMAIN u \cup {id}
    BY <1>1, <2>1, <2>7
  <2>10. \A i \in DOMAIN u : i # id => v[i] < v[id]
    BY <1>1, <2>2, <2>4
  <2> QED
    BY <1>1, <1>3, <2>5, <2>7, <2>8, <2>9, <2>10 DEF v, n
<1> QED
  BY <1>2, <1>3

LEMMA RemovedFacts ==
  ASSUME NEW n \in Nat, NEW order \in Seq(1..n), NEW u, NEW id,
         \A i \in 1..n : u[i] \in Nat,
         \A i, j \in DOMAIN order : i < j => u[order[i]] < u[order[j]]
  PROVE  LET r == RemoveFirst(order, id) IN
         /\ r \in Seq(1..n) /\ Len(r) <= Len(order)
         /\ \A i, j \in DOMAIN r : i < j => u[r[i]] < u[r[j]]
         /\ \A x : Holds(r, x) <=> Holds(order, x) /\ x # id
<1>1. Len(order) \in Nat /\ DOMAIN order = 1..Len(order)
  OBVIOUS
<1>2. CASE ~Holds(order, id)
  <2>1. RemoveFirst(order, id) = order
    BY <1>1, <1>2 DEF Holds, RemoveFirst
  <2> QED
    BY <1>1, <1>2, <2>1
<1>3. CASE Holds(order, id)
  <2> DEFINE r == RemoveFirst(order, id)
             m == Len(order)
  <2>1. PICK k \in 1..m :
          /\ order[k] = id
          /\ r = [i \in 1..(m - 1) |-> IF i < k THEN order[i] ELSE order[i + 1]]
    BY <1>3, RemoveFirstFacts
  <2>2. m \in Nat /\ DOMAIN order = 1..m /\ \A i \in 1..m : order[i] \in 1..n
    BY <1>1
  <2> HIDE DEF r, m
  <2>3. k \in Nat /\ m - 1 \in Nat
    BY <2>1, <2>2
  <2>4. \A i \in 1..(m - 1) : /\ i < k => r[i] = order[i] /\ i \in 1..m
                              /\ ~(i < k) => r[i] = order[i + 1] /\ i + 1 \in 1..m
    BY <2>1, <2>2, <2>3
  <2>5. r \in [1..(m - 1) -> 1..n]
    BY <2>1, <2>2, <2>3, <2>4
  <2>6. r \in Seq(1..n) /\ Len(r) = m - 1 /\ DOMAIN r = 1..(m - 1)
    BY <2>3, <2>5
  <2>7. ASSUME NEW i \in DOMAIN r, NEW j \in DOMAIN r, i < j PROVE u[r[i]] < u[r[j]]
    <3>1. PICK a, b : /\ a = IF i < k THEN i ELSE i + 1
                      /\ b = IF j < k THEN j ELSE j + 1
      OBVIOUS
    <3>2. i \in Nat /\ j \in Nat
      BY <2>6
    <3>3. a < b
      BY <2>3, <2>7, <3>1, <3>2
    <3>4. a \in 1..m /\ b \in 1..m /\ r[i] = order[a] /\ r[j] = order[b]
      BY <2>4, <2>6, <3>1
    <3> QED
      BY <2>2, <3>3, <3>4
  <2>8. ASSUME NEW x, Holds(r, x) PROVE Holds(order, x) /\ x # id
    <3>1. PICK i \in 1..(m - 1) : r[i] = x
      BY <2>6, <2>8 DEF Holds
    <3>2. PICK a \in 1..m : a # k /\ order[a] = x
      <4>1. CASE i < k
        BY <2>3, <2>4, <3>1, <4>1
      <4>2. CASE ~(i < k)
        <5>1. i + 1 # k /\ i + 1 \in 1..m /\ order[i + 1] = x
          BY <2>3, <2>4, <3>1, <4>2
        <5> QED
          BY <5>1
      <4> QED
        BY <4>1, <4>2
    <3>3. u[order[a]] < u[order[k]] \/ u[order[k]] < u[order[a]]
      <4>1. a < k \/ k < a
        BY <2>2, <3>2
      <4>2. a \in DOMAIN order /\ k \in DOMAIN order
        BY <2>2
      <4> QED
        BY <4>1, <4>2
    <3>4. u[order[a]] \in Nat /\ u[order[k]] \in Nat
      BY <2>1, <2>2, <3>2
    <3>5. x # id
      BY <2>1, <3>2, <3>3, <3>4
    <3> QED
      BY <2>2, <3>2, <3>5 DEF Holds
  <2>9. ASSUME NEW x, Holds(order, x), x # id PROVE Holds(r, x)
    <3>1. PICK a \in 1..m : order[a] = x
      BY <2>2, <2>9 DEF Holds
    <3>2. a # k /\ a \in Nat
      BY <2>1, <2>2, <2>9, <3>1
    <3>3. CASE a < k
      <4>1. a \in 1..(m - 1) /\ r[a] = x
        BY <2>1, <2>2, <2>4, <3>1, <3>3
      <4> QED
        BY <2>6, <4>1 DEF Holds
    <3>4. CASE a > k
      <4>1. a - 1 \in 1..(m - 1) /\ ~(a - 1 < k) /\ (a - 1) + 1 = a
        BY <2>1, <2>2, <2>3, <3>1, <3>4
      <4>2. r[a - 1] = order[a]
        BY <2>4, <4>1
      <4> QED
        BY <2>6, <3>1, <4>1, <4>2 DEF Holds
    <3> QED
      BY <2>3, <3>2, <3>3, <3>4
  <2>10. Len(r) <= m
    BY <2>2, <2>6
  <2> QED
    BY <2>6, <2>7, <2>8, <2>9, <2>10 DEF r, m
<1> QED
  BY <1>2, <1>3

LEMMA SeqElements ==
  ASSUME NEW S, NEW q \in Seq(S)
  PROVE  /\ Len(q) \in Nat /\ DOMAIN q = 1..Len(q)
         /\ \A i \in 1..Len(q) : q[i] \in S
OBVIOUS

LEMMA AppendHolds ==
  ASSUME NEW S, NEW q \in Seq(S), NEW y \in S
  PROVE  \A x : Holds(Append(q, y), x) <=> Holds(q, x) \/ x = y
<1> DEFINE p == Append(q, y)
           n == Len(q)
<1>1. /\ n \in Nat /\ DOMAIN q = 1..n /\ DOMAIN p = 1..(n + 1)
      /\ \A i \in 1..n : p[i] = q[i]
      /\ p[n + 1] = y
  OBVIOUS
<1> HIDE DEF p, n
<1>2. \A i \in 1..(n + 1) : i \in 1..n \/ i = n + 1
  BY <1>1
<1>3. \A i \in 1..n : i \in 1..(n + 1)
  BY <1>1
<1>4. n + 1 \in 1..(n + 1)
  BY <1>1
<1>5. \A x : Holds(p, x) <=> Holds(q, x) \/ x = y
  BY <1>1, <1>2, <1>3, <1>4 DEF Holds
<1> QED
  BY <1>5 DEF p

\* `Touched`, of any map.
Latest(order, id) ==
  LET longer == Append(RemoveFirst(order, id), id)
  IN IF Len(longer) > MaxSessions THEN Tail(longer) ELSE longer

LEMMA AddedIsLatest ==
  ASSUME NEW u \in Seq(Nat), IsRanking(u), NEW id \in 1..(Len(u) + 1),
         NEW order \in Seq(1..Len(u)), IsLatest(order, u)
  PROVE  LET v == Ranked(u, id)
             longer == Append(RemoveFirst(order, id), id)
         IN /\ longer \in Seq(1..Len(v)) /\ IsLatest(longer, v) /\ longer # <<>>
            /\ Len(longer) <= Len(order) + 1
<1> DEFINE v == Ranked(u, id)
           r == RemoveFirst(order, id)
           longer == Append(r, id)
           n == Len(u)
<1>1. n \in Nat /\ DOMAIN u = 1..n /\ \A i \in 1..n : u[i] \in Nat
  OBVIOUS
<1>2. /\ r \in Seq(1..n) /\ Len(r) <= Len(order)
      /\ \A i, j \in DOMAIN r : i < j => u[r[i]] < u[r[j]]
      /\ \A x : Holds(r, x) <=> Holds(order, x) /\ x # id
  <2>1. \A i, j \in DOMAIN order : i < j => u[order[i]] < u[order[j]]
    BY DEF IsLatest
  <2> QED
    BY <1>1, <2>1, RemovedFacts
<1>3. /\ v \in Seq(Nat) /\ DOMAIN v = DOMAIN u \cup {id} /\ DOMAIN v = 1..Len(v) /\ n <= Len(v)
      /\ \A i \in DOMAIN u : i # id => v[i] < v[id]
      /\ \A i, j \in DOMAIN u : i # id /\ j # id /\ u[i] < u[j] => v[i] < v[j]
  <2>1. Len(v) = n \/ Len(v) = n + 1
    BY RankedFacts
  <2>2. n <= Len(v)
    BY <1>1, <2>1
  <2> HIDE DEF v, n
  <2> QED
    BY <2>2, RankedFacts DEF v, n
<1>4. \A i, j \in DOMAIN u : Holds(order, i) /\ ~Holds(order, j) => u[i] > u[j]
  BY DEF IsLatest
<1>5. Len(v) \in Nat
  BY <1>3
<1> HIDE DEF v, n
<1>6. /\ r \in Seq(1..Len(v)) /\ id \in 1..Len(v)
      /\ Len(r) \in Nat /\ DOMAIN r = 1..Len(r)
  <2> HIDE DEF r
  <2>1. DOMAIN r = 1..Len(r) /\ Len(r) \in Nat /\ \A i \in 1..Len(r) : r[i] \in 1..n
    <3>1. r \in Seq(1..n)
      BY <1>2
    <3> QED
      BY <3>1, SeqElements
  <2>2. \A i \in 1..Len(r) : r[i] \in 1..Len(v)
    BY <1>1, <1>3, <1>5, <2>1
  <2>3. id \in 1..Len(v)
    BY <1>3
  <2>4. r = [i \in 1..Len(r) |-> r[i]]
    BY <1>2
  <2> QED
    BY <2>1, <2>2, <2>3, <2>4
<1> HIDE DEF r
<1>7. \A i \in DOMAIN r : r[i] \in 1..n /\ r[i] # id
  <2> SUFFICES ASSUME NEW i \in DOMAIN r PROVE r[i] \in 1..n /\ r[i] # id
    OBVIOUS
  <2>1. Holds(r, r[i])
    BY DEF Holds
  <2> QED
    <3>1. r \in Seq(1..n) /\ (Holds(r, r[i]) => r[i] # id)
      BY <1>2
    <3>2. r[i] \in 1..n
      BY <3>1, SeqElements
    <3> QED
      BY <2>1, <3>1, <3>2
<1>8. /\ longer \in Seq(1..Len(v)) /\ Len(longer) = Len(r) + 1
      /\ DOMAIN longer = 1..(Len(r) + 1)
      /\ \A i \in 1..Len(r) : longer[i] = r[i]
      /\ longer[Len(r) + 1] = id
  BY <1>6
<1> HIDE DEF longer
<1>9. \A x : Holds(longer, x) <=> Holds(order, x) \/ x = id
  <2>1. \A x : Holds(longer, x) <=> Holds(r, x) \/ x = id
    BY <1>6, AppendHolds DEF longer
  <2> QED
    BY <1>2, <2>1
<1>10. ASSUME NEW i \in DOMAIN longer, NEW j \in DOMAIN longer, i < j
       PROVE  v[longer[i]] < v[longer[j]]
  <2>1. i \in DOMAIN r /\ longer[i] = r[i]
    BY <1>6, <1>8, <1>10
  <2>2. CASE j = Len(r) + 1
    BY <1>1, <1>3, <1>7, <1>8, <2>1, <2>2
  <2>3. CASE j # Len(r) + 1
    <3>1. j \in DOMAIN r /\ longer[j] = r[j]
      BY <1>6, <1>8, <2>3
    <3>2. u[r[i]] < u[r[j]]
      BY <1>2, <1>10, <2>1, <3>1
    <3> QED
      BY <1>1, <1>3, <1>7, <2>1, <3>1, <3>2
  <2> QED
    BY <2>2, <2>3
<1>11. ASSUME NEW a \in DOMAIN v, NEW b \in DOMAIN v, Holds(longer, a), ~Holds(longer, b)
       PROVE  v[a] > v[b]
  <2>1. b # id /\ ~Holds(order, b) /\ b \in DOMAIN u
    BY <1>3, <1>9, <1>11
  <2>2. v[a] \in Nat /\ v[b] \in Nat
    BY <1>3, SMTT(30)
  <2>3. CASE a = id
    BY <1>3, <2>1, <2>2, <2>3
  <2>4. CASE a # id
    <3>1. Holds(order, a) /\ a \in DOMAIN u
      BY <1>3, <1>9, <1>11, <2>4
    <3>2. u[b] < u[a]
      BY <1>1, <1>4, <2>1, <3>1
    <3> QED
      BY <1>3, <2>1, <2>2, <2>4, <3>1, <3>2
  <2> QED
    BY <2>3, <2>4
<1>12. IsLatest(longer, v)
  BY <1>10, <1>11 DEF IsLatest
<1>13. Len(longer) <= Len(order) + 1 /\ longer # <<>>
  <2>1. Len(order) \in Nat
    OBVIOUS
  <2>2. Len(longer) <= Len(order) + 1 /\ Len(longer) >= 1
    BY <1>2, <1>6, <1>8, <2>1
  <2> QED
    BY <1>8, <2>2
<1> QED
  BY <1>8, <1>12, <1>13 DEF longer, r, v

LEMMA TailIsLatest ==
  ASSUME NEW v \in Seq(Nat), NEW order \in Seq(1..Len(v)), IsLatest(order, v), order # <<>>
  PROVE  /\ Tail(order) \in Seq(1..Len(v)) /\ Len(Tail(order)) = Len(order) - 1
         /\ IsLatest(Tail(order), v)
<1> DEFINE t == Tail(order)
           m == Len(order)
<1>1. /\ m \in Nat /\ m >= 1 /\ DOMAIN order = 1..m /\ \A i \in 1..m : order[i] \in 1..Len(v)
  OBVIOUS
<1>2. /\ t \in Seq(1..Len(v)) /\ Len(t) = m - 1 /\ DOMAIN t = 1..(m - 1)
      /\ \A i \in 1..(m - 1) : t[i] = order[i + 1]
  BY HeadTailProperties
<1>3. /\ \A i, j \in DOMAIN order : i < j => v[order[i]] < v[order[j]]
      /\ \A a, b \in DOMAIN v : Holds(order, a) /\ ~Holds(order, b) => v[a] > v[b]
  BY DEF IsLatest
<1>4. DOMAIN v = 1..Len(v) /\ \A i \in DOMAIN v : v[i] \in Nat
  OBVIOUS
<1> HIDE DEF t, m
<1>5. ASSUME NEW i \in DOMAIN t, NEW j \in DOMAIN t, i < j PROVE v[t[i]] < v[t[j]]
  <2>1. /\ i + 1 \in DOMAIN order /\ j + 1 \in DOMAIN order /\ i + 1 < j + 1
        /\ t[i] = order[i + 1] /\ t[j] = order[j + 1]
    <3>1. i \in 1..(m - 1) /\ j \in 1..(m - 1)
      BY <1>2
    <3>2. i + 1 \in 1..m /\ j + 1 \in 1..m /\ i + 1 < j + 1
      <4>1. m \in Nat
        BY <1>1
      <4> QED
        BY <1>5, <3>1, <4>1
    <3> QED
      BY <1>1, <1>2, <3>1, <3>2
  <2> QED
    BY <1>3, <2>1
<1>6. ASSUME NEW a \in DOMAIN v, NEW b \in DOMAIN v, Holds(t, a), ~Holds(t, b)
      PROVE  v[a] > v[b]
  <2>1. PICK i \in DOMAIN t : t[i] = a
    BY <1>6 DEF Holds
  <2>2. i + 1 \in DOMAIN order /\ order[i + 1] = a /\ 1 < i + 1 /\ 1 \in DOMAIN order
    <3>1. i \in 1..(m - 1)
      BY <1>2
    <3>2. i + 1 \in 1..m /\ 1 \in 1..m /\ 1 < i + 1
      <4>1. m \in Nat
        BY <1>1
      <4> QED
        BY <3>1, <4>1
    <3> QED
      BY <1>1, <1>2, <2>1, <3>1, <3>2
  <2>3. Holds(order, a)
    BY <2>2 DEF Holds
  <2>4. CASE ~Holds(order, b)
    BY <1>3, <2>3, <2>4
  <2>5. CASE Holds(order, b)
    <3>1. PICK j \in DOMAIN order : order[j] = b
      BY <2>5 DEF Holds
    <3>2. j = 1
      <4>1. ASSUME j # 1 PROVE FALSE
        <5>1. j - 1 \in DOMAIN t /\ t[j - 1] = order[j]
          <6>1. j - 1 \in 1..(m - 1) /\ (j - 1) + 1 = j
            <7>1. j \in 1..m
              BY <1>1
            <7>2. m \in Nat
              BY <1>1
            <7> QED
              BY <4>1, <7>1, <7>2, SMTT(30)
          <6> QED
            BY <1>2, <6>1
        <5> QED
          BY <1>6, <3>1, <5>1 DEF Holds
      <4> QED
        BY <4>1
    <3>3. v[b] < v[a]
      BY <1>3, <2>2, <3>1, <3>2
    <3> QED
      BY <1>4, <3>3
  <2> QED
    BY <2>4, <2>5
<1>7. IsLatest(t, v)
  BY <1>5, <1>6 DEF IsLatest
<1> QED
  BY <1>2, <1>7 DEF t, m

LEMMA LatestFacts ==
  ASSUME NEW u \in Seq(Nat), IsRanking(u), NEW id \in 1..(Len(u) + 1),
         NEW order \in Seq(1..Len(u)), IsLatest(order, u), Len(order) <= MaxSessions
  PROVE  LET v == Ranked(u, id) IN
         /\ v \in Seq(Nat) /\ IsRanking(v)
         /\ Len(v) = IF id > Len(u) THEN Len(u) + 1 ELSE Len(u)
         /\ Latest(order, id) \in Seq(1..Len(v)) /\ IsLatest(Latest(order, id), v)
         /\ Len(Latest(order, id)) <= MaxSessions
<1> DEFINE v == Ranked(u, id)
           longer == Append(RemoveFirst(order, id), id)
<1>1. /\ longer \in Seq(1..Len(v)) /\ IsLatest(longer, v) /\ longer # <<>>
      /\ Len(longer) <= Len(order) + 1
  BY AddedIsLatest
<1>2. v \in Seq(Nat) /\ IsRanking(v) /\ Len(v) = IF id > Len(u) THEN Len(u) + 1 ELSE Len(u)
  BY RankedFacts
<1>3. Latest(order, id) = IF Len(longer) > MaxSessions THEN Tail(longer) ELSE longer
  BY DEF Latest
<1>4. MaxSessions \in Nat /\ Len(order) \in Nat
  BY ConversationAssumption
<1> HIDE DEF v, longer
<1>5. Len(longer) \in Nat
  BY <1>1
<1>6. CASE Len(longer) > MaxSessions
  <2>1. /\ Tail(longer) \in Seq(1..Len(v)) /\ Len(Tail(longer)) = Len(longer) - 1
        /\ IsLatest(Tail(longer), v)
    BY <1>1, <1>2, TailIsLatest
  <2>2. Len(longer) - 1 <= MaxSessions
    BY <1>1, <1>4, <1>5
  <2> QED
    BY <1>2, <1>3, <1>6, <2>1, <2>2 DEF v
<1>7. CASE ~(Len(longer) > MaxSessions)
  BY <1>1, <1>2, <1>3, <1>4, <1>5, <1>7 DEF v
<1> QED
  BY <1>6, <1>7

(***************************************************************************)
(* Steps that store nothing: a turn goes on or ends, the page changes.     *)
(***************************************************************************)
LEMMA KindFacts ==
  /\ {"free", "sent", "passed", "checking", "calling", "answered"} \subseteq TurnStage
  /\ {"none", "ok", "llm-unreachable", "conversation-expired", "llm-unavailable",
      "llm-failed"} \subseteq AnswerKind
  /\ {"closed", "page", "left"} \subseteq ClientKind
BY DEF TurnStage, AnswerKind, ClientKind

Fades(s) ==
  /\ IsLive(s)' => IsLive(s) /\ turn'[s].ask = turn[s].ask
  /\ IsCalling(s)' => /\ IsCalling(s) /\ turn'[s].base = turn[s].base
                      /\ turn'[s].session = turn[s].session

LEMMA FadesOwner ==
  ASSUME OwnerInv, UNCHANGED <<objects, asks>>, \A s \in Slot : Fades(s)
  PROVE  OwnerInv'
<1>1. LiveInv'
  BY DEF OwnerInv, LiveInv, Fades
<1>2. HistoryInv'
  BY DEF OwnerInv, HistoryInv, IsOfAsked
<1>3. BaseInv'
  BY DEF OwnerInv, BaseInv, IsOfAsked, Fades
<1> QED
  BY <1>1, <1>2, <1>3 DEF OwnerInv

QuietTurn(s) ==
  /\ turn'[s] \in Turn /\ Fades(s)
  /\ turn'[s].stage # "free" => turn'[s].engine \in Engine
  /\ IsOurs(turn'[s].session)

PageIsFine ==
  /\ {"known", "session"} \subseteq DOMAIN page'
  /\ page'.known \subseteq Engine /\ page'.session \in Nat /\ IsOurs(page'.session)

LEMMA QuietTalk ==
  ASSUME Inv, UNCHANGED <<objects, used, asks>>, sessions' = sessions \/ sessions' = <<>>,
         turn' = [s \in Slot |-> turn'[s]], \A s \in Slot : QuietTurn(s), PageIsFine
  PROVE  TypeInv' /\ OwnerInv' /\ MapInv'
<1>1. TypeInv /\ OwnerInv /\ MapInv
  BY DEF Inv
<1>2. turn' \in [Slot -> Turn]
  BY DEF QuietTurn
<1>3. sessions' \in Seq(1..Len(objects))
  <2>1. sessions \in Seq(1..Len(objects)) /\ <<>> \in Seq(1..Len(objects))
    BY <1>1, EmptySeq DEF TypeInv
  <2> QED
    BY <2>1
<1>4. TypeInv'
  BY <1>1, <1>2, <1>3 DEF TypeInv, QuietTurn, PageIsFine, IsOurs
<1>5. OwnerInv'
  BY <1>1, FadesOwner DEF QuietTurn
<1>6. MapInv'
  <2>1. CASE sessions' = sessions
    BY <1>1, <2>1 DEF MapInv, IsLatest, IsRanking, IsInjective, Holds
  <2>2. CASE sessions' = <<>>
    <3>1. Len(sessions') = 0 /\ DOMAIN sessions' = {} /\ MaxSessions \in Nat
      BY <2>2, ConversationAssumption
    <3> QED
      BY <1>1, <3>1 DEF MapInv, IsLatest, IsRanking, IsInjective, Holds
  <2> QED
    BY <2>1, <2>2
<1> QED
  BY <1>4, <1>5, <1>6

LEMMA SameTurn ==
  ASSUME Inv, NEW s \in Slot, turn'[s] = turn[s]
  PROVE  QuietTurn(s) /\ IsCalling(s)' = IsCalling(s)
<1>1. turn[s] \in Turn
  BY DEF Inv, TypeInv
<1> QED
  BY <1>1 DEF QuietTurn, Fades, IsLive, IsCalling, Inv, TypeInv

LEMMA ClientTurn ==
  ASSUME Inv, NEW s \in Slot, NEW c \in ClientKind, turn'[s] = [turn[s] EXCEPT !.client = c]
  PROVE  QuietTurn(s) /\ IsCalling(s)' = IsCalling(s)
<1>1. turn[s] \in Turn
  BY DEF Inv, TypeInv
<1>2. /\ turn'[s] \in Turn /\ turn'[s].stage = turn[s].stage /\ turn'[s].ask = turn[s].ask
      /\ turn'[s].session = turn[s].session /\ turn'[s].engine = turn[s].engine
      /\ turn'[s].base = turn[s].base /\ turn'[s].answer = turn[s].answer
  BY <1>1 DEF Turn
<1> QED
  BY <1>2 DEF QuietTurn, Fades, IsLive, IsCalling, Inv, TypeInv

LEMMA NoTurnIsTurn ==
  /\ NoTurn \in Turn /\ NoTurn.stage = "free" /\ NoTurn.session = 0
BY KindFacts, EmptySeq DEF NoTurn, Turn, MaybeEngine

LEMMA FreeTurn ==
  ASSUME Inv, NEW s \in Slot, turn'[s] = NoTurn PROVE QuietTurn(s) /\ ~IsCalling(s)'
<1>1. turn'[s] \in Turn /\ turn'[s].stage = "free" /\ turn'[s].session = 0
  BY NoTurnIsTurn
<1> QED
  BY <1>1 DEF QuietTurn, Fades, IsLive, IsCalling, IsOurs

\* A turn is answered, other than with the answer of its model.
LEMMA AnsweredTurn ==
  ASSUME Inv, NEW s \in Slot, NEW answer \in AnswerKind, turn[s].stage # "free",
         turn[s].stage # "answered",
         turn'[s] = [turn[s] EXCEPT !.stage = "answered", !.answer = answer]
  PROVE  QuietTurn(s) /\ ~IsCalling(s)'
<1>1. turn[s] \in Turn
  BY DEF Inv, TypeInv
<1>2. /\ turn'[s] \in Turn /\ turn'[s].stage = "answered" /\ turn'[s].ask = turn[s].ask
      /\ turn'[s].session = turn[s].session /\ turn'[s].engine = turn[s].engine
  BY <1>1, KindFacts DEF Turn
<1> QED
  BY <1>2 DEF QuietTurn, Fades, IsLive, IsCalling, Inv, TypeInv

LEMMA NewPageIsFine ==
  ASSUME NEW known \in SUBSET Engine, page' = NewConversation(known)
  PROVE  PageIsFine
BY DEF PageIsFine, NewConversation, IsOurs

LEMMA AvailableIsEngines == Available \subseteq Engine
BY DEF Available

LEMMA StoreAndLinkStay ==
  ASSUME Inv, UNCHANGED storeVars, \A s \in Slot : IsCalling(s) => IsCalling(s)'
  PROVE  StoreInv' /\ LinkInv'
<1>1. StoreInv'
  BY StoreStutters DEF Inv
<1>2. LinkInv'
  BY DEF storeVars, Inv, LinkInv, IsCalling
<1> QED
  BY <1>1, <1>2

LEMMA QuietInv ==
  ASSUME Inv, UNCHANGED <<objects, sessions, used, asks>>, UNCHANGED storeVars,
         turn' = [s \in Slot |-> turn'[s]],
         \A s \in Slot : QuietTurn(s) /\ (IsCalling(s) => IsCalling(s)'), PageIsFine
  PROVE  Inv'
BY QuietTalk, StoreAndLinkStay DEF Inv

LEMMA UnmountedTurns ==
  ASSUME Inv, turn' = Unmounted
  PROVE  /\ turn' = [s \in Slot |-> turn'[s]]
         /\ \A s \in Slot : QuietTurn(s) /\ (IsCalling(s) => IsCalling(s)')
<1>1. turn' = [s \in Slot |-> turn'[s]]
  BY DEF Unmounted
<1>2. ASSUME NEW s \in Slot PROVE QuietTurn(s) /\ (IsCalling(s) => IsCalling(s)')
  <2>1. turn'[s] = turn[s] \/ turn'[s] = [turn[s] EXCEPT !.client = "left"]
    BY DEF Unmounted
  <2> QED
    BY <2>1, SameTurn, ClientTurn, KindFacts
<1> QED
  BY <1>1, <1>2

LEMMA chooseLlmInv == ASSUME Inv, NEW e \in Engine, chooseLlm(e) PROVE Inv'
<1>1. page' = NewConversation(page.known) /\ page.known \in SUBSET Engine
  BY DEF chooseLlm, Remounted, Inv, TypeInv
<1>2. /\ turn' = Unmounted /\ UNCHANGED <<objects, sessions, used, asks>> /\ UNCHANGED storeVars
  BY DEF chooseLlm
<1> QED
  BY <1>1, <1>2, NewPageIsFine, UnmountedTurns, QuietInv

LEMMA LeaveInv == Inv /\ Leave => Inv'
<1> SUFFICES ASSUME Inv, Leave PROVE Inv'
  OBVIOUS
<1>1. page' = NewConversation(page.known) /\ page.known \in SUBSET Engine
  BY DEF Leave, Inv, TypeInv
<1>2. /\ turn' = Unmounted /\ UNCHANGED <<objects, sessions, used, asks>> /\ UNCHANGED storeVars
  BY DEF Leave
<1> QED
  BY <1>1, <1>2, NewPageIsFine, UnmountedTurns, QuietInv

LEMMA LoadInv == Inv /\ Load => Inv'
<1> SUFFICES ASSUME Inv, Load PROVE Inv'
  OBVIOUS
<1>1. PICK known \in {Available, {}} : page' = NewConversation(known)
  BY DEF Load
<1>2. known \in SUBSET Engine
  BY <1>1, AvailableIsEngines
<1>3. /\ turn' = [s \in Slot |-> [turn[s] EXCEPT !.client = "closed"]]
      /\ UNCHANGED <<objects, sessions, used, asks>> /\ UNCHANGED storeVars
  BY DEF Load
<1>4. turn' = [s \in Slot |-> turn'[s]]
  BY <1>3
<1>5. \A s \in Slot : turn'[s] = [turn[s] EXCEPT !.client = "closed"]
  BY <1>3
<1>6. \A s \in Slot : QuietTurn(s) /\ (IsCalling(s) => IsCalling(s)')
  BY <1>5, ClientTurn, KindFacts
<1> QED
  BY <1>1, <1>2, <1>3, <1>4, <1>6, NewPageIsFine, QuietInv

\* One turn changes.
LEMMA OneTurnInv ==
  ASSUME Inv, UNCHANGED <<objects, sessions, used, asks>>, UNCHANGED storeVars,
         NEW s \in Slot, NEW t, turn' = [turn EXCEPT ![s] = t],
         turn'[s] = t => QuietTurn(s) /\ (IsCalling(s) => IsCalling(s)'), PageIsFine
  PROVE  Inv'
<1>1. turn \in [Slot -> Turn]
  BY DEF Inv, TypeInv
<1>2. turn'[s] = t /\ turn' = [r \in Slot |-> turn'[r]]
  BY <1>1
<1>3. \A r \in Slot : r # s => turn'[r] = turn[r]
  BY <1>1
<1>4. \A r \in Slot : QuietTurn(r) /\ (IsCalling(r) => IsCalling(r)')
  BY <1>2, <1>3, SameTurn
<1> QED
  BY <1>2, <1>4, QuietInv

LEMMA PageStays == ASSUME Inv, UNCHANGED page PROVE PageIsFine
BY DEF Inv, TypeInv, PageIsFine, IsOurs

LEMMA FailureIsFine ==
  ASSUME Inv, page' = AfterFailure(page) \/ page' = [AfterFailure(page) EXCEPT !.lost = TRUE]
  PROVE  PageIsFine
<1>1. {"known", "session"} \subseteq DOMAIN page
  BY DEF Inv, TypeInv
<1>2. PICK p : p = AfterFailure(page)
  OBVIOUS
<1>3. DOMAIN p = DOMAIN page /\ p.known = page.known /\ p.session = page.session
  BY <1>1, <1>2 DEF AfterFailure
<1>4. DOMAIN page' = DOMAIN page /\ page'.known = page.known /\ page'.session = page.session
  BY <1>1, <1>2, <1>3
<1> QED
  BY <1>4 DEF Inv, TypeInv, PageIsFine, IsOurs

LEMMA GiveUpInv == ASSUME Inv, NEW s \in Slot, GiveUp(s) PROVE Inv'
<1>1. /\ turn' = [turn EXCEPT ![s].client = "closed"]
      /\ UNCHANGED <<objects, sessions, used, asks>> /\ UNCHANGED storeVars
  BY DEF GiveUp
<1>2. turn' = [turn EXCEPT ![s] = [turn[s] EXCEPT !.client = "closed"]]
  BY <1>1
<1>3. PageIsFine
  BY PageStays, FailureIsFine DEF GiveUp
<1> QED
  BY <1>1, <1>2, <1>3, ClientTurn, KindFacts, OneTurnInv

LEMMA PassOnInv == ASSUME Inv, NEW s \in Slot, PassOn(s) PROVE Inv'
<1>1. /\ turn[s].stage = "sent" /\ UNCHANGED page
      /\ UNCHANGED <<objects, sessions, used, asks>> /\ UNCHANGED storeVars
      /\ \/ turn' = [turn EXCEPT ![s].stage = "passed"]
         \/ Answer(s, "llm-unreachable")
  BY DEF PassOn, service
<1>2. PageIsFine
  BY <1>1, PageStays
<1>3. CASE turn' = [turn EXCEPT ![s].stage = "passed"]
  <2>1. turn' = [turn EXCEPT ![s] = [turn[s] EXCEPT !.stage = "passed"]] /\ turn[s] \in Turn
    BY <1>3 DEF Inv, TypeInv
  <2>2. ASSUME turn'[s] = [turn[s] EXCEPT !.stage = "passed"]
        PROVE  QuietTurn(s) /\ (IsCalling(s) => IsCalling(s)')
    <3>1. /\ turn'[s] \in Turn /\ turn'[s].stage = "passed" /\ turn'[s].ask = turn[s].ask
          /\ turn'[s].session = turn[s].session /\ turn'[s].engine = turn[s].engine
      BY <2>1, <2>2, KindFacts DEF Turn
    <3> QED
      BY <1>1, <3>1 DEF QuietTurn, Fades, IsLive, IsCalling, Inv, TypeInv
  <2> QED
    BY <1>1, <1>2, <2>1, <2>2, OneTurnInv
<1>4. CASE Answer(s, "llm-unreachable")
  <2>1. turn' = [turn EXCEPT ![s] = [turn[s] EXCEPT !.stage = "answered",
                                                    !.answer = "llm-unreachable"]]
    BY <1>4 DEF Answer
  <2> QED
    BY <1>1, <1>2, <2>1, AnsweredTurn, KindFacts, OneTurnInv DEF IsCalling
<1> QED
  BY <1>1, <1>3, <1>4

LEMMA BeginTurnInv == ASSUME Inv, NEW s \in Slot, BeginTurn(s) PROVE Inv'
<1> DEFINE engine == IF turn[s].session = 0 THEN turn[s].engine
                     ELSE objects[turn[s].session].engine
           t == [turn[s] EXCEPT !.stage = "checking", !.engine = engine]
<1>1. /\ turn[s].stage = "passed" /\ UNCHANGED page
      /\ UNCHANGED <<objects, sessions, used, asks>> /\ UNCHANGED storeVars
      /\ turn[s] \in Turn /\ turn \in [Slot -> Turn]
  BY DEF BeginTurn, service, Inv, TypeInv
<1>2. PageIsFine
  BY <1>1, PageStays
<1>3. CASE Answer(s, "conversation-expired")
  <2>1. turn' = [turn EXCEPT ![s] = [turn[s] EXCEPT !.stage = "answered",
                                                    !.answer = "conversation-expired"]]
    BY <1>3 DEF Answer
  <2> QED
    BY <1>1, <1>2, <2>1, AnsweredTurn, KindFacts, OneTurnInv DEF IsCalling
<1>4. CASE ~Answer(s, "conversation-expired")
  <2>1. turn' = [turn EXCEPT ![s] = t]
    BY <1>1, <1>4 DEF BeginTurn
  <2>2. engine \in Engine
    BY <1>1 DEF Inv, TypeInv, IsOurs
  <2>3. ASSUME turn'[s] = t PROVE QuietTurn(s) /\ (IsCalling(s) => IsCalling(s)')
    <3> HIDE DEF engine
    <3>1. /\ turn'[s] \in Turn /\ turn'[s].stage = "checking" /\ turn'[s].ask = turn[s].ask
          /\ turn'[s].session = turn[s].session /\ turn'[s].engine \in Engine
      BY <1>1, <2>2, <2>3, KindFacts DEF Turn, MaybeEngine
    <3> QED
      BY <1>1, <3>1 DEF QuietTurn, Fades, IsLive, IsCalling, Inv, TypeInv
  <2> HIDE DEF t
  <2> QED
    BY <1>1, <1>2, <2>1, <2>3, OneTurnInv
<1> QED
  BY <1>3, <1>4

LEMMA ReceiveInv == ASSUME Inv, NEW s \in Slot, Receive(s) PROVE Inv'
<1>1. /\ turn[s].stage = "answered" /\ turn[s] \in Turn /\ turn[s].engine \in Engine
      /\ UNCHANGED <<objects, sessions, used, asks>> /\ UNCHANGED storeVars
      /\ IsOurs(turn[s].session) /\ turn[s].session \in Nat
  BY DEF Receive, Inv, TypeInv, Turn
<1>2. CASE AsksAgain(s) /\ turn[s].client # "closed"
  <2> DEFINE t == [NoTurn EXCEPT !.stage = "sent", !.ask = turn[s].ask,
                                 !.engine = turn[s].engine, !.client = turn[s].client]
  <2>1. turn' = [turn EXCEPT ![s] = t]
    BY <1>2 DEF Receive
  <2>2. ASSUME turn'[s] = t PROVE QuietTurn(s) /\ (IsCalling(s) => IsCalling(s)')
    <3>1. /\ t \in Turn /\ t.stage = "sent" /\ t.ask = turn[s].ask /\ t.session = 0
          /\ t.engine = turn[s].engine
      BY <1>1, KindFacts, NoTurnIsTurn DEF Turn
    <3>2. IsLive(s)
      BY <1>1, <1>2 DEF AsksAgain, IsLive
    <3> HIDE DEF t
    <3> QED
      BY <1>1, <2>2, <3>1, <3>2 DEF QuietTurn, Fades, IsLive, IsCalling, IsOurs
  <2>3. PageIsFine
    <3>1. page' = page \/ \E shown : page' = [page EXCEPT !.shown = shown]
      BY <1>2 DEF Receive
    <3>2. ASSUME NEW shown, page' = [page EXCEPT !.shown = shown] PROVE PageIsFine
      <4>1. DOMAIN page' = DOMAIN page /\ page'.known = page.known /\ page'.session = page.session
        BY <3>2 DEF Inv, TypeInv
      <4> QED
        BY <4>1 DEF Inv, TypeInv, PageIsFine, IsOurs
    <3> QED
      BY <3>1, <3>2, PageStays
  <2> HIDE DEF t
  <2> QED
    BY <1>1, <2>1, <2>2, <2>3, OneTurnInv
<1>3. CASE ~(AsksAgain(s) /\ turn[s].client # "closed")
  <2>1. turn' = [turn EXCEPT ![s] = NoTurn]
    BY <1>3 DEF Receive
  <2>2. PageIsFine
    <3>1. \/ page' = page \/ page' = AfterFailure(page)
          \/ page' = [page EXCEPT !.session = turn[s].session, !.pending = FALSE,
                             !.shown[Len(page.shown)].state = "answered",
                             !.shown[Len(page.shown)].engine = turn[s].engine]
      BY <1>3 DEF Receive
    <3>2. CASE page' = [page EXCEPT !.session = turn[s].session, !.pending = FALSE,
                             !.shown[Len(page.shown)].state = "answered",
                             !.shown[Len(page.shown)].engine = turn[s].engine]
      <4>1. /\ DOMAIN page' = DOMAIN page /\ page'.known = page.known
            /\ page'.session = turn[s].session
        BY <3>2 DEF Inv, TypeInv
      <4> QED
        BY <1>1, <4>1 DEF Inv, TypeInv, PageIsFine, IsOurs
    <3> QED
      BY <3>1, <3>2, PageStays, FailureIsFine
  <2> QED
    BY <1>1, <2>1, <2>2, FreeTurn, OneTurnInv DEF IsCalling
<1> QED
  BY <1>2, <1>3

LEMMA FailTurnInv == ASSUME Inv, NEW s \in Slot, FailTurn(s) PROVE Inv'
<1>1. /\ turn[s].stage = "calling" /\ ~IsPending(s)
      /\ turn' = [turn EXCEPT ![s] = [turn[s] EXCEPT !.stage = "answered",
                                                     !.answer = "llm-failed"]]
      /\ task' = [task EXCEPT ![s] = NoTask]
      /\ UNCHANGED <<objects, sessions, used, asks>> /\ UNCHANGED page
      /\ UNCHANGED <<file, queue, issued, history>>
  BY DEF FailTurn, Answer, IsPending
<1>2. turn \in [Slot -> Turn] /\ task \in [Slot -> Task]
  BY DEF Inv, TypeInv, StoreInv, StoreTypes
<1>3. \A r \in Slot : r # s => turn'[r] = turn[r] /\ task'[r] = task[r]
  BY <1>1, <1>2
<1>4. /\ turn'[s] = [turn[s] EXCEPT !.stage = "answered", !.answer = "llm-failed"]
      /\ task'[s].stage = "none" /\ turn' = [r \in Slot |-> turn'[r]]
  BY <1>1, <1>2, NoTaskFacts
<1>5. QuietTurn(s)
  BY <1>1, <1>4, AnsweredTurn, KindFacts
<1>6. \A r \in Slot : QuietTurn(r)
  BY <1>3, <1>5, SameTurn
<1>7. TypeInv' /\ OwnerInv' /\ MapInv'
  BY <1>1, <1>4, <1>6, PageStays, QuietTalk
<1>8. StoreInv'
  BY <1>1, ForgetTaskInv DEF Inv
<1>9. LinkInv'
  BY <1>3, <1>4 DEF Inv, LinkInv
<1> QED
  BY <1>7, <1>8, <1>9 DEF Inv

LEMMA RestartInv == Inv /\ Restart => Inv'
<1> SUFFICES ASSUME Inv, Restart PROVE Inv'
  OBVIOUS
<1>1. /\ turn' = [s \in Slot |->
             IF turn[s].stage \in {"checking", "calling"}
             THEN [turn[s] EXCEPT !.stage = "answered", !.answer = "llm-unreachable"]
             ELSE turn[s]]
      /\ sessions' = <<>> /\ UNCHANGED <<objects, used, asks>> /\ UNCHANGED page
      /\ StoreDies
  BY DEF Restart
<1>2. turn' = [s \in Slot |-> turn'[s]]
  BY <1>1
<1>3. ASSUME NEW s \in Slot PROVE QuietTurn(s)
  <2>1. CASE turn[s].stage \in {"checking", "calling"}
    <3>1. /\ turn[s].stage # "free" /\ turn[s].stage # "answered"
          /\ turn'[s] = [turn[s] EXCEPT !.stage = "answered", !.answer = "llm-unreachable"]
      BY <1>1, <2>1
    <3> QED
      BY <3>1, AnsweredTurn, KindFacts
  <2>2. CASE turn[s].stage \notin {"checking", "calling"}
    <3>1. turn'[s] = turn[s]
      BY <1>1, <2>2
    <3> QED
      BY <3>1, SameTurn
  <2> QED
    BY <2>1, <2>2
<1>4. TypeInv' /\ OwnerInv' /\ MapInv'
  BY <1>1, <1>2, <1>3, PageStays, QuietTalk
<1>5. StoreInv'
  BY <1>1, StoreDiesInv DEF Inv
<1>6. LinkInv'
  BY <1>1, NoTaskFacts DEF StoreDies, LinkInv
<1> QED
  BY <1>4, <1>5, <1>6 DEF Inv

\* Steps of the credential file alone.
LEMMA TalkStutters ==
  ASSUME Inv, UNCHANGED <<objects, sessions, turn, page, asks, used>>
  PROVE  TypeInv' /\ OwnerInv' /\ MapInv'
<1>1. turn' = [s \in Slot |-> turn'[s]]
  BY DEF Inv, TypeInv
<1>2. \A s \in Slot : QuietTurn(s)
  BY SameTurn
<1> QED
  BY <1>1, <1>2, PageStays, QuietTalk

LEMMA OperatorInv == Inv /\ Operator => Inv'
<1> SUFFICES ASSUME Inv, Operator PROVE Inv'
  OBVIOUS
<1>1. TypeInv' /\ OwnerInv' /\ MapInv'
  BY TalkStutters DEF Operator
<1>2. PICK e \in Engine : LoginCommand(e) \/ Expire(e)
  BY DEF Operator
<1>3. StoreInv'
  BY <1>2, LoginCommandInv, ExpireInv DEF Inv
<1>4. UNCHANGED <<task, turn>>
  BY <1>2 DEF LoginCommand, Expire, Operator
<1>5. LinkInv'
  BY <1>4 DEF Inv, LinkInv
<1> QED
  BY <1>1, <1>3, <1>5 DEF Inv

LEMMA StoreStepKeepsInv ==
  ASSUME Inv, NEW s \in Slot, StoreStep(s), UNCHANGED conversation PROVE Inv'
<1>1. TypeInv' /\ OwnerInv' /\ MapInv'
  BY TalkStutters DEF conversation
<1>2. StoreInv'
  BY StoreStepInv DEF Inv
<1>3. LinkInv'
  <2>1. task[s].stage # "none" /\ task \in [Slot -> Task]
    BY DEF StoreStep, FindRefreshed, SendToken, IsFirst, ReadAgain, Rename, RefreshFails, Inv,
       StoreInv, StoreTypes
  <2>2. \A r \in Slot : r # s => task'[r] = task[r]
    BY <2>1 DEF StoreStep, FindRefreshed, SendToken, ReadAgain, Rename, RefreshFails, Settled
  <2> QED
    BY <2>1, <2>2 DEF conversation, Inv, LinkInv
<1> QED
  BY <1>1, <1>2, <1>3 DEF Inv

(***************************************************************************)
(* A question is asked: its number is new.                                 *)
(***************************************************************************)
LEMMA AskInv == ASSUME Inv, NEW shown, Ask(shown) PROVE Inv'
<1>1. PICK s \in Slot :
        /\ turn[s].stage = "free"
        /\ turn' = [turn EXCEPT ![s] =
             [NoTurn EXCEPT !.stage = "sent", !.ask = asks', !.session = page.session,
                            !.engine = Choice, !.client = "page"]]
  BY DEF Ask
<1>2. /\ asks' = asks + 1 /\ Choice # NoEngine /\ asks \in Nat
      /\ UNCHANGED <<objects, sessions, used>> /\ UNCHANGED storeVars
      /\ turn \in [Slot -> Turn] /\ page.session \in Nat /\ IsOurs(page.session)
      /\ page.known \in SUBSET Engine
  BY DEF Ask, Inv, TypeInv
<1>3. Choice \in Engine
  BY <1>2, ChoiceIsEngine DEF Choice, MaybeEngine
<1>4. /\ turn'[s] \in Turn /\ turn'[s].stage = "sent" /\ turn'[s].ask = asks + 1
      /\ turn'[s].session = page.session /\ turn'[s].engine \in Engine
  <2>1. turn'[s] = [NoTurn EXCEPT !.stage = "sent", !.ask = asks', !.session = page.session,
                                  !.engine = Choice, !.client = "page"]
    BY <1>1, <1>2
  <2>2. asks + 1 \in Nat
    BY <1>2
  <2> HIDE DEF Choice
  <2> QED
    BY <1>2, <1>3, <2>1, <2>2, KindFacts, NoTurnIsTurn DEF Turn, MaybeEngine
<1>5. \A r \in Slot : r # s => turn'[r] = turn[r]
  BY <1>1, <1>2
<1>6. turn' \in [Slot -> Turn]
  BY <1>1, <1>2, <1>4, <1>5
<1>7. DOMAIN page' = DOMAIN page /\ page'.known = page.known /\ page'.session = page.session
  BY DEF Ask, Inv, TypeInv
<1>8. TypeInv'
  <2>1. asks' \in Nat
    BY <1>2
  <2>2. \A r \in Slot : IsOurs(turn'[r].session)
    BY <1>2, <1>4, <1>5 DEF Inv, TypeInv
  <2>3. \A r \in Slot : turn'[r].stage # "free" => turn'[r].engine \in Engine
    BY <1>4, <1>5 DEF Inv, TypeInv
  <2> QED
    BY <1>2, <1>6, <1>7, <2>1, <2>2, <2>3 DEF Inv, TypeInv, IsOurs
<1>9. MapInv'
  BY <1>2 DEF Inv, MapInv, IsLatest, IsRanking, IsInjective, Holds
<1>10. StoreInv'
  BY <1>2, StoreStutters DEF Inv
<1>11. LinkInv'
  BY <1>1, <1>2, <1>5 DEF Inv, LinkInv, storeVars
<1>12. /\ IsLive(s)' /\ ~IsCalling(s)' /\ ~IsCalling(s)
       /\ \A r \in Slot : r # s => /\ IsLive(r)' <=> IsLive(r)
                                   /\ IsCalling(r)' <=> IsCalling(r)
  BY <1>1, <1>4, <1>5 DEF IsLive, IsCalling
<1>13. OwnerInv'
  <2>1. LiveInv /\ HistoryInv /\ BaseInv /\ \A r \in Slot : turn[r].ask \in Nat
    BY <1>2 DEF Inv, OwnerInv, Turn
  <2>2. \A x \in Nat : x <= asks => x <= asks' /\ x # asks + 1
    BY <1>2
  <2>3. \A q : IsOfAsked(q) => IsInjective(q) /\ ~Holds(q, asks + 1)
    BY <1>2, <2>2 DEF IsOfAsked
  <2>4. \A q : IsOfAsked(q) => \A x \in Nat : Holds(q, x) => x <= asks'
    BY <2>2 DEF IsOfAsked
  <2>5. LiveInv'
    <3>1. \A r \in Slot : IsLive(r)' => turn'[r].ask <= asks'
      BY <1>2, <1>4, <1>5, <1>12, <2>1, <2>2 DEF LiveInv
    <3>2. \A q, r \in Slot : IsLive(q)' /\ IsLive(r)' /\ q # r => turn'[q].ask # turn'[r].ask
      BY <1>4, <1>5, <1>12, <2>1, <2>2 DEF LiveInv
    <3>3. \A r \in Slot : IsLive(r)' =>
            \A id \in DOMAIN objects : ~Holds(objects[id].history, turn'[r].ask)
      BY <1>4, <1>5, <1>12, <2>1, <2>3 DEF LiveInv, HistoryInv
    <3>4. \A q, r \in Slot : IsCalling(q)' /\ IsLive(r)' => ~Holds(turn'[q].base, turn'[r].ask)
      BY <1>4, <1>5, <1>12, <2>1, <2>3 DEF LiveInv, BaseInv
    <3> QED
      BY <1>2, <3>1, <3>2, <3>3, <3>4 DEF LiveInv
  <2>6. HistoryInv'
    BY <1>2, <2>1, <2>3, <2>4 DEF HistoryInv, IsOfAsked
  <2>7. BaseInv'
    BY <1>2, <1>5, <1>12, <2>1, <2>3, <2>4 DEF BaseInv, IsOfAsked
  <2> QED
    BY <2>5, <2>6, <2>7 DEF OwnerInv
<1> QED
  BY <1>8, <1>9, <1>10, <1>11, <1>13 DEF Inv

(***************************************************************************)
(* The messages are copied from the session.                               *)
(***************************************************************************)
LEMMA SendMessagesInv == ASSUME Inv, NEW s \in Slot, SendMessages(s) PROVE Inv'
<1>1. /\ turn[s].stage = "checking" /\ turn[s] \in Turn /\ turn[s].engine \in Engine
      /\ turn \in [Slot -> Turn] /\ IsOurs(turn[s].session)
      /\ UNCHANGED <<objects, sessions, used, asks>> /\ UNCHANGED page
  BY DEF SendMessages, service, Inv, TypeInv
<1>2. PageIsFine
  BY <1>1, PageStays
<1>3. CASE file[turn[s].engine] = NoLogin
  <2>1. /\ turn' = [turn EXCEPT ![s] = [turn[s] EXCEPT !.stage = "answered",
                                                      !.answer = "llm-unavailable"]]
        /\ UNCHANGED storeVars
    BY <1>3 DEF SendMessages, Answer
  <2> QED
    BY <1>1, <1>2, <2>1, AnsweredTurn, KindFacts, OneTurnInv DEF IsCalling
<1>4. CASE file[turn[s].engine] # NoLogin
  <2> DEFINE base == IF turn[s].session = 0 THEN <<>> ELSE objects[turn[s].session].history
  <2>1. /\ turn' = [turn EXCEPT ![s] = [turn[s] EXCEPT !.stage = "calling", !.base = base]]
        /\ UNCHANGED storeVars \/ Enqueue(s, turn[s].engine)
    BY <1>4 DEF SendMessages
  <2>2. objects \in Seq(Session)
    BY DEF Inv, TypeInv
  <2>3. turn[s].session # 0 =>
          turn[s].session \in DOMAIN objects /\ base = objects[turn[s].session].history
    BY <1>1, <2>2 DEF IsOurs
  <2>4. turn[s].session = 0 => base = <<>>
    OBVIOUS
  <2> HIDE DEF base
  <2>5. base \in Seq(Nat)
    <3>1. \A id \in DOMAIN objects : objects[id] \in Session
      BY <2>2
    <3>2. \A id \in DOMAIN objects : objects[id].history \in Seq(Nat)
      BY <3>1 DEF Session
    <3>3. <<>> \in Seq(Nat)
      BY EmptySeq
    <3> QED
      BY <2>3, <2>4, <3>2, <3>3
  <2>6. turn'[s] = [turn[s] EXCEPT !.stage = "calling", !.base = base]
    BY <1>1, <2>1
  <2>7. /\ turn'[s] \in Turn /\ turn'[s].stage = "calling" /\ turn'[s].ask = turn[s].ask
        /\ turn'[s].session = turn[s].session /\ turn'[s].engine = turn[s].engine
        /\ turn'[s].base = base
    BY <1>1, <2>5, <2>6, KindFacts DEF Turn
  <2>8. \A r \in Slot : r # s => turn'[r] = turn[r]
    BY <1>1, <2>1
  <2>9. turn' \in [Slot -> Turn]
    BY <1>1, <2>1, <2>7, <2>8
  <2>10. TypeInv'
    <3>1. \A r \in Slot : IsOurs(turn'[r].session)
      BY <1>1, <2>7, <2>8 DEF Inv, TypeInv
    <3>2. \A r \in Slot : turn'[r].stage # "free" => turn'[r].engine \in Engine
      BY <1>1, <2>7, <2>8 DEF Inv, TypeInv
    <3> QED
      BY <1>1, <2>9, <3>1, <3>2 DEF Inv, TypeInv, IsOurs
  <2>11. MapInv'
    BY <1>1 DEF Inv, MapInv, IsLatest, IsRanking, IsInjective, Holds
  <2>12. task[s].stage = "none"
    <3>1. turn[s].stage # "calling"
      BY <1>1
    <3> QED
      BY <3>1 DEF Inv, LinkInv
  <2>13. StoreInv'
    BY <1>1, <2>1, <2>12, EnqueueInv, StoreStutters DEF Inv
  <2>14. \A r \in Slot : r # s => task'[r] = task[r]
    BY <2>1 DEF storeVars, Enqueue, Inv, StoreInv, StoreTypes
  <2>15. LinkInv'
    BY <2>7, <2>8, <2>14 DEF Inv, LinkInv
  <2>16. /\ IsLive(s)' /\ IsLive(s) /\ IsCalling(s)'
         /\ \A r \in Slot : r # s => /\ IsLive(r)' <=> IsLive(r)
                                     /\ IsCalling(r)' <=> IsCalling(r)
    BY <1>1, <2>7, <2>8 DEF IsLive, IsCalling
  <2>17. OwnerInv'
    <3>1. LiveInv /\ HistoryInv /\ BaseInv
      BY DEF Inv, OwnerInv
    <3>2. \A r \in Slot : IsLive(r)' <=> IsLive(r)
      BY <2>16
    <3>3. \A r \in Slot : turn'[r].ask = turn[r].ask /\ turn'[r].session = turn[r].session
      BY <2>7, <2>8
    <3>4. ~Holds(<<>>, 0) /\ \A x : ~Holds(<<>>, x)
      BY DEF Holds
    <3>5. IsOfAsked(base)
      <4>1. IsOfAsked(<<>>)
        BY <3>4 DEF IsOfAsked, IsInjective
      <4> QED
        BY <2>3, <2>4, <3>1, <4>1 DEF HistoryInv
    <3>6. \A r \in Slot : IsLive(r) => ~Holds(base, turn[r].ask)
      BY <2>3, <2>4, <3>1, <3>4 DEF LiveInv
    <3>7. \A id \in DOMAIN objects :
            id # turn[s].session => AreApart(base, objects[id].history)
      BY <2>3, <2>4, <3>1, <3>4 DEF HistoryInv, AreApart
    <3>8. \A r \in Slot : IsCalling(r) /\ turn[r].session # turn[s].session =>
            AreApart(turn[r].base, base) /\ AreApart(base, turn[r].base)
      BY <2>3, <2>4, <3>1, <3>4 DEF BaseInv, AreApart
    <3>9. LiveInv'
      <4>1. \A q, r \in Slot : IsCalling(q)' /\ IsLive(r)' => ~Holds(turn'[q].base, turn'[r].ask)
        BY <2>7, <2>8, <2>16, <3>1, <3>2, <3>3, <3>6 DEF LiveInv
      <4> QED
        BY <1>1, <3>1, <3>2, <3>3, <4>1 DEF LiveInv
    <3>10. HistoryInv'
      BY <1>1, <3>1 DEF HistoryInv, IsOfAsked
    <3>11. BaseInv'
      <4>1. \A r \in Slot : IsCalling(r)' =>
              /\ IsOfAsked(turn'[r].base)
              /\ turn'[r].session = 0 => turn'[r].base = <<>>
              /\ \A id \in DOMAIN objects :
                   id # turn'[r].session => AreApart(turn'[r].base, objects[id].history)
        BY <2>4, <2>7, <2>8, <2>16, <3>1, <3>5, <3>7 DEF BaseInv
      <4>2. \A q, r \in Slot :
              IsCalling(q)' /\ IsCalling(r)' /\ turn'[q].session # turn'[r].session =>
                AreApart(turn'[q].base, turn'[r].base)
        BY <2>7, <2>8, <2>16, <3>1, <3>3, <3>8 DEF BaseInv
      <4> QED
        BY <1>1, <4>1, <4>2 DEF BaseInv, IsOfAsked
    <3> QED
      BY <3>9, <3>10, <3>11 DEF OwnerInv
  <2> QED
    BY <2>10, <2>11, <2>13, <2>15, <2>17 DEF Inv
<1> QED
  BY <1>3, <1>4

(***************************************************************************)
(* A session is stored.                                                    *)
(***************************************************************************)
LEMMA StoreFacts ==
  ASSUME TypeInv, MapInv, NEW id \in 1..(Len(objects) + 1), NEW session \in Session,
         Store(id, session)
  PROVE  /\ objects' \in Seq(Session) /\ sessions' \in Seq(1..Len(objects'))
         /\ used' \in Seq(Nat) /\ Len(used') = Len(objects')
         /\ DOMAIN objects = 1..Len(objects) /\ DOMAIN objects' = DOMAIN objects \cup {id}
         /\ DOMAIN objects' = 1..Len(objects')
         /\ objects'[id] = session
         /\ \A i \in DOMAIN objects : i # id => objects'[i] = objects[i]
         /\ MapInv'
<1> DEFINE n == Len(objects)
<1>1. /\ objects \in Seq(Session) /\ n \in Nat /\ Len(used) = n
      /\ used \in Seq(Nat) /\ sessions \in Seq(1..Len(used))
      /\ IsRanking(used) /\ IsLatest(sessions, used) /\ Len(sessions) <= MaxSessions
  BY DEF TypeInv, MapInv
<1>2. /\ used' = Ranked(used, id) /\ sessions' = Latest(sessions, id)
      /\ objects' = IF id > n THEN Append(objects, session) ELSE [objects EXCEPT ![id] = session]
  BY DEF Store, Ranked, Latest, Touched
<1>3. /\ used' \in Seq(Nat) /\ IsRanking(used')
      /\ Len(used') = IF id > Len(used) THEN Len(used) + 1 ELSE Len(used)
      /\ sessions' \in Seq(1..Len(used')) /\ IsLatest(sessions', used')
      /\ Len(sessions') <= MaxSessions
  <2>1. id \in 1..(Len(used) + 1)
    BY <1>1
  <2> QED
    BY <1>1, <1>2, <2>1, LatestFacts
<1>4. MapInv'
  BY <1>3 DEF MapInv, IsLatest, IsRanking, IsInjective, Holds
<1>5. CASE id > n
  <2>1. id = n + 1 /\ objects' = Append(objects, session)
    BY <1>1, <1>2, <1>5
  <2>2. /\ objects' \in Seq(Session) /\ Len(objects') = n + 1
        /\ DOMAIN objects = 1..n /\ DOMAIN objects' = 1..(n + 1)
        /\ objects'[n + 1] = session
        /\ \A i \in 1..n : objects'[i] = objects[i]
    BY <1>1, <2>1
  <2>3. DOMAIN objects' = DOMAIN objects \cup {id} /\ Len(objects') = Len(used')
    BY <1>1, <1>3, <1>5, <2>1, <2>2
  <2> QED
    BY <1>3, <1>4, <2>1, <2>2, <2>3
<1>6. CASE ~(id > n)
  <2>1. id \in 1..n /\ objects' = [objects EXCEPT ![id] = session]
    BY <1>1, <1>2, <1>6
  <2>2. /\ objects' \in Seq(Session) /\ Len(objects') = n
        /\ DOMAIN objects = 1..n /\ DOMAIN objects' = 1..n
        /\ objects'[id] = session
        /\ \A i \in 1..n : i # id => objects'[i] = objects[i]
    BY <1>1, <2>1
  <2>3. DOMAIN objects' = DOMAIN objects \cup {id} /\ Len(objects') = Len(used')
    BY <1>1, <1>3, <1>6, <2>1, <2>2
  <2> QED
    BY <1>3, <1>4, <2>2, <2>3
<1> QED
  BY <1>1, <1>5, <1>6

LEMMA OtherConversationInv == Inv /\ OtherConversation => Inv'
<1> SUFFICES ASSUME Inv, OtherConversation PROVE Inv'
  OBVIOUS
<1> DEFINE id == Len(objects) + 1
           session == [engine |-> NoEngine, history |-> <<>>]
<1>1. /\ Store(id, session) /\ UNCHANGED <<turn, page, asks>> /\ UNCHANGED storeVars
      /\ TypeInv /\ MapInv /\ OwnerInv
  BY DEF OtherConversation, Inv
<1>2. session \in Session /\ session.history = <<>>
  BY EmptySeq DEF Session, MaybeEngine
<1>3. id \in 1..(Len(objects) + 1) /\ Len(objects) \in Nat
  BY <1>1 DEF TypeInv
<1> HIDE DEF session
<1>4. /\ objects' \in Seq(Session) /\ sessions' \in Seq(1..Len(objects'))
      /\ used' \in Seq(Nat) /\ Len(used') = Len(objects')
      /\ DOMAIN objects = 1..Len(objects) /\ DOMAIN objects' = DOMAIN objects \cup {id}
      /\ DOMAIN objects' = 1..Len(objects')
      /\ objects'[id] = session
      /\ \A i \in DOMAIN objects : i # id => objects'[i] = objects[i]
      /\ MapInv'
  BY <1>1, <1>2, <1>3, StoreFacts
<1>5. id \notin DOMAIN objects
  BY <1>3, <1>4
<1> HIDE DEF id
<1>6. \A i : IsOurs(i) => (IsOurs(i))'
  BY <1>4, <1>5 DEF IsOurs
<1>7. TypeInv'
  <2>1. \A s \in Slot : IsOurs(turn[s].session)
    BY <1>1 DEF TypeInv
  <2>2. \A s \in Slot : (IsOurs(turn[s].session))'
    BY <1>1, <1>6, <2>1 DEF IsOurs
  <2>3. (IsOurs(page.session))'
    BY <1>1, <1>6 DEF TypeInv, IsOurs
  <2> QED
    BY <1>1, <1>4, <2>2, <2>3 DEF TypeInv
<1>8. OwnerInv'
  <2>1. LiveInv /\ HistoryInv /\ BaseInv
    BY <1>1 DEF OwnerInv
  <2>2. \A x : ~Holds(<<>>, x)
    BY DEF Holds
  <2>3. \A q : AreApart(q, objects'[id].history) /\ AreApart(objects'[id].history, q)
    BY <1>2, <1>4, <2>2 DEF AreApart
  <2>4. IsOfAsked(objects'[id].history)
    BY <1>2, <1>4, <2>2 DEF IsOfAsked, IsInjective
  <2>5. LiveInv'
    BY <1>1, <1>2, <1>4, <1>5, <2>1, <2>2 DEF LiveInv, IsLive, IsCalling
  <2>6. HistoryInv'
    <3>1. \A i \in DOMAIN objects' : IsOfAsked(objects'[i].history)
      BY <1>4, <1>5, <2>1, <2>4 DEF HistoryInv
    <3>2. \A i, j \in DOMAIN objects' :
            i # j => AreApart(objects'[i].history, objects'[j].history)
      BY <1>4, <1>5, <2>1, <2>3 DEF HistoryInv
    <3> QED
      BY <1>1, <3>1, <3>2 DEF HistoryInv, IsOfAsked
  <2>7. BaseInv'
    <3>1. \A s \in Slot : IsCalling(s) =>
            \A i \in DOMAIN objects' :
              i # turn[s].session => AreApart(turn[s].base, objects'[i].history)
      BY <1>4, <1>5, <2>1, <2>3 DEF BaseInv
    <3> QED
      BY <1>1, <2>1, <3>1 DEF BaseInv, IsOfAsked, IsCalling
  <2> QED
    BY <2>5, <2>6, <2>7 DEF OwnerInv
<1>9. StoreInv' /\ LinkInv'
  BY <1>1, StoreAndLinkStay DEF IsCalling
<1> QED
  BY <1>4, <1>7, <1>8, <1>9 DEF Inv

LEMMA AppendIsOfAsked ==
  ASSUME NEW q \in Seq(Nat), NEW x \in Nat, IsOfAsked(q), ~Holds(q, x), x <= asks
  PROVE  Append(q, x) \in Seq(Nat) /\ IsOfAsked(Append(q, x))
<1>1. /\ Append(q, x) \in Seq(Nat) /\ Len(q) \in Nat
      /\ DOMAIN q = 1..Len(q) /\ DOMAIN Append(q, x) = 1..(Len(q) + 1)
      /\ \A i \in 1..Len(q) : Append(q, x)[i] = q[i]
      /\ Append(q, x)[Len(q) + 1] = x
  OBVIOUS
<1>2. \A i \in 1..(Len(q) + 1) : i \in 1..Len(q) \/ i = Len(q) + 1
  BY <1>1
<1>3. IsInjective(Append(q, x))
  <2> DEFINE p == Append(q, x)
  <2> SUFFICES ASSUME NEW i \in DOMAIN p, NEW j \in DOMAIN p, p[i] = p[j] PROVE i = j
    BY DEF IsInjective
  <2>1. /\ i \in 1..Len(q) \/ i = Len(q) + 1
        /\ j \in 1..Len(q) \/ j = Len(q) + 1
    BY <1>1, <1>2
  <2> QED
    BY <1>1, <2>1 DEF IsOfAsked, IsInjective, Holds
<1>4. \A y \in Nat : Holds(Append(q, x), y) => y <= asks
  BY AppendHolds DEF IsOfAsked
<1> QED
  BY <1>1, <1>3, <1>4 DEF IsOfAsked

LEMMA FinishTurnInv == ASSUME Inv, NEW s \in Slot, FinishTurn(s) PROVE Inv'
<1>1. PICK id : id = IF turn[s].session = 0 THEN Len(objects) + 1 ELSE turn[s].session
  OBVIOUS
<1>2. PICK told : told = Extended(s)
  OBVIOUS
<1> DEFINE session == [engine |-> turn[s].engine, history |-> told]
<1>3. /\ turn[s].stage = "calling" /\ ~IsPending(s)
      /\ Store(id, session)
      /\ turn' = [turn EXCEPT ![s] = [turn[s] EXCEPT !.stage = "answered", !.answer = "ok",
                                                     !.session = id]]
      /\ task' = [task EXCEPT ![s] = NoTask]
      /\ UNCHANGED <<page, asks>> /\ UNCHANGED <<file, queue, issued, history>>
  BY <1>1, <1>2 DEF FinishTurn, IsPending
<1>4. /\ TypeInv /\ MapInv /\ OwnerInv /\ LinkInv /\ StoreInv
      /\ LiveInv /\ HistoryInv /\ BaseInv
  BY DEF Inv, OwnerInv
<1>5. /\ turn \in [Slot -> Turn] /\ turn[s] \in Turn /\ turn[s].engine \in Engine
      /\ IsOurs(turn[s].session) /\ turn[s].session \in Nat /\ turn[s].ask \in Nat
      /\ turn[s].base \in Seq(Nat) /\ objects \in Seq(Session) /\ asks \in Nat
  BY <1>3, <1>4 DEF TypeInv, Turn
<1>6. IsCalling(s) /\ IsLive(s)
  BY <1>3 DEF IsCalling, IsLive
<1>7. told \in Seq(Nat) /\ IsOfAsked(told)
  <2>1. IsOfAsked(turn[s].base) /\ ~Holds(turn[s].base, turn[s].ask) /\ turn[s].ask <= asks
    BY <1>4, <1>6 DEF BaseInv, LiveInv
  <2> QED
    BY <1>2, <1>5, <2>1, AppendIsOfAsked DEF Extended
<1>8. \A x : Holds(told, x) <=> Holds(turn[s].base, x) \/ x = turn[s].ask
  BY <1>2, <1>5, AppendHolds, SMTT(30) DEF Extended
<1>9. session \in Session /\ session.history = told /\ session.engine = turn[s].engine
  BY <1>5, <1>7 DEF Session, MaybeEngine
<1>10. id \in 1..(Len(objects) + 1) /\ id \in Nat \ {0} /\ Len(objects) \in Nat
  BY <1>1, <1>5 DEF IsOurs
<1> HIDE DEF session
<1>11. /\ objects' \in Seq(Session) /\ sessions' \in Seq(1..Len(objects'))
       /\ used' \in Seq(Nat) /\ Len(used') = Len(objects')
       /\ DOMAIN objects = 1..Len(objects) /\ DOMAIN objects' = DOMAIN objects \cup {id}
       /\ DOMAIN objects' = 1..Len(objects')
       /\ objects'[id] = session
       /\ \A i \in DOMAIN objects : i # id => objects'[i] = objects[i]
       /\ MapInv'
  BY <1>3, <1>4, <1>9, <1>10, StoreFacts
<1>12. /\ turn'[s] = [turn[s] EXCEPT !.stage = "answered", !.answer = "ok", !.session = id]
       /\ \A r \in Slot : r # s => turn'[r] = turn[r]
  BY <1>3, <1>5
<1>13. /\ turn'[s] \in Turn /\ turn'[s].stage = "answered" /\ turn'[s].answer = "ok"
       /\ turn'[s].session = id /\ turn'[s].engine = turn[s].engine
  BY <1>5, <1>10, <1>12, KindFacts DEF Turn
<1>14. turn' \in [Slot -> Turn]
  BY <1>3, <1>5, <1>12, <1>13
<1>15. TypeInv'
  <2>1. \A i : IsOurs(i) \/ i = id => (IsOurs(i))'
    BY <1>5, <1>9, <1>11 DEF IsOurs
  <2>2. \A r \in Slot : IsOurs(turn[r].session)
    BY <1>4 DEF TypeInv
  <2>3. \A r \in Slot : (IsOurs(turn[r].session))'
    <3> TAKE r \in Slot
    <3>1. PICK i : i = turn'[r].session
      OBVIOUS
    <3>2. IsOurs(i) \/ i = id
      BY <1>12, <1>13, <2>2, <3>1
    <3> QED
      BY <2>1, <3>1, <3>2 DEF IsOurs
  <2>4. (IsOurs(page.session))'
    BY <1>3, <1>4, <2>1 DEF TypeInv, IsOurs
  <2>5. \A r \in Slot : turn'[r].stage # "free" => turn'[r].engine \in Engine
    BY <1>4, <1>5, <1>12, <1>13 DEF TypeInv
  <2> QED
    BY <1>3, <1>4, <1>11, <1>14, <2>3, <2>4, <2>5 DEF TypeInv
<1>16. StoreInv'
  BY <1>3, <1>4, ForgetTaskInv
<1>17. LinkInv'
  <2>1. task \in [Slot -> Task]
    BY <1>4 DEF StoreInv, StoreTypes
  <2>2. task'[s].stage = "none" /\ \A r \in Slot : r # s => task'[r] = task[r]
    BY <1>3, <2>1, NoTaskFacts
  <2> QED
    BY <1>4, <1>12, <2>2 DEF LinkInv
<1>18. /\ ~IsLive(s)' /\ ~IsCalling(s)'
       /\ \A r \in Slot : r # s => /\ IsLive(r)' <=> IsLive(r)
                                   /\ IsCalling(r)' <=> IsCalling(r)
  BY <1>12, <1>13 DEF IsLive, IsCalling
<1>19. \A r \in Slot : r # s /\ IsLive(r) => ~Holds(told, turn[r].ask)
  BY <1>4, <1>6, <1>8 DEF LiveInv
<1>20. ASSUME NEW i \in DOMAIN objects, i # id
       PROVE  AreApart(told, objects[i].history) /\ AreApart(objects[i].history, told)
  <2>1. AreApart(turn[s].base, objects[i].history)
    <3>1. CASE turn[s].session = 0
      <4>1. turn[s].base = <<>>
        BY <1>4, <1>6, <3>1 DEF BaseInv
      <4> QED
        BY <4>1 DEF AreApart, Holds
    <3>2. CASE turn[s].session # 0
      <4>1. i # turn[s].session
        BY <1>1, <1>20, <3>2
      <4> QED
        BY <1>4, <1>6, <1>20, <4>1 DEF BaseInv
    <3> QED
      BY <3>1, <3>2
  <2>2. ~Holds(objects[i].history, turn[s].ask)
    BY <1>4, <1>6 DEF LiveInv
  <2> QED
    BY <1>8, <2>1, <2>2 DEF AreApart
<1>21. ASSUME NEW r \in Slot, r # s, IsCalling(r), turn[r].session # id
       PROVE  AreApart(turn[r].base, told)
  <2>1. CASE turn[r].session = 0
    <3>1. turn[r].base = <<>>
      BY <1>4, <1>21, <2>1 DEF BaseInv
    <3> QED
      BY <3>1 DEF AreApart, Holds
  <2>2. CASE turn[r].session # 0
    <3>1. turn[r].session # turn[s].session \/ turn[s].session = 0
      BY <1>1, <1>21
    <3>2. turn[r].session # turn[s].session
      BY <2>2, <3>1
    <3>3. AreApart(turn[r].base, turn[s].base) /\ ~Holds(turn[r].base, turn[s].ask)
      BY <1>4, <1>6, <1>21, <3>2 DEF BaseInv, LiveInv
    <3> QED
      BY <1>8, <3>3 DEF AreApart
  <2> QED
    BY <2>1, <2>2
<1>22. OwnerInv'
  <2>1. LiveInv'
    <3>1. \A r \in Slot : IsLive(r)' => r # s /\ IsLive(r) /\ turn'[r] = turn[r]
      BY <1>12, <1>18
    <3>2. \A r \in Slot : IsCalling(r)' => r # s /\ IsCalling(r) /\ turn'[r] = turn[r]
      BY <1>12, <1>18
    <3>3. \A r \in Slot : IsLive(r)' =>
            \A i \in DOMAIN objects' : ~Holds(objects'[i].history, turn'[r].ask)
      BY <1>4, <1>9, <1>11, <1>19, <3>1 DEF LiveInv
    <3> QED
      BY <1>3, <1>4, <3>1, <3>2, <3>3 DEF LiveInv
  <2>2. HistoryInv'
    <3>1. \A i \in DOMAIN objects' : IsOfAsked(objects'[i].history)
      BY <1>4, <1>7, <1>9, <1>11 DEF HistoryInv
    <3>2. \A i, j \in DOMAIN objects' :
            i # j => AreApart(objects'[i].history, objects'[j].history)
      BY <1>4, <1>9, <1>11, <1>20 DEF HistoryInv
    <3> QED
      BY <1>3, <3>1, <3>2 DEF HistoryInv, IsOfAsked
  <2>3. BaseInv'
    <3>1. \A r \in Slot : IsCalling(r)' => r # s /\ IsCalling(r) /\ turn'[r] = turn[r]
      BY <1>12, <1>18
    <3>2. \A r \in Slot : IsCalling(r)' =>
            /\ IsOfAsked(turn'[r].base)
            /\ turn'[r].session = 0 => turn'[r].base = <<>>
      BY <1>4, <3>1 DEF BaseInv
    <3>3. \A r \in Slot : IsCalling(r)' =>
            \A i \in DOMAIN objects' :
              i # turn'[r].session => AreApart(turn'[r].base, objects'[i].history)
      BY <1>4, <1>9, <1>11, <1>21, <3>1 DEF BaseInv
    <3>4. \A q, r \in Slot :
            IsCalling(q)' /\ IsCalling(r)' /\ turn'[q].session # turn'[r].session =>
              AreApart(turn'[q].base, turn'[r].base)
      BY <1>4, <3>1 DEF BaseInv
    <3> QED
      BY <1>3, <3>2, <3>3, <3>4 DEF BaseInv, IsOfAsked
  <2> QED
    BY <2>1, <2>2, <2>3 DEF OwnerInv
<1> QED
  BY <1>11, <1>15, <1>16, <1>17, <1>22 DEF Inv

-----------------------------------------------------------------------------
(***************************************************************************)
(* The invariant holds, and what it says of the program.                   *)
(***************************************************************************)
LEMMA InvInit == Init => Inv
<1> SUFFICES ASSUME Init PROVE Inv
  OBVIOUS
<1>1. /\ objects = <<>> /\ sessions = <<>> /\ used = <<>> /\ asks = 0
      /\ turn = [s \in Slot |-> NoTurn] /\ page = NewConversation(Available)
      /\ StoreInit
  BY DEF Init
<1>2. StoreInv /\ \A s \in Slot : task[s].stage = "none"
  BY <1>1, StoreInvInit, NoTaskFacts DEF StoreInit
<1>3. \A s \in Slot : turn[s] = NoTurn /\ turn[s].stage = "free" /\ turn[s].session = 0
  BY <1>1, NoTurnIsTurn
<1>4. turn \in [Slot -> Turn]
  BY <1>1, NoTurnIsTurn
<1>5. /\ {"known", "session"} \subseteq DOMAIN page
      /\ page.known \subseteq Engine /\ page.session = 0
  BY <1>1, AvailableIsEngines DEF NewConversation
<1>6. TypeInv
  <2>1. objects \in Seq(Session) /\ sessions \in Seq(1..Len(objects)) /\ used \in Seq(Nat)
    BY <1>1
  <2>2. Len(used) = Len(objects) /\ asks \in Nat
    BY <1>1
  <2> QED
    BY <1>3, <1>4, <1>5, <2>1, <2>2 DEF TypeInv, IsOurs
<1>7. LinkInv
  BY <1>2 DEF LinkInv
<1>8. OwnerInv
  BY <1>1, <1>3 DEF OwnerInv, LiveInv, HistoryInv, BaseInv, IsLive, IsCalling
<1>9. MapInv
  <2>1. IsRanking(used) /\ IsLatest(sessions, used)
    BY <1>1 DEF IsRanking, IsLatest, IsInjective, Holds
  <2> QED
    BY <1>1, <2>1, ConversationAssumption DEF MapInv
<1> QED
  BY <1>2, <1>6, <1>7, <1>8, <1>9 DEF Inv

LEMMA ServiceStepInv == ASSUME Inv, NEW s \in Slot, ServiceStep(s) PROVE Inv'
<1>1. CASE PassOn(s)
  BY <1>1, PassOnInv
<1>2. CASE BeginTurn(s)
  BY <1>2, BeginTurnInv
<1>3. CASE SendMessages(s)
  BY <1>3, SendMessagesInv
<1>4. CASE FinishTurn(s)
  BY <1>4, FinishTurnInv
<1>5. CASE FailTurn(s)
  BY <1>5, FailTurnInv
<1>6. CASE Receive(s)
  BY <1>6, ReceiveInv
<1>7. CASE StoreStep(s) /\ UNCHANGED conversation
  BY <1>7, StoreStepKeepsInv
<1> QED
  BY <1>1, <1>2, <1>3, <1>4, <1>5, <1>6, <1>7 DEF ServiceStep

LEMMA InvNext == Inv /\ [Next]_vars => Inv'
<1> SUFFICES ASSUME Inv, [Next]_vars PROVE Inv'
  OBVIOUS
<1>1. CASE submitDraft
  BY <1>1, AskInv DEF submitDraft
<1>2. CASE retryLastTurn
  BY <1>2, AskInv DEF retryLastTurn
<1>3. CASE Leave
  BY <1>3, LeaveInv
<1>4. CASE Load
  BY <1>4, LoadInv
<1>5. CASE OtherConversation
  BY <1>5, OtherConversationInv
<1>6. CASE Restart
  BY <1>6, RestartInv
<1>7. CASE Operator
  BY <1>7, OperatorInv
<1>8. CASE \E e \in Engine : chooseLlm(e)
  BY <1>8, chooseLlmInv
<1>9. CASE \E s \in Slot : ServiceStep(s) \/ GiveUp(s)
  BY <1>9, ServiceStepInv, GiveUpInv
<1>10. CASE UNCHANGED vars
  <2>1. UNCHANGED <<objects, sessions, turn, page, asks, used>> /\ UNCHANGED storeVars
    BY <1>10 DEF vars, conversation
  <2>2. TypeInv' /\ OwnerInv' /\ MapInv'
    BY <2>1, TalkStutters
  <2>3. StoreInv'
    BY <2>1, StoreStutters DEF Inv
  <2>4. LinkInv'
    BY <2>1 DEF storeVars, Inv, LinkInv
  <2> QED
    BY <2>2, <2>3, <2>4 DEF Inv
<1> QED
  BY <1>1, <1>2, <1>3, <1>4, <1>5, <1>6, <1>7, <1>8, <1>9, <1>10 DEF Next

LEMMA InvHolds == Spec => []Inv
BY InvInit, InvNext, PTL DEF Spec

\* What a step does to the file.
LEMMA LoginsStep ==
  ASSUME Inv, [Next]_vars
  PROVE  [\A e \in Engine : file'[e].token < file[e].token => torn']_<<file, torn>>
<1>1. file \in [Engine -> LoginValue] /\ file' \in [Engine -> LoginValue]
  BY InvNext DEF Inv, StoreInv, StoreTypes
<1>2. \A e \in Engine : file[e].token \in Nat /\ file'[e].token \in Nat
  BY <1>1 DEF LoginValue
<1>3. \/ UNCHANGED file
      \/ \E e \in Engine : LoginCommand(e) \/ Expire(e)
      \/ \E s \in Slot : Rename(s) /\ UNCHANGED torn
  <2>1. CASE \E s \in Slot : ServiceStep(s) \/ GiveUp(s)
    <3>1. PICK s \in Slot : ServiceStep(s) \/ GiveUp(s)
      BY <2>1
    <3>2. CASE StoreStep(s)
      BY <3>2 DEF StoreStep, FindRefreshed, SendToken, ReadAgain, Rename, RefreshFails, history
    <3>3. CASE SendMessages(s)
      BY <3>3 DEF SendMessages, Enqueue, storeVars
    <3>4. CASE PassOn(s) \/ BeginTurn(s) \/ FinishTurn(s) \/ FailTurn(s) \/ Receive(s) \/ GiveUp(s)
      BY <3>4 DEF PassOn, BeginTurn, FinishTurn, FailTurn, Receive, GiveUp, storeVars
    <3> QED
      BY <3>1, <3>2, <3>3, <3>4 DEF ServiceStep
  <2>2. CASE Operator
    BY <2>2 DEF Operator
  <2>3. CASE \/ submitDraft \/ retryLastTurn \/ Leave \/ Load \/ OtherConversation \/ Restart
             \/ \E e \in Engine : chooseLlm(e)
    BY <2>3 DEF submitDraft, retryLastTurn, Ask, Leave, Load, OtherConversation, Restart, StoreDies,
       chooseLlm, storeVars
  <2>4. CASE UNCHANGED vars
    BY <2>4 DEF vars, storeVars
  <2> QED
    BY <2>1, <2>2, <2>3, <2>4 DEF Next
<1>4. CASE UNCHANGED file
  BY <1>2, <1>4
<1>5. CASE \E e \in Engine : LoginCommand(e) \/ Expire(e)
  <2>1. \A f \in Engine : file[f].token <= file'[f].token
    BY <1>2, <1>5, LoginCommandInv, ExpireInv DEF Inv
  <2> QED
    BY <1>2, <2>1
<1>6. CASE \E s \in Slot : Rename(s) /\ UNCHANGED torn
  <2>1. torn' \/ \A f \in Engine : file[f].token <= file'[f].token
    BY <1>6, RenameInv DEF Inv
  <2> QED
    BY <1>2, <2>1
<1> QED
  BY <1>3, <1>4, <1>5, <1>6

(***************************************************************************)
(* No refresh puts the login of any provider back to an older one, unless  *)
(* the login command wrote between the second read and the rename          *)
(* (FileCredentialStore.modify): the file is read again after the          *)
(* provider's answer, so what is renamed over it is at least as new.       *)
(***************************************************************************)
THEOREM LoginsStay == Spec => LoginsAreNotUndone
<1>1. Inv /\ [Next]_vars =>
        [\A e \in Engine : file'[e].token < file[e].token => torn']_<<file, torn>>
  BY LoginsStep
<1> QED
  BY <1>1, InvHolds, PTL DEF Spec, LoginsAreNotUndone

(***************************************************************************)
(* A question enters one history at most, and that once, whatever is       *)
(* retried by hand or asked again after conversation-expired, given up by  *)
(* the page while the service goes on, or overtaken by a turn of the same  *)
(* session; and a refresh token is sent once, unless the answer to it was  *)
(* lost.                                                                   *)
(***************************************************************************)
THEOREM QuestionsAreSentOnce == Spec => []NothingIsSentTwice
<1>1. Inv => NothingIsSentTwice
  <2> SUFFICES ASSUME Inv PROVE NothingIsSentTwice
    OBVIOUS
  <2>1. RefreshTokensAreSentOnce
    BY DEF Inv, StoreInv, RefreshTokensAreSentOnce
  <2>2. objects \in Seq(Session) /\ HistoryInv
    BY DEF Inv, TypeInv, OwnerInv
  <2>3. \A i \in DOMAIN objects : objects[i].history \in Seq(Nat)
    <3> TAKE i \in DOMAIN objects
    <3>1. objects[i] \in Session
      BY <2>2
    <3> QED
      BY <3>1 DEF Session
  <2>4. \A i \in DOMAIN objects : IsInjective(objects[i].history)
    BY <2>2 DEF HistoryInv, IsOfAsked
  <2>5. ASSUME NEW i \in DOMAIN objects, NEW j \in DOMAIN objects, i # j
        PROVE  Range(objects[i].history) \cap Range(objects[j].history) = {}
    <3>1. AreApart(objects[i].history, objects[j].history)
      BY <2>2, <2>5 DEF HistoryInv
    <3>2. \A q \in Seq(Nat) : \A x \in Range(q) : x \in Nat /\ Holds(q, x)
      BY DEF Range, Holds
    <3> QED
      BY <2>3, <3>1, <3>2 DEF AreApart
  <2> QED
    BY <2>1, <2>4, <2>5 DEF NothingIsSentTwice
<1> QED
  BY <1>1, InvHolds, PTL

(***************************************************************************)
(* The map of the sessions holds those used last and no more than its      *)
(* limit (conversation-turn.ts): what is evicted is never younger than     *)
(* what stays.                                                             *)
(***************************************************************************)
THEOREM LatestAreKept == Spec => []MapHoldsLatest
<1>1. Inv => MapHoldsLatest
  <2> SUFFICES ASSUME Inv PROVE MapHoldsLatest
    OBVIOUS
  <2>1. IsLatest(sessions, used) /\ Len(sessions) <= MaxSessions
    BY DEF Inv, MapInv
  <2>2. DOMAIN objects = DOMAIN used
    BY DEF Inv, TypeInv
  <2>3. \A id : InMap(id) <=> Holds(sessions, id)
    BY DEF InMap, Holds
  <2> QED
    BY <2>1, <2>2, <2>3 DEF IsLatest, MapHoldsLatest
<1> QED
  BY <1>1, InvHolds, PTL

-----------------------------------------------------------------------------
(***************************************************************************)
(* The page: what it waits for, whose answers it shows, what the engine    *)
(* it asks has been told.                                                  *)
(***************************************************************************)
ShownTurn == [ask: Nat, state: {"waiting", "failed", "answered"}, restarted: BOOLEAN,
              engine: MaybeEngine]
Page == [known: SUBSET Engine, session: Nat, shown: Seq(ShownTurn), pending: BOOLEAN,
         lost: BOOLEAN]

\* The queue holds the tasks that are not settled, once each.
QueueIsExact == IsInjective(queue) /\ \A s \in Slot : Holds(queue, s) => IsPending(s)

IsOfPage(s) == turn[s].client = "page"
IsWaiting(shown) == shown # <<>> /\ Last(shown).state = "waiting"
AreAsked(shown) ==
  /\ \A i, j \in DOMAIN shown : i < j => shown[i].ask < shown[j].ask
  /\ \A i \in DOMAIN shown : shown[i].ask <= asks

\* The page waits for one turn at most, that of the last question it shows.
WaitInv ==
  /\ page \in Page /\ AreAsked(page.shown)
  /\ page.pending <=> IsWaiting(page.shown)
  /\ page.pending <=> \E s \in Slot : IsOfPage(s)
  /\ \A s, r \in Slot : IsOfPage(s) /\ IsOfPage(r) => s = r
  /\ \A s \in Slot : IsOfPage(s) =>
       turn[s].stage # "free" /\ turn[s].ask = Last(page.shown).ask

\* Sessions of the page, and turns that ask for it, are of the engine it has chosen.
IsOfEngine(id, e) == id = 0 \/ objects[id].engine = e
EngineInv ==
  /\ IsOfEngine(page.session, Choice)
  /\ \A s \in Slot : IsOfPage(s) =>
       turn[s].engine = Choice /\ IsOfEngine(turn[s].session, Choice)
  /\ \A s \in Slot : turn[s].stage \in {"checking", "calling"} =>
       IsOfEngine(turn[s].session, turn[s].engine)
  /\ \A i \in DOMAIN page.shown : IsAnswered(page.shown[i]) => page.shown[i].engine = Choice

\* What has been told, once the answer to the last question is shown as well.
WithLast(p) ==
  IF Last(p.shown).restarted THEN {Last(p.shown).ask} ELSE Current(p) \cup {Last(p.shown).ask}

Tells(q, set) == IsInOrder(q) /\ Range(q) = set
IsStored(s) == turn[s].stage = "answered" /\ turn[s].answer = "ok"
MayStore(s) == turn[s].stage \in {"sent", "passed", "checking", "calling"}

\* Nobody else asks in a session of the page.
AloneInv ==
  \A s \in Slot : MayStore(s) /\ ~IsOfPage(s) /\ turn[s].session # 0 =>
    /\ turn[s].session # page.session
    /\ \A r \in Slot : IsOfPage(r) => turn[s].session # turn[r].session

\* Between the answer of the service and its arrival the session of the page is ahead.
ToldInv ==
  /\ page.session = 0 => Current(page) = {}
  /\ page.session # 0 =>
       \/ Tells(objects[page.session].history, Current(page))
       \/ \E s \in Slot : IsOfPage(s) /\ IsStored(s)
  /\ \A s \in Slot : IsOfPage(s) =>
       IF IsStored(s)
       THEN turn[s].session # 0 /\ Tells(objects[turn[s].session].history, WithLast(page))
       ELSE /\ turn[s].session \in {0, page.session}
            /\ turn[s].session = 0 <=> page.session = 0 \/ Last(page.shown).restarted
            /\ IsCalling(s) /\ turn[s].session # 0 =>
                 turn[s].base = objects[turn[s].session].history

TalkInv == WaitInv /\ EngineInv /\ (~page.lost => AloneInv /\ ToldInv)
PageInv == Inv /\ QueueIsExact /\ TalkInv

(***************************************************************************)
(* The queue of the credential file holds the tasks that are not settled,  *)
(* and each once.                                                          *)
(***************************************************************************)
LEMMA TailIsExact ==
  ASSUME NEW S, NEW q \in Seq(S), IsInjective(q), q # <<>>
  PROVE  IsInjective(Tail(q)) /\ \A x : Holds(Tail(q), x) => Holds(q, x) /\ x # Head(q)
<1>1. /\ Len(q) \in Nat /\ Len(Tail(q)) = Len(q) - 1 /\ DOMAIN q = 1..Len(q)
      /\ DOMAIN Tail(q) = 1..(Len(q) - 1) /\ Head(q) = q[1]
      /\ \A i \in 1..(Len(q) - 1) : Tail(q)[i] = q[i + 1]
  OBVIOUS
<1>2. \A i \in 1..(Len(q) - 1) : i + 1 \in 1..Len(q) /\ i + 1 # 1 /\ 1 \in 1..Len(q) /\ i \in Nat
  BY <1>1
<1>3. \A i, j \in 1..(Len(q) - 1) : i + 1 = j + 1 => i = j
  BY <1>1
<1>4. IsInjective(Tail(q))
  BY <1>1, <1>2, <1>3 DEF IsInjective
<1>5. ASSUME NEW x, Holds(Tail(q), x) PROVE Holds(q, x) /\ x # Head(q)
  <2>1. PICK i \in 1..(Len(q) - 1) : q[i + 1] = x
    BY <1>1, <1>5 DEF Holds
  <2> QED
    BY <1>1, <1>2, <2>1 DEF Holds, IsInjective
<1> QED
  BY <1>4, <1>5

LEMMA SettledIsExact ==
  ASSUME StoreInv, QueueIsExact, NEW s \in Slot, NEW stage, Settled(s, stage),
         IsPending(s), Head(queue) = s
  PROVE  QueueIsExact'
<1>1. /\ queue' = Tail(queue) /\ task' = [task EXCEPT ![s] = [NoTask EXCEPT !.stage = stage]]
      /\ queue \in Seq(Slot) /\ task \in [Slot -> Task] /\ Holds(queue, s)
  BY DEF Settled, StoreInv, StoreTypes, QueueInv
<1>2. queue # <<>>
  BY <1>1 DEF Holds
<1>3. IsInjective(queue') /\ \A x : Holds(queue', x) => Holds(queue, x) /\ x # s
  BY <1>1, <1>2, TailIsExact DEF QueueIsExact
<1>4. \A r \in Slot : r # s => task'[r] = task[r]
  BY <1>1
<1> QED
  BY <1>3, <1>4 DEF QueueIsExact, IsPending, Holds, IsInjective

LEMMA StoreStepIsExact ==
  ASSUME StoreInv, QueueIsExact, NEW s \in Slot, StoreStep(s) PROVE QueueIsExact'
<1>1. CASE FindRefreshed(s) \/ Rename(s) \/ RefreshFails(s)
  <2>1. IsPending(s) /\ Head(queue) = s /\ \E stage : Settled(s, stage)
    BY <1>1 DEF FindRefreshed, Rename, RefreshFails, IsFirst, IsPending, IsActive, StoreInv,
       QueueInv
  <2> QED
    BY <2>1, SettledIsExact
<1>2. CASE SendToken(s)
  <2>1. /\ task[s].stage = "queued" /\ queue' = queue /\ task \in [Slot -> Task]
        /\ task' = [task EXCEPT ![s].stage = "refreshing", ![s].copy = file]
    BY <1>2 DEF SendToken, IsFirst, StoreInv, StoreTypes
  <2>2. task'[s].stage = "refreshing" /\ \A r \in Slot : r # s => task'[r] = task[r]
    BY <2>1 DEF Task
  <2> QED
    BY <2>1, <2>2 DEF QueueIsExact, IsPending, Holds, IsInjective
<1>3. CASE ReadAgain(s)
  <2>1. PICK copy : /\ task[s].stage = "refreshing" /\ queue' = queue /\ task \in [Slot -> Task]
                    /\ task' = [task EXCEPT ![s].stage = "writing", ![s].copy = copy]
    BY <1>3 DEF ReadAgain, StoreInv, StoreTypes
  <2>2. task'[s].stage = "writing" /\ \A r \in Slot : r # s => task'[r] = task[r]
    BY <2>1 DEF Task
  <2> QED
    BY <2>1, <2>2 DEF QueueIsExact, IsPending, Holds, IsInjective
<1> QED
  BY <1>1, <1>2, <1>3 DEF StoreStep

LEMMA EnqueueIsExact ==
  ASSUME StoreInv, QueueIsExact, NEW s \in Slot, NEW e \in Engine, task[s].stage = "none",
         Enqueue(s, e)
  PROVE  QueueIsExact'
<1>1. /\ queue' = Append(queue, s)
      /\ task' = [task EXCEPT ![s] = [NoTask EXCEPT !.stage = "queued", !.engine = e]]
      /\ task \in [Slot -> Task] /\ queue \in Seq(Slot)
  BY DEF Enqueue, StoreInv, StoreTypes
<1>2. task'[s].stage = "queued" /\ \A r \in Slot : r # s => task'[r] = task[r]
  BY <1>1, NoTaskFacts DEF Task
<1>3. ~Holds(queue, s)
  BY DEF QueueIsExact, IsPending
<1>4. /\ Len(queue) \in Nat /\ DOMAIN queue = 1..Len(queue)
      /\ DOMAIN queue' = 1..(Len(queue) + 1) /\ queue'[Len(queue) + 1] = s
      /\ \A i \in 1..Len(queue) : queue'[i] = queue[i]
  BY <1>1
<1>5. \A i \in 1..(Len(queue) + 1) : i \in 1..Len(queue) \/ i = Len(queue) + 1
  BY <1>4
<1>6. IsInjective(queue')
  BY <1>3, <1>4, <1>5 DEF QueueIsExact, IsInjective, Holds
<1>7. \A x : Holds(queue', x) => Holds(queue, x) \/ x = s
  BY <1>4, <1>5 DEF Holds
<1>8. \A r \in Slot : Holds(queue', r) => IsPending(r)'
  BY <1>2, <1>7 DEF QueueIsExact, IsPending
<1> QED
  BY <1>6, <1>8 DEF QueueIsExact, Holds

LEMMA ForgottenIsExact ==
  ASSUME StoreInv, QueueIsExact, NEW s \in Slot, ~IsPending(s),
         task' = [task EXCEPT ![s] = NoTask], UNCHANGED queue
  PROVE  QueueIsExact'
<1>1. \A r \in Slot : r # s => task'[r] = task[r]
  BY DEF StoreInv, StoreTypes
<1>2. ~Holds(queue, s)
  BY DEF QueueIsExact
<1> QED
  BY <1>1, <1>2 DEF QueueIsExact, IsPending, Holds, IsInjective

LEMMA QueueStaysExact ==
  ASSUME Inv, QueueIsExact, [Next]_vars PROVE QueueIsExact'
<1>1. StoreInv /\ LinkInv
  BY DEF Inv
<1>2. CASE UNCHANGED <<queue, task>>
  BY <1>2 DEF QueueIsExact, IsPending, Holds, IsInjective
<1>3. CASE \E s \in Slot : ServiceStep(s) \/ GiveUp(s)
  <2>1. PICK s \in Slot : ServiceStep(s) \/ GiveUp(s)
    BY <1>3
  <2>2. CASE StoreStep(s)
    BY <1>1, <2>2, StoreStepIsExact
  <2>3. CASE SendMessages(s)
    <3>1. turn[s].stage = "checking" /\ turn[s].engine \in Engine /\ task[s].stage = "none"
      BY <1>1, <2>3 DEF SendMessages, Inv, TypeInv, LinkInv
    <3>2. Enqueue(s, turn[s].engine) \/ UNCHANGED <<queue, task>>
      BY <2>3 DEF SendMessages, storeVars
    <3> QED
      BY <1>1, <1>2, <3>1, <3>2, EnqueueIsExact
  <2>4. CASE FinishTurn(s) \/ FailTurn(s)
    <3>1. ~IsPending(s) /\ task' = [task EXCEPT ![s] = NoTask] /\ UNCHANGED queue
      BY <2>4 DEF FinishTurn, FailTurn, IsPending
    <3> QED
      BY <1>1, <3>1, ForgottenIsExact
  <2>5. CASE PassOn(s) \/ BeginTurn(s) \/ Receive(s) \/ GiveUp(s)
    BY <1>2, <2>5 DEF PassOn, BeginTurn, Receive, GiveUp, storeVars
  <2> QED
    BY <2>1, <2>2, <2>3, <2>4, <2>5 DEF ServiceStep
<1>4. CASE Operator
  BY <1>2, <1>4 DEF Operator, LoginCommand, Expire
<1>5. CASE Restart
  <2>1. queue' = <<>>
    BY <1>5 DEF Restart, StoreDies
  <2>2. DOMAIN queue' = {}
    BY <2>1
  <2> QED
    BY <2>2 DEF QueueIsExact, IsInjective, Holds
<1>6. CASE \/ submitDraft \/ retryLastTurn \/ Leave \/ Load \/ OtherConversation
           \/ \E e \in Engine : chooseLlm(e)
  <2>1. UNCHANGED storeVars
    BY <1>6 DEF submitDraft, retryLastTurn, Ask, Leave, Load, OtherConversation, chooseLlm
  <2> QED
    BY <1>2, <2>1 DEF storeVars
<1>7. CASE UNCHANGED vars
  BY <1>2, <1>7 DEF vars, storeVars
<1> QED
  BY <1>3, <1>4, <1>5, <1>6, <1>7 DEF Next

(***************************************************************************)
(* What the page shows.                                                    *)
(***************************************************************************)
\* Only the answered questions count.
LEMMA CurrentOfAnswered ==
  ASSUME NEW p, NEW q,
         \A i : (i \in DOMAIN p.shown /\ IsAnswered(p.shown[i])) <=>
                (i \in DOMAIN q.shown /\ IsAnswered(q.shown[i])),
         \A i \in DOMAIN p.shown : IsAnswered(p.shown[i]) =>
            /\ q.shown[i].ask = p.shown[i].ask
            /\ q.shown[i].restarted = p.shown[i].restarted
  PROVE  Current(p) = Current(q)
<1> DEFINE I(r) == {i \in DOMAIN r.shown :
                      /\ IsAnswered(r.shown[i])
                      /\ \A j \in DOMAIN r.shown :
                           i < j /\ IsAnswered(r.shown[j]) => ~r.shown[j].restarted}
<1>1. I(p) = I(q)
  OBVIOUS
<1>2. \A i \in I(p) : q.shown[i].ask = p.shown[i].ask
  OBVIOUS
<1>3. Current(p) = {p.shown[i].ask : i \in I(p)} /\ Current(q) = {q.shown[i].ask : i \in I(q)}
  BY DEF Current
<1> HIDE DEF I
<1> QED
  BY <1>1, <1>2, <1>3

LEMMA ShownFacts ==
  ASSUME NEW shown \in Seq(ShownTurn)
  PROVE  /\ Len(shown) \in Nat /\ DOMAIN shown = 1..Len(shown)
         /\ \A i \in 1..Len(shown) :
              /\ shown[i].ask \in Nat /\ shown[i].restarted \in BOOLEAN
              /\ shown[i].state \in {"waiting", "failed", "answered"}
              /\ shown[i].engine \in MaybeEngine
         /\ shown # <<>> => Last(shown) = shown[Len(shown)] /\ Len(shown) \in 1..Len(shown)
<1>1. \A i \in 1..Len(shown) : shown[i] \in ShownTurn
  OBVIOUS
<1>2. Last(shown) = shown[Len(shown)]
  BY DEF Last
<1> QED
  BY <1>1, <1>2 DEF ShownTurn

LEMMA PageFacts ==
  ASSUME page \in Page
  PROVE  /\ page.known \in SUBSET Engine /\ page.session \in Nat
         /\ page.shown \in Seq(ShownTurn) /\ page.pending \in BOOLEAN /\ page.lost \in BOOLEAN
BY DEF Page

\* The last question shown becomes `new`; it keeps its number.
LEMMA LastFacts ==
  ASSUME NEW shown \in Seq(ShownTurn), shown # <<>>, NEW new \in ShownTurn,
         new.ask = Last(shown).ask, AreAsked(shown),
         NEW q, q = [shown EXCEPT ![Len(shown)] = new]
  PROVE  /\ q \in Seq(ShownTurn) /\ q # <<>> /\ Last(q) = new /\ AreAsked(q)
         /\ Len(q) = Len(shown) /\ q[Len(shown)] = new
         /\ \A i \in 1..Len(shown) : i # Len(shown) => q[i] = shown[i]
<1>1. /\ q \in Seq(ShownTurn) /\ Len(q) = Len(shown) /\ q[Len(shown)] = new
      /\ Len(shown) \in 1..Len(shown) /\ Len(shown) \in Nat
      /\ \A i \in 1..Len(shown) : i # Len(shown) => q[i] = shown[i]
  OBVIOUS
<1>2. Last(q) = new /\ Last(shown) = shown[Len(shown)]
  BY <1>1 DEF Last
<1>3. \A i \in 1..Len(shown) : q[i].ask = shown[i].ask
  BY <1>1, <1>2
<1>4. DOMAIN q = DOMAIN shown /\ DOMAIN shown = 1..Len(shown)
  OBVIOUS
<1>5. AreAsked(q)
  BY <1>3, <1>4 DEF AreAsked
<1>6. q # <<>>
  <2>1. DOMAIN q # {}
    BY <1>1, <1>4
  <2> QED
    BY <2>1
<1> QED
  BY <1>1, <1>2, <1>5, <1>6

\* It was not answered and is not: nothing more has been told.
LEMMA LastUnanswered ==
  ASSUME NEW p, p.shown \in Seq(ShownTurn), p.shown # <<>>, ~IsAnswered(Last(p.shown)),
         NEW new \in ShownTurn, ~IsAnswered(new),
         NEW q, q.shown = [p.shown EXCEPT ![Len(p.shown)] = new]
  PROVE  Current(q) = Current(p)
<1> DEFINE n == Len(p.shown)
<1>1. /\ n \in 1..n /\ Last(p.shown) = p.shown[n] /\ DOMAIN p.shown = 1..n
      /\ DOMAIN q.shown = 1..n /\ q.shown[n] = new
      /\ \A i \in 1..n : i # n => q.shown[i] = p.shown[i]
  BY ShownFacts
<1> HIDE DEF n
<1> QED
  BY <1>1, CurrentOfAnswered

\* It is answered: what was told before counts, unless the conversation started anew.
LEMMA LastAnswered ==
  ASSUME NEW p, p.shown \in Seq(ShownTurn), p.shown # <<>>, ~IsAnswered(Last(p.shown)),
         NEW new \in ShownTurn, IsAnswered(new), new.ask = Last(p.shown).ask,
         new.restarted = Last(p.shown).restarted,
         NEW q, q.shown = [p.shown EXCEPT ![Len(p.shown)] = new]
  PROVE  Current(q) = WithLast(p)
<1> DEFINE n == Len(p.shown)
           I(r) == {i \in DOMAIN r.shown :
                      /\ IsAnswered(r.shown[i])
                      /\ \A j \in DOMAIN r.shown :
                           i < j /\ IsAnswered(r.shown[j]) => ~r.shown[j].restarted}
<1>1. /\ n \in 1..n /\ n \in Nat /\ Last(p.shown) = p.shown[n] /\ DOMAIN p.shown = 1..n
      /\ DOMAIN q.shown = 1..n /\ q.shown[n] = new
      /\ \A i \in 1..n : i # n => q.shown[i] = p.shown[i]
      /\ new.restarted \in BOOLEAN
  BY ShownFacts
<1> HIDE DEF n
<1>2. \A i \in 1..n : i \in Nat /\ ~(n < i) /\ (i # n => i < n)
  BY <1>1
<1>3. Current(p) = {p.shown[i].ask : i \in I(p)} /\ Current(q) = {q.shown[i].ask : i \in I(q)}
  BY DEF Current
<1>4. n \in I(q) /\ n \notin I(p) /\ I(p) \subseteq 1..n /\ I(q) \subseteq 1..n
  BY <1>1, <1>2
<1>5. CASE Last(p.shown).restarted
  <2>1. I(q) = {n}
    BY <1>1, <1>2, <1>4, <1>5
  <2> HIDE DEF I
  <2> QED
    BY <1>1, <1>3, <1>5, <2>1 DEF WithLast
<1>6. CASE ~Last(p.shown).restarted
  <2>1. \A i \in 1..n : i # n => (i \in I(q) <=> i \in I(p))
    BY <1>1, <1>2, <1>6
  <2> HIDE DEF I
  <2>2. I(q) = I(p) \cup {n}
    BY <1>4, <2>1
  <2>3. \A i \in I(p) : q.shown[i].ask = p.shown[i].ask
    BY <1>1, <1>4
  <2>4. q.shown[n].ask = Last(p.shown).ask
    BY <1>1
  <2> QED
    BY <1>3, <1>6, <2>2, <2>3, <2>4 DEF WithLast
<1> QED
  BY <1>5, <1>6

(***************************************************************************)
(* Steps that leave the sessions alone.                                    *)
(***************************************************************************)
\* The component is mounted anew.
LEMMA MountedTalk ==
  ASSUME Inv, TalkInv, UNCHANGED <<objects, asks>>,
         NEW known \in SUBSET Engine, page' = NewConversation(known),
         \A s \in Slot : /\ turn'[s].client # "page" /\ turn'[s].stage = turn[s].stage
                         /\ turn'[s].session = turn[s].session
                         /\ turn'[s].engine = turn[s].engine
  PROVE  TalkInv'
<1>1. page' \in Page
  BY EmptySeq DEF NewConversation, Page
<1>2. /\ page'.session = 0 /\ page'.shown = <<>> /\ ~page'.pending
  BY DEF NewConversation
<1>3. DOMAIN page'.shown = {}
  BY <1>2
<1>4. WaitInv'
  BY <1>1, <1>2, <1>3 DEF WaitInv, AreAsked, IsWaiting, IsOfPage
<1>5. EngineInv'
  BY <1>2, <1>3 DEF TalkInv, EngineInv, IsOfEngine, IsOfPage
<1>6. AloneInv'
  BY <1>2 DEF AloneInv, IsOfPage
<1>7. ToldInv'
  BY <1>2, <1>3 DEF ToldInv, IsOfPage, Current
<1> QED
  BY <1>4, <1>5, <1>6, <1>7 DEF TalkInv

LEMMA UnmountedTalk ==
  ASSUME Inv, TalkInv, turn' = Unmounted, page' = NewConversation(page.known),
         UNCHANGED <<objects, asks>>
  PROVE  TalkInv'
<1>1. ASSUME NEW s \in Slot
      PROVE  /\ turn'[s].client # "page" /\ turn'[s].stage = turn[s].stage
             /\ turn'[s].session = turn[s].session /\ turn'[s].engine = turn[s].engine
  <2>1. /\ turn[s] \in Turn
        /\ turn'[s] = IF turn[s].client = "page" THEN [turn[s] EXCEPT !.client = "left"]
                      ELSE turn[s]
    BY DEF Unmounted, Inv, TypeInv
  <2> QED
    BY <2>1 DEF Turn
<1>2. page.known \in SUBSET Engine
  BY DEF Inv, TypeInv
<1> QED
  BY <1>1, <1>2, MountedTalk

LEMMA LoadTalk == ASSUME Inv, TalkInv, Load PROVE TalkInv'
<1>1. PICK known \in {Available, {}} : page' = NewConversation(known)
  BY DEF Load
<1>2. known \in SUBSET Engine
  BY <1>1, AvailableIsEngines
<1>3. /\ turn' = [s \in Slot |-> [turn[s] EXCEPT !.client = "closed"]]
      /\ UNCHANGED <<objects, asks>>
  BY DEF Load
<1>4. ASSUME NEW s \in Slot
      PROVE  /\ turn'[s].client # "page" /\ turn'[s].stage = turn[s].stage
             /\ turn'[s].session = turn[s].session /\ turn'[s].engine = turn[s].engine
  <2>1. turn[s] \in Turn /\ turn'[s] = [turn[s] EXCEPT !.client = "closed"]
    BY <1>3 DEF Inv, TypeInv
  <2> QED
    BY <2>1 DEF Turn
<1> QED
  BY <1>1, <1>2, <1>3, <1>4, MountedTalk

\* A turn goes on, or ends without an answer of its model.
GoesOn(s) ==
  /\ MayStore(s) /\ turn'[s].stage # "free" /\ ~IsStored(s)'
  /\ turn'[s].client = turn[s].client /\ turn'[s].ask = turn[s].ask
  /\ turn'[s].session = turn[s].session
  /\ IsOfPage(s) => turn'[s].engine = Choice
  /\ turn'[s].stage \in {"checking", "calling"} =>
       IsOfEngine(turn'[s].session, turn'[s].engine)
  /\ IsCalling(s)' /\ turn[s].session # 0 => turn'[s].base = objects[turn[s].session].history

LEMMA MovingTalk ==
  ASSUME Inv, TalkInv, UNCHANGED <<objects, saved, page, asks>>,
         \A s \in Slot : turn'[s] = turn[s] \/ GoesOn(s)
  PROVE  TalkInv'
<1>1. Choice' = Choice
  BY DEF Choice
<1>2. \A s \in Slot : IsOfPage(s)' <=> IsOfPage(s)
  BY DEF GoesOn, IsOfPage
<1>3. \A s \in Slot : turn'[s].session = turn[s].session /\ turn'[s].ask = turn[s].ask
  BY DEF GoesOn
<1>4. \A s \in Slot : IsOfPage(s) => turn'[s].stage # "free"
  BY DEF GoesOn, TalkInv, WaitInv
<1>5. WaitInv'
  BY <1>2, <1>3, <1>4 DEF TalkInv, WaitInv, AreAsked
<1>6. EngineInv'
  <2>1. \A s \in Slot : IsOfPage(s) => turn'[s].engine = Choice
    BY DEF GoesOn, TalkInv, EngineInv
  <2>2. \A s \in Slot : turn'[s].stage \in {"checking", "calling"} =>
          IsOfEngine(turn'[s].session, turn'[s].engine)
    BY DEF GoesOn, TalkInv, EngineInv
  <2> HIDE DEF Choice
  <2> QED
    BY <1>1, <1>2, <1>3, <2>1, <2>2 DEF TalkInv, EngineInv, IsOfEngine
<1>7. AloneInv => AloneInv'
  <2>1. \A s \in Slot : MayStore(s)' => MayStore(s)
    BY DEF GoesOn, MayStore
  <2> QED
    BY <1>2, <1>3, <2>1 DEF AloneInv
<1>8. ToldInv => ToldInv'
  <2> SUFFICES ASSUME ToldInv PROVE ToldInv'
    OBVIOUS
  <2>1. \A s \in Slot : IsStored(s)' <=> IsStored(s)
    BY DEF GoesOn, IsStored, MayStore
  <2>2. \A s \in Slot : IsOfPage(s) /\ IsCalling(s)' /\ turn[s].session # 0 =>
          turn'[s].base = objects[turn[s].session].history \/ IsStored(s)
    BY DEF GoesOn, ToldInv, IsCalling
  <2>3. /\ page.session = 0 => Current(page) = {}
        /\ page.session # 0 =>
             \/ Tells(objects[page.session].history, Current(page))
             \/ \E s \in Slot : IsOfPage(s) /\ IsStored(s)
    BY DEF ToldInv
  <2>4. ASSUME NEW s \in Slot, IsOfPage(s)
        PROVE  IF IsStored(s)'
               THEN turn'[s].session # 0 /\
                    Tells(objects[turn'[s].session].history, WithLast(page))
               ELSE /\ turn'[s].session \in {0, page.session}
                    /\ turn'[s].session = 0 <=> page.session = 0 \/ Last(page.shown).restarted
                    /\ IsCalling(s)' /\ turn'[s].session # 0 =>
                         turn'[s].base = objects[turn'[s].session].history
    BY <1>3, <2>1, <2>2, <2>4 DEF ToldInv
  <2> QED
    BY <1>2, <2>1, <2>3, <2>4 DEF ToldInv
<1> QED
  BY <1>5, <1>6, <1>7, <1>8 DEF TalkInv

LEMMA StayingTalk ==
  ASSUME Inv, TalkInv, UNCHANGED <<objects, saved, page, asks, turn>> PROVE TalkInv'
BY MovingTalk

\* A turn that is answered, other than by its model.
LEMMA AnsweredGoesOn ==
  ASSUME Inv, TalkInv, NEW s \in Slot, MayStore(s), NEW answer \in AnswerKind \ {"ok"},
         turn'[s] = [turn[s] EXCEPT !.stage = "answered", !.answer = answer]
  PROVE  GoesOn(s)
<1>1. turn[s] \in Turn
  BY DEF Inv, TypeInv
<1>2. /\ turn'[s].stage = "answered" /\ turn'[s].answer = answer
      /\ turn'[s].client = turn[s].client /\ turn'[s].ask = turn[s].ask
      /\ turn'[s].session = turn[s].session /\ turn'[s].engine = turn[s].engine
  BY <1>1 DEF Turn
<1>3. IsOfPage(s) => turn[s].engine = Choice
  BY DEF TalkInv, EngineInv
<1> QED
  BY <1>2, <1>3 DEF GoesOn, IsStored, IsCalling

LEMMA AnsweringTalk ==
  ASSUME Inv, TalkInv, NEW s \in Slot, MayStore(s), NEW answer \in AnswerKind \ {"ok"},
         Answer(s, answer), UNCHANGED <<objects, saved, page, asks>>
  PROVE  TalkInv'
<1>1. /\ turn' = [turn EXCEPT ![s] = [turn[s] EXCEPT !.stage = "answered", !.answer = answer]]
      /\ turn \in [Slot -> Turn]
  BY DEF Answer, Inv, TypeInv
<1>2. /\ turn'[s] = [turn[s] EXCEPT !.stage = "answered", !.answer = answer]
      /\ \A r \in Slot : r # s => turn'[r] = turn[r]
  BY <1>1
<1> QED
  BY <1>2, AnsweredGoesOn, MovingTalk

LEMMA PassOnTalk == ASSUME Inv, TalkInv, NEW s \in Slot, PassOn(s) PROVE TalkInv'
<1>1. turn[s].stage = "sent" /\ turn \in [Slot -> Turn] /\ turn[s] \in Turn
  BY DEF PassOn, Inv, TypeInv
<1>2. UNCHANGED <<objects, saved, page, asks>>
  BY DEF PassOn, service
<1>3. CASE Answer(s, "llm-unreachable")
  BY <1>1, <1>2, <1>3, AnsweringTalk, KindFacts DEF MayStore
<1>4. CASE turn' = [turn EXCEPT ![s].stage = "passed"]
  <2>1. /\ turn'[s] = [turn[s] EXCEPT !.stage = "passed"]
        /\ \A r \in Slot : r # s => turn'[r] = turn[r]
    BY <1>1, <1>4
  <2>2. /\ turn'[s].stage = "passed" /\ turn'[s].engine = turn[s].engine
        /\ turn'[s].client = turn[s].client /\ turn'[s].ask = turn[s].ask
        /\ turn'[s].session = turn[s].session
    BY <1>1, <2>1 DEF Turn
  <2>3. IsOfPage(s) => turn[s].engine = Choice
    BY DEF TalkInv, EngineInv
  <2>4. GoesOn(s)
    BY <1>1, <2>2, <2>3 DEF GoesOn, MayStore, IsStored, IsCalling
  <2> QED
    BY <1>2, <2>1, <2>4, MovingTalk
<1> QED
  BY <1>3, <1>4 DEF PassOn

LEMMA BeginTurnTalk == ASSUME Inv, TalkInv, NEW s \in Slot, BeginTurn(s) PROVE TalkInv'
<1>1. turn[s].stage = "passed" /\ turn \in [Slot -> Turn] /\ turn[s] \in Turn
  BY DEF BeginTurn, Inv, TypeInv
<1>2. UNCHANGED <<objects, saved, page, asks>>
  BY DEF BeginTurn, service
<1>3. CASE Answer(s, "conversation-expired")
  BY <1>1, <1>2, <1>3, AnsweringTalk, KindFacts DEF MayStore
<1>4. CASE ~Answer(s, "conversation-expired")
  <2>1. PICK engine : engine = IF turn[s].session = 0 THEN turn[s].engine
                               ELSE objects[turn[s].session].engine
    OBVIOUS
  <2>2. turn' = [turn EXCEPT ![s] = [turn[s] EXCEPT !.stage = "checking", !.engine = engine]]
    BY <1>4, <2>1 DEF BeginTurn
  <2>3. /\ turn'[s] = [turn[s] EXCEPT !.stage = "checking", !.engine = engine]
        /\ \A r \in Slot : r # s => turn'[r] = turn[r]
    BY <1>1, <2>2
  <2>4. /\ turn'[s].stage = "checking" /\ turn'[s].engine = engine
        /\ turn'[s].client = turn[s].client /\ turn'[s].ask = turn[s].ask
        /\ turn'[s].session = turn[s].session
    BY <1>1, <2>3 DEF Turn
  <2>5. IsOfPage(s) => engine = Choice
    BY <2>1 DEF TalkInv, EngineInv, IsOfEngine
  <2>6. IsOfEngine(turn[s].session, engine)
    BY <2>1 DEF IsOfEngine
  <2>7. GoesOn(s)
    BY <1>1, <2>4, <2>5, <2>6 DEF GoesOn, MayStore, IsStored, IsCalling
  <2> QED
    BY <1>2, <2>3, <2>7, MovingTalk
<1> QED
  BY <1>3, <1>4

LEMMA SendMessagesTalk == ASSUME Inv, TalkInv, NEW s \in Slot, SendMessages(s) PROVE TalkInv'
<1>1. turn[s].stage = "checking" /\ turn \in [Slot -> Turn] /\ turn[s] \in Turn
  BY DEF SendMessages, Inv, TypeInv
<1>2. UNCHANGED <<objects, saved, page, asks>>
  BY DEF SendMessages, service
<1>3. CASE file[turn[s].engine] = NoLogin
  BY <1>1, <1>2, <1>3, AnsweringTalk, KindFacts DEF MayStore, SendMessages
<1>4. CASE file[turn[s].engine] # NoLogin
  <2>1. PICK base : base = IF turn[s].session = 0 THEN <<>>
                           ELSE objects[turn[s].session].history
    OBVIOUS
  <2>2. turn' = [turn EXCEPT ![s] = [turn[s] EXCEPT !.stage = "calling", !.base = base]]
    BY <1>4, <2>1 DEF SendMessages
  <2>3. /\ turn'[s] = [turn[s] EXCEPT !.stage = "calling", !.base = base]
        /\ \A r \in Slot : r # s => turn'[r] = turn[r]
    BY <1>1, <2>2
  <2>4. /\ turn'[s].stage = "calling" /\ turn'[s].engine = turn[s].engine
        /\ turn'[s].client = turn[s].client /\ turn'[s].ask = turn[s].ask
        /\ turn'[s].session = turn[s].session /\ turn'[s].base = base
    BY <1>1, <2>3 DEF Turn
  <2>5. /\ IsOfPage(s) => turn[s].engine = Choice
        /\ IsOfEngine(turn[s].session, turn[s].engine)
    BY <1>1 DEF TalkInv, EngineInv
  <2>6. GoesOn(s)
    BY <1>1, <2>1, <2>4, <2>5 DEF GoesOn, MayStore, IsStored, IsCalling
  <2> QED
    BY <1>2, <2>3, <2>6, MovingTalk
<1> QED
  BY <1>3, <1>4

LEMMA FailTurnTalk == ASSUME Inv, TalkInv, NEW s \in Slot, FailTurn(s) PROVE TalkInv'
<1>1. /\ turn[s].stage = "calling" /\ Answer(s, "llm-failed")
      /\ UNCHANGED <<objects, saved, page, asks>>
  BY DEF FailTurn
<1> QED
  BY <1>1, AnsweringTalk, KindFacts DEF MayStore

LEMMA RestartTalk == ASSUME Inv, TalkInv, Restart PROVE TalkInv'
<1>1. /\ turn' = [s \in Slot |->
             IF turn[s].stage \in {"checking", "calling"}
             THEN [turn[s] EXCEPT !.stage = "answered", !.answer = "llm-unreachable"]
             ELSE turn[s]]
      /\ UNCHANGED <<objects, saved, page, asks>>
  BY DEF Restart
<1>2. ASSUME NEW s \in Slot PROVE turn'[s] = turn[s] \/ GoesOn(s)
  <2>1. CASE turn[s].stage \in {"checking", "calling"}
    <3>1. /\ MayStore(s)
          /\ turn'[s] = [turn[s] EXCEPT !.stage = "answered", !.answer = "llm-unreachable"]
      BY <1>1, <2>1 DEF MayStore
    <3> QED
      BY <3>1, AnsweredGoesOn, KindFacts
  <2>2. CASE turn[s].stage \notin {"checking", "calling"}
    BY <1>1, <2>2
  <2> QED
    BY <2>1, <2>2
<1> QED
  BY <1>1, <1>2, MovingTalk

(***************************************************************************)
(* A turn that is not the page's, and a session that is not the page's.    *)
(***************************************************************************)
IsStrange(r) ==
  /\ ~IsOfPage(r) /\ ~IsOfPage(r)'
  /\ turn'[r].stage \in {"checking", "calling"} =>
       /\ turn[r].stage \in {"checking", "calling"}
       /\ turn'[r].engine = turn[r].engine /\ turn'[r].session = turn[r].session
  /\ MayStore(r)' /\ turn'[r].session # 0 => MayStore(r) /\ turn'[r].session = turn[r].session

IsOfThePage(id) == id = page.session \/ \E r \in Slot : IsOfPage(r) /\ turn[r].session = id

LEMMA OursAreObjects ==
  ASSUME Inv
  PROVE  /\ page.session # 0 => page.session \in DOMAIN objects
         /\ \A s \in Slot : turn[s].session # 0 => turn[s].session \in DOMAIN objects
BY DEF Inv, TypeInv, IsOurs

LEMMA StrangeTalk ==
  ASSUME Inv, TalkInv, UNCHANGED <<saved, page, asks>>,
         \A s \in Slot : turn'[s] = turn[s] \/ IsStrange(s),
         \A id \in DOMAIN objects : objects'[id].engine = objects[id].engine,
         ~page.lost => \A id \in DOMAIN objects : IsOfThePage(id) => objects'[id] = objects[id]
  PROVE  TalkInv'
<1>1. Choice' = Choice
  BY DEF Choice
<1>2. \A s \in Slot : /\ IsOfPage(s)' <=> IsOfPage(s)
                      /\ IsOfPage(s) => turn'[s] = turn[s]
  BY DEF IsStrange, IsOfPage
<1>3. /\ page.session # 0 => page.session \in DOMAIN objects
      /\ \A s \in Slot : turn[s].session # 0 => turn[s].session \in DOMAIN objects
  BY OursAreObjects
<1>4. WaitInv'
  BY <1>2 DEF TalkInv, WaitInv, AreAsked
<1>5. EngineInv'
  <2>1. \A s \in Slot : turn'[s].stage \in {"checking", "calling"} =>
          (IsOfEngine(turn[s].session, turn'[s].engine) /\ turn'[s].session = turn[s].session)
    BY DEF IsStrange, TalkInv, EngineInv
  <2> HIDE DEF Choice
  <2>2. \A id, e : (id = 0 \/ id \in DOMAIN objects) /\ IsOfEngine(id, e) =>
          id = 0 \/ objects'[id].engine = e
    BY DEF IsOfEngine
  <2>3. \A s \in Slot : turn'[s].stage \in {"checking", "calling"} =>
          (turn'[s].session = 0 \/ objects'[turn'[s].session].engine = turn'[s].engine)
    BY <1>3, <2>1, <2>2
  <2>4. \A s \in Slot : IsOfPage(s) => turn'[s].engine = Choice /\
          (turn'[s].session = 0 \/ objects'[turn'[s].session].engine = Choice)
    BY <1>2, <1>3, <2>2 DEF TalkInv, EngineInv
  <2>5. page.session = 0 \/ objects'[page.session].engine = Choice
    BY <1>3, <2>2 DEF TalkInv, EngineInv
  <2>6. \A i \in DOMAIN page.shown : IsAnswered(page.shown[i]) => page.shown[i].engine = Choice
    BY DEF TalkInv, EngineInv
  <2> QED
    BY <1>1, <1>2, <2>3, <2>4, <2>5, <2>6 DEF EngineInv, IsOfEngine
<1>6. AloneInv => AloneInv'
  <2>1. \A s \in Slot : MayStore(s)' /\ turn'[s].session # 0 =>
          MayStore(s) /\ turn'[s].session = turn[s].session
    BY DEF IsStrange, MayStore
  <2> QED
    BY <1>2, <2>1 DEF AloneInv
<1>7. ~page.lost /\ ToldInv => ToldInv'
  <2> SUFFICES ASSUME ~page.lost, ToldInv PROVE ToldInv'
    OBVIOUS
  <2>1. page.session # 0 => objects'[page.session] = objects[page.session]
    BY <1>3 DEF IsOfThePage
  <2>2. \A s \in Slot : IsOfPage(s) /\ turn[s].session # 0 =>
          objects'[turn[s].session] = objects[turn[s].session]
    BY <1>3 DEF IsOfThePage
  <2>3. \A s \in Slot : IsOfPage(s) => /\ IsStored(s)' <=> IsStored(s)
                                       /\ IsCalling(s)' <=> IsCalling(s)
    BY <1>2 DEF IsStored, IsCalling
  <2>4. /\ page.session = 0 => Current(page) = {}
        /\ page.session # 0 =>
             \/ Tells(objects'[page.session].history, Current(page))
             \/ \E s \in Slot : IsOfPage(s) /\ IsStored(s)
    BY <2>1 DEF ToldInv
  <2>5. ASSUME NEW s \in Slot, IsOfPage(s), IsStored(s)
        PROVE  /\ turn'[s].session # 0
               /\ Tells(objects'[turn'[s].session].history, WithLast(page))
    <3>1. turn[s].session # 0 /\ Tells(objects[turn[s].session].history, WithLast(page))
      BY <2>5 DEF ToldInv
    <3> QED
      BY <1>2, <2>2, <2>5, <3>1
  <2>6. ASSUME NEW s \in Slot, IsOfPage(s), ~IsStored(s)
        PROVE  /\ turn'[s].session \in {0, page.session}
               /\ turn'[s].session = 0 <=> page.session = 0 \/ Last(page.shown).restarted
               /\ IsCalling(s)' /\ turn'[s].session # 0 =>
                    turn'[s].base = objects'[turn'[s].session].history
    <3>1. /\ turn[s].session \in {0, page.session}
          /\ turn[s].session = 0 <=> page.session = 0 \/ Last(page.shown).restarted
          /\ IsCalling(s) /\ turn[s].session # 0 =>
               turn[s].base = objects[turn[s].session].history
      BY <2>6 DEF ToldInv
    <3> QED
      BY <1>2, <2>2, <2>3, <2>6, <3>1
  <2>7. \A s \in Slot : IsOfPage(s)' => IsOfPage(s) /\ (IsStored(s)' <=> IsStored(s))
    BY <1>2, <2>3
  <2>8. \A s \in Slot : IsOfPage(s) /\ IsStored(s) => IsOfPage(s)' /\ IsStored(s)'
    BY <1>2, <2>3
  <2> QED
    BY <2>4, <2>5, <2>6, <2>7, <2>8 DEF ToldInv
<1> QED
  BY <1>4, <1>5, <1>6, <1>7 DEF TalkInv

LEMMA OtherConversationTalk == ASSUME Inv, TalkInv, OtherConversation PROVE TalkInv'
<1> DEFINE id == Len(objects) + 1
           session == [engine |-> NoEngine, history |-> <<>>]
<1>1. /\ Store(id, session) /\ UNCHANGED <<turn, saved, page, asks>>
      /\ TypeInv /\ MapInv
  BY DEF OtherConversation, Inv
<1>2. session \in Session
  BY EmptySeq DEF Session, MaybeEngine
<1>3. id \in 1..(Len(objects) + 1) /\ id \notin 1..Len(objects)
  BY <1>1 DEF TypeInv
<1> HIDE DEF session
<1>4. \A i \in DOMAIN objects : i # id => objects'[i] = objects[i]
  BY <1>1, <1>2, <1>3, StoreFacts
<1>5. id \notin DOMAIN objects
  BY <1>1, <1>3 DEF TypeInv
<1>6. \A i \in DOMAIN objects : objects'[i] = objects[i]
  BY <1>4, <1>5
<1> QED
  BY <1>1, <1>6, StrangeTalk

LEMMA CurrentBeforeLast ==
  ASSUME page \in Page, AreAsked(page.shown), IsWaiting(page.shown)
  PROVE  \A x \in Current(page) : x \in Nat /\ x < Last(page.shown).ask
<1> DEFINE n == Len(page.shown)
<1>1. /\ n \in 1..n /\ Last(page.shown) = page.shown[n] /\ DOMAIN page.shown = 1..n
      /\ page.shown[n].state = "waiting" /\ \A i \in 1..n : page.shown[i].ask \in Nat
  BY PageFacts, ShownFacts DEF IsWaiting
<1>2. \A i \in 1..n : i # n => i < n
  BY <1>1
<1> HIDE DEF n
<1>3. \A x \in Current(page) : \E i \in 1..n : x = page.shown[i].ask /\ i # n
  BY <1>1 DEF Current, IsAnswered
<1> QED
  BY <1>1, <1>2, <1>3 DEF AreAsked

LEMMA AppendTells ==
  ASSUME NEW q \in Seq(Nat), NEW set, Tells(q, set), NEW x \in Nat,
         \A y \in set : y < x
  PROVE  Tells(Append(q, x), set \cup {x})
<1> DEFINE p == Append(q, x)
           n == Len(q)
<1>1. /\ n \in Nat /\ DOMAIN q = 1..n /\ DOMAIN p = 1..(n + 1)
      /\ \A i \in 1..n : p[i] = q[i]
      /\ p[n + 1] = x
  OBVIOUS
<1> HIDE DEF p, n
<1>2. \A i \in 1..(n + 1) : i \in 1..n \/ i = n + 1
  BY <1>1
<1>3. \A i \in 1..n : i \in 1..(n + 1) /\ ~(n + 1 < i) /\ n + 1 \in 1..(n + 1)
  BY <1>1
<1>4. Range(q) = set /\ \A i \in 1..n : q[i] \in set /\ q[i] < x
  BY <1>1 DEF Tells, Range
<1>5. IsInOrder(p)
  <2> SUFFICES ASSUME NEW i \in 1..(n + 1), NEW j \in 1..(n + 1), i < j PROVE p[i] < p[j]
    BY <1>1 DEF IsInOrder
  <2>1. i \in 1..n
    BY <1>1
  <2>2. CASE j \in 1..n
    BY <1>1, <2>1, <2>2 DEF Tells, IsInOrder
  <2>3. CASE j = n + 1
    BY <1>1, <1>4, <2>1, <2>3
  <2> QED
    BY <1>2, <2>2, <2>3
<1>6. Range(p) = set \cup {x}
  <2>1. Range(p) \subseteq set \cup {x}
    BY <1>1, <1>2, <1>4 DEF Range
  <2>2. x \in Range(p)
    BY <1>1 DEF Range
  <2>3. ASSUME NEW y \in set PROVE y \in Range(p)
    <3>1. PICK i \in 1..n : q[i] = y
      BY <1>1, <1>4 DEF Range
    <3> QED
      BY <1>1, <1>3, <3>1 DEF Range
  <2> QED
    BY <2>1, <2>2, <2>3
<1> QED
  BY <1>5, <1>6 DEF Tells, p

(***************************************************************************)
(* A question is asked.                                                    *)
(***************************************************************************)
LEMMA AskTalk ==
  ASSUME Inv, TalkInv, NEW shown \in Seq(ShownTurn), Ask(shown),
         \A i \in DOMAIN shown : i \in DOMAIN page.shown /\ shown[i] = page.shown[i],
         \A i \in DOMAIN page.shown : IsAnswered(page.shown[i]) => i \in DOMAIN shown
  PROVE  TalkInv'
<1>1. PICK s \in Slot :
        /\ turn[s].stage = "free"
        /\ turn' = [turn EXCEPT ![s] =
             [NoTurn EXCEPT !.stage = "sent", !.ask = asks', !.session = page.session,
                            !.engine = Choice, !.client = "page"]]
  BY DEF Ask
<1>2. PICK new : new = [ask |-> asks + 1, state |-> "waiting", restarted |-> FALSE,
                        engine |-> NoEngine]
  OBVIOUS
<1>3. PICK q : q = Append(shown, new)
  OBVIOUS
<1>4. /\ ~page.pending /\ asks' = asks + 1 /\ asks \in Nat
      /\ page' = [page EXCEPT !.pending = TRUE, !.shown = q]
      /\ UNCHANGED <<objects, saved>> /\ turn \in [Slot -> Turn]
  BY <1>2, <1>3 DEF Ask, Inv, TypeInv
<1>5. /\ page \in Page /\ AreAsked(page.shown) /\ \A r \in Slot : ~IsOfPage(r)
  BY <1>4 DEF TalkInv, WaitInv
<1>6. /\ new \in ShownTurn /\ new.ask = asks + 1 /\ new.state = "waiting" /\ ~new.restarted
      /\ ~IsAnswered(new)
  BY <1>2, <1>4 DEF ShownTurn, MaybeEngine, IsAnswered
<1>7. /\ q \in Seq(ShownTurn) /\ Len(shown) \in Nat /\ DOMAIN shown = 1..Len(shown)
      /\ Len(q) = Len(shown) + 1 /\ DOMAIN q = 1..(Len(shown) + 1)
      /\ q[Len(shown) + 1] = new /\ \A i \in 1..Len(shown) : q[i] = shown[i]
  BY <1>3, <1>6
<1>8. \A i \in 1..(Len(shown) + 1) : i \in 1..Len(shown) \/ i = Len(shown) + 1
  BY <1>7
<1>9. Last(q) = new /\ q # <<>>
  <2>1. DOMAIN q # {}
    BY <1>7
  <2> QED
    BY <1>7, <2>1 DEF Last
<1>10. /\ page' \in Page /\ page'.shown = q /\ page'.pending /\ page'.lost = page.lost
       /\ page'.session = page.session /\ page'.known = page.known
  BY <1>4, <1>5, <1>7 DEF Page
<1>11. AreAsked(q)'
  <2>1. \A i \in 1..Len(shown) : shown[i].ask \in Nat /\ shown[i].ask <= asks
    BY <1>5, <1>7, PageFacts, ShownFacts DEF AreAsked
  <2>2. \A i \in 1..Len(q) : q[i].ask <= asks'
    BY <1>4, <1>6, <1>7, <1>8, <2>1
  <2>3. ASSUME NEW i \in 1..Len(q), NEW j \in 1..Len(q), i < j PROVE q[i].ask < q[j].ask
    <3>1. i \in 1..Len(shown)
      BY <1>7, <2>3
    <3>2. CASE j \in 1..Len(shown)
      BY <1>5, <1>7, <2>3, <3>1, <3>2 DEF AreAsked
    <3>3. CASE j = Len(shown) + 1
      BY <1>4, <1>6, <1>7, <2>1, <3>1, <3>3
    <3> QED
      BY <1>7, <1>8, <3>2, <3>3
  <2>4. DOMAIN q = 1..Len(q)
    BY <1>7
  <2> QED
    BY <2>2, <2>3, <2>4 DEF AreAsked
<1>12. Current(page') = Current(page)
  <2>1. \A i : (i \in DOMAIN page.shown /\ IsAnswered(page.shown[i])) <=>
               (i \in DOMAIN q /\ IsAnswered(q[i]))
    BY <1>6, <1>7, <1>8
  <2>2. \A i \in DOMAIN page.shown : IsAnswered(page.shown[i]) => q[i] = page.shown[i]
    BY <1>7
  <2> QED
    BY <1>10, <2>1, <2>2, CurrentOfAnswered
<1>13. /\ turn'[s].stage = "sent" /\ turn'[s].ask = asks + 1 /\ turn'[s].session = page.session
       /\ turn'[s].engine = Choice /\ turn'[s].client = "page"
       /\ \A r \in Slot : r # s => turn'[r] = turn[r]
  BY <1>1, <1>4, NoTurnIsTurn DEF Turn
<1>14. IsOfPage(s)' /\ \A r \in Slot : r # s => ~IsOfPage(r)'
  BY <1>5, <1>13 DEF IsOfPage
<1>15. Choice' = Choice
  BY <1>4, <1>10 DEF Choice
<1>16. WaitInv'
  <2>1. IsWaiting(page.shown)'
    BY <1>6, <1>9, <1>10 DEF IsWaiting
  <2> QED
    BY <1>6, <1>9, <1>10, <1>11, <1>13, <1>14, <2>1 DEF WaitInv
<1> HIDE DEF Choice
<1>17. EngineInv'
  <2>1. \A i \in DOMAIN q : IsAnswered(q[i]) => q[i].engine = Choice
    BY <1>6, <1>7, <1>8 DEF TalkInv, EngineInv
  <2> QED
    BY <1>4, <1>10, <1>13, <1>14, <1>15, <2>1 DEF TalkInv, EngineInv, IsOfEngine
<1>18. AloneInv => AloneInv'
  BY <1>10, <1>13, <1>14 DEF AloneInv, MayStore, IsOfPage
<1>19. ToldInv => ToldInv'
  <2>1. Last(page'.shown).restarted = FALSE
    BY <1>2, <1>9, <1>10
  <2> QED
    BY <1>4, <1>5, <1>10, <1>12, <1>13, <1>14, <2>1 DEF ToldInv, IsStored, IsCalling
<1> QED
  BY <1>10, <1>16, <1>17, <1>18, <1>19 DEF TalkInv

LEMMA submitDraftTalk == ASSUME Inv, TalkInv, submitDraft PROVE TalkInv'
<1>1. page.shown \in Seq(ShownTurn)
  BY PageFacts DEF TalkInv, WaitInv
<1> QED
  BY <1>1, AskTalk DEF submitDraft

LEMMA retryLastTurnTalk == ASSUME Inv, TalkInv, retryLastTurn PROVE TalkInv'
<1> DEFINE n == Len(page.shown)
<1>1. /\ page.shown \in Seq(ShownTurn) /\ page.shown # <<>> /\ Last(page.shown).state = "failed"
      /\ Ask(Front(page.shown))
  BY PageFacts DEF TalkInv, WaitInv, retryLastTurn
<1>2. PICK shown : shown = Front(page.shown)
  OBVIOUS
<1>3. n \in 1..n /\ n \in Nat /\ DOMAIN page.shown = 1..n /\ Last(page.shown) = page.shown[n]
  BY <1>1, ShownFacts
<1>4. /\ shown \in Seq(ShownTurn) /\ DOMAIN shown = 1..(n - 1)
      /\ \A i \in 1..(n - 1) : shown[i] = page.shown[i]
  BY <1>1, <1>2, <1>3, SubSeqProperties DEF Front
<1>5. \A i \in 1..n : i \in 1..(n - 1) \/ i = n
  BY <1>3
<1>6. \A i \in 1..(n - 1) : i \in 1..n
  BY <1>3
<1>7. ~IsAnswered(page.shown[n])
  BY <1>1, <1>3 DEF IsAnswered
<1> HIDE DEF n
<1> QED
  BY <1>1, <1>2, <1>3, <1>4, <1>5, <1>6, <1>7, AskTalk

(***************************************************************************)
(* An answer arrives, or the page does not wait for it.                    *)
(***************************************************************************)
\* The question the page waits for, once its state is another.
LEMMA WaitedFor ==
  ASSUME TalkInv, NEW s \in Slot, IsOfPage(s), NEW new \in ShownTurn,
         new.ask = Last(page.shown).ask,
         NEW q, q = [page.shown EXCEPT ![Len(page.shown)] = new]
  PROVE  /\ page \in Page /\ page.pending /\ page.shown \in Seq(ShownTurn) /\ page.shown # <<>>
         /\ ~IsAnswered(Last(page.shown)) /\ \A r \in Slot : IsOfPage(r) => r = s
         /\ q \in Seq(ShownTurn) /\ q # <<>> /\ Last(q) = new /\ AreAsked(q)
         /\ DOMAIN q = DOMAIN page.shown /\ q[Len(page.shown)] = new
         /\ \A i \in DOMAIN page.shown : i # Len(page.shown) => q[i] = page.shown[i]
<1>1. /\ page \in Page /\ page.pending /\ AreAsked(page.shown) /\ IsWaiting(page.shown)
      /\ \A r \in Slot : IsOfPage(r) => r = s
  BY DEF TalkInv, WaitInv
<1>2. page.shown \in Seq(ShownTurn) /\ page.shown # <<>> /\ ~IsAnswered(Last(page.shown))
  BY <1>1, PageFacts DEF IsWaiting, IsAnswered
<1>3. /\ q \in Seq(ShownTurn) /\ q # <<>> /\ Last(q) = new /\ AreAsked(q)
      /\ Len(q) = Len(page.shown) /\ q[Len(page.shown)] = new
      /\ \A i \in 1..Len(page.shown) : i # Len(page.shown) => q[i] = page.shown[i]
  BY <1>1, <1>2, LastFacts
<1>4. DOMAIN page.shown = 1..Len(page.shown) /\ DOMAIN q = 1..Len(q)
  BY <1>2, <1>3, ShownFacts
<1> QED
  BY <1>1, <1>2, <1>3, <1>4

LEMMA WaitedTurn ==
  ASSUME TalkInv, NEW s \in Slot, IsOfPage(s)
  PROVE  Last(page.shown) \in ShownTurn
<1>1. page.shown \in Seq(ShownTurn) /\ page.shown # <<>>
  BY PageFacts DEF TalkInv, WaitInv, IsWaiting
<1>2. Len(page.shown) \in 1..Len(page.shown) /\ Last(page.shown) = page.shown[Len(page.shown)]
  BY <1>1, ShownFacts
<1> QED
  BY <1>1, <1>2

\* The page no longer waits: the question has failed, or is answered by the engine chosen.
LEMMA EndedTalk ==
  ASSUME Inv, TalkInv, NEW s \in Slot, IsOfPage(s), UNCHANGED <<objects, saved, asks>>,
         NEW new \in ShownTurn, new.ask = Last(page.shown).ask,
         new.state = "failed" \/ (new.state = "answered" /\ new.engine = Choice),
         page' \in Page, ~page'.pending, page'.known = page.known,
         page'.shown = [page.shown EXCEPT ![Len(page.shown)] = new],
         IsOfEngine(page'.session, Choice),
         \A r \in Slot : r # s => turn'[r] = turn[r],
         turn'[s].client # "page",
         turn'[s].stage \in {"checking", "calling"} =>
           IsOfEngine(turn'[s].session, turn'[s].engine)
  PROVE  WaitInv' /\ EngineInv' /\ \A r \in Slot : ~IsOfPage(r)'
<1>1. /\ \A r \in Slot : IsOfPage(r) => r = s
      /\ Last(page'.shown) = new /\ AreAsked(page'.shown)
      /\ DOMAIN page'.shown = DOMAIN page.shown /\ page'.shown[Len(page.shown)] = new
      /\ \A i \in DOMAIN page.shown : i # Len(page.shown) => page'.shown[i] = page.shown[i]
  BY WaitedFor
<1>2. \A r \in Slot : ~IsOfPage(r)'
  BY <1>1 DEF IsOfPage
<1>3. Choice' = Choice
  BY DEF Choice
<1>4. WaitInv'
  BY <1>1, <1>2 DEF WaitInv, AreAsked, IsWaiting
<1> HIDE DEF Choice
<1>5. EngineInv'
  <2>1. \A i \in DOMAIN page'.shown : IsAnswered(page'.shown[i]) =>
          page'.shown[i].engine = Choice
    BY <1>1 DEF IsAnswered, TalkInv, EngineInv
  <2>2. \A r \in Slot : turn'[r].stage \in {"checking", "calling"} =>
          IsOfEngine(turn'[r].session, turn'[r].engine)
    BY DEF TalkInv, EngineInv
  <2> QED
    BY <1>2, <1>3, <2>1, <2>2 DEF EngineInv, IsOfEngine
<1> QED
  BY <1>2, <1>4, <1>5

\* The question has failed.
LEMMA FailedPage ==
  ASSUME TalkInv, NEW s \in Slot, IsOfPage(s),
         NEW new, new = [Last(page.shown) EXCEPT !.state = "failed"],
         NEW p, p = AfterFailure(page)
  PROVE  /\ new \in ShownTurn /\ new.state = "failed" /\ new.ask = Last(page.shown).ask
         /\ p \in Page /\ ~p.pending /\ p.known = page.known /\ p.session = page.session
         /\ p.lost = page.lost /\ p.shown = [page.shown EXCEPT ![Len(page.shown)] = new]
         /\ Current(p) = Current(page)
<1>1. Last(page.shown) \in ShownTurn
  BY WaitedTurn
<1>2. new \in ShownTurn /\ new.state = "failed" /\ new.ask = Last(page.shown).ask
  BY <1>1 DEF ShownTurn
<1>3. PICK q : q = [page.shown EXCEPT ![Len(page.shown)] = new]
  OBVIOUS
<1>4. /\ page \in Page /\ page.shown \in Seq(ShownTurn) /\ page.shown # <<>>
      /\ ~IsAnswered(Last(page.shown)) /\ q \in Seq(ShownTurn)
  BY <1>2, <1>3, WaitedFor
<1>5. UpdateLast(page.shown, "failed") = q
  BY <1>3 DEF UpdateLast, Last
<1>6. p = [page EXCEPT !.shown = q, !.pending = FALSE]
  <2>1. p = [page EXCEPT !.shown = UpdateLast(page.shown, "failed"), !.pending = FALSE]
    BY DEF AfterFailure
  <2> QED
    BY <1>5, <2>1
<1>7. /\ p \in Page /\ ~p.pending /\ p.known = page.known /\ p.session = page.session
      /\ p.lost = page.lost /\ p.shown = q
  BY <1>4, <1>6 DEF Page
<1>8. Current(p) = Current(page)
  <2>1. ~IsAnswered(new)
    BY <1>2 DEF IsAnswered
  <2>2. p.shown = [page.shown EXCEPT ![Len(page.shown)] = new]
    BY <1>3, <1>7
  <2> QED
    BY <1>2, <1>4, <2>1, <2>2, LastUnanswered
<1> QED
  BY <1>2, <1>3, <1>7, <1>8

LEMMA GiveUpTalk == ASSUME Inv, TalkInv, NEW s \in Slot, GiveUp(s) PROVE TalkInv'
<1>1. /\ turn' = [turn EXCEPT ![s].client = "closed"] /\ UNCHANGED <<objects, saved, asks>>
      /\ turn \in [Slot -> Turn] /\ turn[s] \in Turn
  BY DEF GiveUp, Inv, TypeInv
<1>2. /\ turn'[s].client = "closed" /\ turn'[s].stage = turn[s].stage
      /\ turn'[s].session = turn[s].session /\ turn'[s].engine = turn[s].engine
      /\ \A r \in Slot : r # s => turn'[r] = turn[r]
  BY <1>1 DEF Turn
<1>3. CASE IsOfPage(s)
  <2>1. PICK new : new = [Last(page.shown) EXCEPT !.state = "failed"]
    OBVIOUS
  <2>2. PICK p : p = AfterFailure(page)
    OBVIOUS
  <2>3. /\ new \in ShownTurn /\ new.state = "failed" /\ new.ask = Last(page.shown).ask
        /\ p \in Page /\ ~p.pending /\ p.known = page.known /\ p.session = page.session
        /\ p.shown = [page.shown EXCEPT ![Len(page.shown)] = new]
    BY <1>3, <2>1, <2>2, FailedPage
  <2>4. page' = [p EXCEPT !.lost = TRUE]
    BY <1>3, <2>2 DEF GiveUp, IsOfPage
  <2>5. /\ page' \in Page /\ ~page'.pending /\ page'.known = page.known
        /\ page'.session = page.session /\ page'.shown = p.shown /\ page'.lost
    BY <2>3, <2>4 DEF Page
  <2>6. /\ IsOfEngine(page'.session, Choice)
        /\ turn'[s].stage \in {"checking", "calling"} =>
             IsOfEngine(turn'[s].session, turn'[s].engine)
    BY <1>2, <2>5 DEF TalkInv, EngineInv
  <2>7. WaitInv' /\ EngineInv'
    BY <1>1, <1>2, <1>3, <2>3, <2>5, <2>6, EndedTalk
  <2> QED
    BY <2>5, <2>7 DEF TalkInv
<1>4. CASE ~IsOfPage(s)
  <2>1. UNCHANGED page
    BY <1>4 DEF GiveUp, IsOfPage
  <2>2. IsStrange(s)
    BY <1>2, <1>4 DEF IsStrange, IsOfPage, MayStore
  <2> QED
    BY <1>1, <1>2, <2>1, <2>2, StrangeTalk
<1> QED
  BY <1>3, <1>4

LEMMA ReceiveAgainTalk ==
  ASSUME Inv, TalkInv, NEW s \in Slot, Receive(s), AsksAgain(s), turn[s].client # "closed"
  PROVE  TalkInv'
<1>1. /\ turn[s].stage = "answered" /\ turn[s].answer = "conversation-expired"
      /\ turn' = [turn EXCEPT ![s] = [NoTurn EXCEPT !.stage = "sent", !.ask = turn[s].ask,
                        !.engine = turn[s].engine, !.client = turn[s].client]]
      /\ page' = IF turn[s].client = "page"
                 THEN [page EXCEPT !.shown[Len(page.shown)].restarted = TRUE] ELSE page
      /\ UNCHANGED <<objects, saved, asks>> /\ turn \in [Slot -> Turn] /\ turn[s] \in Turn
  BY DEF Receive, AsksAgain, Inv, TypeInv
<1>2. /\ turn'[s].stage = "sent" /\ turn'[s].session = 0 /\ turn'[s].ask = turn[s].ask
      /\ turn'[s].engine = turn[s].engine /\ turn'[s].client = turn[s].client
      /\ \A r \in Slot : r # s => turn'[r] = turn[r]
  BY <1>1, NoTurnIsTurn DEF Turn
<1>3. CASE ~IsOfPage(s)
  <2>1. UNCHANGED page
    BY <1>1, <1>3 DEF IsOfPage
  <2>2. IsStrange(s)
    BY <1>2, <1>3 DEF IsStrange, IsOfPage
  <2> QED
    BY <1>1, <1>2, <2>1, <2>2, StrangeTalk
<1>4. CASE IsOfPage(s)
  <2>1. PICK new : new = [Last(page.shown) EXCEPT !.restarted = TRUE]
    OBVIOUS
  <2>2. PICK q : q = [page.shown EXCEPT ![Len(page.shown)] = new]
    OBVIOUS
  <2>3. IsWaiting(page.shown) /\ turn[s].ask = Last(page.shown).ask /\ page.pending
    BY <1>4 DEF TalkInv, WaitInv
  <2>4. Last(page.shown) \in ShownTurn
    BY <1>4, WaitedTurn
  <2>5. /\ new \in ShownTurn /\ new.ask = Last(page.shown).ask /\ new.restarted = TRUE
        /\ new.state = "waiting"
    BY <2>1, <2>3, <2>4 DEF ShownTurn, IsWaiting
  <2>6. /\ page \in Page /\ page.shown \in Seq(ShownTurn) /\ page.shown # <<>>
        /\ ~IsAnswered(Last(page.shown)) /\ \A r \in Slot : IsOfPage(r) => r = s
        /\ q \in Seq(ShownTurn) /\ q # <<>> /\ Last(q) = new /\ AreAsked(q)
        /\ DOMAIN q = DOMAIN page.shown /\ q[Len(page.shown)] = new
        /\ \A i \in DOMAIN page.shown : i # Len(page.shown) => q[i] = page.shown[i]
    BY <1>4, <2>2, <2>5, WaitedFor
  <2>7. page' = [page EXCEPT !.shown = q]
    <3>1. page' = [page EXCEPT !.shown[Len(page.shown)].restarted = TRUE]
      BY <1>1, <1>4 DEF IsOfPage
    <3>2. q = [page.shown EXCEPT ![Len(page.shown)].restarted = TRUE]
      BY <2>1, <2>2 DEF Last
    <3> QED
      BY <3>1, <3>2
  <2>8. /\ page' \in Page /\ page'.shown = q /\ page'.pending /\ page'.lost = page.lost
        /\ page'.known = page.known /\ page'.session = page.session
    BY <2>3, <2>6, <2>7 DEF Page
  <2>9. Current(page') = Current(page)
    BY <2>2, <2>5, <2>6, <2>8, LastUnanswered DEF IsAnswered
  <2>10. \A r \in Slot : IsOfPage(r)' <=> r = s
    BY <1>2, <1>4, <2>6 DEF IsOfPage
  <2>11. WaitInv'
    <3>1. IsWaiting(page.shown)' /\ AreAsked(page.shown)'
      BY <1>1, <2>5, <2>6, <2>8 DEF IsWaiting, AreAsked
    <3> QED
      BY <1>2, <2>3, <2>5, <2>6, <2>8, <2>10, <3>1 DEF WaitInv
  <2>12. Choice' = Choice
    BY <1>1, <2>8 DEF Choice
  <2> HIDE DEF Choice
  <2>13. EngineInv'
    <3>1. \A i \in DOMAIN q : IsAnswered(q[i]) => q[i].engine = Choice
      BY <2>5, <2>6 DEF IsAnswered, TalkInv, EngineInv
    <3>2. turn[s].engine = Choice /\ IsOfEngine(page.session, Choice)
      BY <1>4 DEF TalkInv, EngineInv
    <3>3. \A r \in Slot : turn'[r].stage \in {"checking", "calling"} =>
            IsOfEngine(turn'[r].session, turn'[r].engine)
      BY <1>2 DEF TalkInv, EngineInv
    <3> QED
      BY <1>1, <1>2, <2>8, <2>10, <2>12, <3>1, <3>2, <3>3 DEF EngineInv, IsOfEngine
  <2>14. AloneInv => AloneInv'
    BY <1>2, <2>6, <2>8, <2>10 DEF AloneInv, MayStore
  <2>15. ToldInv => ToldInv'
    <3> SUFFICES ASSUME ToldInv PROVE ToldInv'
      OBVIOUS
    <3>1. /\ page.session = 0 => Current(page) = {}
          /\ page.session # 0 => Tells(objects[page.session].history, Current(page))
      BY <1>1, <2>6 DEF ToldInv, IsStored
    <3>2. Last(page'.shown).restarted = TRUE
      BY <2>5, <2>6, <2>8
    <3> QED
      BY <1>1, <1>2, <2>8, <2>9, <2>10, <3>1, <3>2 DEF ToldInv, IsStored, IsCalling
  <2> QED
    BY <2>8, <2>11, <2>13, <2>14, <2>15 DEF TalkInv
<1> QED
  BY <1>3, <1>4

LEMMA ReceiveLastTalk ==
  ASSUME Inv, TalkInv, NEW s \in Slot, Receive(s), ~(AsksAgain(s) /\ turn[s].client # "closed")
  PROVE  TalkInv'
<1>1. /\ turn[s].stage = "answered" /\ turn' = [turn EXCEPT ![s] = NoTurn]
      /\ page' = IF turn[s].client # "page" THEN page
                 ELSE IF turn[s].answer # "ok" THEN AfterFailure(page)
                 ELSE [page EXCEPT !.session = turn[s].session, !.pending = FALSE,
                             !.shown[Len(page.shown)].state = "answered",
                             !.shown[Len(page.shown)].engine = turn[s].engine]
      /\ UNCHANGED <<objects, saved, asks>> /\ turn \in [Slot -> Turn] /\ turn[s] \in Turn
  BY DEF Receive, Inv, TypeInv
<1>2. /\ turn'[s].stage = "free" /\ turn'[s].client = "closed" /\ turn'[s].session = 0
      /\ \A r \in Slot : r # s => turn'[r] = turn[r]
  <2>1. NoTurn.client = "closed"
    BY DEF NoTurn
  <2> QED
    BY <1>1, <2>1, NoTurnIsTurn
<1>3. CASE ~IsOfPage(s)
  <2>1. UNCHANGED page
    BY <1>1, <1>3 DEF IsOfPage
  <2>2. IsStrange(s)
    BY <1>2, <1>3 DEF IsStrange, IsOfPage, MayStore
  <2> QED
    BY <1>1, <1>2, <2>1, <2>2, StrangeTalk
<1>4. CASE IsOfPage(s) /\ ~IsStored(s)
  <2>1. PICK new : new = [Last(page.shown) EXCEPT !.state = "failed"]
    OBVIOUS
  <2>2. page' = AfterFailure(page)
    BY <1>1, <1>4 DEF IsOfPage, IsStored
  <2>3. /\ new \in ShownTurn /\ new.state = "failed" /\ new.ask = Last(page.shown).ask
        /\ page' \in Page /\ ~page'.pending /\ page'.known = page.known
        /\ page'.session = page.session /\ page'.lost = page.lost
        /\ page'.shown = [page.shown EXCEPT ![Len(page.shown)] = new]
        /\ Current(page') = Current(page)
    BY <1>4, <2>1, <2>2, FailedPage
  <2>4. IsOfEngine(page'.session, Choice)
    BY <2>3 DEF TalkInv, EngineInv
  <2>5. WaitInv' /\ EngineInv' /\ \A r \in Slot : ~IsOfPage(r)'
    BY <1>1, <1>2, <1>4, <2>3, <2>4, EndedTalk
  <2>6. AloneInv => AloneInv'
    <3>1. \A r \in Slot : IsOfPage(r) => r = s
      BY <1>4 DEF TalkInv, WaitInv
    <3> QED
      BY <1>2, <2>3, <2>5, <3>1 DEF AloneInv, MayStore
  <2>7. ToldInv => ToldInv'
    <3>1. \A r \in Slot : IsOfPage(r) => ~IsStored(r)
      BY <1>4 DEF TalkInv, WaitInv
    <3> QED
      BY <1>1, <2>3, <2>5, <3>1 DEF ToldInv
  <2> QED
    BY <2>3, <2>5, <2>6, <2>7 DEF TalkInv
<1>5. CASE IsOfPage(s) /\ IsStored(s)
  <2>1. PICK new : new = [Last(page.shown) EXCEPT !.state = "answered", !.engine = turn[s].engine]
    OBVIOUS
  <2>2. PICK q : q = [page.shown EXCEPT ![Len(page.shown)] = new]
    OBVIOUS
  <2>3. /\ Last(page.shown) \in ShownTurn /\ turn[s].engine \in MaybeEngine
        /\ turn[s].engine = Choice /\ IsOfEngine(turn[s].session, Choice)
        /\ turn[s].session \in Nat
    BY <1>1, <1>5, WaitedTurn DEF TalkInv, EngineInv, Turn
  <2> HIDE DEF Choice
  <2>4. /\ new \in ShownTurn /\ new.ask = Last(page.shown).ask /\ new.state = "answered"
        /\ new.restarted = Last(page.shown).restarted /\ new.engine = Choice
    BY <2>1, <2>3 DEF ShownTurn
  <2>5. /\ page \in Page /\ page.shown \in Seq(ShownTurn) /\ page.shown # <<>>
        /\ ~IsAnswered(Last(page.shown)) /\ \A r \in Slot : IsOfPage(r) => r = s
        /\ q \in Seq(ShownTurn)
    BY <1>5, <2>2, <2>4, WaitedFor
  <2>6. page' = [page EXCEPT !.session = turn[s].session, !.pending = FALSE, !.shown = q]
    <3>1. page' = [page EXCEPT !.session = turn[s].session, !.pending = FALSE,
                             !.shown[Len(page.shown)].state = "answered",
                             !.shown[Len(page.shown)].engine = turn[s].engine]
      BY <1>1, <1>5 DEF IsOfPage, IsStored
    <3>2. q = [page.shown EXCEPT ![Len(page.shown)].state = "answered",
                                 ![Len(page.shown)].engine = turn[s].engine]
      BY <2>1, <2>2, <2>5 DEF Last
    <3>3. page = [known |-> page.known, session |-> page.session, shown |-> page.shown,
                  pending |-> page.pending, lost |-> page.lost]
      BY <2>5 DEF Page
    <3>4. page' = [page EXCEPT !.session = turn[s].session, !.pending = FALSE,
                     !.shown = [page.shown EXCEPT ![Len(page.shown)].state = "answered",
                                  ![Len(page.shown)].engine = turn[s].engine]]
      BY ONLY <3>1, <3>3
    <3> QED
      BY <3>2, <3>4
  <2>7. /\ page' \in Page /\ page'.shown = q /\ ~page'.pending /\ page'.lost = page.lost
        /\ page'.known = page.known /\ page'.session = turn[s].session
    BY <2>3, <2>5, <2>6 DEF Page
  <2>8. WaitInv' /\ EngineInv' /\ \A r \in Slot : ~IsOfPage(r)'
    BY <1>1, <1>2, <1>5, <2>2, <2>3, <2>4, <2>7, EndedTalk
  <2>9. Current(page') = WithLast(page)
    BY <2>2, <2>4, <2>5, <2>7, LastAnswered DEF IsAnswered
  <2>10. AloneInv => AloneInv'
    BY <1>2, <1>5, <2>5, <2>7, <2>8 DEF AloneInv, MayStore
  <2>11. ToldInv => ToldInv'
    BY <1>1, <1>5, <2>7, <2>8, <2>9 DEF ToldInv
  <2> QED
    BY <2>7, <2>8, <2>10, <2>11 DEF TalkInv
<1> QED
  BY <1>3, <1>4, <1>5

LEMMA ReceiveTalk == ASSUME Inv, TalkInv, NEW s \in Slot, Receive(s) PROVE TalkInv'
BY ReceiveAgainTalk, ReceiveLastTalk

(***************************************************************************)
(* The answer of the model is stored.                                      *)
(***************************************************************************)
\* What the model was sent, and the question, for a turn of the page.
LEMMA ExtendedTells ==
  ASSUME Inv, WaitInv, ToldInv, NEW s \in Slot, IsOfPage(s), IsCalling(s)
  PROVE  Tells(Extended(s), WithLast(page))
<1> DEFINE ask == turn[s].ask
           base == turn[s].base
<1>1. /\ page \in Page /\ AreAsked(page.shown) /\ IsWaiting(page.shown)
      /\ \A r \in Slot : IsOfPage(r) => r = s
      /\ ask = Last(page.shown).ask
  BY DEF WaitInv
<1>2. ~IsStored(s)
  BY DEF IsStored, IsCalling
<1>3. /\ ask \in Nat /\ base \in Seq(Nat)
      /\ turn[s].session = 0 => base = <<>>
  BY DEF Inv, TypeInv, Turn, OwnerInv, BaseInv
<1>4. /\ turn[s].session \in {0, page.session}
      /\ turn[s].session = 0 <=> page.session = 0 \/ Last(page.shown).restarted
      /\ turn[s].session # 0 => base = objects[turn[s].session].history
      /\ page.session = 0 => Current(page) = {}
      /\ page.session # 0 => Tells(objects[page.session].history, Current(page))
  BY <1>1, <1>2 DEF ToldInv
<1>5. Extended(s) = Append(base, ask)
  BY DEF Extended
<1> HIDE DEF ask, base
<1>6. CASE turn[s].session = 0
  <2>1. base = <<>>
    BY <1>3, <1>6
  <2>2. Tells(base, {})
    <3>1. DOMAIN base = {}
      BY <2>1
    <3> QED
      BY <3>1 DEF Tells, IsInOrder, Range
  <2>3. Tells(Append(base, ask), {} \cup {ask})
    BY <1>3, <2>2, AppendTells
  <2>4. WithLast(page) = {ask}
    BY <1>1, <1>4, <1>6 DEF WithLast
  <2>5. {} \cup {ask} = {ask}
    OBVIOUS
  <2> QED
    BY <1>5, <2>3, <2>4, <2>5
<1>7. CASE turn[s].session # 0
  <2>1. Tells(base, Current(page)) /\ ~Last(page.shown).restarted
    BY <1>4, <1>7
  <2>2. \A x \in Current(page) : x < ask
    BY <1>1, CurrentBeforeLast
  <2>3. Tells(Append(base, ask), Current(page) \cup {ask})
    BY <1>3, <2>1, <2>2, AppendTells
  <2>4. WithLast(page) = Current(page) \cup {ask}
    BY <1>1, <2>1 DEF WithLast
  <2> QED
    BY <1>5, <2>3, <2>4
<1> QED
  BY <1>6, <1>7

LEMMA FinishTurnTalk == ASSUME Inv, TalkInv, NEW s \in Slot, FinishTurn(s) PROVE TalkInv'
<1>1. PICK id : id = IF turn[s].session = 0 THEN Len(objects) + 1 ELSE turn[s].session
  OBVIOUS
<1>2. PICK told : told = Extended(s)
  OBVIOUS
<1> DEFINE session == [engine |-> turn[s].engine, history |-> told]
<1>3. /\ turn[s].stage = "calling" /\ Store(id, session)
      /\ turn' = [turn EXCEPT ![s] = [turn[s] EXCEPT !.stage = "answered", !.answer = "ok",
                                                     !.session = id]]
      /\ UNCHANGED <<saved, page, asks>>
  BY <1>1, <1>2 DEF FinishTurn
<1>4. /\ TypeInv /\ MapInv /\ turn \in [Slot -> Turn] /\ turn[s] \in Turn
      /\ turn[s].engine \in Engine /\ turn[s].base \in Seq(Nat) /\ turn[s].ask \in Nat
      /\ IsOurs(turn[s].session) /\ objects \in Seq(Session)
  BY <1>3 DEF Inv, TypeInv, Turn
<1>5. session \in Session /\ session.engine = turn[s].engine /\ session.history = told
  <2>1. told \in Seq(Nat)
    BY <1>2, <1>4 DEF Extended
  <2> QED
    BY <1>4, <2>1 DEF Session, MaybeEngine
<1>6. /\ id \in 1..(Len(objects) + 1) /\ id # 0 /\ DOMAIN objects = 1..Len(objects)
      /\ turn[s].session = 0 => id \notin DOMAIN objects
  BY <1>1, <1>4 DEF IsOurs
<1> HIDE DEF session
<1>7. objects'[id] = session /\ \A i \in DOMAIN objects : i # id => objects'[i] = objects[i]
  BY <1>3, <1>4, <1>5, <1>6, StoreFacts
<1>8. /\ turn'[s].stage = "answered" /\ turn'[s].answer = "ok" /\ turn'[s].session = id
      /\ turn'[s].engine = turn[s].engine /\ turn'[s].client = turn[s].client
      /\ turn'[s].ask = turn[s].ask
      /\ \A r \in Slot : r # s => turn'[r] = turn[r]
  BY <1>3, <1>4, KindFacts DEF Turn
<1>9. IsOfEngine(turn[s].session, turn[s].engine)
  BY <1>3 DEF TalkInv, EngineInv
<1>10. \A i \in DOMAIN objects : objects'[i].engine = objects[i].engine
  BY <1>1, <1>5, <1>6, <1>7, <1>9 DEF IsOfEngine
<1>11. MayStore(s) /\ IsCalling(s)
  BY <1>3 DEF MayStore, IsCalling
<1>12. CASE ~IsOfPage(s)
  <2>1. IsStrange(s)
    BY <1>8, <1>12 DEF IsStrange, IsOfPage, MayStore
  <2>2. ~page.lost => \A i \in DOMAIN objects : IsOfThePage(i) => i # id
    BY <1>1, <1>6, <1>11, <1>12 DEF TalkInv, AloneInv, IsOfThePage
  <2> QED
    BY <1>3, <1>7, <1>8, <1>10, <2>1, <2>2, StrangeTalk
<1>13. CASE IsOfPage(s)
  <2>1. /\ \A r \in Slot : IsOfPage(r) => r = s
        /\ \A r \in Slot : IsOfPage(r)' <=> IsOfPage(r)
    BY <1>8, <1>13 DEF TalkInv, WaitInv, IsOfPage
  <2>2. WaitInv'
    BY <1>3, <1>8, <2>1 DEF TalkInv, WaitInv, AreAsked
  <2>3. Choice' = Choice
    BY <1>3 DEF Choice
  <2> HIDE DEF Choice
  <2>4. /\ page.session # 0 => page.session \in DOMAIN objects
        /\ \A r \in Slot : turn[r].session # 0 => turn[r].session \in DOMAIN objects
    BY OursAreObjects
  <2>5. EngineInv'
    <3>1. \A r \in Slot : turn'[r].stage \in {"checking", "calling"} =>
            turn'[r].session = 0 \/ objects'[turn'[r].session].engine = turn'[r].engine
      BY <1>8, <1>10, <2>4 DEF TalkInv, EngineInv, IsOfEngine
    <3>2. turn'[s].engine = Choice /\ objects'[id].engine = Choice
      BY <1>5, <1>7, <1>8, <1>13 DEF TalkInv, EngineInv
    <3>3. page.session = 0 \/ objects'[page.session].engine = Choice
      BY <1>10, <2>4 DEF TalkInv, EngineInv, IsOfEngine
    <3>4. \A i \in DOMAIN page.shown : IsAnswered(page.shown[i]) => page.shown[i].engine = Choice
      BY DEF TalkInv, EngineInv
    <3> QED
      BY <1>3, <1>8, <2>1, <2>3, <3>1, <3>2, <3>3, <3>4 DEF EngineInv, IsOfEngine
  <2>6. AloneInv => AloneInv'
    <3> SUFFICES ASSUME AloneInv PROVE AloneInv'
      OBVIOUS
    <3>1. \A r \in Slot : MayStore(r)' => MayStore(r) /\ r # s /\ turn'[r] = turn[r]
      BY <1>8 DEF MayStore
    <3>2. \A r \in Slot : MayStore(r) /\ r # s /\ turn[r].session # 0 =>
            turn[r].session # page.session /\ turn[r].session # id
      BY <1>1, <1>6, <1>13, <2>1, <2>4 DEF AloneInv
    <3> QED
      BY <1>3, <1>8, <2>1, <3>1, <3>2 DEF AloneInv
  <2>7. ToldInv => ToldInv'
    <3> SUFFICES ASSUME ToldInv PROVE ToldInv'
      OBVIOUS
    <3>1. Tells(objects'[id].history, WithLast(page))
      BY <1>2, <1>5, <1>7, <1>11, <1>13, ExtendedTells DEF TalkInv
    <3>2. IsStored(s)' /\ IsOfPage(s)'
      BY <1>8, <1>13, <2>1 DEF IsStored
    <3> QED
      BY <1>3, <1>6, <1>8, <2>1, <3>1, <3>2 DEF ToldInv
  <2> QED
    BY <1>3, <2>2, <2>5, <2>6, <2>7 DEF TalkInv
<1> QED
  BY <1>12, <1>13

(***************************************************************************)
(* What the page shows is what the engine was told.                        *)
(***************************************************************************)
LEMMA PageInvInit == Init => PageInv
<1> SUFFICES ASSUME Init PROVE PageInv
  OBVIOUS
<1>1. /\ objects = <<>> /\ asks = 0 /\ queue = <<>>
      /\ turn = [s \in Slot |-> NoTurn] /\ page = NewConversation(Available)
  BY DEF Init, StoreInit
<1>2. QueueIsExact
  <2>1. DOMAIN queue = {}
    BY <1>1
  <2> QED
    BY <2>1 DEF QueueIsExact, IsInjective, Holds
<1>3. \A s \in Slot : /\ turn[s].stage = "free" /\ turn[s].session = 0
                      /\ turn[s].client = "closed"
  BY <1>1 DEF NoTurn
<1>4. /\ page \in Page /\ page.session = 0 /\ page.shown = <<>> /\ ~page.pending
  BY <1>1, AvailableIsEngines, EmptySeq DEF NewConversation, Page
<1>5. DOMAIN page.shown = {}
  BY <1>4
<1>6. WaitInv
  BY <1>3, <1>4, <1>5 DEF WaitInv, AreAsked, IsWaiting, IsOfPage
<1>7. EngineInv
  BY <1>3, <1>4, <1>5 DEF EngineInv, IsOfEngine, IsOfPage
<1>8. AloneInv /\ ToldInv
  BY <1>3, <1>4, <1>5 DEF AloneInv, ToldInv, IsOfPage, Current
<1> QED
  BY <1>2, <1>6, <1>7, <1>8, InvInit DEF PageInv, TalkInv

LEMMA TalkNext == ASSUME Inv, TalkInv, [Next]_vars PROVE TalkInv'
<1>1. CASE submitDraft \/ retryLastTurn
  BY <1>1, submitDraftTalk, retryLastTurnTalk
<1>2. CASE Leave \/ \E e \in Engine : chooseLlm(e)
  <2>1. /\ turn' = Unmounted /\ page' = NewConversation(page.known)
        /\ UNCHANGED <<objects, asks>>
    BY <1>2 DEF Leave, chooseLlm, Remounted
  <2> QED
    BY <2>1, UnmountedTalk
<1>3. CASE Load
  BY <1>3, LoadTalk
<1>4. CASE OtherConversation
  BY <1>4, OtherConversationTalk
<1>5. CASE Restart
  BY <1>5, RestartTalk
<1>6. CASE Operator
  BY <1>6, StayingTalk DEF Operator
<1>7. CASE \E s \in Slot : ServiceStep(s) \/ GiveUp(s)
  <2>1. PICK s \in Slot : ServiceStep(s) \/ GiveUp(s)
    BY <1>7
  <2>2. CASE StoreStep(s) /\ UNCHANGED conversation
    BY <2>2, StayingTalk DEF conversation
  <2> QED
    BY <2>1, <2>2, PassOnTalk, BeginTurnTalk, SendMessagesTalk, FinishTurnTalk, FailTurnTalk,
       ReceiveTalk, GiveUpTalk DEF ServiceStep
<1>8. CASE UNCHANGED vars
  BY <1>8, StayingTalk DEF vars, conversation
<1> QED
  BY <1>1, <1>2, <1>3, <1>4, <1>5, <1>6, <1>7, <1>8 DEF Next

LEMMA PageInvHolds == Spec => []PageInv
<1>1. PageInv /\ [Next]_vars => PageInv'
  BY InvNext, QueueStaysExact, TalkNext DEF PageInv
<1> QED
  BY <1>1, PageInvInit, PTL DEF Spec

LEMMA TypesHold == PageInv => TypeOK
<1> SUFFICES ASSUME PageInv PROVE TypeOK
  OBVIOUS
<1>1. /\ StoreInv /\ TypeInv /\ MapInv /\ QueueIsExact /\ WaitInv
  BY DEF PageInv, Inv, TalkInv
<1>2. StoreTypeOK
  <2>1. \A e \in Engine : file[e].token \in 0..issued[e] /\ file[e].good \in BOOLEAN
    <3> TAKE e \in Engine
    <3>1. /\ file[e] \in LoginValue /\ issued[e] \in Nat /\ file[e].token <= issued[e]
      BY <1>1 DEF StoreInv, StoreTypes, IssuedInv
    <3> QED
      BY <3>1 DEF LoginValue
  <2>2. Range(queue) = {s \in Slot : IsPending(s)}
    <3>1. queue \in Seq(Slot) /\ \A s \in Slot : IsPending(s) <=> Holds(queue, s)
      BY <1>1 DEF StoreInv, StoreTypes, QueueInv, QueueIsExact
    <3>2. \A x \in Range(queue) : x \in Slot /\ Holds(queue, x)
      BY <3>1 DEF Range, Holds
    <3>3. \A x : Holds(queue, x) => x \in Range(queue)
      BY DEF Range, Holds
    <3> QED
      BY <3>1, <3>2, <3>3
  <2> QED
    BY <1>1, <2>1, <2>2 DEF StoreTypeOK, QueueIsExact, IsPending
<1>3. \A s \in Slot : turn[s].stage \in {"free", "sent", "passed", "checking", "calling",
                                         "answered"}
  BY <1>1 DEF TypeInv, Turn, TurnStage
<1>4. page.session \in 0..Len(objects)
  <2>1. Len(objects) \in Nat /\ page.session \in Nat
    BY <1>1 DEF TypeInv
  <2> QED
    BY <1>1, <2>1 DEF TypeInv, IsOurs
<1>5. IsInjective(sessions)
  <2> SUFFICES ASSUME NEW i \in DOMAIN sessions, NEW j \in DOMAIN sessions,
                      sessions[i] = sessions[j], i # j
               PROVE  FALSE
    BY DEF IsInjective
  <2>1. /\ sessions \in Seq(1..Len(objects)) /\ used \in Seq(Nat) /\ Len(used) = Len(objects)
        /\ IsLatest(sessions, used)
    BY <1>1 DEF TypeInv, MapInv
  <2>2. i \in Nat /\ j \in Nat /\ used[sessions[i]] \in Nat
    BY <2>1
  <2>3. i < j \/ j < i
    BY <2>2
  <2> QED
    BY <2>1, <2>2, <2>3 DEF IsLatest
<1>6. /\ page.pending <=> \E s \in Slot : turn[s].client = "page"
      /\ page.pending <=> page.shown # <<>> /\ Last(page.shown).state = "waiting"
  BY <1>1 DEF WaitInv, IsWaiting, IsOfPage
<1> QED
  BY <1>2, <1>3, <1>4, <1>5, <1>6 DEF TypeOK

(***************************************************************************)
(* A session's history is the answers the page shows since it was last     *)
(* told that the conversation starts anew, in their order, and nothing     *)
(* else, however often a question failed, was asked again by hand or by    *)
(* the page, or the service was restarted in between; answers are shown    *)
(* under the engine that gave them, whatever is chosen while they are on   *)
(* their way (entry-conversation.tsx, conversation-turn.ts).  Only a page  *)
(* that gave up on a turn the service went on with may know less.          *)
(***************************************************************************)
THEOREM WhatIsShownIsKnown == Spec => []EngineKnowsWhatIsShown
<1>1. PageInv => EngineKnowsWhatIsShown
  <2> SUFFICES ASSUME PageInv PROVE EngineKnowsWhatIsShown
    OBVIOUS
  <2>1. TypeOK
    BY TypesHold
  <2>2. IsInOrder([i \in DOMAIN page.shown |-> page.shown[i].ask])
    BY DEF IsInOrder, PageInv, TalkInv, WaitInv, AreAsked
  <2>3. ASSUME ~page.lost, ~page.pending, InMap(page.session)
        PROVE  /\ Range(objects[page.session].history) = Current(page)
               /\ IsInOrder(objects[page.session].history)
    <3>1. page.session # 0
      <4>1. sessions \in Seq(1..Len(objects)) /\ Len(objects) \in Nat
        BY DEF PageInv, Inv, TypeInv
      <4> QED
        BY <2>3, <4>1 DEF InMap
    <3>2. \A s \in Slot : ~IsOfPage(s)
      BY <2>3 DEF PageInv, TalkInv, WaitInv
    <3>3. Tells(objects[page.session].history, Current(page))
      BY <2>3, <3>1, <3>2 DEF PageInv, TalkInv, ToldInv
    <3> QED
      BY <3>3 DEF Tells
  <2>4. \A i \in DOMAIN page.shown :
          IsAnswered(page.shown[i]) => page.shown[i].engine = Choice
    BY DEF PageInv, TalkInv, EngineInv
  <2> QED
    BY <2>1, <2>2, <2>3, <2>4 DEF EngineKnowsWhatIsShown
<1> QED
  BY <1>1, PageInvHolds, PTL
=============================================================================
