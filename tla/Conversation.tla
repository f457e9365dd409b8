---------------------------- MODULE Conversation ----------------------------
(***************************************************************************)
(* The conversation about one Entry (web/entry-conversation.tsx,           *)
(* use-llm-choice.ts), the route that passes it on (server/conversation-   *)
(* routes.ts) and the llm service that answers it (llm/main.ts,            *)
(* conversation-turn.ts, llm-models.ts), whose logins are CredentialStore's.*)
(*                                                                         *)
(* A turn runs in the stretches between the service's awaits.  A request   *)
(* may be given up on the way (a timeout of the app, a broken connection)  *)
(* while the service goes on.  Questions are numbered; a session's history *)
(* is the questions it has answers to.  The models of an engine differ in  *)
(* nothing that matters here, so a choice is an engine.                    *)
(***************************************************************************)
EXTENDS CredentialStore

CONSTANTS
  Engines,      \* the engines in the order of the dropdown
  NoEngine,     \* `undefined`
  MaxSessions,  \* MAX_SESSIONS
  MaxAsks,      \* bound: questions of the page
  MaxEvents     \* bound: what users, network, clock and operator do besides

ASSUME ConversationAssumption ==
  /\ Engines \in Seq(Engine) /\ Range(Engines) = Engine /\ NoEngine \notin Engine
  /\ MaxSessions \in Nat \ {0} /\ MaxAsks \in Nat /\ MaxEvents \in Nat

VARIABLES
  objects,    \* objects[id]: the Session object of an id, in the map or not
  sessions,   \* the ids in the Map, in its order
  turn,       \* turn[s]: what happens to a question in slot s
  saved,      \* the choice in localStorage
  page,       \* the page: engines it knows, and the state of EntryConversation
  asks,       \* questions asked
  events,     \* what else was done (for MaxEvents)
  used        \* history: used[id], when the id was last put into the Map

conversation == <<objects, sessions, turn, saved, page, asks, events, used>>
vars == <<conversation, storeVars>>

NoTurn == [stage |-> "free", ask |-> 0, session |-> 0, engine |-> NoEngine,
           base |-> <<>>, client |-> "closed", answer |-> "none"]

\* An EntryConversation that was just mounted; `lost` is history.
NewConversation(known) ==
  [known |-> known, session |-> 0, shown |-> <<>>, pending |-> FALSE, lost |-> FALSE]

\* ------------------------------------------------------------ the choice of an engine
Available == {e \in Engine : file[e] # NoLogin}

pickLlmChoice(known, choice) ==
  IF choice \in known THEN choice
  ELSE IF known = {} THEN NoEngine
  ELSE Engines[SelectInSeq(Engines, LAMBDA e : e \in known)]

Choice == pickLlmChoice(page.known, saved)

Happens == events < MaxEvents /\ events' = events + 1

\* The client of a turn whose component is gone still runs to its end.
Unmounted == [s \in Slot |-> IF turn[s].client = "page"
                             THEN [turn[s] EXCEPT !.client = "left"] ELSE turn[s]]

Remounted == NewConversation(page.known)

chooseLlm(e) ==
  /\ Happens
  /\ e \in page.known /\ e # Choice
  /\ saved' = e
  /\ page' = Remounted /\ turn' = Unmounted
  /\ UNCHANGED <<objects, sessions, asks, used, storeVars>>

\* Another Entry is opened, and this one again.
Leave ==
  /\ Happens
  /\ page.shown # <<>>
  /\ page' = NewConversation(page.known) /\ turn' = Unmounted
  /\ UNCHANGED <<objects, sessions, saved, asks, used, storeVars>>

\* The page is loaded; the list of engines may not be answered.
Load ==
  /\ Happens
  /\ \E known \in {Available, {}} : page' = NewConversation(known)
  /\ turn' = [s \in Slot |-> [turn[s] EXCEPT !.client = "closed"]]
  /\ UNCHANGED <<objects, sessions, saved, asks, used, storeVars>>

\* ------------------------------------------------------------------- asking a question
UpdateLast(shown, state) == [shown EXCEPT ![Len(shown)].state = state]

Ask(shown) ==
  /\ ~page.pending /\ Choice # NoEngine
  /\ asks < MaxAsks /\ asks' = asks + 1
  /\ page' = [page EXCEPT !.pending = TRUE, !.shown =
                Append(shown, [ask |-> asks', state |-> "waiting", restarted |-> FALSE,
                               engine |-> NoEngine])]
  /\ \E s \in Slot :
       /\ turn[s].stage = "free" /\ \A r \in Slot : turn[r].stage = "free" => s <= r
       /\ turn' = [turn EXCEPT ![s] =
            [NoTurn EXCEPT !.stage = "sent", !.ask = asks', !.session = page.session,
                           !.engine = Choice, !.client = "page"]]
  /\ UNCHANGED <<objects, sessions, saved, events, used, storeVars>>

submitDraft == Ask(page.shown)

retryLastTurn ==
  /\ page.shown # <<>> /\ Last(page.shown).state = "failed"
  /\ Ask(Front(page.shown))

\* --------------------------------------------------------------------- the llm service
InMap(id) == \E i \in DOMAIN sessions : sessions[i] = id
Answer(s, answer) == turn' = [turn EXCEPT ![s].stage = "answered", ![s].answer = answer]
service == <<objects, sessions, saved, page, asks, events, used>>

\* The route reads the Entry for a first question, and asks the service, if it is up.
PassOn(s) ==
  /\ turn[s].stage = "sent"
  /\ \/ turn' = [turn EXCEPT ![s].stage = "passed"] /\ UNCHANGED <<service, storeVars>>
     \/ /\ Happens /\ Answer(s, "llm-unreachable")
        /\ UNCHANGED <<objects, sessions, saved, page, asks, used, storeVars>>

\* The session is looked up, then checkAuth is awaited.
BeginTurn(s) ==
  /\ turn[s].stage = "passed"
  /\ IF turn[s].session # 0 /\ ~InMap(turn[s].session)
     THEN Answer(s, "conversation-expired")
     ELSE turn' = [turn EXCEPT ![s].stage = "checking", ![s].engine =
                     IF turn[s].session = 0 THEN @ ELSE objects[turn[s].session].engine]
  /\ UNCHANGED <<service, storeVars>>

\* The messages are copied; an expired login is refreshed on the way to the model.
SendMessages(s) ==
  /\ turn[s].stage = "checking"
  /\ IF file[turn[s].engine] = NoLogin
     THEN Answer(s, "llm-unavailable") /\ UNCHANGED storeVars
     ELSE /\ turn' = [turn EXCEPT ![s].stage = "calling", ![s].base =
                        IF turn[s].session = 0 THEN <<>> ELSE objects[turn[s].session].history]
          /\ IF file[turn[s].engine].good THEN UNCHANGED storeVars
             ELSE Enqueue(s, turn[s].engine)
  /\ UNCHANGED service

\* Mutant: an id that is used again keeps its place in the Map.
Touched_InPlace(id) ==
  LET order == IF InMap(id) THEN sessions ELSE Append(sessions, id)
  IN IF Len(order) > MaxSessions THEN Tail(order) ELSE order

\* sessions.delete, sessions.set, and the oldest goes when there are too many.
Touched(id) ==
  LET order == Append(RemoveFirst(sessions, id), id)
  IN IF Len(order) > MaxSessions THEN Tail(order) ELSE order

Extended(s) == Append(turn[s].base, turn[s].ask)

Store(id, session) ==
  /\ objects' = IF id > Len(objects) THEN Append(objects, session)
                ELSE [objects EXCEPT ![id] = session]
  /\ sessions' = Touched(id)
  /\ used' = IF id > Len(used) THEN Append(used, Len(used) + 1)
             ELSE [i \in DOMAIN used |-> IF i = id THEN Len(used)
                                         ELSE used[i] - (IF used[i] > used[id] THEN 1 ELSE 0)]

FinishTurn(s) ==
  /\ turn[s].stage = "calling" /\ task[s].stage \in {"none", "done"}
  /\ LET id == IF turn[s].session = 0 THEN Len(objects) + 1 ELSE turn[s].session
     IN /\ Store(id, [engine |-> turn[s].engine, history |-> Extended(s)])
        /\ turn' = [turn EXCEPT ![s].stage = "answered", ![s].answer = "ok",
                                ![s].session = id]
  /\ task' = [task EXCEPT ![s] = NoTask]
  /\ UNCHANGED <<saved, page, asks, events, file, queue, issued, history>>

\* An error of the model, a login that cannot be refreshed, or 180 seconds.
FailTurn(s) ==
  /\ turn[s].stage = "calling" /\ task[s].stage \in {"none", "done", "failed"}
  /\ IF task[s].stage = "failed" THEN UNCHANGED events ELSE Happens
  /\ Answer(s, "llm-failed")
  /\ task' = [task EXCEPT ![s] = NoTask]
  /\ UNCHANGED <<objects, sessions, saved, page, asks, used, file, queue, issued, history>>

\* The first question of another Entry's conversation, asked in another page, which
\* ends with an answer; nothing here asks for its engine or its questions.
OtherConversation ==
  /\ Happens
  /\ Available # {}
  /\ Store(Len(objects) + 1, [engine |-> NoEngine, history |-> <<>>])
  /\ UNCHANGED <<turn, saved, page, asks, storeVars>>

\* The connections of the turns break, and the map is gone.
Restart ==
  /\ Happens
  /\ sessions' = <<>>
  /\ turn' = [s \in Slot |-> IF turn[s].stage \in {"checking", "calling"}
                THEN [turn[s] EXCEPT !.stage = "answered", !.answer = "llm-unreachable"]
                ELSE turn[s]]
  /\ StoreDies
  /\ UNCHANGED <<objects, saved, page, asks, used>>

\* ------------------------------------------------------------------------- the answers
AsksAgain(s) == turn[s].answer = "conversation-expired" /\ turn[s].session # 0

\* Mutant: a turn that failed takes the session with it.
AfterFailure_NewSession(p) == [p EXCEPT !.shown = UpdateLast(@, "failed"), !.session = 0,
                                        !.pending = FALSE]

AfterFailure(p) == [p EXCEPT !.shown = UpdateLast(@, "failed"), !.pending = FALSE]

Receive(s) ==
  /\ turn[s].stage = "answered"
  /\ IF AsksAgain(s) /\ turn[s].client # "closed"
     THEN /\ turn' = [turn EXCEPT ![s] = [NoTurn EXCEPT !.stage = "sent", !.ask = turn[s].ask,
                        !.engine = turn[s].engine, !.client = turn[s].client]]
          /\ page' = IF turn[s].client = "page"
                     THEN [page EXCEPT !.shown[Len(page.shown)].restarted = TRUE] ELSE page
     ELSE /\ turn' = [turn EXCEPT ![s] = NoTurn]
          /\ page' = IF turn[s].client # "page" THEN page
                     ELSE IF turn[s].answer # "ok" THEN AfterFailure(page)
                     ELSE [page EXCEPT !.session = turn[s].session, !.pending = FALSE,
                             !.shown[Len(page.shown)].state = "answered",
                             !.shown[Len(page.shown)].engine = turn[s].engine]
  /\ UNCHANGED <<objects, sessions, saved, asks, events, used, storeVars>>

\* Mutant: the page asks again by itself when it is left without an answer.
GiveUp_AsksAgain(s) ==
  /\ Happens
  /\ turn[s].stage # "free" /\ turn[s].client = "page"
  /\ \E r \in Slot :
       /\ turn[r].stage = "free"
       /\ turn' = [turn EXCEPT ![s].client = "closed",
                               ![r] = [turn[s] EXCEPT !.stage = "sent", !.base = <<>>]]
  /\ UNCHANGED <<objects, sessions, saved, page, asks, used, storeVars>>

\* 190 seconds in the app, or a connection that breaks: the service does not notice.
GiveUp(s) ==
  /\ Happens
  /\ turn[s].stage # "free" /\ turn[s].client # "closed"
  /\ page' = IF turn[s].client = "page" THEN [AfterFailure(page) EXCEPT !.lost = TRUE]
             ELSE page
  /\ turn' = [turn EXCEPT ![s].client = "closed"]
  /\ UNCHANGED <<objects, sessions, saved, asks, used, storeVars>>

\* --------------------------------------------------------------------------------------
Init ==
  /\ StoreInit
  /\ objects = <<>> /\ sessions = <<>> /\ used = <<>>
  /\ turn = [s \in Slot |-> NoTurn]
  /\ saved = NoEngine /\ page = NewConversation(Available)
  /\ asks = 0 /\ events = 0

Operator ==
  /\ Happens
  /\ \E e \in Engine : LoginCommand(e) \/ Expire(e)
  /\ UNCHANGED <<objects, sessions, turn, saved, page, asks, used>>

ServiceStep(s) ==
  \/ PassOn(s) \/ BeginTurn(s) \/ SendMessages(s) \/ FinishTurn(s) \/ FailTurn(s) \/ Receive(s)
  \/ StoreStep(s) /\ UNCHANGED conversation

Next ==
  \/ submitDraft \/ retryLastTurn \/ Leave \/ Load \/ OtherConversation \/ Restart \/ Operator
  \/ \E e \in Engine : chooseLlm(e)
  \/ \E s \in Slot : ServiceStep(s) \/ GiveUp(s)

\* The service's turn ends by its timeout if not before, and answers arrive or are given up.
Fairness == \A s \in Slot : WF_vars(ServiceStep(s))

Spec == Init /\ [][Next]_vars /\ Fairness

\* --------------------------------------------------------------------------- properties
TypeOK ==
  /\ StoreTypeOK
  /\ \A s \in Slot : turn[s].stage \in {"free", "sent", "passed", "checking", "calling",
                                       "answered"}
  /\ page.session \in 0..Len(objects) /\ IsInjective(sessions)
  /\ page.pending <=> \E s \in Slot : turn[s].client = "page"
  /\ page.pending <=> page.shown # <<>> /\ Last(page.shown).state = "waiting"

\* The questions the page shows as answered since it was last told that the
\* conversation starts anew.
IsAnswered(t) == t.state = "answered"
Current(p) ==
  {p.shown[i].ask : i \in {i \in DOMAIN p.shown :
    /\ IsAnswered(p.shown[i])
    /\ \A j \in DOMAIN p.shown : i < j /\ IsAnswered(p.shown[j]) => ~p.shown[j].restarted}}

IsInOrder(q) == \A i, j \in DOMAIN q : i < j => q[i] < q[j]

\* The engine goes on from exactly the answers the page shows below its last mark of a
\* new conversation, in their order (the questions are numbered as they are asked and
\* shown): failed questions are not in the history, answered ones are, unless the page
\* gave up on a turn the service went on with.  And the answers under the name of an
\* engine are that engine's, whatever was chosen while they were on their way.
EngineKnowsWhatIsShown ==
  /\ TypeOK
  /\ IsInOrder([i \in DOMAIN page.shown |-> page.shown[i].ask])
  /\ ~page.lost /\ ~page.pending /\ InMap(page.session) =>
       /\ Range(objects[page.session].history) = Current(page)
       /\ IsInOrder(objects[page.session].history)
  /\ \A i \in DOMAIN page.shown :
       IsAnswered(page.shown[i]) => page.shown[i].engine = Choice

\* A question enters one history at most: asking again by itself never repeats a turn
\* the service has stored or may still store.  Nor is a refresh token (RefreshTokensAreSentOnce).
NothingIsSentTwice ==
  /\ RefreshTokensAreSentOnce
  /\ \A i, j \in DOMAIN objects :
       /\ IsInjective(objects[i].history)
       /\ i # j => Range(objects[i].history) \cap Range(objects[j].history) = {}

\* The map holds the sessions that were used last, and no more than its limit.
MapHoldsLatest ==
  /\ Len(sessions) <= MaxSessions
  /\ \A id, other \in DOMAIN objects :
       InMap(id) /\ ~InMap(other) => used[id] > used[other]

\* A question of the page gets its answer or its failure, with its one repetition, in
\* the queue for a new login, and after a restart.
QuestionsEnd == page.pending ~> ~page.pending
=============================================================================
