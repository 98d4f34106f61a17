-------------------------------- MODULE DPWaves --------------------------------
(***************************************************************************)
(* Data parallel waves: the front ends, the coordinator and the engines of *)
(* a data parallel deployment, and the messages between them.  The engines *)
(* alternate between a paused and a running state; while they run, every   *)
(* engine takes part in every forward pass (with a dummy batch if it has   *)
(* no request), and every SyncInterval passes they agree whether to pause. *)
(* A message travels in order from one process to another; messages of     *)
(* different senders overtake each other.                                  *)
(***************************************************************************)
EXTENDS Integers, Sequences, FiniteSets, SequencesExt

CONSTANTS
    Engine,         \* data parallel ranks 0 .. dp_size - 1
    FrontEnd,       \* front ends (API server processes)
    Request,
    FrontOf,        \* FrontOf[r]: the front end that r comes in at
    Steps,          \* Steps[r]: forward passes that r takes
    SyncInterval,   \* 32 in the code
    MayAbort,       \* requests whose client may give up
    EarlyAbort,     \* whether it may before the first forward pass of the request
    Burst           \* whether a front end may send a request before it told the
                    \* coordinator about the one before

ASSUME WavesAssumption ==
    /\ 0 \in Engine
    /\ \A r \in Request : FrontOf[r] \in FrontEnd /\ Steps[r] > 0
    /\ SyncInterval > 0
    /\ MayAbort \subseteq Request /\ EarlyAbort \in BOOLEAN /\ Burst \in BOOLEAN

NoEngine == -1
Coordinator == "coordinator"

VARIABLES
    \* Front ends: what they know, and the notifications not yet sent.
    fe_wave, fe_running, first_req, sent,
    \* The coordinator.
    co_wave, co_running,
    \* Engines.
    wave, engines_running, step_counter, phase, requests, finished_ids, steps_left,
    \* Messages: front end to coordinator and back, engine to coordinator, and to
    \* an engine from each of its sources.
    to_coordinator, to_front, from_engine, input

front == <<fe_wave, fe_running, first_req, sent>>
coordinator == <<co_wave, co_running>>
engine == <<wave, engines_running, step_counter, phase, requests, finished_ids,
            steps_left>>
messages == <<to_coordinator, to_front, from_engine, input>>
vars == <<front, coordinator, engine, messages>>

Source == FrontEnd \cup {Coordinator}

Init ==
    /\ fe_wave = [f \in FrontEnd |-> 0] /\ fe_running = [f \in FrontEnd |-> FALSE]
    /\ first_req = [f \in FrontEnd |-> <<>>]
    /\ sent = [r \in Request |-> NoEngine]
    /\ co_wave = 0 /\ co_running = FALSE
    /\ wave = [e \in Engine |-> 0]
    /\ engines_running = [e \in Engine |-> FALSE]
    /\ step_counter = [e \in Engine |-> 0]
    /\ phase = [e \in Engine |-> "input"]
    /\ requests = [e \in Engine |-> {}] /\ finished_ids = [e \in Engine |-> FALSE]
    /\ steps_left = Steps
    /\ to_coordinator = [f \in FrontEnd |-> <<>>] /\ to_front = [f \in FrontEnd |-> <<>>]
    /\ from_engine = [e \in Engine |-> <<>>]
    /\ input = [e \in Engine |-> [s \in Source |-> <<>>]]

-------------------------------------------------------------------------------
(* Front ends. *)

\* add_request_async: the request carries the wave the front end knows; if the
\* engines seem paused, the coordinator is to be told.
AddRequest(r, e) ==
    LET f == FrontOf[r]
    IN  /\ sent[r] = NoEngine
        /\ Burst \/ first_req[f] = <<>>
        /\ sent' = [sent EXCEPT ![r] = e]
        /\ input' = [input EXCEPT ![e][f] =
                        Append(@, [type |-> "ADD", req |-> r, wave |-> fe_wave[f]])]
        /\ first_req' = IF fe_running[f] THEN first_req
                        ELSE [first_req EXCEPT ![f] = Append(@, e)]
        /\ UNCHANGED <<fe_wave, fe_running, coordinator, engine, to_coordinator,
                       to_front, from_engine>>

AbortRequest(r) ==
    LET f == FrontOf[r]
        e == sent[r]
        abort == [type |-> "ABORT", req |-> r]
    IN  /\ e # NoEngine /\ steps_left[r] > 0
        /\ EarlyAbort \/ steps_left[r] < Steps[r]
        /\ abort \notin ToSet(input[e][f])
        /\ input' = [input EXCEPT ![e][f] = Append(@, abort)]
        /\ UNCHANGED <<front, coordinator, engine, to_coordinator, to_front, from_engine>>

\* The notification names the engine and the wave the front end knows by now.
FirstReqMessage(f) == <<Head(first_req[f]), fe_wave[f]>>

\* The stats task forwards a notification.
NotifyCoordinator(f) ==
    /\ first_req[f] # <<>>
    /\ first_req' = [first_req EXCEPT ![f] = Tail(@)]
    /\ fe_running' = [fe_running EXCEPT ![f] = TRUE]
    /\ to_coordinator' = [to_coordinator EXCEPT ![f] = Append(@, FirstReqMessage(f))]
    /\ UNCHANGED <<fe_wave, sent, coordinator, engine, to_front, from_engine, input>>

\* The stats task takes an update from the coordinator; a notification goes
\* first while the engines seem paused.
UpdateStats(f) ==
    /\ to_front[f] # <<>>
    /\ fe_running[f] \/ first_req[f] = <<>>
    /\ fe_wave' = [fe_wave EXCEPT ![f] = Head(to_front[f]).wave]
    /\ fe_running' = [fe_running EXCEPT ![f] = Head(to_front[f]).running]
    /\ to_front' = [to_front EXCEPT ![f] = Tail(@)]
    /\ UNCHANGED <<first_req, sent, coordinator, engine, to_coordinator, from_engine,
                   input>>

-------------------------------------------------------------------------------
(* The coordinator. *)


\* Publishes the state to the front ends, and START_DP_WAVE to the engines.
PublishFront(w, run) ==
    to_front' = [f \in FrontEnd |-> Append(to_front[f], [wave |-> w, running |-> run])]
SendStartWave(w, exclude) ==
    input' = [e \in Engine |-> [input[e] EXCEPT ![Coordinator] =
                 Append(@, [type |-> "START_DP_WAVE", wave |-> w, exclude |-> exclude])]]

\* A notification of an older wave excludes no engine.
Excluded(target, w) == IF w < co_wave THEN NoEngine ELSE target

\* A front end sent a request while the engines were paused.
HandleFront(f) ==
    /\ to_coordinator[f] # <<>>
    /\ to_coordinator' = [to_coordinator EXCEPT ![f] = Tail(@)]
    /\ LET target == Head(to_coordinator[f])[1]
           w == Head(to_coordinator[f])[2]
       IN  \/ /\ ~ co_running
              /\ co_running' = TRUE
              /\ SendStartWave(co_wave, Excluded(target, w))
              /\ PublishFront(co_wave, TRUE)
           \/ /\ co_running
              /\ UNCHANGED <<co_running, input, to_front>>
    /\ UNCHANGED <<front, co_wave, engine, from_engine>>

\* An engine reports the end of a wave, or a request of an old wave.
HandleEngine(e) ==
    /\ from_engine[e] # <<>>
    /\ from_engine' = [from_engine EXCEPT ![e] = Tail(@)]
    /\ LET m == Head(from_engine[e])
       IN  \/ /\ m.type = "wave_complete" /\ co_wave <= m.wave
              /\ co_wave' = m.wave + 1 /\ co_running' = FALSE
              /\ PublishFront(m.wave + 1, FALSE)
              /\ UNCHANGED input
           \/ /\ m.type = "start_wave"
              /\ m.wave > co_wave \/ (m.wave = co_wave /\ ~ co_running)
              /\ co_wave' = m.wave /\ co_running' = TRUE
              /\ SendStartWave(m.wave, e)
              /\ PublishFront(m.wave, TRUE)
           \/ /\ IF m.type = "wave_complete" THEN co_wave > m.wave
                 ELSE m.wave < co_wave \/ (m.wave = co_wave /\ co_running)
              /\ UNCHANGED <<coordinator, input, to_front>>
    /\ UNCHANGED <<front, engine, to_coordinator>>

\* The poll timed out: the state is published again.
PublishStats ==
    /\ \A f \in FrontEnd : to_front[f] = <<>>      \* bounds the messages on the way
    /\ PublishFront(co_wave, co_running)
    /\ UNCHANGED <<front, coordinator, engine, to_coordinator, from_engine, input>>

-------------------------------------------------------------------------------
(* Engines. *)

TakeInput(e, s) == input' = [input EXCEPT ![e][s] = Tail(@)]


\* The engine is paused and the request was sent for a wave that is over.
StaleWave(e, w) == w < wave[e] /\ ~ engines_running[e]

HandleAdd(e, s) ==
    /\ phase[e] = "input" /\ input[e][s] # <<>> /\ Head(input[e][s]).type = "ADD"
    /\ LET m == Head(input[e][s])
       IN  /\ wave' = [wave EXCEPT ![e] = IF m.wave > @ THEN m.wave ELSE @]
           /\ from_engine' =
                 IF StaleWave(e, m.wave)
                 THEN [from_engine EXCEPT ![e] =
                          Append(@, [type |-> "start_wave", wave |-> wave[e]])]
                 ELSE from_engine
           /\ requests' = [requests EXCEPT ![e] = @ \cup {m.req}]
    /\ TakeInput(e, s)
    /\ UNCHANGED <<front, coordinator, engines_running, step_counter, phase,
                   finished_ids, steps_left, to_coordinator, to_front>>

HandleAbort(e, s) ==
    /\ phase[e] = "input" /\ input[e][s] # <<>> /\ Head(input[e][s]).type = "ABORT"
    /\ LET r == Head(input[e][s]).req
       IN  /\ requests' = [requests EXCEPT ![e] = @ \ {r}]
           /\ finished_ids' = [finished_ids EXCEPT ![e] = @ \/ r \in requests[e]]
           /\ steps_left' = [steps_left EXCEPT ![r] = 0]
    /\ TakeInput(e, s)
    /\ UNCHANGED <<front, coordinator, wave, engines_running, step_counter, phase,
                   to_coordinator, to_front, from_engine>>

\* Mutant of StartsWave: the wave is not compared.
StartsAnyWave(e, m) == m.exclude # e

\* START_DP_WAVE concerns the engine.
StartsWave(e, m) == m.exclude # e /\ m.wave >= wave[e]

HandleStart(e, s) ==
    /\ phase[e] = "input" /\ input[e][s] # <<>>
    /\ Head(input[e][s]).type = "START_DP_WAVE"
    /\ LET m == Head(input[e][s])
       IN  IF StartsWave(e, m)
           THEN /\ wave' = [wave EXCEPT ![e] = m.wave]
                /\ engines_running' = [engines_running EXCEPT ![e] = TRUE]
           ELSE UNCHANGED <<wave, engines_running>>
    /\ TakeInput(e, s)
    /\ UNCHANGED <<front, coordinator, step_counter, phase, requests, finished_ids,
                   steps_left, to_coordinator, to_front, from_engine>>

StepReady(e) == /\ phase[e] = "input"
                /\ engines_running[e] \/ requests[e] # {} \/ finished_ids[e]

\* The loop has work: it goes into a forward pass, of its requests or of a dummy
\* batch, unless it only had finished ids to hand on.
BeginStep(e) ==
    /\ StepReady(e)
    /\ phase' = [phase EXCEPT ![e] = IF engines_running[e] \/ requests[e] # {}
                                     THEN "forward" ELSE "input"]
    /\ finished_ids' = [finished_ids EXCEPT ![e] = FALSE]
    /\ UNCHANGED <<front, coordinator, wave, engines_running, step_counter, requests,
                   steps_left, messages>>


\* step_counter, modulo the interval.
NextCount(e) == (step_counter[e] + 1) % SyncInterval

\* All engines are in the forward pass: it completes.  Every SyncInterval passes
\* the all-reduce follows.
Forward ==
    /\ \A e \in Engine : phase[e] = "forward"
    /\ LET busy == UNION {requests[e] : e \in Engine}
           left == [r \in Request |-> IF r \in busy THEN steps_left[r] - 1
                                      ELSE steps_left[r]]
       IN  /\ steps_left' = left
           /\ requests' = [e \in Engine |-> {r \in requests[e] : left[r] > 0}]
           /\ finished_ids' = [e \in Engine |-> \E r \in requests[e] : left[r] = 0]
    /\ step_counter' = [e \in Engine |-> NextCount(e)]
    /\ phase' = [e \in Engine |-> IF NextCount(e) = 0 THEN "reduce" ELSE "input"]
    /\ engines_running' = [e \in Engine |-> NextCount(e) # 0 \/ engines_running[e]]
    /\ UNCHANGED <<front, coordinator, wave, messages>>

\* has_unfinished_dp: the engines agree whether some request is unfinished.
Unfinished == \E e \in Engine : requests[e] # {}

\* If none is, all pause, and rank 0 tells the coordinator.
AllReduce ==
    /\ \A e \in Engine : phase[e] = "reduce"
    /\ phase' = [e \in Engine |-> "input"]
    /\ engines_running' = [e \in Engine |-> Unfinished]
    /\ IF Unfinished THEN UNCHANGED <<wave, from_engine>>
       ELSE /\ wave' = [e \in Engine |-> wave[e] + 1]
            /\ from_engine' = [from_engine EXCEPT ![0] =
                                  Append(@, [type |-> "wave_complete", wave |-> wave[0]])]
    /\ UNCHANGED <<front, coordinator, step_counter, requests, finished_ids, steps_left,
                   to_coordinator, to_front, input>>
-------------------------------------------------------------------------------
FrontStep(f) == NotifyCoordinator(f) \/ UpdateStats(f)
CoordinatorStep ==
    \/ \E f \in FrontEnd : HandleFront(f)
    \/ \E e \in Engine : HandleEngine(e)
HandleInput(e) ==
    \E s \in Source : HandleAdd(e, s) \/ HandleAbort(e, s) \/ HandleStart(e, s)

Quiet ==
    /\ \A f \in FrontEnd : /\ first_req[f] = <<>>
                           /\ to_coordinator[f] = <<>> /\ to_front[f] = <<>>
    /\ \A e \in Engine : /\ from_engine[e] = <<>>
                         /\ \A s \in Source : input[e][s] = <<>>

Paused(e) == /\ phase[e] = "input" /\ ~ engines_running[e]
             /\ requests[e] = {} /\ ~ finished_ids[e]

Done ==
    /\ Quiet /\ \A e \in Engine : Paused(e)
    /\ \A r \in Request : sent[r] # NoEngine
    /\ UNCHANGED vars

Next ==
    \/ \E r \in Request, e \in Engine : AddRequest(r, e)
    \/ \E r \in MayAbort : AbortRequest(r)
    \/ \E f \in FrontEnd : FrontStep(f)
    \/ CoordinatorStep
    \/ PublishStats
    \/ \E e \in Engine : HandleInput(e) \/ BeginStep(e)
    \/ Forward
    \/ AllReduce
    \/ Done

Spec == Init /\ [][Next]_vars

\* What each process can go on with.
FrontReady(f) == first_req[f] # <<>> \/ to_front[f] # <<>>
CoordinatorReady == \/ \E f \in FrontEnd : to_coordinator[f] # <<>>
                    \/ \E e \in Engine : from_engine[e] # <<>>
InputReady(e) == phase[e] = "input" /\ \E s \in Source : input[e][s] # <<>>

\* Every process keeps running (weak fairness).  A running engine drains its input
\* queue in every iteration of its loop, so what has arrived is not passed over for
\* ever (strong fairness); a collective that all engines have entered completes.
\* Fairness of the handlers is written out with what enables them, which spares TLC
\* the search for a successor.
FairSpec ==
    /\ Spec
    /\ \A f \in FrontEnd : []<>(~ FrontReady(f)) \/ []<><<FrontStep(f)>>_vars
    /\ []<>(~ CoordinatorReady) \/ []<><<CoordinatorStep>>_vars
    /\ \A e \in Engine : /\ <>[](~ InputReady(e)) \/ []<><<HandleInput(e)>>_vars
                         /\ []<>(~ StepReady(e)) \/ []<><<BeginStep(e)>>_vars
    /\ WF_vars(Forward)
    /\ WF_vars(AllReduce)

-------------------------------------------------------------------------------
(* Properties. *)



\* The wave number of the coordinator and of an engine never goes back, although
\* both take it from messages that may be late.
WavesAdvance ==
    [][/\ co_wave' >= co_wave
       /\ \A e \in Engine : wave'[e] >= wave[e]]_vars


===============================================================================
