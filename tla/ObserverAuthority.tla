--------------------------- MODULE ObserverAuthority ---------------------------
(***************************************************************************)
(* The authority to run a command inside an observed sandbox.  A session   *)
(* binds one container to the observer helper: a registrar creates it      *)
(* (SharedObserver.startProfileWithBudget), callers run `docker exec`      *)
(* under it (admissionAwareCommandRunner), and the receiver of the         *)
(* helper's records, the watcher of the helper process and the closing     *)
(* supervisor take it away.  The helper (tools/gvisor-observer) keeps the  *)
(* one-time admissions and reports the end of every stream.                *)
(*                                                                         *)
(* A container has one session.  The mutexes (SharedObserver.mu,           *)
(* observerSessions, session.mu, ObserverSupervisor.mu) guard short        *)
(* critical sections, each an atomic step here.  The peer mutex is not a   *)
(* variable: PeerServesOneCall shows that the lifecycle gate already gives *)
(* every peer a single user.                                               *)
(***************************************************************************)
EXTENDS Naturals, Sequences, FiniteSets

CONSTANTS Sessions,      \* observer sessions, one per container
          Callers,       \* threads running one admission-aware command each
          Registrars,    \* threads starting one profile each
          Target,        \* the session an agent works on
          Receiver, Watcher, Closer,
          Nobody,
          Disturbances   \* what may go wrong in a run: a bound

Agents == Callers \cup Registrars
Threads == Agents \cup {Receiver, Watcher, Closer}

ASSUME ThreadAssumption ==
    /\ Target \in [Agents -> Sessions]
    /\ Callers \cap Registrars = {}
    /\ \A s \in Sessions : \E r \in Registrars : {q \in Registrars : Target[q] = s} = {r}
    /\ Agents \cap {Receiver, Watcher, Closer} = {}
    /\ Receiver # Watcher /\ Receiver # Closer /\ Watcher # Closer
    /\ Nobody \notin Threads \cup Sessions
    /\ Disturbances \subseteq {"close", "crash", "stopFails", "timeout", "stream"}

VARIABLES
    registry,     \* observerSessions.byContainer: the sessions it holds
    teardown,     \* sessions with teardownRequested
    poisoned,     \* sessions with poisoned
    invalidated,  \* sessions with invalidated
    terminal,     \* sessions with terminalCleanupOwned
    closed,       \* sessions whose control peer is closed on our side
    gate,         \* lifecycleGate: who holds the lease of a session
    published,    \* SharedObserver.streams and .sessions
    down,         \* SharedObserver.fault and .closing
    supervisor,   \* ObserverSupervisor.closing and .failStop
    lock,         \* the supervisor's lock file
    helper,       \* the helper process
    profiles,     \* helper: registered sessions
    slot,         \* helper: the admission of each caller's nonce
    inbox, outbox,\* the control peers' requests and acknowledgements
    launched,     \* commands whose SENTRY_EXEC the helper has yet to read
    consumed,     \* history: nonces some SENTRY_EXEC consumed
    stream,       \* the remote stream of each container
    records,      \* datagrams on their way to the receiver
    pc, op,       \* where a thread is, and the request it exchanges
    ran,          \* outcome of the host command
    result,       \* what the operation returned
    batch, wait   \* phase 2 of a teardown: sessions left, session waited for

session == <<registry, teardown, poisoned, invalidated, terminal, closed>>
observer == <<published, down>>
host == <<supervisor, lock>>
control == <<inbox, outbox>>
admissions == <<profiles, slot>>
guest == <<launched, consumed, stream, records>>
phases == <<batch, wait>>
calls == <<op, ran, result>>
vars == <<session, gate, observer, host, helper, control, admissions, guest,
          phases, calls, pc>>

Init ==
    /\ registry = {} /\ published = {} /\ profiles = {}
    /\ teardown = {} /\ poisoned = {} /\ invalidated = {} /\ terminal = {} /\ closed = {}
    /\ gate = [s \in Sessions |-> Nobody]
    /\ down = {} /\ supervisor = {} /\ lock = "held" /\ helper = "up"
    /\ slot = [c \in Callers |-> "absent"]
    /\ inbox = [s \in Sessions |-> <<>>] /\ outbox = [s \in Sessions |-> <<>>]
    /\ launched = {} /\ consumed = {} /\ records = <<>>
    /\ stream = [s \in Sessions |-> "none"]
    /\ pc = [t \in Threads |-> "idle"]
    /\ result = [t \in Threads |-> "none"]
    /\ op = [a \in Agents |-> "none"]
    /\ ran = [c \in Callers |-> "notYet"]
    /\ batch = [t \in Threads |-> {}]
    /\ wait = [t \in Threads |-> Nobody]

--------------------------------------------------------------------------------
(* Sessions. *)

\* activeObserverSession: the lookup that grants new authority.
Active(s) == s \in registry /\ s \notin teardown \cup poisoned \cup invalidated

\* The recheck made before a normal request is written.
Usable(s) == s \in registry /\ s \notin poisoned \cup invalidated

\* observerControlPeer.Close: what is still queued on the connection is lost.
ClosePeer(s) ==
    /\ closed' = closed \cup {s}
    /\ inbox' = [inbox EXCEPT ![s] = <<>>]
    /\ outbox' = [outbox EXCEPT ![s] = <<>>]

\* forgetObserverSessionOwned; it is idempotent.
ForgetOwned(s) ==
    /\ teardown' = teardown \cup {s}
    /\ poisoned' = poisoned \cup {s}
    /\ invalidated' = invalidated \cup {s}
    /\ registry' = registry \ {s}
    /\ ClosePeer(s)

Poison(s) == poisoned' = poisoned \cup {s}

Goto(t, l) == pc' = [pc EXCEPT ![t] = l]

\* Mutant: the lease is not given back.
ReturnKeepingGate(a, r) ==
    /\ Goto(a, "done")
    /\ result' = [result EXCEPT ![a] = r]
    /\ UNCHANGED gate

\* The operation returns and its deferred lifecycle.release gives the gate back.
Return(a, r) ==
    /\ Goto(a, "done")
    /\ result' = [result EXCEPT ![a] = r]
    /\ gate' = [s \in Sessions |-> IF gate[s] = a THEN Nobody ELSE gate[s]]

\* The helper keeps registrations, admissions and unread requests in memory only.
HelperEnds ==
    /\ helper' = "dead"
    /\ profiles' = {}
    /\ slot' = [c \in Callers |-> "absent"]
    /\ inbox' = [s \in Sessions |-> <<>>]
    /\ launched' = {}

\* observerProcess.Stop: SIGTERM, then SIGKILL; a helper that does not end within
\* the bounds is an error, as is the exit status of one that had crashed.
Stop ==
    \/ HelperEnds
    \/ /\ "stopFails" \in Disturbances
       /\ UNCHANGED <<helper, admissions, inbox, launched>>

--------------------------------------------------------------------------------
(* Two-phase teardown.  Phase 1 runs under SharedObserver.mu and only       *)
(* records the intent; phase 2 forgets each session behind its gate.        *)

Phase1(t, batchOf) ==
    /\ teardown' = teardown \cup batchOf
    /\ batch' = [batch EXCEPT ![t] = batchOf]

\* SharedObserver.fail, and the stream-fault branch of receive.
Fail(t) ==
    /\ Phase1(t, published)
    /\ published' = {}
    /\ down' = down \cup {"fault"}

\* Mutants: a teardown that never waits for the owner of the lease, and one
\* that waits even when the owner is the one tearing down.
MustWaitNever(s) == FALSE
MustWaitAlways(s) == TRUE

\* forgetObserverSession asks once whether the owner already cleans up ...
MustWait(s) == s \notin terminal

ForgetWithoutGate(t, s) ==
    /\ ~MustWait(s)
    /\ ForgetOwned(s)
    /\ batch' = [batch EXCEPT ![t] = @ \ {s}]
    /\ UNCHANGED <<wait, gate>>

\* ... and otherwise waits for the lease.
AwaitGate(t, s) ==
    /\ MustWait(s)
    /\ teardown' = teardown \cup {s}
    /\ wait' = [wait EXCEPT ![t] = s]
    /\ UNCHANGED <<registry, poisoned, invalidated, closed, control, batch, gate>>

ForgetBehindGate(t, s) ==
    /\ wait[t] = s
    /\ gate[s] = Nobody
    /\ ForgetOwned(s)
    /\ batch' = [batch EXCEPT ![t] = @ \ {s}]
    /\ wait' = [wait EXCEPT ![t] = Nobody]
    /\ UNCHANGED gate

ForgetOne(t) ==
    /\ pc[t] = "phase2"
    /\ \E s \in batch[t] :
          \/ wait[t] = Nobody /\ ForgetWithoutGate(t, s)
          \/ wait[t] = Nobody /\ AwaitGate(t, s)
          \/ ForgetBehindGate(t, s)
    /\ UNCHANGED <<terminal, observer, host, helper, admissions, guest, calls, pc>>

AfterPhase2(t) ==
    CASE t \in Agents -> "stop"
      [] t = Receiver -> IF result[Receiver] = "failed" THEN "done" ELSE "idle"
      [] t = Watcher -> "done"
      [] t = Closer -> "unlisten"

Phase2Done(t) ==
    /\ pc[t] = "phase2" /\ batch[t] = {}
    /\ Goto(t, AfterPhase2(t))
    /\ UNCHANGED <<session, gate, observer, host, helper, control, admissions, guest, phases, calls>>

--------------------------------------------------------------------------------
(* startProfileWithBudget: a registrar creates and publishes a session. *)

StartProfile(r) ==
    /\ pc[r] = "idle"
    /\ \/ /\ down = {} /\ helper = "up"
          /\ inbox' = [inbox EXCEPT ![Target[r]] = Append(@, [op |-> "profile", from |-> r])]
          /\ Goto(r, "register")
          /\ UNCHANGED <<gate, result>>
       \/ /\ down # {} \/ helper = "dead"
          /\ Return(r, "refused")
          /\ UNCHANGED inbox
    /\ UNCHANGED <<session, observer, host, helper, outbox, admissions, guest, phases, op, ran>>

\* registerObserverProfileWithTopology: the acknowledgement, then the activation.
Registered(r) ==
    LET s == Target[r] IN
    /\ pc[r] = "register"
    /\ outbox[s] # <<>> /\ Head(outbox[s]).status = "registered"
    /\ outbox' = [outbox EXCEPT ![s] = Tail(@)]
    /\ registry' = registry \cup {s}
    /\ Goto(r, "publish")
    /\ UNCHANGED <<teardown, poisoned, invalidated, terminal, closed, gate, observer, host,
                   helper, inbox, admissions, guest, phases, calls>>

\* No acknowledgement, or the wrong one: the peer is closed.
RegistrationFails(r) ==
    /\ pc[r] = "register"
    /\ "timeout" \in Disturbances \/ helper = "dead"
    /\ ClosePeer(Target[r])
    /\ Return(r, "refused")
    /\ UNCHANGED <<registry, teardown, poisoned, invalidated, terminal, observer, host,
                   helper, admissions, guest, phases, op, ran>>

\* Mutant: a session published whatever became of the observer.
MayPublishAlways == TRUE

MayPublish == down = {}

Publish(r) ==
    LET s == Target[r] IN
    /\ pc[r] = "publish"
    /\ \/ /\ MayPublish
          /\ published' = published \cup {s}
          /\ stream' = [stream EXCEPT ![s] = "open"]
          /\ Return(r, "published")
          /\ UNCHANGED teardown
       \/ /\ ~MayPublish
          /\ teardown' = teardown \cup {s}
          /\ Goto(r, "cleanup")
          /\ UNCHANGED <<published, stream, result, gate>>
    /\ UNCHANGED <<registry, poisoned, invalidated, terminal, closed, down, host, helper,
                   control, admissions, launched, consumed, records, phases, op, ran>>

\* invalidateObserverSession waits for the lease, as long as its context lasts.
CleanupGate(r) ==
    /\ pc[r] = "cleanup"
    /\ \/ /\ gate[Target[r]] = Nobody
          /\ gate' = [gate EXCEPT ![Target[r]] = r]
          /\ Goto(r, "ambiguous")
          /\ UNCHANGED result
       \/ /\ gate[Target[r]] # Nobody
          /\ Return(r, "refused")
    /\ UNCHANGED <<session, observer, host, helper, control, admissions, guest, phases, op, ran>>

--------------------------------------------------------------------------------
(* admissionAwareCommandRunner: ARM, the host command, and its resolution.  *)

\* A caller runs commands in a container whose trace was started for it.
Ready(c) == \E r \in Registrars : Target[r] = Target[c] /\ result[r] = "published"

Lookup(c) ==
    /\ pc[c] = "idle" /\ Ready(c)
    /\ \/ Active(Target[c]) /\ Goto(c, "gate") /\ UNCHANGED <<result, gate>>
       \/ ~Active(Target[c]) /\ Return(c, "refused")
    /\ UNCHANGED <<session, observer, host, helper, control, admissions, guest, phases, op, ran>>

\* acquireDirectExecLifecycle; the caller's context may end first.
AcquireGate(c) ==
    /\ pc[c] = "gate"
    /\ \/ /\ gate[Target[c]] = Nobody
          /\ gate' = [gate EXCEPT ![Target[c]] = c]
          /\ Goto(c, "recheck")
          /\ UNCHANGED result
       \/ gate[Target[c]] # Nobody /\ Return(c, "refused")
    /\ UNCHANGED <<session, observer, host, helper, control, admissions, guest, phases, op, ran>>

\* activeExactObserverSession again, now that the lease is held.
MayArm(c) == Active(Target[c])

Recheck(c) ==
    /\ pc[c] = "recheck"
    /\ \/ /\ MayArm(c)
          /\ Goto(c, "send")
          /\ op' = [op EXCEPT ![c] = "arm"]
          /\ UNCHANGED <<result, gate>>
       \/ ~MayArm(c) /\ Return(c, "refused") /\ UNCHANGED op
    /\ UNCHANGED <<session, observer, host, helper, control, admissions, guest, phases, ran>>

\* exchangeAckAuthorized writes a normal request only with authority in hand; the
\* context may have ended before, or the write fails.
Send(c) ==
    LET s == Target[c] IN
    /\ pc[c] = "send"
    /\ \/ /\ Usable(s) /\ helper = "up"
          /\ inbox' = [inbox EXCEPT ![s] = Append(@, [op |-> op[c], from |-> c])]
          /\ Goto(c, "receive")
          /\ UNCHANGED <<poisoned, result, gate>>
       \/ /\ Usable(s) /\ (helper = "dead" \/ "timeout" \in Disturbances)
          /\ Poison(s) /\ Goto(c, "ambiguous")
          /\ UNCHANGED <<inbox, result, gate>>
       \/ /\ ~Usable(s)
          /\ Return(c, "refused")
          /\ UNCHANGED <<inbox, poisoned>>
    /\ UNCHANGED <<registry, teardown, invalidated, terminal, closed, observer, host, helper,
                   outbox, admissions, guest, phases, op, ran>>

\* What the caller does next with a valid acknowledgement.
Resolve(c, status) ==
    \/ /\ op[c] = "arm" /\ status = "armed"
       /\ Goto(c, "run") /\ UNCHANGED <<op, result, gate>>
    \/ /\ op[c] = "status" /\ status = "pending" /\ ran[c] = "succeeded"
       /\ Goto(c, "poll") /\ UNCHANGED <<op, result, gate>>
    \/ /\ op[c] = "status" /\ status = "pending" /\ ran[c] = "failed"
       /\ Goto(c, "send") /\ op' = [op EXCEPT ![c] = "cancel"]
       /\ UNCHANGED <<result, gate>>
    \/ /\ op[c] \in {"status", "cancel"} /\ status = "consumed"
       /\ Goto(c, "send") /\ op' = [op EXCEPT ![c] = "complete"]
       /\ UNCHANGED <<result, gate>>
    \/ /\ op[c] = "cancel" /\ status = "cancelled"
       /\ Return(c, "notStarted") /\ UNCHANGED op
    \/ /\ op[c] = "complete" /\ status = "completed"
       /\ Return(c, ran[c]) /\ UNCHANGED op

ValidAck(c, status) ==
    \/ op[c] = "arm" /\ status = "armed"
    \/ op[c] = "status" /\ status \in {"pending", "consumed"}
    \/ op[c] = "cancel" /\ status \in {"cancelled", "consumed"}
    \/ op[c] = "complete" /\ status = "completed"

Receive(c) ==
    LET s == Target[c] IN
    /\ pc[c] = "receive" /\ outbox[s] # <<>>
    /\ outbox' = [outbox EXCEPT ![s] = Tail(@)]
    /\ LET ack == Head(outbox[s]) IN
       \/ /\ ack.from = c /\ ack.op = op[c] /\ ValidAck(c, ack.status) /\ Usable(s)
          /\ Resolve(c, ack.status)
          /\ UNCHANGED poisoned
       \/ /\ ~(ack.from = c /\ ack.op = op[c] /\ ValidAck(c, ack.status))
          /\ Poison(s) /\ Goto(c, "ambiguous")
          /\ UNCHANGED <<op, result, gate>>
       \/ /\ ack.from = c /\ ack.op = op[c] /\ ValidAck(c, ack.status) /\ ~Usable(s)
          /\ Poison(s) /\ Return(c, "refused")
          /\ UNCHANGED op
    /\ UNCHANGED <<registry, teardown, invalidated, terminal, closed, observer, host, helper,
                   inbox, admissions, guest, phases, ran>>

\* The exchange deadline passes, or the helper is gone.
ReceiveFails(c) ==
    /\ pc[c] = "receive"
    /\ "timeout" \in Disturbances \/ helper = "dead"
    /\ Poison(Target[c]) /\ Goto(c, "ambiguous")
    /\ UNCHANGED <<registry, teardown, invalidated, terminal, closed, gate, observer, host,
                   helper, control, admissions, guest, phases, calls>>

\* The host command.  It succeeds only if the target was launched; it may fail
\* before or after the launch, whose SENTRY_EXEC reaches the helper later.
RunCommand(c) ==
    /\ pc[c] = "run"
    /\ \E launch \in {{}, {c}}, outcome \in {"succeeded", "failed"} :
          /\ outcome = "succeeded" => launch = {c}
          /\ launch = {c} => stream[Target[c]] = "open"
          /\ launched' = IF helper = "up" THEN launched \cup launch ELSE launched
          /\ ran' = [ran EXCEPT ![c] = outcome]
    /\ op' = [op EXCEPT ![c] = "status"]
    /\ Goto(c, "send")
    /\ UNCHANGED <<session, gate, observer, host, helper, control, admissions, consumed,
                   stream, records, phases, result>>

\* awaitConsumedDirectExecAdmission: ask again, until the completion deadline.
PollAgain(c) ==
    /\ pc[c] = "poll"
    /\ Goto(c, "send")
    /\ UNCHANGED <<session, gate, observer, host, helper, control, admissions, guest, phases, calls>>

\* Mutant: at the deadline the exit status of the command is believed.
PollExpiresAsEnded(c) ==
    /\ pc[c] = "poll"
    /\ Return(c, ran[c])
    /\ UNCHANGED <<session, observer, host, helper, control, admissions, guest, phases, op, ran>>

PollExpires(c) ==
    /\ pc[c] = "poll"
    /\ "timeout" \in Disturbances \/ helper = "dead"
    /\ Goto(c, "ambiguous")
    /\ UNCHANGED <<session, gate, observer, host, helper, control, admissions, guest, phases, calls>>

--------------------------------------------------------------------------------
(* ambiguousDirectExecAdmission: INVALIDATE, or else stop the helper.  The  *)
(* agent holds the lease throughout.                                        *)

BeginInvalidate(a) ==
    LET s == Target[a] IN
    /\ pc[a] = "ambiguous"
    /\ \/ /\ s \in invalidated
          /\ Return(a, "ambiguous")
          /\ UNCHANGED <<teardown, poisoned, inbox>>
       \/ /\ s \notin invalidated
          /\ teardown' = teardown \cup {s} /\ Poison(s)
          /\ \/ /\ helper = "up"
                /\ inbox' = [inbox EXCEPT ![s] = Append(@, [op |-> "invalidate", from |-> a])]
                /\ Goto(a, "invalidate")
             \/ /\ helper = "dead"
                /\ Goto(a, "fail-stop") /\ UNCHANGED inbox
          /\ UNCHANGED <<result, gate>>
    /\ UNCHANGED <<registry, invalidated, terminal, closed, observer, host, helper, outbox,
                   admissions, guest, phases, op, ran>>

\* Only the exact acknowledgement proves that the helper dropped the admission.
Invalidated(a) ==
    LET s == Target[a] IN
    /\ pc[a] = "invalidate" /\ outbox[s] # <<>>
    /\ \/ /\ Head(outbox[s]).status = "invalidated"
          /\ ForgetOwned(s)
          /\ Return(a, "ambiguous")
       \/ /\ Head(outbox[s]).status # "invalidated"
          /\ outbox' = [outbox EXCEPT ![s] = Tail(@)]
          /\ Goto(a, "fail-stop")
          /\ UNCHANGED <<registry, teardown, poisoned, invalidated, closed, inbox, result, gate>>
    /\ UNCHANGED <<terminal, observer, host, helper, admissions, guest, phases, op, ran>>

\* Mutant: an unanswered INVALIDATE counts as done.
InvalidateFailsQuietly(a) ==
    /\ pc[a] = "invalidate"
    /\ ForgetOwned(Target[a])
    /\ Return(a, "ambiguous")
    /\ UNCHANGED <<terminal, observer, host, helper, admissions, guest, phases, op, ran>>

InvalidateFails(a) ==
    /\ pc[a] = "invalidate"
    /\ "timeout" \in Disturbances \/ helper = "dead"
    /\ Goto(a, "fail-stop")
    /\ UNCHANGED <<session, gate, observer, host, helper, control, admissions, guest, phases, calls>>

\* Mutant: the owner does not say that it cleans up its own session.
FailStopUnowned(a) ==
    /\ pc[a] = "fail-stop"
    /\ Poison(Target[a])
    /\ supervisor' = supervisor \cup {"fail-stop", "closing"}
    /\ Goto(a, IF "fail-stop" \in supervisor THEN "confirm" ELSE "fail")
    /\ UNCHANGED <<registry, teardown, invalidated, terminal, closed, gate, observer, lock, helper,
                   control, admissions, guest, phases, calls>>

\* failStopAmbiguousObserverSessionOwned, failStopHelper: the first one through
\* fails the observer and stops the helper, any other only asks for confirmation.
FailStop(a) ==
    /\ pc[a] = "fail-stop"
    /\ Poison(Target[a])
    /\ terminal' = terminal \cup {Target[a]}
    /\ supervisor' = supervisor \cup {"fail-stop", "closing"}
    /\ Goto(a, IF "fail-stop" \in supervisor THEN "confirm" ELSE "fail")
    /\ UNCHANGED <<registry, teardown, invalidated, closed, gate, observer, lock, helper,
                   control, admissions, guest, phases, calls>>

FailObserver(a) ==
    /\ pc[a] = "fail"
    /\ Fail(a)
    /\ Goto(a, "phase2")
    /\ UNCHANGED <<registry, poisoned, invalidated, terminal, closed, gate, host, helper,
                   control, admissions, guest, wait, calls>>

StopHelper(a) ==
    /\ pc[a] = "stop"
    /\ Stop
    /\ Goto(a, "confirm")
    /\ UNCHANGED <<session, gate, observer, host, outbox, consumed, stream, records, phases, calls>>

Confirm(a) ==
    /\ pc[a] = "confirm"
    /\ \/ /\ helper = "dead"
          /\ ForgetOwned(Target[a])
          /\ Return(a, "ambiguous")
       \/ /\ helper = "up"
          /\ Return(a, "unconfirmed")
          /\ UNCHANGED <<registry, teardown, poisoned, invalidated, closed, control>>
    /\ UNCHANGED <<terminal, observer, host, helper, admissions, guest, phases, op, ran>>

--------------------------------------------------------------------------------
(* The helper: ParseControlRecord, RemoveControlPeer, finish_remote. *)

Of(s) == {c \in Callers : Target[c] = s}

\* Erasing a registration erases its admissions.
Deregister(s) ==
    /\ profiles' = profiles \ {s}
    /\ slot' = [c \in Callers |-> IF c \in Of(s) THEN "absent" ELSE slot[c]]

\* The status of the acknowledgement, and the admission it leaves.
Answer(s, request) ==
    LET c == request.from
        now == IF c \in Callers THEN slot[c] ELSE "absent" IN
    IF request.op = "profile"
    THEN IF s \notin profiles THEN <<"registered", "absent">> ELSE <<"rejected", now>>
    ELSE IF s \notin profiles THEN <<"rejected", "absent">>
    ELSE CASE request.op = "invalidate" -> <<"invalidated", "absent">>
           [] request.op = "arm" /\ now = "absent" -> <<"armed", "pending">>
           [] request.op = "status" /\ now # "absent" -> <<now, now>>
           [] request.op = "cancel" /\ now = "pending" -> <<"cancelled", "absent">>
           [] request.op = "cancel" /\ now = "consumed" -> <<"consumed", now>>
           [] request.op = "complete" /\ now = "consumed" -> <<"completed", "absent">>
           [] OTHER -> <<"rejected", now>>

HelperAnswers(s) ==
    /\ helper = "up" /\ inbox[s] # <<>> /\ s \notin closed
    /\ LET request == Head(inbox[s])
           answer == Answer(s, request) IN
       /\ inbox' = [inbox EXCEPT ![s] = Tail(@)]
       /\ outbox' = [outbox EXCEPT ![s] =
                       Append(@, [op |-> request.op, from |-> request.from, status |-> answer[1]])]
       /\ \/ answer[1] = "invalidated" /\ Deregister(s)
          \/ /\ answer[1] # "invalidated"
             /\ profiles' = IF answer[1] = "registered" THEN profiles \cup {s} ELSE profiles
             /\ slot' = IF request.from \in Callers
                        THEN [slot EXCEPT ![request.from] = answer[2]] ELSE slot
    /\ UNCHANGED <<session, gate, observer, host, helper, guest, phases, calls, pc>>

\* POLLHUP on a control peer.
HelperDropsPeer(s) ==
    /\ helper = "up" /\ s \in closed /\ s \in profiles
    /\ Deregister(s)
    /\ UNCHANGED <<session, gate, observer, host, helper, control, guest, phases, calls, pc>>

Report(kind, s) == records' = Append(records, [kind |-> kind, session |-> s])

\* ConsumeDirectExecAdmission for the boundary's SENTRY_EXEC: a launch nobody
\* admitted faults the stream.
SentryExec(c) ==
    LET s == Target[c] IN
    /\ helper = "up" /\ c \in launched /\ stream[s] = "open"
    /\ launched' = launched \ {c}
    /\ \/ /\ s \in profiles /\ slot[c] = "pending"
          /\ slot' = [slot EXCEPT ![c] = "consumed"]
          /\ consumed' = consumed \cup {c}
          /\ UNCHANGED <<profiles, stream, records>>
       \/ /\ ~(s \in profiles /\ slot[c] = "pending")
          /\ stream' = [stream EXCEPT ![s] = "over"]
          /\ Report("stream-fault", s)
          /\ Deregister(s)
          /\ UNCHANGED consumed
    /\ UNCHANGED <<session, gate, observer, host, helper, control, phases, calls, pc>>

\* The container ends, or the helper finds its events unacceptable.
StreamOver(s) ==
    /\ "stream" \in Disturbances
    /\ helper = "up" /\ stream[s] = "open"
    /\ Of(s) \cap launched = {}
    /\ stream' = [stream EXCEPT ![s] = "over"]
    /\ \/ s \in profiles /\ (\A c \in Of(s) : slot[c] # "pending") /\ Report("stream-end", s)
       \/ Report("stream-fault", s)
    /\ Deregister(s)
    /\ UNCHANGED <<session, gate, observer, host, helper, control, launched, consumed,
                   phases, calls, pc>>

HelperCrashes ==
    /\ "crash" \in Disturbances
    /\ helper = "up" /\ HelperEnds
    /\ UNCHANGED <<session, gate, observer, host, outbox, consumed, stream, records, phases, calls, pc>>

--------------------------------------------------------------------------------
(* SharedObserver.receive, ObserverSupervisor.watchHelper and close. *)

ReceiveRecord ==
    LET s == Head(records).session IN
    /\ pc[Receiver] = "idle" /\ records # <<>>
    /\ records' = Tail(records)
    /\ \/ /\ s \in published /\ Head(records).kind = "stream-end"
          /\ Phase1(Receiver, {s})
          /\ published' = published \ {s}
          /\ UNCHANGED <<down, result>>
       \/ /\ ~(s \in published /\ Head(records).kind = "stream-end")
          /\ Fail(Receiver)
          /\ result' = [result EXCEPT ![Receiver] = "failed"]
    /\ Goto(Receiver, "phase2")
    /\ UNCHANGED <<registry, poisoned, invalidated, terminal, closed, gate, host, helper, control,
                   admissions, launched, consumed, stream, wait, op, ran>>

ListenerClosed == pc[Closer] \in {"unlock", "done"}

ReceiveFailed ==
    /\ pc[Receiver] = "idle" /\ ListenerClosed
    /\ Fail(Receiver)
    /\ result' = [result EXCEPT ![Receiver] = "failed"]
    /\ Goto(Receiver, "phase2")
    /\ UNCHANGED <<registry, poisoned, invalidated, terminal, closed, gate, host, helper, control,
                   admissions, guest, wait, op, ran>>

WatchHelper ==
    /\ pc[Watcher] = "idle" /\ helper = "dead"
    /\ \/ "closing" \in supervisor /\ Goto(Watcher, "done")
          /\ UNCHANGED <<teardown, batch, observer>>
       \/ "closing" \notin supervisor /\ Goto(Watcher, "phase2") /\ Fail(Watcher)
    /\ UNCHANGED <<registry, poisoned, invalidated, terminal, closed, gate, host, helper, control,
                   admissions, guest, wait, calls>>

BeginClose ==
    /\ "close" \in Disturbances
    /\ pc[Closer] = "idle"
    /\ supervisor' = supervisor \cup {"closing"}
    /\ Goto(Closer, "stopHelper")
    /\ UNCHANGED <<session, gate, observer, lock, helper, control, admissions, guest, phases, calls>>

\* close stops the helper unless a fail-stop has begun; stopping a helper that
\* crashed, or that does not end in time, is a cleanup error.
CloseStopsHelper ==
    /\ pc[Closer] = "stopHelper"
    /\ \/ "fail-stop" \in supervisor /\ UNCHANGED <<helper, admissions, inbox, launched, result>>
       \/ "fail-stop" \notin supervisor /\ helper = "up" /\ HelperEnds /\ UNCHANGED result
       \/ /\ "fail-stop" \notin supervisor
          /\ Stop
          /\ result' = [result EXCEPT ![Closer] = "uncertain"]
    /\ Goto(Closer, "closeObserver")
    /\ UNCHANGED <<session, gate, observer, host, outbox, consumed, stream, records, phases, op, ran>>

CloseObserver ==
    /\ pc[Closer] = "closeObserver"
    /\ Phase1(Closer, published)
    /\ published' = {}
    /\ down' = down \cup {"closing"}
    /\ Goto(Closer, "phase2")
    /\ UNCHANGED <<registry, poisoned, invalidated, terminal, closed, gate, host, helper, control,
                   admissions, guest, wait, calls>>

\* listener.Close and the removal of the endpoints.
Unlisten ==
    /\ pc[Closer] = "unlisten"
    /\ \/ UNCHANGED result
       \/ "stopFails" \in Disturbances /\ result' = [result EXCEPT ![Closer] = "uncertain"]
    /\ Goto(Closer, "unlock")
    /\ UNCHANGED <<session, gate, observer, host, helper, control, admissions, guest, phases, op, ran>>

\* The lock is released only after a certain cleanup.
ReleaseLock ==
    /\ pc[Closer] = "unlock"
    /\ lock' = IF result[Closer] = "uncertain" THEN lock ELSE "released"
    /\ Goto(Closer, "done")
    /\ UNCHANGED <<session, gate, observer, supervisor, helper, control, admissions, guest, phases, calls>>

--------------------------------------------------------------------------------
Phase2(t) == ForgetOne(t) \/ Phase2Done(t)

Cleanup(a) ==
    \/ BeginInvalidate(a) \/ Invalidated(a) \/ InvalidateFails(a)
    \/ FailStop(a) \/ FailObserver(a) \/ Phase2(a) \/ StopHelper(a) \/ Confirm(a)

Registrar(r) ==
    \/ StartProfile(r) \/ Registered(r) \/ RegistrationFails(r) \/ Publish(r)
    \/ CleanupGate(r) \/ Cleanup(r)

Caller(c) ==
    \/ Lookup(c) \/ AcquireGate(c) \/ Recheck(c) \/ Send(c) \/ Receive(c) \/ ReceiveFails(c)
    \/ RunCommand(c) \/ PollAgain(c) \/ PollExpires(c) \/ Cleanup(c)

Helper(s) == HelperAnswers(s) \/ HelperDropsPeer(s) \/ StreamOver(s)

Receiving == ReceiveRecord \/ ReceiveFailed \/ Phase2(Receiver)
Watching == WatchHelper \/ Phase2(Watcher)
Closing == CloseStopsHelper \/ CloseObserver \/ Phase2(Closer) \/ Unlisten \/ ReleaseLock

Next ==
    \/ \E r \in Registrars : Registrar(r)
    \/ \E c \in Callers : Caller(c) \/ SentryExec(c)
    \/ \E s \in Sessions : Helper(s)
    \/ HelperCrashes
    \/ Receiving \/ Watching \/ BeginClose \/ Closing

\* A thread of the process that can take a step is scheduled, and host commands
\* and exchanges are bounded by their contexts.  A poll that goes on ends at the
\* completion deadline.  Nothing is assumed of the helper or the containers.
Fairness ==
    /\ \A r \in Registrars : WF_vars(Registrar(r))
    /\ \A c \in Callers : WF_vars(Caller(c)) /\ SF_vars(PollExpires(c))
    /\ WF_vars(Receiving) /\ WF_vars(Watching) /\ WF_vars(Closing)

Spec == Init /\ [][Next]_vars /\ Fairness

--------------------------------------------------------------------------------
(* Properties. *)

\* From ARM to its resolution a call keeps its session: no teardown, by any
\* thread, erases an admission whose command may be running
\* (forgetObserverSession waits behind the lifecycle gate).
AdmissionNotErased ==
    \A c \in Callers : pc[c] \in {"send", "receive", "run", "poll"} =>
        Usable(Target[c]) /\ Target[c] \notin closed

\* A control peer serves one request at a time, so that an acknowledgement
\* belongs to the one outstanding (observerControlPeer.exchangeAck), and keeps
\* nothing of a call that has returned: its admission is gone, unless the call
\* says that it could not stop the helper (ambiguousDirectExecAdmission).
PeerServesOneCall ==
    /\ \A a, b \in Agents :
          /\ pc[a] \in {"register", "receive", "invalidate"}
          /\ pc[b] \in {"register", "receive", "invalidate"}
          /\ Target[a] = Target[b]
          => a = b
    /\ \A c \in Callers :
          pc[c] = "done" /\ helper = "up" /\ result[c] # "unconfirmed" => slot[c] = "absent"

\* A command reported as ended was seen by the observer, and one reported as
\* never started is not seen later (finalizeDirectExecAdmission).
ReportIsTrue ==
    \A c \in Callers :
        /\ result[c] \in {"succeeded", "failed"} => c \in consumed
        /\ result[c] = "notStarted" => c \notin consumed

\* A failed or closed observer leaves no session behind: each one still in the
\* registry is told to end, or its registrar has yet to try to publish it.
NoSessionOutlivesObserver ==
    down # {} => \A s \in registry :
        s \in teardown \/ \E r \in Registrars : Target[r] = s /\ pc[r] = "publish"

\* A thread that holds a lease while it waits for another, as a fail-stop tearing
\* down every session does, waits for somebody who waits for no lease himself:
\* two calls that fail together cannot wait for each other
\* (terminalCleanupOwned and alreadyStopped).
NoWaitingCircle ==
    \A a \in Agents : wait[a] # Nobody =>
        LET holder == gate[wait[a]] IN holder # a /\ (holder # Nobody => wait[holder] = Nobody)

\* No call and no registration waits for ever: neither for a lease, nor in a
\* fail-stop that tears down the session it holds itself.
EveryCallReturns == <>[](\A a \in Agents : pc[a] \in {"idle", "done"})

\* Every session a teardown has taken over is eventually forgotten, by the
\* receiver, the watcher, the closing supervisor or a fail-stop.
TeardownCompletes == <>[](\A t \in Threads : batch[t] = {})
================================================================================
