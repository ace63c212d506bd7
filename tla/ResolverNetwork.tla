---------------------------- MODULE ResolverNetwork ----------------------------
(***************************************************************************)
(* The network of a disposable resolver container.  A resolver run creates *)
(* a labelled Docker bridge, has the privileged policy service attach a    *)
(* default-deny chain for the bridge's subnet, and only then creates and   *)
(* starts the container, observed; at the end it removes the container,    *)
(* reads the trace to its end and removes policy and bridge (NPMResolver,  *)
(* PyPIResolver, IsolatedGoModuleRunner, IsolatedCargoRunner,              *)
(* ResolverNetworkPolicy, networkpolicy.Client and Server, PolicyEngine).  *)
(* Go and Cargo then put the selected controls in their workspace.         *)
(*                                                                         *)
(* Several runs, of several helox processes, share one service, one        *)
(* firewall and one Docker daemon, which gives the subnet of a removed     *)
(* network to the next one.  Every Docker and firewall command may fail,   *)
(* a Docker command also after it took effect; a client stops waiting for  *)
(* the service after five seconds while its request is still served; the   *)
(* service may be restarted, which empties its table but not the firewall. *)
(***************************************************************************)
EXTENDS Naturals, Sequences, FiniteSets

CONSTANTS Runs,      \* resolver runs, each with a session of its own
          Subnets,   \* the subnets Docker hands out
          Tools,     \* which resolver each run may be: functions on Runs
          None

\* The resolvers, each as what follows the start of its container.  "ready"
\* waits for the boundary helper and the mount anchors and asks the tool for
\* its version.  The first failure leads to the removal of the container; the
\* removal and Close are deferred and always happen.
NPMResolver ==
    <<"ready", "inputs", "command", "readBack", "removeContainer", "close">>
PyPIResolver ==
    <<"ready", "inputs", "command", "readBack", "cross-check",
      "removeContainer", "close">>

\* These two write the selected controls, in this order, if nothing failed.
IsolatedGoModuleRunner ==
    <<"ready", "configure", "inputs", "command", "readBack",
      "removeContainer", "close", "go.mod", "go.sum">>
IsolatedCargoRunner ==
    <<"ready", "inputs", "verifySource", "command", "readBack",
      "removeContainer", "close", "Cargo.toml", "Cargo.lock">>

Resolvers == [npm |-> NPMResolver, pypi |-> PyPIResolver,
              go |-> IsolatedGoModuleRunner, cargo |-> IsolatedCargoRunner]

\* What is run in the container, or about what it returned.
Commands == {"ready", "configure", "inputs", "verifySource", "command",
             "readBack", "cross-check"}
Controls == {"go.mod", "go.sum", "Cargo.toml", "Cargo.lock"}

ASSUME ToolAssumption == \A t \in Tools : t \in [Runs -> DOMAIN Resolvers]

Operations == {"create", "verify", "remove"}
Requests == Runs \X Operations

ASSUME NoneAssumption == None \notin Runs \cup Subnets \cup Requests

VARIABLES
    tool,       \* which resolver a run is
    networks,   \* runs whose Docker network exists
    subnet,     \* the subnet a run's network got
    container,  \* the run's container
    stuck,      \* runs whose container could not be removed
    backend,    \* the firewall: iptables or nftables
    chain,      \* the rules of a run's own chain or table
    jumps,      \* runs whose chain is attached to DOCKER-USER, the first rule first
    records,    \* PolicyEngine.sessions
    requests,   \* requests sent to the service and not yet served
    turn,       \* the request whose handler holds PolicyEngine.mu
    step,       \* how far that handler is
    reply,      \* the answer on the run's open connection
    trace,      \* the observation of the run's container
    stored,     \* selected controls in the run's workspace
    pc,         \* where a run is
    failed      \* runs that met an error

docker == <<networks, subnet, container, stuck>>
firewall == <<chain, jumps>>
service == <<records, turn, step>>
wire == <<requests, reply>>
observed == <<trace, stored>>
client == <<tool, observed, pc, failed>>
vars == <<docker, backend, firewall, service, wire, client>>

Init ==
    /\ tool \in Tools
    /\ trace = [r \in Runs |-> "none"] /\ stored = [r \in Runs |-> {}]
    /\ networks = {} /\ subnet = [r \in Runs |-> None]
    /\ container = [r \in Runs |-> "none"] /\ stuck = {}
    /\ backend \in {"iptables", "nftables"}
    /\ chain = [r \in Runs |-> {}] /\ jumps = <<>>
    /\ records = {} /\ requests = {} /\ turn = None /\ step = "idle"
    /\ reply = [r \in Runs |-> "none"]
    /\ pc = [r \in Runs |-> "idle"] /\ failed = {}

Attached == {jumps[i] : i \in DOMAIN jumps}

--------------------------------------------------------------------------------
(* A resolver run. *)

Goto(r, l) == pc' = [pc EXCEPT ![r] = l]

\* The error is returned in the end, whatever the cleanup does.
Fail(r) == failed' = failed \cup {r}

\* A Docker command that is expected to leave D: it does so and succeeds, or it
\* fails with or without having done so.
Command(r, D, next, onError) ==
    \/ D /\ Goto(r, next) /\ UNCHANGED failed
    \/ (D \/ UNCHANGED docker) /\ Goto(r, onError) /\ Fail(r)

\* client.call: one request on a connection of its own.
Request(r, op) ==
    /\ requests' = requests \cup {<<r, op>>}
    /\ reply' = [reply EXCEPT ![r] = "none"]
    /\ Goto(r, op)

\* Docker assigns a subnet no network uses.
CreatedNetwork(r) ==
    \E n \in Subnets \ {subnet[q] : q \in networks} :
        /\ networks' = networks \cup {r}
        /\ subnet' = [subnet EXCEPT ![r] = n]
        /\ UNCHANGED <<container, stuck>>

CreateNetwork(r) ==
    /\ pc[r] = "idle"
    /\ Command(r, CreatedNetwork(r), "inspect", "done")
    /\ UNCHANGED <<backend, firewall, service, wire, tool, observed>>

InspectNetwork(r) ==
    /\ pc[r] = "inspect"
    /\ \/ Request(r, "create") /\ UNCHANGED failed
       \/ Goto(r, "dropNetwork") /\ Fail(r) /\ UNCHANGED wire
    /\ UNCHANGED <<docker, backend, firewall, service, tool, observed>>

\* Mutant: a client without a deadline.
AnsweredOnly(r, op, answer) == pc[r] = op /\ reply[r] = answer

\* An answer; none within the deadline counts as a rejection.
Answered(r, op, answer) ==
    /\ pc[r] = op
    /\ \/ answer = "ok" /\ reply[r] = "ok"
       \/ answer = "rejected"

PolicyCreated(r) ==
    /\ \/ /\ Answered(r, "create", "ok")
          /\ Request(r, "verify") /\ UNCHANGED failed
       \/ /\ Answered(r, "create", "rejected")
          /\ Goto(r, "dropNetwork") /\ Fail(r) /\ UNCHANGED wire
    /\ UNCHANGED <<docker, backend, firewall, service, tool, observed>>

\* An unverified policy is removed again.
PolicyVerified(r) ==
    /\ \/ /\ Answered(r, "verify", "ok")
          /\ Goto(r, "prepared") /\ UNCHANGED <<failed, wire>>
       \/ /\ Answered(r, "verify", "rejected")
          /\ Request(r, "remove") /\ Fail(r)
    /\ UNCHANGED <<docker, backend, firewall, service, tool, observed>>

\* Docker refuses to remove a network with a running container.
RemovedNetwork(r) ==
    /\ container[r] # "running"
    /\ networks' = networks \ {r}
    /\ UNCHANGED <<subnet, container, stuck>>

Steps(r) == Resolvers[tool[r]]
ControlsOf(r) == {Steps(r)[i] : i \in DOMAIN Steps(r)} \cap Controls

\* The step after this one.
After(r, l) ==
    LET i == CHOOSE i \in DOMAIN Steps(r) : Steps(r)[i] = l
    IN  IF i = Len(Steps(r)) THEN "done" ELSE Steps(r)[i + 1]

\* What is left to do once everything of the run is gone.
AfterCleanup(r) == IF r \in failed THEN "done" ELSE After(r, "close")

\* removeCreatedNetwork
DropNetwork(r) ==
    /\ pc[r] = "dropNetwork"
    /\ Command(r, RemovedNetwork(r), AfterCleanup(r), "done")
    /\ UNCHANGED <<backend, firewall, service, wire, tool, observed>>

Container(r, state) ==
    /\ container' = [container EXCEPT ![r] = state]
    /\ UNCHANGED <<networks, subnet, stuck>>

\* Without the container's ID there is nothing the cleanup could remove.
CreateContainer(r) ==
    /\ pc[r] = "prepared"
    /\ Command(r, Container(r, "created"), "start", "close")
    /\ UNCHANGED <<backend, firewall, service, wire, tool, observed>>

\* startTrace, then docker start
StartContainer(r) ==
    /\ pc[r] = "start"
    /\ \/ /\ Command(r, Container(r, "running"), Head(Steps(r)), "removeContainer")
          /\ trace' = [trace EXCEPT ![r] = "live"]
       \/ Goto(r, "removeContainer") /\ Fail(r) /\ UNCHANGED <<docker, trace>>
    /\ UNCHANGED <<backend, firewall, service, wire, tool, stored>>

\* A command in the container, under its deadline, and the check of what it
\* returned: a wrong version, an input that was not taken, a changed source, a
\* result beyond its bounds or one that does not parse ends the run.
Resolve(r) ==
    /\ pc[r] \in Commands
    /\ \/ Goto(r, After(r, pc[r])) /\ UNCHANGED failed
       \/ Goto(r, "removeContainer") /\ Fail(r)
    /\ UNCHANGED <<docker, backend, firewall, service, wire, tool, observed>>

\* collectTraceDiagnostic: the events up to the end of the session, some of
\* them perhaps outside the boundary of the container, or a limitation.
Collected == {"clean", "crossed", "limited"}

\* Go and Cargo refuse a container that crossed its boundary; for npm and PyPI
\* it is enough that the trace is complete.
Acceptable(r, t) ==
    t = "clean" \/ (t = "crossed" /\ ControlsOf(r) = {})

\* docker rm --force and the end of the trace: both are attempted.  The trace
\* of a run that fails is only part of its error.
RemoveContainer(r) ==
    /\ pc[r] = "removeContainer"
    /\ Goto(r, "close")
    /\ \/ /\ Container(r, "gone")
          /\ r \notin failed /\ trace[r] = "live"
          /\ \E t \in Collected :
                Acceptable(r, t) /\ trace' = [trace EXCEPT ![r] = t]
          /\ UNCHANGED failed
       \/ /\ \/ Container(r, "gone")
             \/ stuck' = stuck \cup {r} /\ UNCHANGED <<networks, subnet, container>>
          /\ trace' = [trace EXCEPT ![r] = "inError"]
          /\ Fail(r)
    /\ UNCHANGED <<backend, firewall, service, wire, tool, stored>>

\* storeGoResolverControls, storeCargoResolverControls: control by control,
\* into files that are still the ones read before.
StoreControl(r) ==
    /\ pc[r] \in Controls
    /\ stored' = [stored EXCEPT ![r] = @ \cup {pc[r]}]
    /\ Goto(r, After(r, pc[r]))
    /\ UNCHANGED <<docker, backend, firewall, service, wire, tool, trace, failed>>

\* A changed file or a failing write: the controls before it stay stored.
StoreFails(r) ==
    /\ pc[r] \in Controls
    /\ Goto(r, "done") /\ Fail(r)
    /\ UNCHANGED <<docker, backend, firewall, service, wire, tool, observed>>

\* ResolverNetworkPolicy.Close is deferred: it is called whatever happened.
Close(r) ==
    /\ pc[r] = "close"
    /\ Request(r, "remove")
    /\ UNCHANGED <<docker, backend, firewall, service, tool, observed, failed>>

PolicyRemoved(r) ==
    /\ \E answer \in {"ok", "rejected"} :
          /\ Answered(r, "remove", answer)
          /\ failed' = IF answer = "ok" THEN failed ELSE failed \cup {r}
    /\ Goto(r, "dropNetwork")
    /\ UNCHANGED <<docker, backend, firewall, service, wire, tool, observed>>

\* The helox process dies; the service still serves what it sent.
Kill(r) ==
    /\ pc[r] \notin {"idle", "done", "dead"}
    /\ Goto(r, "dead")
    /\ UNCHANGED <<docker, backend, firewall, service, wire, tool, observed, failed>>

--------------------------------------------------------------------------------
(* The policy service: one handler per connection, serialised by the mutex. *)

Serving(r, op) == turn = <<r, op>>

Continue(s) == step' = s /\ UNCHANGED <<records, turn, wire>>

\* The handler ends: the mutex is free, and the client is told if it still waits.
Finish(r, op, answer) ==
    /\ turn' = None /\ step' = "idle"
    /\ reply' = IF pc[r] = op THEN [reply EXCEPT ![r] = answer] ELSE reply
    /\ UNCHANGED requests

Take ==
    /\ turn = None
    /\ \E request \in requests :
          turn' = request /\ requests' = requests \ {request}
    /\ step' = "check"
    /\ UNCHANGED <<docker, backend, firewall, records, reply, client>>

\* verifyNetwork: the labelled network of this session, with no container on it.
NetworkIdentified(r) == r \in networks /\ container[r] # "running"

\* CreateForPeer up to detectBackend; every command may fail.
CheckCreate(r) ==
    /\ Serving(r, "create") /\ step = "check"
    /\ \/ r \notin records /\ NetworkIdentified(r) /\ Continue("newChain")
       \/ Finish(r, "create", "rejected") /\ UNCHANGED records
    /\ UNCHANGED <<docker, backend, firewall, client>>

\* apply, rule by rule.
NewChain(r) ==
    /\ step = "newChain"
    /\ chain' = [chain EXCEPT ![r] = {"exists"}]
    /\ UNCHANGED jumps
    /\ Continue("attach")

\* Mutant: the new rule comes last.
AttachLast(r) ==
    /\ step = "attach"
    /\ jumps' = Append(jumps, r)
    /\ UNCHANGED chain
    /\ Continue("allow")

\* -I DOCKER-USER 1: the new rule comes first.
Attach(r) ==
    /\ step = "attach"
    /\ jumps' = <<r>> \o jumps
    /\ UNCHANGED chain
    /\ Continue("allow")

Allow(r) ==
    /\ step = "allow"
    /\ chain' = [chain EXCEPT ![r] = @ \cup {"allow"}]
    /\ UNCHANGED jumps
    /\ Continue("deny")

Deny(r) ==
    /\ step = "deny"
    /\ chain' = [chain EXCEPT ![r] = @ \cup {"deny"}]
    /\ UNCHANGED jumps
    /\ Continue("verify")

\* verify looks for the jump and the chain.
Record(r) ==
    /\ step = "verify" /\ r \in Attached /\ chain[r] # {}
    /\ records' = records \cup {r}
    /\ Finish(r, "create", "ok")
    /\ UNCHANGED firewall

\* A failed command of apply or verify: what was done is removed again.
ApplyFails ==
    /\ step \in {"newChain", "attach", "allow", "deny", "verify"}
    /\ Continue("detach")
    /\ UNCHANGED firewall

Apply(r) ==
    /\ Serving(r, "create")
    /\ NewChain(r) \/ Attach(r) \/ Allow(r) \/ Deny(r) \/ Record(r) \/ ApplyFails
    /\ UNCHANGED <<docker, backend, client>>

VerifyForPeer(r) ==
    /\ Serving(r, "verify") /\ step = "check"
    /\ \/ /\ r \in records /\ NetworkIdentified(r) /\ r \in Attached /\ chain[r] # {}
          /\ Finish(r, "verify", "ok")
       \/ Finish(r, "verify", "rejected")
    /\ UNCHANGED <<docker, backend, firewall, records, client>>

CheckRemove(r) ==
    /\ Serving(r, "remove") /\ step = "check"
    /\ \/ r \in records /\ Continue("detach")
       \/ r \notin records /\ Finish(r, "remove", "rejected") /\ UNCHANGED records
    /\ UNCHANGED <<docker, backend, firewall, client>>

\* The rules without the first one of r.
DropsJump(r) ==
    \E k \in DOMAIN jumps :
        /\ jumps[k] = r /\ \A j \in 1..(k - 1) : jumps[j] # r
        /\ jumps' = [i \in 1..(Len(jumps) - 1) |-> IF i < k THEN jumps[i] ELSE jumps[i + 1]]

\* remove: the jump (-D takes the first match), the rules and the chain, or the
\* whole table at once.
Detach(r) ==
    /\ step = "detach" /\ backend = "iptables"
    /\ DropsJump(r)
    /\ UNCHANGED chain
    /\ Continue("flush")

Flush(r) ==
    /\ step = "flush" /\ chain[r] # {}
    /\ chain' = [chain EXCEPT ![r] = {"exists"}]
    /\ UNCHANGED jumps
    /\ Continue("delete")

Removed(r, op) ==
    /\ records' = records \ {r}
    /\ Finish(r, op, IF op = "remove" THEN "ok" ELSE "rejected")

Delete(r, op) ==
    /\ step = "delete"
    /\ chain' = [chain EXCEPT ![r] = {}]
    /\ UNCHANGED jumps
    /\ Removed(r, op)

DeleteTable(r, op) ==
    /\ step = "detach" /\ backend = "nftables" /\ chain[r] # {}
    /\ chain' = [chain EXCEPT ![r] = {}]
    /\ DropsJump(r) \/ (r \notin Attached /\ UNCHANGED jumps)
    /\ Removed(r, op)

\* Mutant: a removal that ended half way is confirmed.
RemoveFailsQuietly(r, op) ==
    /\ step \in {"detach", "flush", "delete"}
    /\ Finish(r, op, "ok")
    /\ UNCHANGED <<firewall, records>>

\* A failed command ends the removal there; a session in the table stays in it.
RemoveFails(r, op) ==
    /\ step \in {"detach", "flush", "delete"}
    /\ Finish(r, op, "rejected")
    /\ UNCHANGED <<firewall, records>>

Remove(r, op) ==
    /\ Serving(r, op)
    /\ Detach(r) \/ Flush(r) \/ Delete(r, op) \/ DeleteTable(r, op) \/ RemoveFails(r, op)
    /\ UNCHANGED <<docker, backend, client>>

\* The service is restarted: connections, table and mutex are gone.
Restart ==
    /\ records' = {} /\ requests' = {} /\ turn' = None /\ step' = "idle"
    /\ reply' = [r \in Runs |-> IF pc[r] \in Operations THEN "rejected" ELSE reply[r]]
    /\ UNCHANGED <<docker, backend, firewall, client>>

--------------------------------------------------------------------------------
Run(r) ==
    \/ CreateNetwork(r) \/ InspectNetwork(r) \/ PolicyCreated(r) \/ PolicyVerified(r)
    \/ DropNetwork(r) \/ CreateContainer(r) \/ StartContainer(r)
    \/ Resolve(r) \/ RemoveContainer(r) \/ Close(r) \/ PolicyRemoved(r)
    \/ StoreControl(r)
    \/ StoreFails(r)

Serve(r) ==
    \/ CheckCreate(r) \/ Apply(r) \/ VerifyForPeer(r) \/ CheckRemove(r)
    \/ \E op \in {"create", "remove"} : Remove(r, op)

Next ==
    \/ \E r \in Runs : Run(r) \/ Kill(r) \/ Serve(r)
    \/ Take \/ Restart

\* A run goes on: its commands and requests have deadlines.  Nothing is assumed
\* of the service.
Spec == Init /\ [][Next]_vars /\ \A r \in Runs : WF_vars(Run(r))

--------------------------------------------------------------------------------
(* Properties. *)

\* The first rule that matches the run's subnet is its own, and ends in a deny;
\* nftables consults every table, so that there the order does not matter.
Confined(r) ==
    /\ "deny" \in chain[r]
    /\ \E i \in DOMAIN jumps :
          /\ jumps[i] = r
          /\ backend = "iptables" => \A j \in 1..(i - 1) : subnet[jumps[j]] # subnet[r]

\* A container runs behind the complete policy of its own session until it was
\* asked to go, whatever policies earlier runs left for the same subnet, and
\* even if the service is restarted (PolicyEngine.apply, Prepare).
ConfinedUntilRemoval ==
    \A r \in Runs : container[r] = "running" /\ r \notin stuck => Confined(r)

Clean(r) ==
    /\ container[r] = "gone" /\ r \notin networks
    /\ chain[r] = {} /\ r \notin Attached /\ r \notin records

\* A run that reports success, or that has stored the first of its selected
\* controls, has left nothing behind: container, network, chain, jump and
\* table entry are gone (Close: uncertainty is an error), its container was
\* observed to the end, and a Go or Cargo container never crossed its
\* boundary.  A success stored every control.
SuccessIsClean ==
    \A r \in Runs :
        LET success == pc[r] = "done" /\ r \notin failed
        IN  /\ success \/ stored[r] # {} => Clean(r) /\ Acceptable(r, trace[r])
            /\ success => stored[r] = ControlsOf(r)

\* No run waits for ever for the service.
EveryRunEnds == \A r \in Runs : pc[r] = "inspect" ~> pc[r] \in {"done", "dead"}
================================================================================
