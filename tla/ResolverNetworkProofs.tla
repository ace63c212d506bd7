------------------------ MODULE ResolverNetworkProofs ------------------------
(***************************************************************************)
(* Machine-checked proofs about ResolverNetwork, for any number of runs    *)
(* and of subnets: a container runs behind its own complete policy until   *)
(* it is removed, and a run that reports success or has stored a control   *)
(* left nothing behind.                                                    *)
(***************************************************************************)
EXTENDS ResolverNetwork, TLAPS

--------------------------------------------------------------------------------
(* The inductive invariant *)

Beginning == {"idle", "inspect"}
Working   == Commands \cup {"verify", "prepared", "start", "removeContainer"}
Cleaned   == {"done"} \cup Controls
Ending    == {"close", "remove", "dropNetwork"} \cup Cleaned
Labels    == Beginning \cup {"create"} \cup Working \cup Ending \cup {"dead"}

TypeOK ==
    /\ tool \in [Runs -> DOMAIN Resolvers]
    /\ networks \subseteq Runs /\ subnet \in [Runs -> Subnets \cup {None}]
    /\ container \in [Runs -> {"none", "created", "running", "gone"}] /\ stuck \subseteq Runs
    /\ backend \in {"iptables", "nftables"}
    /\ chain \in [Runs -> SUBSET {"exists", "allow", "deny"}] /\ jumps \in Seq(Runs)
    /\ records \subseteq Runs /\ requests \subseteq Requests /\ turn \in Requests \cup {None}
    /\ step \in {"idle", "check", "newChain", "attach", "allow", "deny", "verify",
                 "detach", "flush", "delete"}
    /\ reply \in [Runs -> {"none", "ok", "rejected"}]
    /\ trace \in [Runs -> Collected \cup {"none", "live", "inError"}]
    /\ stored \in [Runs -> SUBSET Controls]
    /\ pc \in [Runs -> Labels] /\ failed \subseteq Runs

\* A request that is sent and not answered.
Out(r, op) == <<r, op>> \in requests \/ turn = <<r, op>>

\* No request that would change the policy of r is under way.
Still(r) == ~Out(r, "create") /\ ~Out(r, "remove")

\* A run sends each request once, in this order, and forgets the answer to the
\* one before it.
Outstanding(r) ==
    /\ pc[r] \in Beginning => ~Out(r, "verify") /\ Still(r)
    /\ pc[r] = "create" => ~Out(r, "verify") /\ ~Out(r, "remove")
    /\ pc[r] \in Working \cup {"close"} => Still(r)
    /\ pc[r] = "remove" => ~Out(r, "create")
    /\ ~(Out(r, "create") /\ Out(r, "remove"))
    /\ \A op \in Operations : pc[r] = op /\ Out(r, op) => reply[r] # "ok"

\* What the handler at work has done so far.
Handler(r) ==
    /\ \/ pc[r] \in Beginning \/ <<r, "create">> \in requests
       \/ turn = <<r, "create">> /\ step \in {"check", "newChain"}
       => chain[r] = {} /\ r \notin Attached
    /\ turn = <<r, "create">> =>
          /\ step = "attach" => r \notin Attached
          /\ step \in {"allow", "deny", "verify"} => r \in Attached
          /\ step = "verify" => "deny" \in chain[r]
    /\ turn \in {<<r, "create">>, <<r, "remove">>} /\ step \in {"flush", "delete"} =>
          r \notin Attached

\* A network is there while it is needed.
Networked(r) ==
    pc[r] \in Working \cup {"inspect", "create"} \/ container[r] = "running" => r \in networks

\* From the answer to the creation until the removal is asked for, the policy
\* of a run is complete and nobody is about to change it.
Sealed(r) == "deny" \in chain[r] /\ r \in Attached
Unremoved(r) == container[r] = "running" /\ r \notin stuck
Sealing(r) ==
    /\ \/ pc[r] \in Working \/ (pc[r] = "create" /\ reply[r] = "ok") \/ Unremoved(r)
       => Sealed(r) /\ Still(r)
    /\ Unremoved(r) => pc[r] \in Commands \cup {"removeContainer", "dead"}

\* Without an error every step of the cleanup has done what it is for.
Purged(r) == chain[r] = {} /\ r \notin Attached /\ r \notin records
Observed(r) == container[r] = "gone" /\ Acceptable(r, trace[r])
Cleaning(r) ==
    /\ pc[r] = "remove" /\ reply[r] = "ok" => Purged(r) /\ ~Out(r, "remove")
    /\ pc[r] \in Ending /\ r \notin failed => Observed(r)
    /\ pc[r] \in Cleaned \cup {"dropNetwork"} /\ r \notin failed => Purged(r) /\ Still(r)
    /\ pc[r] \in Cleaned /\ r \notin failed => r \notin networks
    /\ pc[r] \in Controls => r \notin failed

\* The steps a run takes are those of its resolver; the controls are stored
\* last, in their order.
Takes(r, l) == \E i \in DOMAIN Steps(r) : Steps(r)[i] = l
Storing(r) ==
    /\ pc[r] \in Commands \cup Controls => Takes(r, pc[r])
    /\ pc[r] \in {"go.mod", "Cargo.toml"} => stored[r] = {}
    /\ pc[r] = "go.sum" => stored[r] = {"go.mod"}
    /\ pc[r] = "Cargo.lock" => stored[r] = {"Cargo.toml"}
    /\ pc[r] = "done" /\ r \notin failed => stored[r] = ControlsOf(r)
    /\ pc[r] \notin Cleaned \cup {"dead"} => stored[r] = {}
    /\ stored[r] # {} => Clean(r) /\ Observed(r) /\ Still(r)

RunInv(r) ==
    /\ Outstanding(r) /\ Handler(r) /\ Networked(r)
    /\ Sealing(r) /\ Cleaning(r) /\ Storing(r)

\* Nobody's rule stands before the rule of a network with the same subnet.
Order ==
    /\ \A q, r \in networks : subnet[q] = subnet[r] => q = r
    /\ \A i, j \in DOMAIN jumps : jumps[i] = jumps[j] => i = j
    /\ \A i \in DOMAIN jumps : jumps[i] \in networks =>
          \A j \in 1..(i - 1) : subnet[jumps[j]] # subnet[jumps[i]]
    /\ \A r \in Runs :
          turn = <<r, "create">> /\ step \in {"newChain", "attach"} =>
              \A q \in networks \cap Attached : subnet[q] # subnet[r]

IInv == TypeOK /\ turn \notin requests /\ Order /\ \A r \in Runs : RunInv(r)

--------------------------------------------------------------------------------
(* The order of the steps *)

LEMMA StepsOf ==
    ASSUME NEW r \in Runs, tool[r] \in DOMAIN Resolvers
    PROVE  /\ Head(Steps(r)) = "ready" /\ Takes(r, "ready")
           /\ \A l \in Commands : Takes(r, l) =>
                 /\ After(r, l) \in Commands \cup {"removeContainer"}
                 /\ Takes(r, After(r, l))
           /\ After(r, "close") \in {"done", "go.mod", "Cargo.toml"}
           /\ After(r, "close") = "done" => ControlsOf(r) = {}
           /\ After(r, "close") # "done" => Takes(r, After(r, "close"))
           /\ Takes(r, "go.mod") => After(r, "go.mod") = "go.sum" /\ Takes(r, "go.sum")
           /\ Takes(r, "go.sum") => After(r, "go.sum") = "done" /\ ControlsOf(r) = {"go.mod", "go.sum"}
           /\ Takes(r, "Cargo.toml") => After(r, "Cargo.toml") = "Cargo.lock" /\ Takes(r, "Cargo.lock")
           /\ Takes(r, "Cargo.lock") =>
                 After(r, "Cargo.lock") = "done" /\ ControlsOf(r) = {"Cargo.toml", "Cargo.lock"}
  <1> DEFINE S == Steps(r)
             at(l) == CHOOSE i \in DOMAIN S : S[i] = l
  <1>1. \A l : Takes(r, l) => at(l) \in DOMAIN S /\ S[at(l)] = l
    BY DEF Takes
  <1>2. \A l : After(r, l) = IF at(l) = Len(S) THEN "done" ELSE S[at(l) + 1]
    BY DEF After
  <1>3. \A l : Takes(r, l) <=> \E i \in DOMAIN S : S[i] = l
    BY DEF Takes
  <1>4. ControlsOf(r) = {S[i] : i \in DOMAIN S} \cap Controls
    BY DEF ControlsOf
  <1> HIDE DEF at
  <1>5. CASE tool[r] = "npm"
    <2>1. S = NPMResolver
      BY <1>5 DEF Steps, Resolvers
    <2> QED BY <1>1, <1>2, <1>3, <1>4, <2>1 DEF NPMResolver, Commands, Controls
  <1>6. CASE tool[r] = "pypi"
    <2>1. S = PyPIResolver
      BY <1>6 DEF Steps, Resolvers
    <2> QED BY <1>1, <1>2, <1>3, <1>4, <2>1 DEF PyPIResolver, Commands, Controls
  <1>7. CASE tool[r] = "go"
    <2>1. S = IsolatedGoModuleRunner
      BY <1>7 DEF Steps, Resolvers
    <2> QED BY <1>1, <1>2, <1>3, <1>4, <2>1 DEF IsolatedGoModuleRunner, Commands, Controls
  <1>8. CASE tool[r] = "cargo"
    <2>1. S = IsolatedCargoRunner
      BY <1>8 DEF Steps, Resolvers
    <2> QED BY <1>1, <1>2, <1>3, <1>4, <2>1 DEF IsolatedCargoRunner, Commands, Controls
  <1> QED BY <1>5, <1>6, <1>7, <1>8 DEF Resolvers

--------------------------------------------------------------------------------
(* A step of one run leaves the others alone *)

\* Nothing the invariant says of q has changed.
Same(q) ==
    /\ UNCHANGED <<tool[q], pc[q], reply[q], chain[q], container[q], trace[q], stored[q]>>
    /\ q \in failed' <=> q \in failed
    /\ q \in stuck' <=> q \in stuck
    /\ q \in records' <=> q \in records
    /\ q \in networks' <=> q \in networks
    /\ q \in Attached' <=> q \in Attached
    /\ \A op \in Operations :
          /\ <<q, op>> \in requests' <=> <<q, op>> \in requests
          /\ turn' = <<q, op>> <=> turn = <<q, op>>
          /\ turn = <<q, op>> => step' = step

LEMMA SameRun ==
    ASSUME NEW q \in Runs, Same(q), RunInv(q)
    PROVE  RunInv(q)'
  <1> USE DEF Same
  <1>1. \A op \in Operations : Out(q, op)' <=> Out(q, op)
    BY DEF Out
  <1>2. Still(q)' <=> Still(q)
    BY <1>1 DEF Still, Operations
  <1>3. Steps(q)' = Steps(q) /\ ControlsOf(q)' = ControlsOf(q)
    BY DEF Steps, ControlsOf
  <1>4. Outstanding(q)'
    BY <1>1, <1>2 DEF RunInv, Outstanding, Operations
  <1>5. Handler(q)'
    BY DEF RunInv, Handler, Operations
  <1>6. Networked(q)'
    BY DEF RunInv, Networked
  <1>7. Sealing(q)'
    BY <1>2 DEF RunInv, Sealing, Sealed, Unremoved
  <1>8. (Purged(q)' <=> Purged(q)) /\ (Observed(q)' <=> Observed(q)) /\ (Clean(q)' <=> Clean(q))
    BY <1>3 DEF Purged, Observed, Acceptable, Clean
  <1>9. Cleaning(q)'
    BY <1>1, <1>2, <1>8 DEF RunInv, Cleaning, Operations
  <1>10. \A l : Takes(q, l)' <=> Takes(q, l)
    BY <1>3 DEF Takes
  <1>11. Storing(q)'
    BY <1>2, <1>3, <1>8, <1>10 DEF RunInv, Storing
  <1> QED BY <1>4, <1>5, <1>6, <1>7, <1>9, <1>11 DEF RunInv

\* A step of run r that gives nobody a network.
ClientMove(r) ==
    /\ UNCHANGED <<tool, subnet, backend, chain, jumps, records, turn, step>>
    /\ pc' \in [Runs -> Labels] /\ reply' \in [Runs -> {"none", "ok", "rejected"}]
    /\ container' \in [Runs -> {"none", "created", "running", "gone"}]
    /\ trace' \in [Runs -> Collected \cup {"none", "live", "inError"}]
    /\ stored' \in [Runs -> SUBSET Controls]
    /\ networks' \in {networks, networks \ {r}}
    /\ stuck' \in {stuck, stuck \cup {r}} /\ failed' \in {failed, failed \cup {r}}
    /\ \A q \in Runs \ {r} :
          UNCHANGED <<pc[q], reply[q], container[q], trace[q], stored[q]>>
    /\ \/ requests' = requests
       \/ \E op \in Operations : ~Out(r, op) /\ requests' = requests \cup {<<r, op>>}

LEMMA ClientStep ==
    ASSUME IInv, NEW r \in Runs, ClientMove(r), RunInv(r)'
    PROVE  IInv'
  <1> USE DEF ClientMove
  <1>1. Attached' = Attached
    BY DEF Attached
  <1>2. ASSUME NEW q \in Runs \ {r} PROVE RunInv(q)'
    <2>1. \A op \in Operations : <<q, op>> \in requests' <=> <<q, op>> \in requests
      BY <1>2
    <2>2. Same(q)
      BY <1>1, <1>2, <2>1 DEF Same
    <2> QED BY <1>2, <2>2, SameRun DEF IInv
  <1>3. TypeOK'
    BY DEF IInv, TypeOK, Requests
  <1>4. turn' \notin requests'
    BY DEF IInv, Out
  <1>5. networks' \subseteq networks
    OBVIOUS
  <1>6. Order'
    BY <1>1, <1>5 DEF IInv, Order
  <1> QED BY <1>2, <1>3, <1>4, <1>6 DEF IInv

--------------------------------------------------------------------------------
(* The steps of a run *)

\* What a run at a given place knows of itself stays true of its requests and
\* of its policy while it does not send one.
LEMMA Silent ==
    ASSUME NEW r, requests' = requests, turn' = turn, chain' = chain, jumps' = jumps
    PROVE  /\ \A op : Out(r, op)' <=> Out(r, op)
           /\ Still(r)' <=> Still(r)
           /\ Sealed(r)' <=> Sealed(r)
           /\ Attached' = Attached
           /\ records' = records => (Purged(r)' <=> Purged(r))
  BY DEF Out, Still, Sealed, Attached, Purged

\* What is read off the resolver.
LEMMA SameTool ==
    ASSUME NEW r, tool' = tool
    PROVE  /\ Steps(r)' = Steps(r) /\ ControlsOf(r)' = ControlsOf(r)
           /\ \A l : (Takes(r, l)' <=> Takes(r, l)) /\ After(r, l)' = After(r, l)
           /\ \A t : Acceptable(r, t)' <=> Acceptable(r, t)
  BY DEF Steps, ControlsOf, Takes, After, Acceptable

\* A step of run r to l that sends no request.
QuietMove(r, l) ==
    /\ l \in Labels \ (Beginning \cup Operations)
    /\ pc' = [pc EXCEPT ![r] = l]
    /\ UNCHANGED <<tool, subnet, backend, chain, jumps, records, turn, step, requests, reply>>
    /\ container' \in [Runs -> {"none", "created", "running", "gone"}]
    /\ trace' \in [Runs -> Collected \cup {"none", "live", "inError"}]
    /\ stored' \in [Runs -> SUBSET Controls]
    /\ networks' \in {networks, networks \ {r}}
    /\ stuck' \in {stuck, stuck \cup {r}} /\ failed' \in {failed, failed \cup {r}}
    /\ \A q \in Runs \ {r} : UNCHANGED <<container[q], trace[q], stored[q]>>

LEMMA QuietStep ==
    ASSUME IInv, NEW r \in Runs, NEW l, QuietMove(r, l),
           l \in Working \cup {"close"} => Still(r),
           Networked(r)', Sealing(r)', Cleaning(r)', Storing(r)'
    PROVE  IInv'
  <1> USE DEF QuietMove
  <1>1. pc'[r] = l /\ \A q \in Runs \ {r} : pc'[q] = pc[q]
    BY DEF IInv, TypeOK
  <1>2. ClientMove(r)
    BY <1>1 DEF ClientMove, IInv, TypeOK
  <1>3. Outstanding(r)'
    BY <1>1, Silent DEF IInv, RunInv, Outstanding, Operations
  <1>4. Handler(r)'
    BY <1>1, Silent DEF IInv, RunInv, Handler
  <1> QED BY <1>2, <1>3, <1>4, ClientStep DEF RunInv

\* A run whose policy is complete goes on to l, a step of its own.
LEMMA WorkingStep ==
    ASSUME IInv, NEW r \in Runs, NEW l \in Commands \cup {"prepared", "start", "removeContainer"},
           pc[r] \in Working, QuietMove(r, l), stored' = stored,
           l \in Commands => Takes(r, l), networks' = networks,
           Unremoved(r)' => l \in Commands \cup {"removeContainer"}
    PROVE  IInv'
  <1> USE DEF QuietMove
  <1>1. Sealed(r) /\ Still(r) /\ r \in networks /\ stored[r] = {}
    BY DEF IInv, RunInv, Sealing, Networked, Storing, Working, Cleaned, Commands, Controls
  <1>2. pc'[r] = l /\ Sealed(r)' /\ Still(r)'
    BY <1>1, Silent DEF IInv, TypeOK
  <1>3. Networked(r)'
    BY <1>1, <1>2 DEF Networked
  <1>4. Sealing(r)'
    BY <1>2 DEF Sealing
  <1>5. Cleaning(r)'
    BY <1>2 DEF Cleaning, Ending, Cleaned, Controls, Commands
  <1>6. Storing(r)'
    BY <1>1, <1>2, SameTool DEF Storing, Cleaned, Controls, Commands
  <1> QED BY <1>1, <1>3, <1>4, <1>5, <1>6, QuietStep

\* A run that met an error goes on to l, with nothing stored and no container
\* it would have to answer for.
LEMMA ErrorStep ==
    ASSUME IInv, NEW r \in Runs, NEW l \in {"close", "dropNetwork", "done"},
           QuietMove(r, l), r \in failed', stored' = stored, stored[r] = {},
           l = "close" => Still(r),
           ~Unremoved(r)', container'[r] = "running" => r \in networks'
    PROVE  IInv'
  <1> USE DEF QuietMove
  <1>1. pc'[r] = l
    BY DEF IInv, TypeOK
  <1>2. Networked(r)' /\ Sealing(r)'
    BY <1>1 DEF Networked, Sealing, Working, Commands
  <1>3. Cleaning(r)'
    BY <1>1 DEF Cleaning, Controls
  <1>4. Storing(r)'
    BY <1>1 DEF Storing, Commands, Controls
  <1> QED BY <1>2, <1>3, <1>4, QuietStep DEF Working, Commands

LEMMA KillStep ==
    ASSUME IInv, NEW r \in Runs, Kill(r)
    PROVE  IInv'
  <1>1. QuietMove(r, "dead") /\ UNCHANGED <<container, stuck, networks, stored, trace, failed>>
    BY DEF Kill, Goto, docker, firewall, service, wire, observed, QuietMove, IInv, TypeOK,
           Labels, Beginning, Operations
  <1> USE DEF QuietMove
  <1>2. pc'[r] = "dead"
    BY <1>1 DEF IInv, TypeOK
  <1>3. Networked(r)'
    BY <1>1, <1>2 DEF IInv, RunInv, Networked, Working, Commands
  <1>4. Sealing(r)'
    BY <1>1, <1>2, Silent DEF IInv, RunInv, Sealing, Unremoved, Working, Commands
  <1>5. Cleaning(r)'
    BY <1>2 DEF Cleaning, Ending, Cleaned, Controls
  <1>6. Storing(r)'
    <2>1. (Clean(r)' <=> Clean(r)) /\ (Observed(r)' <=> Observed(r)) /\ (Still(r)' <=> Still(r))
      BY <1>1, Silent, SameTool DEF Clean, Observed
    <2> QED BY <1>1, <1>2, <2>1 DEF IInv, RunInv, Storing, Commands, Controls, Cleaned
  <1> QED BY <1>1, <1>3, <1>4, <1>5, <1>6, QuietStep DEF Working, Commands

\* A step that sends op: the answer of the last request is forgotten.
LEMMA RequestStep ==
    ASSUME IInv, NEW r \in Runs, NEW op \in Operations, Request(r, op),
           UNCHANGED <<tool, networks, subnet, container, stuck, backend, chain, jumps,
                       records, turn, step, trace, stored>>,
           failed' \in {failed, failed \cup {r}}, ~Out(r, op), ~Unremoved(r), stored[r] = {},
           op = "create" => Handler(r) /\ pc[r] \in Beginning,
           op # "create" => ~Out(r, "create"), op # "remove" => ~Out(r, "remove"),
           op = "create" => ~Out(r, "verify"),
           op = "verify" => Sealed(r), op # "remove" => r \in networks,
           op = "remove" /\ r \notin failed' => Observed(r),
           container[r] = "running" => r \in networks
    PROVE  IInv'
  <1>1. /\ pc' = [pc EXCEPT ![r] = op] /\ requests' = requests \cup {<<r, op>>}
        /\ reply' = [reply EXCEPT ![r] = "none"]
    BY DEF Request, Goto
  <1>2. pc'[r] = op /\ reply'[r] = "none"
    BY <1>1 DEF IInv, TypeOK
  <1>3. ClientMove(r)
    BY <1>1 DEF ClientMove, IInv, TypeOK, Labels, Operations, Working, Ending
  <1>4. /\ Attached' = Attached /\ (Sealed(r)' <=> Sealed(r)) /\ ~Unremoved(r)'
        /\ \A o \in Operations \ {op} : Out(r, o)' <=> Out(r, o)
    BY <1>1 DEF Attached, Sealed, Unremoved, Out
  <1>5. Outstanding(r)'
    BY <1>2, <1>4 DEF Outstanding, Operations, Still, Beginning, Working, Commands
  <1>6. Handler(r)'
    BY <1>1, <1>2, <1>4 DEF IInv, RunInv, Handler, Beginning, Operations
  <1>7. Networked(r)' /\ Sealing(r)'
    BY <1>2, <1>4 DEF Networked, Sealing, Operations, Working, Commands, Still
  <1>8. Cleaning(r)'
    BY <1>2, SameTool DEF Cleaning, Operations, Ending, Cleaned, Controls, Observed
  <1>9. Storing(r)'
    BY <1>2 DEF Storing, Operations, Commands, Controls
  <1> QED BY <1>3, <1>5, <1>6, <1>7, <1>8, <1>9, ClientStep DEF RunInv

LEMMA CreateNetworkStep ==
    ASSUME IInv, NEW r \in Runs, CreateNetwork(r)
    PROVE  IInv'
  <1>1. /\ pc[r] = "idle"
        /\ UNCHANGED <<tool, backend, chain, jumps, records, turn, step, requests, reply,
                       trace, stored>>
    BY DEF CreateNetwork, firewall, service, wire, observed
  <1>2. /\ stored[r] = {} /\ ~Unremoved(r) /\ (container[r] = "running" => r \in networks)
        /\ ~Out(r, "verify") /\ Still(r) /\ chain[r] = {} /\ r \notin Attached
    BY <1>1 DEF IInv, RunInv, Storing, Sealing, Networked, Outstanding, Handler, Beginning,
                Cleaned, Controls, Commands
  <1>3. CASE UNCHANGED docker /\ Goto(r, "done") /\ Fail(r)
    <2>1. UNCHANGED <<networks, subnet, container, stuck>> /\ r \in failed'
      BY <1>3 DEF docker, Fail
    <2>2. QuietMove(r, "done")
      BY <1>1, <1>3, <2>1
         DEF Goto, Fail, QuietMove, Labels, Ending, Cleaned, Beginning, Operations, IInv, TypeOK
    <2> QED BY <1>1, <1>2, <2>1, <2>2, ErrorStep DEF Unremoved
  <1>4. ASSUME CreatedNetwork(r), NEW l \in {"inspect", "done"}, Goto(r, l),
               failed' \in {failed, failed \cup {r}}, l = "done" => r \in failed'
        PROVE  IInv'
    <2>1. PICK n \in Subnets \ {subnet[q] : q \in networks} :
              /\ networks' = networks \cup {r}
              /\ subnet' = [subnet EXCEPT ![r] = n]
              /\ UNCHANGED <<container, stuck>>
      BY <1>4 DEF CreatedNetwork
    <2>2. /\ pc' = [pc EXCEPT ![r] = l] /\ pc'[r] = l
          /\ \A q \in Runs \ {r} : pc'[q] = pc[q] /\ subnet'[q] = subnet[q]
          /\ subnet'[r] = n
      BY <1>4, <2>1 DEF Goto, IInv, TypeOK
    <2>3. Attached' = Attached /\ (Still(r)' <=> Still(r)) /\ (Out(r, "verify")' <=> Out(r, "verify"))
      BY <1>1, Silent
    <2>4. ASSUME NEW q \in Runs \ {r} PROVE RunInv(q)'
      <3>1. Same(q)
        BY <1>1, <1>4, <2>1, <2>2, <2>3, <2>4 DEF Same
      <3> QED BY <2>4, <3>1, SameRun DEF IInv
    <2>5. Outstanding(r)' /\ Handler(r)'
      BY <1>1, <1>2, <2>2, <2>3
         DEF Outstanding, Handler, Still, Out, Beginning, Operations, Working, Commands
    <2>6. Networked(r)' /\ Sealing(r)'
      BY <1>2, <2>1, <2>2 DEF Networked, Sealing, Unremoved, Working, Commands
    <2>7. Cleaning(r)' /\ Storing(r)'
      BY <1>1, <1>2, <1>4, <2>2 DEF Cleaning, Storing, Ending, Cleaned, Controls, Commands
    <2>8. TypeOK'
      BY <1>1, <1>4, <2>1, <2>2 DEF IInv, TypeOK, Labels, Beginning, Ending, Cleaned
    <2>9. Order'
      <3>1. \A q, p \in networks' : subnet'[q] = subnet'[p] => q = p
        BY <2>1, <2>2 DEF IInv, Order, TypeOK
      <3>2. \A i \in DOMAIN jumps : jumps[i] \in Runs /\ jumps[i] # r
        BY <1>2 DEF IInv, TypeOK, Attached
      <3>3. \A i \in DOMAIN jumps : jumps'[i] \in networks' =>
                \A j \in 1..(i - 1) : subnet'[jumps'[j]] # subnet'[jumps'[i]]
        <4> SUFFICES ASSUME NEW i \in DOMAIN jumps, jumps[i] \in networks, NEW j \in 1..(i - 1)
                     PROVE  subnet'[jumps[j]] # subnet'[jumps[i]]
          BY <1>1, <2>1, <3>2
        <4>1. j \in DOMAIN jumps
          BY DEF IInv, TypeOK
        <4> QED BY <2>2, <3>2, <4>1 DEF IInv, Order
      <3>4. \A p \in Runs : turn' = <<p, "create">> /\ step' \in {"newChain", "attach"} =>
                \A q \in networks' \cap Attached' : subnet'[q] # subnet'[p]
        BY <1>1, <1>2, <2>1, <2>2, <2>3 DEF IInv, Order, Still, Out, TypeOK
      <3> QED BY <1>1, <3>1, <3>3, <3>4 DEF IInv, Order
    <2> QED BY <1>1, <2>4, <2>5, <2>6, <2>7, <2>8, <2>9 DEF IInv, RunInv
  <1> QED BY <1>3, <1>4 DEF CreateNetwork, Command, Fail

LEMMA InspectNetworkStep ==
    ASSUME IInv, NEW r \in Runs, InspectNetwork(r)
    PROVE  IInv'
  <1>1. /\ pc[r] = "inspect"
        /\ UNCHANGED <<tool, networks, subnet, container, stuck, backend, chain, jumps,
                       records, turn, step, trace, stored>>
    BY DEF InspectNetwork, docker, firewall, service, observed
  <1>2. /\ stored[r] = {} /\ ~Unremoved(r) /\ r \in networks
        /\ ~Out(r, "verify") /\ ~Out(r, "create") /\ ~Out(r, "remove") /\ Handler(r)
    BY <1>1 DEF IInv, RunInv, Storing, Sealing, Networked, Outstanding, Beginning, Still,
                Cleaned, Controls, Commands
  <1>3. CASE Request(r, "create") /\ UNCHANGED failed
    BY <1>1, <1>2, <1>3, RequestStep DEF Operations, Beginning
  <1>4. CASE Goto(r, "dropNetwork") /\ Fail(r) /\ UNCHANGED wire
    <2>1. QuietMove(r, "dropNetwork") /\ r \in failed'
      BY <1>1, <1>4
         DEF Goto, Fail, wire, QuietMove, Labels, Ending, Beginning, Operations, IInv, TypeOK
    <2> QED BY <1>1, <1>2, <2>1, ErrorStep DEF Unremoved
  <1> QED BY <1>3, <1>4 DEF InspectNetwork

LEMMA PolicyCreatedStep ==
    ASSUME IInv, NEW r \in Runs, PolicyCreated(r)
    PROVE  IInv'
  <1>1. /\ pc[r] = "create"
        /\ UNCHANGED <<tool, networks, subnet, container, stuck, backend, chain, jumps,
                       records, turn, step, trace, stored>>
    BY DEF PolicyCreated, Answered, docker, firewall, service, observed
  <1>2. /\ stored[r] = {} /\ ~Unremoved(r) /\ r \in networks /\ ~Out(r, "verify")
        /\ reply[r] = "ok" => Sealed(r) /\ ~Out(r, "create") /\ ~Out(r, "remove")
    BY <1>1 DEF IInv, RunInv, Storing, Sealing, Networked, Outstanding, Still,
                Cleaned, Controls, Commands
  <1>3. CASE reply[r] = "ok" /\ Request(r, "verify") /\ UNCHANGED failed
    BY <1>1, <1>2, <1>3, RequestStep DEF Operations
  <1>4. CASE Goto(r, "dropNetwork") /\ Fail(r) /\ UNCHANGED wire
    <2>1. QuietMove(r, "dropNetwork") /\ r \in failed'
      BY <1>1, <1>4
         DEF Goto, Fail, wire, QuietMove, Labels, Ending, Beginning, Operations, IInv, TypeOK
    <2> QED BY <1>1, <1>2, <2>1, ErrorStep DEF Unremoved
  <1> QED BY <1>3, <1>4 DEF PolicyCreated, Answered

LEMMA PolicyVerifiedStep ==
    ASSUME IInv, NEW r \in Runs, PolicyVerified(r)
    PROVE  IInv'
  <1>1. /\ pc[r] = "verify"
        /\ UNCHANGED <<tool, networks, subnet, container, stuck, backend, chain, jumps,
                       records, turn, step, trace, stored>>
    BY DEF PolicyVerified, Answered, docker, firewall, service, observed
  <1>2. /\ stored[r] = {} /\ ~Unremoved(r) /\ r \in networks /\ pc[r] \in Working
        /\ ~Out(r, "create") /\ ~Out(r, "remove")
    BY <1>1 DEF IInv, RunInv, Storing, Sealing, Networked, Outstanding, Still, Working,
                Cleaned, Controls, Commands
  <1>3. CASE Request(r, "remove") /\ Fail(r)
    BY <1>1, <1>2, <1>3, RequestStep DEF Operations, Fail
  <1>4. CASE Goto(r, "prepared") /\ UNCHANGED <<failed, wire>>
    <2>1. QuietMove(r, "prepared")
      BY <1>1, <1>4
         DEF Goto, wire, QuietMove, Labels, Working, Beginning, Operations, IInv, TypeOK
    <2> QED BY <1>1, <1>2, <2>1, WorkingStep DEF Unremoved, Commands
  <1> QED BY <1>3, <1>4 DEF PolicyVerified

LEMMA DropNetworkStep ==
    ASSUME IInv, NEW r \in Runs, DropNetwork(r)
    PROVE  IInv'
  <1>1. /\ pc[r] = "dropNetwork"
        /\ UNCHANGED <<tool, backend, chain, jumps, records, turn, step, requests, reply,
                       trace, stored>>
    BY DEF DropNetwork, firewall, service, wire, observed
  <1>2. /\ stored[r] = {} /\ ~Unremoved(r) /\ (container[r] = "running" => r \in networks)
        /\ r \notin failed => Observed(r) /\ Purged(r) /\ Still(r)
    BY <1>1 DEF IInv, RunInv, Storing, Sealing, Networked, Cleaning, Ending, Cleaned, Controls,
                Commands
  <1>3. /\ RemovedNetwork(r) \/ UNCHANGED docker
        /\ UNCHANGED <<subnet, container, stuck>> /\ networks' \in {networks, networks \ {r}}
        /\ container'[r] = "running" => r \in networks' /\ ~Unremoved(r)'
    BY <1>2 DEF DropNetwork, Command, RemovedNetwork, docker, Unremoved
  <1>4. ASSUME NEW l \in Labels \ (Beginning \cup Operations), Goto(r, l),
               failed' \in {failed, failed \cup {r}}
        PROVE  QuietMove(r, l)
    BY <1>1, <1>3, <1>4 DEF Goto, QuietMove, IInv, TypeOK
  <1>5. CASE Goto(r, "done") /\ r \in failed' /\ failed' \in {failed, failed \cup {r}}
    <2>1. QuietMove(r, "done")
      BY <1>4, <1>5 DEF Labels, Ending, Cleaned, Beginning, Operations
    <2> QED BY <1>1, <1>2, <1>3, <1>5, <2>1, ErrorStep DEF Unremoved
  <1>6. CASE r \notin failed /\ RemovedNetwork(r) /\ Goto(r, AfterCleanup(r)) /\ UNCHANGED failed
    <2>1. PICK l : l = After(r, "close")
      OBVIOUS
    <2>2. /\ l \in {"done", "go.mod", "Cargo.toml"} /\ (l = "done" => ControlsOf(r) = {})
          /\ l # "done" => Takes(r, l)
      BY <2>1, StepsOf DEF IInv, TypeOK
    <2>3. QuietMove(r, l)
      BY <1>4, <1>6, <2>1, <2>2
         DEF AfterCleanup, Labels, Ending, Cleaned, Controls, Beginning, Operations
    <2>4. pc'[r] = l /\ r \notin networks' /\ r \notin failed'
      BY <1>6, <2>3 DEF QuietMove, RemovedNetwork, IInv, TypeOK
    <2>5. Observed(r)' /\ Purged(r)' /\ Still(r)' /\ stored'[r] = {} /\ container'[r] = "gone"
      BY <1>1, <1>2, <1>3, <1>6, Silent, SameTool DEF Observed
    <2>6. Networked(r)' /\ Sealing(r)'
      BY <2>2, <2>4, <2>5 DEF Networked, Sealing, Working, Commands, Unremoved
    <2>7. Cleaning(r)'
      BY <2>2, <2>4, <2>5 DEF Cleaning
    <2>8. Storing(r)'
      BY <1>1, <2>2, <2>4, <2>5, SameTool DEF Storing, Cleaned, Commands, Controls
    <2> QED BY <2>2, <2>3, <2>6, <2>7, <2>8, QuietStep DEF Working, Commands
  <1> QED BY <1>5, <1>6 DEF DropNetwork, Command, AfterCleanup, Fail

LEMMA CreateContainerStep ==
    ASSUME IInv, NEW r \in Runs, CreateContainer(r)
    PROVE  IInv'
  <1>1. /\ pc[r] = "prepared" /\ pc[r] \in Working
        /\ UNCHANGED <<tool, backend, chain, jumps, records, turn, step, requests, reply,
                       trace, stored>>
    BY DEF CreateContainer, firewall, service, wire, observed, Working
  <1>2. stored[r] = {} /\ ~Unremoved(r) /\ r \in networks /\ Still(r)
    BY <1>1 DEF IInv, RunInv, Storing, Sealing, Networked, Outstanding, Cleaned, Controls, Commands
  <1>3. /\ UNCHANGED <<networks, subnet, stuck>>
        /\ container' \in {container, [container EXCEPT ![r] = "created"]}
    BY DEF CreateContainer, Command, Container, docker
  <1>4. ~Unremoved(r)'
    BY <1>2, <1>3 DEF IInv, TypeOK, Unremoved
  <1>5. ASSUME NEW l \in {"start", "close"}, Goto(r, l), failed' \in {failed, failed \cup {r}}
        PROVE  QuietMove(r, l)
    BY <1>1, <1>3, <1>5
       DEF Goto, QuietMove, IInv, TypeOK, Labels, Working, Ending, Beginning, Operations
  <1>6. CASE Goto(r, "start") /\ UNCHANGED failed
    BY <1>1, <1>2, <1>3, <1>4, <1>5, <1>6, WorkingStep DEF Commands
  <1>7. CASE Goto(r, "close") /\ Fail(r)
    BY <1>1, <1>2, <1>3, <1>4, <1>5, <1>7, ErrorStep DEF Fail
  <1> QED BY <1>6, <1>7 DEF CreateContainer, Command

LEMMA StartContainerStep ==
    ASSUME IInv, NEW r \in Runs, StartContainer(r)
    PROVE  IInv'
  <1>1. /\ pc[r] = "start" /\ pc[r] \in Working
        /\ UNCHANGED <<tool, backend, chain, jumps, records, turn, step, requests, reply, stored>>
    BY DEF StartContainer, firewall, service, wire, Working
  <1>2. Head(Steps(r)) = "ready" /\ Takes(r, "ready")
    BY StepsOf DEF IInv, TypeOK
  <1>3. /\ UNCHANGED <<networks, subnet, stuck>>
        /\ container' \in {container, [container EXCEPT ![r] = "running"]}
        /\ trace' \in {trace, [trace EXCEPT ![r] = "live"]}
    BY DEF StartContainer, Command, Container, docker
  <1>4. \E l \in {"ready", "removeContainer"} : Goto(r, l) /\ failed' \in {failed, failed \cup {r}}
    BY <1>2 DEF StartContainer, Command, Fail
  <1>5. PICK l \in {"ready", "removeContainer"} : Goto(r, l) /\ failed' \in {failed, failed \cup {r}}
    BY <1>4
  <1>6. QuietMove(r, l)
    BY <1>1, <1>3, <1>5
       DEF Goto, QuietMove, IInv, TypeOK, Labels, Working, Commands, Beginning, Operations
  <1> QED BY <1>1, <1>2, <1>3, <1>6, WorkingStep DEF Commands

LEMMA ResolveStep ==
    ASSUME IInv, NEW r \in Runs, Resolve(r)
    PROVE  IInv'
  <1>1. /\ pc[r] \in Commands /\ pc[r] \in Working
        /\ UNCHANGED <<tool, networks, subnet, container, stuck, backend, chain, jumps, records,
                       turn, step, requests, reply, trace, stored>>
    BY DEF Resolve, docker, firewall, service, wire, observed, Working
  <1>2. /\ After(r, pc[r]) \in Commands \cup {"removeContainer"}
        /\ Takes(r, After(r, pc[r]))
    BY <1>1, StepsOf DEF IInv, TypeOK, RunInv, Storing
  <1>3. PICK l \in Commands \cup {"removeContainer"} :
            /\ Goto(r, l) /\ failed' \in {failed, failed \cup {r}}
            /\ l \in Commands => Takes(r, l)
    BY <1>2 DEF Resolve, Fail, Commands
  <1>4. QuietMove(r, l)
    BY <1>1, <1>3
       DEF Goto, QuietMove, IInv, TypeOK, Labels, Working, Commands, Beginning, Operations
  <1> QED BY <1>1, <1>3, <1>4, WorkingStep

LEMMA RemoveContainerStep ==
    ASSUME IInv, NEW r \in Runs, RemoveContainer(r)
    PROVE  IInv'
  <1>1. /\ pc[r] = "removeContainer" /\ pc[r] \in Working /\ Goto(r, "close")
        /\ UNCHANGED <<tool, backend, chain, jumps, records, turn, step, requests, reply, stored>>
    BY DEF RemoveContainer, firewall, service, wire, Working
  <1>2. stored[r] = {} /\ r \in networks /\ Still(r)
    BY <1>1 DEF IInv, RunInv, Storing, Networked, Outstanding, Cleaned, Controls
  <1>3. /\ UNCHANGED <<networks, subnet>>
        /\ \/ container' = [container EXCEPT ![r] = "gone"] /\ stuck' = stuck
           \/ stuck' = stuck \cup {r} /\ container' = container
    BY DEF RemoveContainer, Container
  <1>4. ~Unremoved(r)'
    BY <1>3 DEF Unremoved, IInv, TypeOK
  <1>5. CASE trace' = [trace EXCEPT ![r] = "inError"] /\ Fail(r)
    <2>1. QuietMove(r, "close")
      BY <1>1, <1>3, <1>5 DEF Goto, Fail, QuietMove, IInv, TypeOK, Labels, Ending, Beginning, Operations
    <2> QED BY <1>1, <1>2, <1>4, <1>3, <1>5, <2>1, ErrorStep DEF Fail
  <1>6. CASE /\ Container(r, "gone") /\ UNCHANGED failed
             /\ \E t \in Collected : Acceptable(r, t) /\ trace' = [trace EXCEPT ![r] = t]
    <2>1. PICK t \in Collected : Acceptable(r, t) /\ trace' = [trace EXCEPT ![r] = t]
      BY <1>6
    <2>2. QuietMove(r, "close")
      BY <1>1, <1>3, <1>6, <2>1 DEF Goto, QuietMove, IInv, TypeOK, Labels, Ending, Beginning, Operations
    <2>3. pc'[r] = "close" /\ trace'[r] = t /\ container'[r] = "gone"
      BY <1>1, <1>6, <2>1 DEF Goto, Container, IInv, TypeOK
    <2>4. Observed(r)'
      BY <1>1, <2>1, <2>3, SameTool DEF Observed
    <2>5. Networked(r)' /\ Sealing(r)'
      BY <1>2, <1>3, <1>4, <2>3 DEF Networked, Sealing, Working, Commands
    <2>6. Cleaning(r)'
      BY <2>3, <2>4 DEF Cleaning, Cleaned, Controls
    <2>7. Storing(r)'
      BY <1>1, <1>2, <2>3 DEF Storing, Commands, Controls, Cleaned
    <2> QED BY <1>2, <2>2, <2>5, <2>6, <2>7, QuietStep
  <1> QED BY <1>5, <1>6 DEF RemoveContainer

LEMMA CloseStep ==
    ASSUME IInv, NEW r \in Runs, Close(r)
    PROVE  IInv'
  <1>1. /\ pc[r] = "close" /\ Request(r, "remove")
        /\ UNCHANGED <<tool, networks, subnet, container, stuck, backend, chain, jumps,
                       records, turn, step, trace, stored, failed>>
    BY DEF Close, docker, firewall, service, observed
  <1>2. /\ stored[r] = {} /\ ~Unremoved(r) /\ (container[r] = "running" => r \in networks)
        /\ ~Out(r, "create") /\ ~Out(r, "remove") /\ (r \notin failed => Observed(r))
    BY <1>1 DEF IInv, RunInv, Storing, Sealing, Networked, Outstanding, Still, Cleaning, Ending,
                Cleaned, Controls, Commands
  <1> QED BY <1>1, <1>2, RequestStep DEF Operations

LEMMA PolicyRemovedStep ==
    ASSUME IInv, NEW r \in Runs, PolicyRemoved(r)
    PROVE  IInv'
  <1>1. /\ pc[r] = "remove" /\ Goto(r, "dropNetwork")
        /\ UNCHANGED <<tool, networks, subnet, container, stuck, backend, chain, jumps, records,
                       turn, step, requests, reply, trace, stored>>
    BY DEF PolicyRemoved, Answered, docker, firewall, service, wire, observed
  <1>2. /\ stored[r] = {} /\ ~Unremoved(r) /\ (container[r] = "running" => r \in networks)
        /\ ~Out(r, "create") /\ (r \notin failed => Observed(r))
        /\ reply[r] = "ok" => Purged(r) /\ ~Out(r, "remove")
    BY <1>1 DEF IInv, RunInv, Storing, Sealing, Networked, Outstanding, Still, Cleaning, Ending,
                Cleaned, Controls, Commands
  <1>3. failed' \in {failed, failed \cup {r}} /\ (r \notin failed' => reply[r] = "ok")
    BY DEF PolicyRemoved, Answered
  <1>4. QuietMove(r, "dropNetwork")
    BY <1>1, <1>3 DEF Goto, QuietMove, IInv, TypeOK, Labels, Ending, Beginning, Operations
  <1>5. CASE r \in failed'
    BY <1>1, <1>2, <1>4, <1>5, ErrorStep DEF Unremoved
  <1>6. CASE r \notin failed'
    <2>1. pc'[r] = "dropNetwork" /\ r \notin failed
      BY <1>1, <1>3, <1>6 DEF Goto, IInv, TypeOK
    <2>2. Observed(r)' /\ Purged(r)' /\ Still(r)'
      BY <1>1, <1>2, <1>3, <1>6, <2>1, Silent, SameTool DEF Observed, Still
    <2>3. Networked(r)' /\ Sealing(r)'
      BY <1>1, <1>2, <2>1 DEF Networked, Sealing, Unremoved, Working, Commands
    <2>4. Cleaning(r)'
      BY <2>1, <2>2 DEF Cleaning, Cleaned, Controls
    <2>5. Storing(r)'
      BY <1>1, <1>2, <2>1 DEF Storing, Commands, Controls, Cleaned
    <2> QED BY <1>4, <2>3, <2>4, <2>5, QuietStep DEF Working, Commands
  <1> QED BY <1>5, <1>6

\* Before a control is stored everything of the run is gone.
LEMMA BeforeStoring ==
    ASSUME IInv, NEW r \in Runs, pc[r] \in Controls
    PROVE  /\ r \notin failed /\ Observed(r) /\ Purged(r) /\ Still(r) /\ r \notin networks
           /\ Clean(r) /\ ~Unremoved(r) /\ container[r] = "gone"
  <1>1. pc[r] \in Ending /\ pc[r] \in Cleaned
    BY DEF Ending, Cleaned
  <1>2. r \notin failed
    BY DEF IInv, RunInv, Cleaning
  <1>3. Observed(r) /\ Purged(r) /\ Still(r) /\ r \notin networks
    BY <1>1, <1>2 DEF IInv, RunInv, Cleaning
  <1> QED BY <1>2, <1>3 DEF Observed, Purged, Clean, Unremoved

LEMMA StoreControlStep ==
    ASSUME IInv, NEW r \in Runs, StoreControl(r)
    PROVE  IInv'
  <1>1. /\ pc[r] \in Controls /\ Goto(r, After(r, pc[r]))
        /\ stored' = [stored EXCEPT ![r] = @ \cup {pc[r]}]
        /\ UNCHANGED <<tool, networks, subnet, container, stuck, backend, chain, jumps, records,
                       turn, step, requests, reply, trace, failed>>
    BY DEF StoreControl, docker, firewall, service, wire
  <1>2. PICK l : l = After(r, pc[r])
    OBVIOUS
  <1>3. /\ l \in {"go.sum", "Cargo.lock", "done"} /\ (l # "done" => Takes(r, l))
        /\ l = "go.sum" => pc[r] = "go.mod"
        /\ l = "Cargo.lock" => pc[r] = "Cargo.toml"
        /\ l = "done" => \/ pc[r] = "go.sum" /\ ControlsOf(r) = {"go.mod", "go.sum"}
                         \/ pc[r] = "Cargo.lock" /\ ControlsOf(r) = {"Cargo.toml", "Cargo.lock"}
    BY <1>1, <1>2, StepsOf DEF IInv, TypeOK, RunInv, Storing, Controls
  <1>4. /\ stored'[r] = stored[r] \cup {pc[r]} /\ stored' \in [Runs -> SUBSET Controls]
        /\ \A q \in Runs \ {r} : stored'[q] = stored[q]
    BY <1>1 DEF IInv, TypeOK
  <1>5. QuietMove(r, l)
    BY <1>1, <1>2, <1>3, <1>4
       DEF Goto, QuietMove, IInv, TypeOK, Labels, Ending, Cleaned, Controls, Beginning, Operations
  <1>6. pc'[r] = l
    BY <1>5 DEF QuietMove, IInv, TypeOK
  <1>7. /\ r \notin failed' /\ Observed(r)' /\ Purged(r)' /\ Still(r)' /\ r \notin networks'
        /\ Clean(r)' /\ ~Unremoved(r)' /\ container'[r] = "gone"
    BY <1>1, BeforeStoring, Silent, SameTool DEF Observed, Clean, Unremoved
  <1>8. Networked(r)' /\ Sealing(r)'
    BY <1>3, <1>6, <1>7 DEF Networked, Sealing, Working, Commands
  <1>9. Cleaning(r)'
    BY <1>3, <1>6, <1>7 DEF Cleaning
  <1>10. /\ pc[r] \in {"go.mod", "Cargo.toml"} => stored[r] = {}
         /\ pc[r] = "go.sum" => stored[r] = {"go.mod"}
         /\ pc[r] = "Cargo.lock" => stored[r] = {"Cargo.toml"}
    BY DEF IInv, RunInv, Storing
  <1>11. Storing(r)'
    BY <1>1, <1>3, <1>4, <1>6, <1>7, <1>10, SameTool DEF Storing, Cleaned, Commands, Controls
  <1> QED BY <1>3, <1>5, <1>8, <1>9, <1>11, QuietStep DEF Working, Commands

LEMMA StoreFailsStep ==
    ASSUME IInv, NEW r \in Runs, StoreFails(r)
    PROVE  IInv'
  <1>1. /\ pc[r] \in Controls /\ Goto(r, "done") /\ Fail(r)
        /\ UNCHANGED <<tool, networks, subnet, container, stuck, backend, chain, jumps, records,
                       turn, step, requests, reply, trace, stored>>
    BY DEF StoreFails, docker, firewall, service, wire, observed
  <1>2. QuietMove(r, "done")
    BY <1>1
       DEF Goto, Fail, QuietMove, IInv, TypeOK, Labels, Ending, Cleaned, Beginning, Operations
  <1>3. pc'[r] = "done" /\ r \in failed'
    BY <1>1 DEF Goto, Fail, IInv, TypeOK
  <1>4. /\ Observed(r)' /\ Still(r)' /\ Clean(r)' /\ ~Unremoved(r)' /\ container'[r] = "gone"
    BY <1>1, BeforeStoring, Silent, SameTool DEF Observed, Clean, Unremoved
  <1>5. Networked(r)' /\ Sealing(r)'
    BY <1>3, <1>4 DEF Networked, Sealing, Working, Commands
  <1>6. Cleaning(r)'
    BY <1>3 DEF Cleaning, Controls
  <1>7. Storing(r)'
    BY <1>1, <1>3, <1>4 DEF Storing, Cleaned, Commands, Controls
  <1> QED BY <1>2, <1>5, <1>6, <1>7, QuietStep DEF Working, Commands

LEMMA RunStep ==
    ASSUME IInv, NEW r \in Runs, Run(r)
    PROVE  IInv'
  BY CreateNetworkStep, InspectNetworkStep, PolicyCreatedStep, PolicyVerifiedStep, DropNetworkStep,
     CreateContainerStep, StartContainerStep, ResolveStep, RemoveContainerStep, CloseStep,
     PolicyRemovedStep, StoreControlStep, StoreFailsStep
     DEF Run

--------------------------------------------------------------------------------
(* The steps of the service *)

\* A step of the handler that serves op for r.
ServerMove(r, op) ==
    /\ turn = <<r, op>> /\ turn' \in {turn, None}
    /\ UNCHANGED <<tool, networks, subnet, container, stuck, backend, trace, stored, pc, failed,
                   requests>>
    /\ step' \in {"idle", "check", "newChain", "attach", "allow", "deny", "verify",
                  "detach", "flush", "delete"}
    /\ chain' \in [Runs -> SUBSET {"exists", "allow", "deny"}] /\ jumps' \in Seq(Runs)
    /\ records' \subseteq Runs /\ reply' \in [Runs -> {"none", "ok", "rejected"}]
    /\ reply'[r] # reply[r] => turn' = None /\ pc[r] = op
    /\ \A q \in Runs \ {r} :
          /\ UNCHANGED <<chain[q], reply[q]>>
          /\ q \in records' <=> q \in records
          /\ q \in Attached' <=> q \in Attached
    /\ op = "verify" => UNCHANGED <<chain, jumps, records>>

\* While the policy of a run is being changed the run waits for that, or has
\* given up and has nothing of it left to lose.
LEMMA WhileChanging ==
    ASSUME IInv, NEW r \in Runs, NEW op \in {"create", "remove"}, turn = <<r, op>>
    PROVE  /\ ~Still(r) /\ pc[r] \notin Working \cup Beginning \cup {"close"} /\ ~Unremoved(r)
           /\ stored[r] = {}
           /\ pc[r] \in Cleaned \cup {"dropNetwork"} => r \in failed
           /\ op = "create" => pc[r] # "remove"
           /\ op = "remove" => pc[r] # "create"
           /\ pc[r] = op => reply[r] # "ok"
           /\ <<r, "create">> \notin requests /\ <<r, "remove">> \notin requests
  <1>1. ~Still(r) /\ Out(r, op) /\ op \in Operations
    BY DEF Still, Out, Operations
  <1>2. RunInv(r)
    BY DEF IInv
  <1>3. /\ pc[r] \notin Working \cup Beginning \cup {"close"}
        /\ op = "create" => pc[r] # "remove"
        /\ op = "remove" => pc[r] # "create"
        /\ pc[r] = op => reply[r] # "ok"
    BY <1>1, <1>2 DEF RunInv, Outstanding
  <1>4. ~Unremoved(r) /\ stored[r] = {} /\ (pc[r] \in Cleaned \cup {"dropNetwork"} => r \in failed)
    BY <1>1, <1>2 DEF RunInv, Sealing, Storing, Cleaning
  <1>5. <<r, "create">> \notin requests /\ <<r, "remove">> \notin requests
    BY <1>1, <1>2 DEF RunInv, Outstanding, Out, IInv
  <1> QED BY <1>1, <1>3, <1>4, <1>5

LEMMA ServerStep ==
    ASSUME IInv, NEW r \in Runs, NEW op \in Operations, ServerMove(r, op), Order',
           turn' # None => Handler(r)',
           op = "create" /\ pc[r] = op /\ reply'[r] = "ok" => Sealed(r)',
           op = "remove" /\ pc[r] = op /\ reply'[r] = "ok" => Purged(r)'
    PROVE  IInv'
  <1> USE DEF ServerMove
  <1>1. None \notin Requests
    BY NoneAssumption
  <1>2. \A q \in Runs, o \in Operations : <<q, o>> # None /\ (Out(q, o)' => Out(q, o))
    BY <1>1 DEF Out, Requests
  <1>3. Out(r, op) /\ (turn' = None => ~Out(r, op)')
    BY <1>2, <1>1 DEF Out, IInv
  <1>4. \A q \in Runs : Still(q) => Still(q)'
    BY <1>2 DEF Still, Operations
  <1>5. TypeOK' /\ turn' \notin requests'
    BY <1>1 DEF IInv, TypeOK
  <1>6. ASSUME NEW q \in Runs \ {r} PROVE RunInv(q)'
    <2>1. Same(q)
      BY <1>2, <1>6 DEF Same
    <2> QED BY <2>1, SameRun, <1>6 DEF IInv
  <1>7. RunInv(r)
    BY DEF IInv
  <1>8. Outstanding(r)'
    BY <1>2, <1>3, <1>4, <1>7 DEF RunInv, Outstanding, Operations
  <1>9. Networked(r)'
    BY <1>7 DEF RunInv, Networked
  <1>10. Observed(r)' <=> Observed(r)
    BY SameTool DEF Observed
  <1>11. CASE op = "verify"
    <2>1. Attached' = Attached /\ (Sealed(r)' <=> Sealed(r)) /\ (Purged(r)' <=> Purged(r))
          /\ (Clean(r)' <=> Clean(r)) /\ (Unremoved(r)' <=> Unremoved(r))
      BY <1>11 DEF Attached, Sealed, Purged, Clean, Unremoved
    <2>2. Handler(r)'
      BY <1>1, <1>2, <1>7, <1>11, <2>1 DEF RunInv, Handler, Operations
    <2>3. Sealing(r)'
      BY <1>3, <1>4, <1>7, <1>11, <2>1
         DEF RunInv, Sealing, Outstanding, Working, Commands
    <2>4. Cleaning(r)'
      BY <1>2, <1>4, <1>7, <1>10, <1>11, <2>1 DEF RunInv, Cleaning, Operations
    <2>5. Storing(r)'
      BY <1>4, <1>7, <1>10, <2>1, SameTool DEF RunInv, Storing
    <2> QED BY <1>5, <1>6, <1>8, <1>9, <2>2, <2>3, <2>4, <2>5 DEF IInv, RunInv
  <1>12. CASE op \in {"create", "remove"}
    <2>1. /\ ~Still(r) /\ pc[r] \notin Working \cup Beginning \cup {"close"} /\ ~Unremoved(r)
          /\ stored[r] = {}
          /\ pc[r] \in Cleaned \cup {"dropNetwork"} => r \in failed
          /\ op = "create" => pc[r] # "remove"
          /\ op = "remove" => pc[r] # "create"
          /\ pc[r] = op => reply[r] # "ok"
          /\ <<r, "create">> \notin requests /\ <<r, "remove">> \notin requests
      BY <1>12, WhileChanging
    <2>2. ~Unremoved(r)'
      BY <2>1 DEF Unremoved
    <2>3. Handler(r)'
      BY <1>1, <1>2, <2>1 DEF Handler, Operations
    <2>4. turn' = None => Still(r)'
      BY <1>2, <2>1 DEF Still, Out, Operations
    <2>5. Sealing(r)'
      BY <1>12, <2>1, <2>2, <2>4 DEF Sealing
    <2>6. Cleaning(r)'
      BY <1>3, <1>7, <1>10, <1>12, <2>1 DEF RunInv, Cleaning
    <2>7. Storing(r)'
      BY <1>7, <2>1, SameTool DEF RunInv, Storing
    <2> QED BY <1>5, <1>6, <1>8, <1>9, <2>3, <2>5, <2>6, <2>7 DEF IInv, RunInv
  <1> QED BY <1>11, <1>12 DEF Operations

\* A step that touches no jump and does not begin a new chain keeps the order.
LEMMA SameOrder ==
    ASSUME IInv, UNCHANGED <<networks, subnet, jumps>>,
           \/ turn' = None \/ step' \notin {"newChain", "attach"}
           \/ turn' = turn /\ step = "newChain"
    PROVE  Order'
  <1>1. Attached' = Attached
    BY DEF Attached
  <1>2. \A r \in Runs : <<r, "create">> # None
    BY NoneAssumption DEF Requests, Operations
  <1>3. \A r \in Runs :
          turn' = <<r, "create">> /\ step' \in {"newChain", "attach"} =>
              \A q \in networks' \cap Attached' : subnet'[q] # subnet'[r]
    BY <1>1, <1>2 DEF IInv, Order
  <1> QED BY <1>3 DEF IInv, Order

\* What stays as it is at every step of a handler.
Idle == UNCHANGED <<tool, networks, subnet, container, stuck, backend, trace, stored, pc, failed>>

LEMMA HandlerStep ==
    ASSUME NEW r \in Runs, Serve(r)
    PROVE  Idle
  BY DEF Serve, CheckCreate, Apply, VerifyForPeer, CheckRemove, Remove, docker, client, observed,
         Idle

\* A handler that goes on to s, having changed at most the chain.
LEMMA ContinueMove ==
    ASSUME IInv, Idle, NEW r \in Runs, NEW op \in {"create", "remove"}, turn = <<r, op>>,
           NEW s, Continue(s), step' \in {"newChain", "attach", "allow", "deny", "verify",
                  "detach", "flush", "delete"},
           jumps' \in Seq(Runs), \A q \in Runs \ {r} : q \in Attached' <=> q \in Attached,
           NEW c \in SUBSET {"exists", "allow", "deny"}, chain' = [chain EXCEPT ![r] = c]
    PROVE  /\ ServerMove(r, op) /\ chain'[r] = c /\ turn' = turn
           /\ UNCHANGED <<records, requests, reply>>
           /\ pc[r] = op => reply'[r] # "ok"
           /\ pc[r] \notin Beginning /\ <<r, "create">> \notin requests
  BY WhileChanging DEF ServerMove, Continue, wire, IInv, TypeOK, Idle

\* A handler that ends, having changed at most the chain.
LEMMA FinishMove ==
    ASSUME IInv, Idle, NEW r \in Runs, NEW op \in Operations, turn = <<r, op>>,
           NEW answer \in {"ok", "rejected"}, Finish(r, op, answer),
           jumps' \in Seq(Runs), \A q \in Runs \ {r} : q \in Attached' <=> q \in Attached,
           NEW c \in SUBSET {"exists", "allow", "deny"}, chain' = [chain EXCEPT ![r] = c],
           records' \in {records, records \cup {r}, records \ {r}},
           op = "verify" => UNCHANGED <<chain, jumps, records>>
    PROVE  ServerMove(r, op) /\ turn' = None /\ chain'[r] = c
           /\ (pc[r] = op => reply'[r] = answer)
  BY DEF ServerMove, Finish, IInv, TypeOK, Idle

\* A handler that changed nothing.
LEMMA Untouched ==
    ASSUME IInv, NEW r \in Runs, UNCHANGED firewall
    PROVE  /\ jumps' = jumps /\ jumps' \in Seq(Runs) /\ Attached' = Attached
           /\ chain[r] \in SUBSET {"exists", "allow", "deny"}
           /\ chain' = [chain EXCEPT ![r] = chain[r]]
  BY DEF IInv, TypeOK, firewall, Attached

LEMMA CheckCreateStep ==
    ASSUME IInv, NEW r \in Runs, CheckCreate(r)
    PROVE  IInv'
  <1>1. turn = <<r, "create">> /\ step = "check" /\ UNCHANGED firewall /\ Idle
    BY HandlerStep DEF CheckCreate, Serving, Serve
  <1>2. /\ jumps' = jumps /\ jumps' \in Seq(Runs) /\ Attached' = Attached
        /\ chain[r] \in SUBSET {"exists", "allow", "deny"}
        /\ chain' = [chain EXCEPT ![r] = chain[r]]
    BY <1>1, Untouched
  <1>3. chain[r] = {} /\ r \notin Attached
    BY <1>1 DEF IInv, RunInv, Handler
  <1>4. CASE NetworkIdentified(r) /\ Continue("newChain")
    <2>1. step' = "newChain" /\ turn' = turn
      BY <1>4 DEF Continue
    <2>2. /\ ServerMove(r, "create") /\ chain'[r] = {} /\ (pc[r] = "create" => reply'[r] # "ok")
      BY <1>1, <1>2, <1>3, <1>4, <2>1, ContinueMove
    <2>3. Order'
      <3>1. \A p \in Runs : turn' = <<p, "create">> /\ step' \in {"newChain", "attach"} =>
                \A q \in networks' \cap Attached' : subnet'[q] # subnet'[p]
        BY <1>1, <1>2, <1>3, <1>4, <2>1 DEF NetworkIdentified, IInv, Order, Idle
      <3> QED BY <1>1, <1>2, <3>1 DEF IInv, Order, Idle
    <2>4. Handler(r)'
      BY <1>1, <1>2, <1>3, <2>1, <2>2 DEF Handler
    <2> QED BY <2>2, <2>3, <2>4, ServerStep DEF Operations
  <1>5. CASE Finish(r, "create", "rejected") /\ UNCHANGED records
    <2>1. ServerMove(r, "create") /\ turn' = None /\ (pc[r] = "create" => reply'[r] = "rejected")
      BY <1>1, <1>2, <1>5, FinishMove DEF Operations
    <2>2. Order'
      BY <1>1, <1>2, <2>1, SameOrder DEF Idle
    <2> QED BY <2>1, <2>2, ServerStep DEF Operations
  <1> QED BY <1>4, <1>5 DEF CheckCreate

LEMMA NewChainStep ==
    ASSUME IInv, NEW r \in Runs, Idle, turn = <<r, "create">>, NewChain(r)
    PROVE  IInv'
  <1>1. /\ step = "newChain" /\ jumps' = jumps /\ Continue("attach")
        /\ chain' = [chain EXCEPT ![r] = {"exists"}]
    BY DEF NewChain
  <1>2. step' = "attach" /\ turn' = turn /\ Attached' = Attached /\ jumps' \in Seq(Runs)
    BY <1>1 DEF Continue, Attached, IInv, TypeOK
  <1>3. /\ ServerMove(r, "create") /\ (pc[r] = "create" => reply'[r] # "ok")
        /\ pc[r] \notin Beginning /\ <<r, "create">> \notin requests'
    BY <1>1, <1>2, ContinueMove
  <1>4. Order'
    BY <1>1, <1>2, SameOrder DEF Idle
  <1>5. r \notin Attached
    BY <1>1 DEF IInv, RunInv, Handler
  <1>6. Handler(r)'
    BY <1>2, <1>3, <1>5 DEF Handler, Idle
  <1> QED BY <1>3, <1>4, <1>6, ServerStep DEF Operations

LEMMA AttachStep ==
    ASSUME IInv, NEW r \in Runs, Idle, turn = <<r, "create">>, Attach(r)
    PROVE  IInv'
  <1>1. /\ step = "attach" /\ jumps' = <<r>> \o jumps /\ Continue("allow") /\ chain' = chain
    BY DEF Attach
  <1>2. step' = "allow" /\ turn' = turn /\ jumps \in Seq(Runs) /\ jumps' \in Seq(Runs)
    BY <1>1 DEF Continue, IInv, TypeOK
  <1>3. /\ Len(jumps') = Len(jumps) + 1 /\ jumps'[1] = r
        /\ \A i \in 1..Len(jumps) : jumps'[i + 1] = jumps[i]
        /\ \A i \in 2..Len(jumps') : i - 1 \in DOMAIN jumps /\ jumps'[i] = jumps[i - 1]
        /\ DOMAIN jumps = 1..Len(jumps) /\ DOMAIN jumps' = 1..Len(jumps')
    BY <1>1, <1>2
  <1>4. Attached' = Attached \cup {r}
    <2>1. \A q \in Attached : q \in Attached'
      <3> TAKE q \in Attached
      <3>1. PICK i \in DOMAIN jumps : q = jumps[i]
        BY DEF Attached
      <3>2. i + 1 \in DOMAIN jumps' /\ jumps'[i + 1] = q
        BY <1>2, <1>3, <3>1
      <3> QED BY <3>2 DEF Attached
    <2>2. \A q \in Attached' : q = r \/ q \in Attached
      <3> TAKE q \in Attached'
      <3>1. PICK i \in DOMAIN jumps' : q = jumps'[i]
        BY DEF Attached
      <3>2. i = 1 \/ i \in 2..Len(jumps')
        BY <1>2, <1>3
      <3> QED BY <1>3, <3>1, <3>2 DEF Attached
    <2>3. r \in Attached'
      BY <1>2, <1>3 DEF Attached
    <2> QED BY <2>1, <2>2, <2>3
  <1>5. /\ chain[r] \in SUBSET {"exists", "allow", "deny"}
        /\ chain' = [chain EXCEPT ![r] = chain[r]]
    BY <1>1 DEF IInv, TypeOK
  <1>6. /\ ServerMove(r, "create") /\ (pc[r] = "create" => reply'[r] # "ok")
        /\ pc[r] \notin Beginning /\ <<r, "create">> \notin requests'
    BY <1>1, <1>2, <1>4, <1>5, ContinueMove
  <1>7. r \notin Attached /\ \A q \in networks \cap Attached : subnet[q] # subnet[r]
    BY <1>1 DEF IInv, RunInv, Handler, Order
  <1>8. Order'
    <2>1. \A i \in DOMAIN jumps : jumps[i] # r
      BY <1>7 DEF Attached
    <2>2. \A i, j \in DOMAIN jumps' : jumps'[i] = jumps'[j] => i = j
      <3> SUFFICES ASSUME NEW i \in DOMAIN jumps', NEW j \in DOMAIN jumps', jumps'[i] = jumps'[j]
                   PROVE  i = j
        OBVIOUS
      <3>1. \A k \in DOMAIN jumps' : k = 1 \/ (k \in 2..Len(jumps') /\ jumps'[k] # r)
        <4> TAKE k \in DOMAIN jumps'
        <4>1. k = 1 \/ k \in 2..Len(jumps')
          BY <1>2, <1>3
        <4> QED BY <1>3, <2>1, <4>1
      <3>2. CASE i # 1 /\ j # 1
        <4>1. i \in 2..Len(jumps') /\ j \in 2..Len(jumps')
          BY <3>1, <3>2
        <4>2. i - 1 = j - 1
          BY <1>3, <4>1 DEF IInv, Order
        <4> QED BY <4>1, <4>2
      <3> QED BY <1>3, <3>1, <3>2
    <2>3. \A i \in DOMAIN jumps' : jumps'[i] \in networks' =>
              \A j \in 1..(i - 1) : subnet'[jumps'[j]] # subnet'[jumps'[i]]
      <3> SUFFICES ASSUME NEW i \in DOMAIN jumps', jumps'[i] \in networks, NEW j \in 1..(i - 1)
                   PROVE  subnet[jumps'[j]] # subnet[jumps'[i]]
        BY DEF Idle
      <3>1. i \in 2..Len(jumps')
        BY <1>2, <1>3
      <3>2. i - 1 \in DOMAIN jumps /\ jumps'[i] = jumps[i - 1] /\ jumps[i - 1] \in Attached
        BY <1>3, <3>1 DEF Attached
      <3>3. CASE j = 1
        BY <1>3, <1>7, <3>2, <3>3
      <3>4. CASE j # 1
        <4>1. j \in 2..Len(jumps') /\ j - 1 \in 1..(i - 1 - 1)
          BY <1>3, <3>1, <3>4
        <4> QED BY <1>3, <3>2, <4>1 DEF IInv, Order
      <3> QED BY <3>3, <3>4
    <2> QED BY <1>2, <2>2, <2>3 DEF IInv, Order, Idle
  <1>9. Handler(r)'
    BY <1>2, <1>4, <1>6 DEF Handler, Idle
  <1> QED BY <1>6, <1>8, <1>9, ServerStep DEF Operations

LEMMA AllowStep ==
    ASSUME IInv, NEW r \in Runs, Idle, turn = <<r, "create">>, Allow(r) \/ Deny(r)
    PROVE  IInv'
  <1>1. PICK rule \in {"allow", "deny"}, s \in {"deny", "verify"} :
            /\ step \in {"allow", "deny"} /\ jumps' = jumps /\ Continue(s)
            /\ chain' = [chain EXCEPT ![r] = chain[r] \cup {rule}]
            /\ s = "verify" => rule = "deny"
    BY DEF Allow, Deny
  <1>2. step' = s /\ turn' = turn /\ Attached' = Attached /\ jumps' \in Seq(Runs)
    BY <1>1 DEF Continue, Attached, IInv, TypeOK
  <1>3. chain[r] \cup {rule} \in SUBSET {"exists", "allow", "deny"}
    BY DEF IInv, TypeOK
  <1>4. /\ ServerMove(r, "create") /\ (pc[r] = "create" => reply'[r] # "ok")
        /\ pc[r] \notin Beginning /\ <<r, "create">> \notin requests'
        /\ chain'[r] = chain[r] \cup {rule}
    BY <1>1, <1>2, <1>3, ContinueMove
  <1>5. Order'
    BY <1>1, <1>2, SameOrder DEF Idle
  <1>6. r \in Attached
    BY <1>1 DEF IInv, RunInv, Handler
  <1>7. Handler(r)'
    BY <1>1, <1>2, <1>4, <1>6 DEF Handler, Idle
  <1> QED BY <1>4, <1>5, <1>7, ServerStep DEF Operations

LEMMA RecordStep ==
    ASSUME IInv, NEW r \in Runs, Idle, turn = <<r, "create">>, Record(r)
    PROVE  IInv'
  <1>1. step = "verify" /\ records' = records \cup {r} /\ Finish(r, "create", "ok") /\ UNCHANGED firewall
    BY DEF Record
  <1>2. /\ jumps' = jumps /\ jumps' \in Seq(Runs) /\ Attached' = Attached
        /\ chain[r] \in SUBSET {"exists", "allow", "deny"}
        /\ chain' = [chain EXCEPT ![r] = chain[r]]
    BY <1>1, Untouched
  <1>3. ServerMove(r, "create") /\ turn' = None /\ chain'[r] = chain[r]
    BY <1>1, <1>2, FinishMove DEF Operations
  <1>4. Order'
    BY <1>2, <1>3, SameOrder DEF Idle
  <1>5. Sealed(r)'
    BY <1>1, <1>2, <1>3 DEF Sealed, IInv, RunInv, Handler
  <1> QED BY <1>3, <1>4, <1>5, ServerStep DEF Operations

LEMMA ApplyFailsStep ==
    ASSUME IInv, NEW r \in Runs, Idle, turn = <<r, "create">>, ApplyFails
    PROVE  IInv'
  <1>1. Continue("detach") /\ UNCHANGED firewall
    BY DEF ApplyFails
  <1>2. /\ jumps' = jumps /\ jumps' \in Seq(Runs) /\ Attached' = Attached
        /\ chain[r] \in SUBSET {"exists", "allow", "deny"}
        /\ chain' = [chain EXCEPT ![r] = chain[r]]
    BY <1>1, Untouched
  <1>3. step' = "detach" /\ turn' = turn
    BY <1>1 DEF Continue
  <1>4. /\ ServerMove(r, "create") /\ (pc[r] = "create" => reply'[r] # "ok")
        /\ pc[r] \notin Beginning /\ <<r, "create">> \notin requests'
    BY <1>1, <1>2, <1>3, ContinueMove
  <1>5. Order'
    BY <1>2, <1>3, SameOrder DEF Idle
  <1>6. Handler(r)'
    BY <1>3, <1>4 DEF Handler, Idle
  <1> QED BY <1>4, <1>5, <1>6, ServerStep DEF Operations

LEMMA ApplyStep ==
    ASSUME IInv, NEW r \in Runs, Apply(r)
    PROVE  IInv'
  <1>1. Idle /\ turn = <<r, "create">>
    BY HandlerStep DEF Apply, Serve, Serving
  <1> QED BY <1>1, NewChainStep, AttachStep, AllowStep, RecordStep, ApplyFailsStep DEF Apply

LEMMA VerifyForPeerStep ==
    ASSUME IInv, NEW r \in Runs, VerifyForPeer(r)
    PROVE  IInv'
  <1>1. /\ turn = <<r, "verify">> /\ UNCHANGED firewall /\ UNCHANGED records /\ Idle
    BY HandlerStep DEF VerifyForPeer, Serving, Serve
  <1>2. PICK answer \in {"ok", "rejected"} : Finish(r, "verify", answer)
    BY DEF VerifyForPeer
  <1>3. /\ jumps' = jumps /\ jumps' \in Seq(Runs) /\ Attached' = Attached
        /\ chain[r] \in SUBSET {"exists", "allow", "deny"}
        /\ chain' = [chain EXCEPT ![r] = chain[r]]
    BY <1>1, Untouched
  <1>4. ServerMove(r, "verify") /\ turn' = None
    BY <1>1, <1>2, <1>3, FinishMove DEF Operations, firewall
  <1>5. Order'
    BY <1>1, <1>3, <1>4, SameOrder DEF Idle
  <1> QED BY <1>4, <1>5, ServerStep DEF Operations

LEMMA CheckRemoveStep ==
    ASSUME IInv, NEW r \in Runs, CheckRemove(r)
    PROVE  IInv'
  <1>1. turn = <<r, "remove">> /\ UNCHANGED firewall /\ Idle
    BY HandlerStep DEF CheckRemove, Serving, Serve
  <1>2. /\ jumps' = jumps /\ jumps' \in Seq(Runs) /\ Attached' = Attached
        /\ chain[r] \in SUBSET {"exists", "allow", "deny"}
        /\ chain' = [chain EXCEPT ![r] = chain[r]]
    BY <1>1, Untouched
  <1>3. CASE Continue("detach")
    <2>1. step' = "detach" /\ turn' = turn
      BY <1>3 DEF Continue
    <2>2. /\ ServerMove(r, "remove") /\ (pc[r] = "remove" => reply'[r] # "ok")
          /\ pc[r] \notin Beginning /\ <<r, "create">> \notin requests'
      BY <1>1, <1>2, <1>3, <2>1, ContinueMove
    <2>3. Order'
      BY <1>1, <1>2, <2>1, SameOrder DEF Idle
    <2>4. Handler(r)'
      BY <1>1, <2>1, <2>2 DEF Handler, Idle
    <2> QED BY <2>2, <2>3, <2>4, ServerStep DEF Operations
  <1>4. CASE Finish(r, "remove", "rejected") /\ UNCHANGED records
    <2>1. ServerMove(r, "remove") /\ turn' = None /\ (pc[r] = "remove" => reply'[r] = "rejected")
      BY <1>1, <1>2, <1>4, FinishMove DEF Operations
    <2>2. Order'
      BY <1>1, <1>2, <2>1, SameOrder DEF Idle
    <2> QED BY <2>1, <2>2, ServerStep DEF Operations
  <1> QED BY <1>3, <1>4 DEF CheckRemove

\* Every run has at most one jump, so that the first one of r is all of them;
\* the others keep their order.
LEMMA DroppedJump ==
    ASSUME IInv, NEW r \in Runs, DropsJump(r), UNCHANGED <<networks, subnet>>,
           turn' = None \/ step' \notin {"newChain", "attach"}
    PROVE  /\ jumps' \in Seq(Runs) /\ r \notin Attached' /\ Order'
           /\ \A q \in Runs \ {r} : q \in Attached' <=> q \in Attached
  <1>1. PICK k \in DOMAIN jumps :
            /\ jumps[k] = r
            /\ jumps' = [i \in 1..(Len(jumps) - 1) |-> IF i < k THEN jumps[i] ELSE jumps[i + 1]]
    BY DEF DropsJump
  <1>2. /\ jumps \in Seq(Runs) /\ Len(jumps) \in Nat /\ DOMAIN jumps = 1..Len(jumps)
        /\ k \in 1..Len(jumps) /\ Len(jumps) - 1 \in Nat
    BY DEF IInv, TypeOK
  <1>3. /\ DOMAIN jumps' = 1..(Len(jumps) - 1) /\ jumps' \in Seq(Runs)
        /\ Len(jumps') = Len(jumps) - 1
    <2>1. \A i \in 1..(Len(jumps) - 1) : (IF i < k THEN jumps[i] ELSE jumps[i + 1]) \in Runs
      BY <1>2
    <2> QED BY <1>1, <1>2, <2>1
  <1> DEFINE from(i) == IF i < k THEN i ELSE i + 1
  <1>4. \A i \in DOMAIN jumps' : from(i) \in DOMAIN jumps \ {k} /\ jumps'[i] = jumps[from(i)]
    BY <1>1, <1>2, <1>3
  <1>5. \A i, j \in DOMAIN jumps' : (from(i) = from(j) => i = j) /\ (i < j => from(i) < from(j))
    BY <1>2, <1>3
  <1>6. \A j \in DOMAIN jumps \ {k} : \E i \in DOMAIN jumps' : j = from(i)
    <2> TAKE j \in DOMAIN jumps \ {k}
    <2>1. CASE j < k
      BY <1>2, <1>3, <2>1
    <2>2. CASE j > k
      <3>1. j - 1 \in DOMAIN jumps' /\ ~(j - 1 < k)
        BY <1>2, <1>3, <2>2
      <3>2. from(j - 1) = j
        BY <1>2, <3>1
      <3> QED BY <3>1, <3>2
    <2> QED BY <1>2, <2>1, <2>2
  <1>7. \A i, j \in DOMAIN jumps : jumps[i] = jumps[j] => i = j
    BY DEF IInv, Order
  <1> HIDE DEF from
  <1>8. r \notin Attached'
    BY <1>1, <1>4, <1>7 DEF Attached
  <1>9. \A q \in Runs \ {r} : q \in Attached' <=> q \in Attached
    <2> TAKE q \in Runs \ {r}
    <2>1. ASSUME q \in Attached PROVE q \in Attached'
      <3>1. PICK j \in DOMAIN jumps : jumps[j] = q
        BY <2>1 DEF Attached
      <3>2. PICK i \in DOMAIN jumps' : j = from(i)
        BY <1>1, <1>6, <3>1
      <3> QED BY <1>4, <3>1, <3>2 DEF Attached
    <2>2. ASSUME q \in Attached' PROVE q \in Attached
      BY <1>4, <2>2 DEF Attached
    <2> QED BY <2>1, <2>2
  <1>10. \A i, j \in DOMAIN jumps' : jumps'[i] = jumps'[j] => i = j
    BY <1>4, <1>5, <1>7
  <1>11. \A i \in DOMAIN jumps' : jumps'[i] \in networks' =>
            \A j \in 1..(i - 1) : subnet'[jumps'[j]] # subnet'[jumps'[i]]
    <2> SUFFICES ASSUME NEW i \in DOMAIN jumps', jumps'[i] \in networks, NEW j \in 1..(i - 1)
                 PROVE  subnet[jumps'[j]] # subnet[jumps'[i]]
      OBVIOUS
    <2>1. j \in DOMAIN jumps' /\ j < i
      BY <1>3
    <2>2. from(j) \in 1..(from(i) - 1)
      BY <1>2, <1>4, <1>5, <2>1
    <2> QED BY <1>4, <2>1, <2>2 DEF IInv, Order
  <1>12. \A q \in Runs : <<q, "create">> # None
    BY NoneAssumption DEF Requests, Operations
  <1> QED BY <1>3, <1>8, <1>9, <1>10, <1>11, <1>12 DEF IInv, Order

LEMMA DetachStep ==
    ASSUME IInv, NEW r \in Runs, NEW op \in {"create", "remove"}, Idle, turn = <<r, op>>, Detach(r)
    PROVE  IInv'
  <1>1. DropsJump(r) /\ chain' = chain /\ Continue("flush")
    BY DEF Detach
  <1>2. step' = "flush" /\ turn' = turn
    BY <1>1 DEF Continue
  <1>3. /\ jumps' \in Seq(Runs) /\ r \notin Attached' /\ Order'
        /\ \A q \in Runs \ {r} : q \in Attached' <=> q \in Attached
    BY <1>1, <1>2, DroppedJump DEF Idle
  <1>4. /\ chain[r] \in SUBSET {"exists", "allow", "deny"}
        /\ chain' = [chain EXCEPT ![r] = chain[r]]
    BY <1>1 DEF IInv, TypeOK
  <1>5. /\ ServerMove(r, op) /\ (pc[r] = op => reply'[r] # "ok")
        /\ pc[r] \notin Beginning /\ <<r, "create">> \notin requests'
    BY <1>1, <1>2, <1>3, <1>4, ContinueMove
  <1>6. Handler(r)'
    BY <1>2, <1>3, <1>5 DEF Handler, Idle
  <1> QED BY <1>3, <1>5, <1>6, ServerStep DEF Operations

LEMMA FlushStep ==
    ASSUME IInv, NEW r \in Runs, NEW op \in {"create", "remove"}, Idle, turn = <<r, op>>, Flush(r)
    PROVE  IInv'
  <1>1. /\ step = "flush" /\ jumps' = jumps /\ Continue("delete")
        /\ chain' = [chain EXCEPT ![r] = {"exists"}]
    BY DEF Flush
  <1>2. step' = "delete" /\ turn' = turn /\ Attached' = Attached /\ jumps' \in Seq(Runs)
    BY <1>1 DEF Continue, Attached, IInv, TypeOK
  <1>3. /\ ServerMove(r, op) /\ (pc[r] = op => reply'[r] # "ok")
        /\ pc[r] \notin Beginning /\ <<r, "create">> \notin requests'
    BY <1>1, <1>2, ContinueMove
  <1>4. Order'
    BY <1>1, <1>2, SameOrder DEF Idle
  <1>5. r \notin Attached
    BY <1>1 DEF IInv, RunInv, Handler
  <1>6. Handler(r)'
    BY <1>2, <1>3, <1>5 DEF Handler, Idle
  <1> QED BY <1>3, <1>4, <1>6, ServerStep DEF Operations

\* The end of a removal: chain, jump and table entry are gone.
LEMMA RemovedStep ==
    ASSUME IInv, NEW r \in Runs, NEW op \in {"create", "remove"}, Idle, turn = <<r, op>>,
           Removed(r, op), chain' = [chain EXCEPT ![r] = {}], jumps' \in Seq(Runs),
           r \notin Attached', \A q \in Runs \ {r} : q \in Attached' <=> q \in Attached, Order'
    PROVE  IInv'
  <1>1. PICK answer \in {"ok", "rejected"} :
            Finish(r, op, answer) /\ (op = "create" => answer = "rejected")
    BY DEF Removed
  <1>2. records' = records \ {r}
    BY DEF Removed
  <1>3. ServerMove(r, op) /\ turn' = None /\ chain'[r] = {} /\ (pc[r] = op => reply'[r] = answer)
    BY <1>1, <1>2, FinishMove DEF Operations
  <1>4. Purged(r)'
    BY <1>2, <1>3 DEF Purged
  <1> QED BY <1>1, <1>3, <1>4, ServerStep DEF Operations

LEMMA DeleteStep ==
    ASSUME IInv, NEW r \in Runs, NEW op \in {"create", "remove"}, Idle, turn = <<r, op>>,
           Delete(r, op)
    PROVE  IInv'
  <1>1. step = "delete" /\ jumps' = jumps /\ Removed(r, op) /\ chain' = [chain EXCEPT ![r] = {}]
    BY DEF Delete
  <1>2. Attached' = Attached /\ jumps' \in Seq(Runs) /\ turn' = None
    BY <1>1 DEF Attached, IInv, TypeOK, Removed, Finish
  <1>3. r \notin Attached
    BY <1>1 DEF IInv, RunInv, Handler
  <1>4. Order'
    BY <1>1, <1>2, SameOrder DEF Idle
  <1> QED BY <1>1, <1>2, <1>3, <1>4, RemovedStep

LEMMA DeleteTableStep ==
    ASSUME IInv, NEW r \in Runs, NEW op \in {"create", "remove"}, Idle, turn = <<r, op>>,
           DeleteTable(r, op)
    PROVE  IInv'
  <1>1. Removed(r, op) /\ chain' = [chain EXCEPT ![r] = {}]
    BY DEF DeleteTable
  <1>2. turn' = None
    BY <1>1 DEF Removed, Finish
  <1>3. CASE DropsJump(r)
    <2>1. /\ jumps' \in Seq(Runs) /\ r \notin Attached' /\ Order'
          /\ \A q \in Runs \ {r} : q \in Attached' <=> q \in Attached
      BY <1>2, <1>3, DroppedJump DEF Idle
    <2> QED BY <1>1, <2>1, RemovedStep
  <1>4. CASE r \notin Attached /\ jumps' = jumps
    <2>1. Attached' = Attached /\ jumps' \in Seq(Runs)
      BY <1>4 DEF Attached, IInv, TypeOK
    <2>2. Order'
      BY <1>2, <1>4, SameOrder DEF Idle
    <2> QED BY <1>1, <1>4, <2>1, <2>2, RemovedStep
  <1> QED BY <1>3, <1>4 DEF DeleteTable

LEMMA RemoveFailsStep ==
    ASSUME IInv, NEW r \in Runs, NEW op \in {"create", "remove"}, Idle, turn = <<r, op>>,
           RemoveFails(r, op)
    PROVE  IInv'
  <1>1. Finish(r, op, "rejected") /\ UNCHANGED firewall /\ UNCHANGED records
    BY DEF RemoveFails
  <1>2. /\ jumps' = jumps /\ jumps' \in Seq(Runs) /\ Attached' = Attached
        /\ chain[r] \in SUBSET {"exists", "allow", "deny"}
        /\ chain' = [chain EXCEPT ![r] = chain[r]]
    BY <1>1, Untouched
  <1>3. ServerMove(r, op) /\ turn' = None /\ (pc[r] = op => reply'[r] = "rejected")
    BY <1>1, <1>2, FinishMove DEF Operations
  <1>4. Order'
    BY <1>2, <1>3, SameOrder DEF Idle
  <1> QED BY <1>3, <1>4, ServerStep DEF Operations

LEMMA ServeStep ==
    ASSUME IInv, NEW r \in Runs, Serve(r)
    PROVE  IInv'
  <1>1. Idle
    BY HandlerStep
  <1>2. ASSUME NEW op \in {"create", "remove"}, Remove(r, op) PROVE IInv'
    BY <1>1, <1>2, DetachStep, FlushStep, DeleteStep, DeleteTableStep, RemoveFailsStep
       DEF Remove, Serving
  <1> QED BY <1>2, CheckCreateStep, ApplyStep, VerifyForPeerStep, CheckRemoveStep DEF Serve

LEMMA TakeStep ==
    ASSUME IInv, Take
    PROVE  IInv'
  <1>1. PICK request \in requests : turn' = request /\ requests' = requests \ {request}
    BY DEF Take
  <1>2. /\ turn = None /\ step' = "check"
        /\ UNCHANGED <<tool, networks, subnet, container, stuck, backend, trace, stored, pc, failed,
                       chain, jumps, records, reply>>
    BY DEF Take, docker, firewall, client, observed
  <1>3. \A q \in Runs, op \in Operations : <<q, op>> # None
    BY NoneAssumption DEF Requests
  <1>4. \A q \in Runs, op \in Operations : Out(q, op)' <=> Out(q, op)
    BY <1>1, <1>2, <1>3 DEF Out
  <1>5. Attached' = Attached
    BY <1>2 DEF Attached
  <1>6. TypeOK' /\ turn' \notin requests'
    BY <1>1, <1>2 DEF IInv, TypeOK
  <1>7. Order'
    BY <1>2, SameOrder
  <1>8. ASSUME NEW q \in Runs PROVE RunInv(q)'
    <2>1. RunInv(q)
      BY DEF IInv
    <2>2. Still(q)' <=> Still(q)
      BY <1>4 DEF Still, Operations
    <2>3. Outstanding(q)'
      BY <1>2, <1>4, <2>1, <2>2 DEF RunInv, Outstanding, Operations
    <2>4. Handler(q)'
      BY <1>1, <1>2, <1>5, <2>1 DEF RunInv, Handler
    <2>5. Networked(q)' /\ Sealing(q)'
      BY <1>2, <1>5, <2>1, <2>2 DEF RunInv, Networked, Sealing, Sealed, Unremoved
    <2>6. (Purged(q)' <=> Purged(q)) /\ (Observed(q)' <=> Observed(q)) /\ (Clean(q)' <=> Clean(q))
      BY <1>2, <1>5, SameTool DEF Purged, Observed, Clean
    <2>7. Cleaning(q)'
      BY <1>2, <1>4, <2>1, <2>2, <2>6 DEF RunInv, Cleaning, Operations
    <2>8. Storing(q)'
      BY <1>2, <2>1, <2>2, <2>6, SameTool DEF RunInv, Storing
    <2> QED BY <2>3, <2>4, <2>5, <2>7, <2>8 DEF RunInv
  <1> QED BY <1>6, <1>7, <1>8 DEF IInv

LEMMA RestartStep ==
    ASSUME IInv, Restart
    PROVE  IInv'
  <1>1. /\ records' = {} /\ requests' = {} /\ turn' = None /\ step' = "idle"
        /\ UNCHANGED <<tool, networks, subnet, container, stuck, backend, trace, stored, pc, failed,
                       chain, jumps>>
        /\ reply' = [r \in Runs |-> IF pc[r] \in Operations THEN "rejected" ELSE reply[r]]
    BY DEF Restart, docker, firewall, client, observed
  <1>2. \A q \in Runs, op \in Operations : <<q, op>> # None
    BY NoneAssumption DEF Requests
  <1>3. \A q \in Runs, op \in Operations : ~Out(q, op)'
    BY <1>1, <1>2 DEF Out
  <1>4. Attached' = Attached
    BY <1>1 DEF Attached
  <1>5. TypeOK' /\ turn' \notin requests'
    BY <1>1 DEF IInv, TypeOK
  <1>6. Order'
    BY <1>1, SameOrder
  <1>7. ASSUME NEW q \in Runs PROVE RunInv(q)'
    <2>1. RunInv(q)
      BY DEF IInv
    <2>2. Still(q)'
      BY <1>3 DEF Still, Operations
    <2>3. Outstanding(q)'
      BY <1>3, <2>2 DEF Outstanding, Operations
    <2>4. Handler(q)'
      BY <1>1, <1>2, <1>4, <2>1 DEF RunInv, Handler, Operations
    <2>5. Networked(q)' /\ Sealing(q)'
      BY <1>1, <1>4, <2>1, <2>2 DEF RunInv, Networked, Sealing, Sealed, Unremoved, Operations
    <2>6. (Purged(q) => Purged(q)') /\ (Observed(q)' <=> Observed(q)) /\ (Clean(q) => Clean(q)')
      BY <1>1, <1>4, SameTool DEF Purged, Observed, Clean
    <2>7. Cleaning(q)'
      BY <1>1, <2>1, <2>2, <2>6 DEF RunInv, Cleaning, Operations
    <2>8. Storing(q)'
      BY <1>1, <2>1, <2>2, <2>6, SameTool DEF RunInv, Storing
    <2> QED BY <2>3, <2>4, <2>5, <2>7, <2>8 DEF RunInv
  <1> QED BY <1>5, <1>6, <1>7 DEF IInv

--------------------------------------------------------------------------------
(* The theorems *)

LEMMA InvInit == Init => IInv
  <1> SUFFICES ASSUME Init PROVE IInv
    OBVIOUS
  <1> USE DEF Init
  <1>1. \A q \in Runs, op \in Operations : <<q, op>> # None
    BY NoneAssumption DEF Requests
  <1>2. \A q \in Runs, op \in Operations : ~Out(q, op)
    BY <1>1 DEF Out
  <1>3. Attached = {}
    BY DEF Attached
  <1>4. TypeOK /\ turn \notin requests
    BY ToolAssumption DEF TypeOK, Labels, Beginning
  <1>5. Order
    BY <1>1, <1>3 DEF Order, Operations
  <1>6. ASSUME NEW q \in Runs PROVE RunInv(q)
    <2>1. pc[q] = "idle" /\ container[q] = "none" /\ stored[q] = {} /\ chain[q] = {} /\ reply[q] = "none"
      OBVIOUS
    <2>2. Outstanding(q) /\ Handler(q)
      BY <1>1, <1>2, <1>3, <2>1 DEF Outstanding, Handler, Still, Operations
    <2>3. Networked(q) /\ Sealing(q) /\ Cleaning(q) /\ Storing(q)
      BY <2>1 DEF Networked, Sealing, Cleaning, Storing, Unremoved, Working, Commands, Ending,
                  Cleaned, Controls
    <2> QED BY <2>2, <2>3 DEF RunInv
  <1> QED BY <1>4, <1>5, <1>6 DEF IInv

LEMMA InvStep == IInv /\ [Next]_vars => IInv'
  <1> SUFFICES ASSUME IInv, [Next]_vars PROVE IInv'
    OBVIOUS
  <1>1. CASE UNCHANGED vars
    <2>1. /\ UNCHANGED <<networks, subnet, container, stuck, backend, chain, jumps, records, turn,
                         step, requests, reply, tool, trace, stored, pc, failed>>
      BY <1>1 DEF vars, docker, firewall, service, wire, client, observed
    <2>2. Attached' = Attached
      BY <2>1 DEF Attached
    <2>3. ASSUME NEW q \in Runs PROVE RunInv(q)'
      BY <2>1, <2>2, SameRun DEF IInv, Same
    <2>4. TypeOK' /\ Order' /\ turn' \notin requests'
      BY <2>1, <2>2 DEF IInv, TypeOK, Order
    <2> QED BY <2>3, <2>4 DEF IInv
  <1>2. CASE Next
    BY <1>2, RunStep, KillStep, ServeStep, TakeStep, RestartStep DEF Next
  <1> QED BY <1>1, <1>2

\* In every state a run, the service and the firewall agree on what was done.
THEOREM NetworkInvariant == Spec => []IInv
  BY InvInit, InvStep, PTL DEF Spec

\* A container runs behind the complete policy of its own session until it was
\* asked to go (PolicyEngine.apply, ResolverNetworkPolicy.Prepare), however the
\* runs interleave, whatever failed, and over restarts of the service.
THEOREM ContainersAreConfined == Spec => []ConfinedUntilRemoval
  <1>1. IInv => ConfinedUntilRemoval
    <2> SUFFICES ASSUME IInv, NEW r \in Runs, container[r] = "running", r \notin stuck
                 PROVE  Confined(r)
      BY DEF ConfinedUntilRemoval
    <2>1. Sealed(r) /\ r \in networks
      BY DEF IInv, RunInv, Sealing, Unremoved, Networked
    <2>2. PICK i \in DOMAIN jumps : jumps[i] = r
      BY <2>1 DEF Sealed, Attached
    <2> QED BY <2>1, <2>2 DEF IInv, Order, Confined, Sealed
  <1> QED BY <1>1, NetworkInvariant, PTL

\* A run that reports success, or has stored a control, left no container, no
\* network, no chain, no jump and no table entry, was observed to the end, and
\* a success stored every control (ResolverNetworkPolicy.Close).
THEOREM SuccessesAreClean == Spec => []SuccessIsClean
  <1>1. IInv => SuccessIsClean
    <2> SUFFICES ASSUME IInv PROVE SuccessIsClean
      OBVIOUS
    <2>1. ASSUME NEW r \in Runs, pc[r] = "done", r \notin failed
          PROVE  Clean(r) /\ Acceptable(r, trace[r]) /\ stored[r] = ControlsOf(r)
      BY <2>1 DEF IInv, RunInv, Cleaning, Storing, Purged, Observed, Clean, Ending, Cleaned
    <2>2. ASSUME NEW r \in Runs, stored[r] # {}
          PROVE  Clean(r) /\ Acceptable(r, trace[r])
      BY <2>2 DEF IInv, RunInv, Storing, Observed
    <2> QED BY <2>1, <2>2 DEF SuccessIsClean
  <1> QED BY <1>1, NetworkInvariant, PTL
================================================================================
