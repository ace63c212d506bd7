------------------------ MODULE ObserverAuthorityProofs ------------------------
(***************************************************************************)
(* Machine-checked proofs about ObserverAuthority, for any number of       *)
(* sessions, callers and disturbances: an admission is never erased under  *)
(* its call, a control peer serves one call at a time and keeps nothing of *)
(* it, what a call reports is true, no session outlives its observer, and  *)
(* nobody who holds a lease waits in a circle.                             *)
(***************************************************************************)
EXTENDS ObserverAuthority, SequenceTheorems, TLAPS

--------------------------------------------------------------------------------
(* The inductive invariant *)

\* Where a caller may have an admission, where an agent takes it back, and
\* where it does so by stopping the helper.
Calling  == {"send", "receive", "run", "poll"}
Giving   == {"ambiguous", "invalidate", "fail-stop"}
Stopping == {"fail", "phase2", "stop", "confirm"}
Holding  == {"recheck"} \cup Calling \cup Giving \cup Stopping
Early    == {"idle", "register"}
Private  == Early \cup {"publish", "cleanup"}

CallerLabels    == {"idle", "gate", "done"} \cup Holding
RegistrarLabels == Private \cup Giving \cup Stopping \cup {"done"}
ThreadLabels    == {"idle", "phase2", "done", "stopHelper", "closeObserver", "unlisten", "unlock"}

Requests == [op : {"profile", "arm", "status", "cancel", "complete", "invalidate"}, from : Agents]
Statuses == {"registered", "rejected", "invalidated", "armed", "pending", "consumed",
             "cancelled", "completed"}
Acks     == [op : {"profile", "arm", "status", "cancel", "complete", "invalidate"}, from : Agents,
             status : Statuses]

Results == {"none", "refused", "published", "notYet", "succeeded", "failed", "notStarted",
            "ambiguous", "unconfirmed", "uncertain"}

TypeOK ==
    /\ registry \subseteq Sessions /\ teardown \subseteq Sessions /\ poisoned \subseteq Sessions
    /\ invalidated \subseteq Sessions /\ terminal \subseteq Sessions /\ closed \subseteq Sessions
    /\ published \subseteq Sessions /\ profiles \subseteq Sessions
    /\ gate \in [Sessions -> Agents \cup {Nobody}]
    /\ helper \in {"up", "dead"}
    /\ slot \in [Callers -> {"absent", "pending", "consumed"}]
    /\ inbox \in [Sessions -> Seq(Requests)] /\ outbox \in [Sessions -> Seq(Acks)]
    /\ consumed \subseteq Callers /\ launched \subseteq Callers
    /\ stream \in [Sessions -> {"none", "open", "over"}]
    /\ records \in Seq([kind : {"stream-end", "stream-fault"}, session : Sessions])
    /\ pc \in [Threads -> CallerLabels \cup RegistrarLabels \cup ThreadLabels]
    /\ result \in [Threads -> Results]
    /\ op \in [Agents -> {"none", "arm", "status", "cancel", "complete"}]
    /\ ran \in [Callers -> {"notYet", "succeeded", "failed"}]
    /\ batch \in [Threads -> SUBSET Sessions] /\ wait \in [Threads -> Sessions \cup {Nobody}]

Members(s) == {a \in Agents : Target[a] = s}

\* The lease of a session is held by the one of its agents that is between the
\* acquisition and the return.
Leased(s) ==
    /\ gate[s] # Nobody => gate[s] \in Members(s)
    /\ \A a \in Members(s) : gate[s] = a <=> pc[a] \in Holding

\* Nobody uses or tears down a session before its registrar has published it.
Unpublished(s) ==
    \A r \in Registrars \cap Members(s) :
        /\ pc[r] \in RegistrarLabels
        /\ result[r] = "published" => pc[r] = "done"
        /\ result[r] # "published" =>
              /\ \A c \in Of(s) : pc[c] = "idle"
              /\ s \notin published /\ \A t \in Threads : s \notin batch[t]
        /\ pc[r] \in Private => s \notin terminal \cup invalidated \cup closed \cup poisoned
        /\ pc[r] \in Early => s \notin registry

\* Whoever holds the lease decides what becomes of the session, until he says
\* that he stops the helper.
Authority(s) ==
    /\ \A a \in Members(s) :
          /\ pc[a] \in Calling => a \in Callers /\ Usable(s) /\ s \notin closed
          /\ pc[a] \in Giving => s \notin terminal \cup invalidated \cup closed
          /\ pc[a] \in {"invalidate", "fail-stop"} => s \in poisoned
          /\ pc[a] \in Stopping => s \in terminal
    /\ s \in terminal => s \in poisoned
    /\ s \in closed => s \notin registry

Quiet(s) == inbox[s] = <<>> /\ outbox[s] = <<>>

\* What the acknowledgement says of the admission of its caller.
Truth(a, status) ==
    a \in Callers =>
        /\ status \in {"consumed", "completed"} => a \in consumed
        /\ status \in {"cancelled", "completed"} => slot[a] = "absent"
        /\ status = "cancelled" => a \notin consumed

\* The request of a or its acknowledgement, and nothing else, is on the peer.
Turn(s, a, o) ==
    /\ inbox[s] = <<>> \/ inbox[s] = <<[op |-> o, from |-> a]>>
    /\ \/ outbox[s] = <<>>
       \/ /\ inbox[s] = <<>> /\ Len(outbox[s]) = 1
          /\ outbox[s][1].from = a /\ outbox[s][1].op = o /\ Truth(a, outbox[s][1].status)

\* An ARM that the helper has not read belongs to a call that has not returned,
\* or that could not stop the helper.
Unread(s, m) ==
    /\ m.from \in Members(s)
    /\ m.op = "invalidate" => s \in poisoned
    /\ m.op = "profile" => m.from \in Registrars /\ pc[m.from] = "register"
    /\ m.op = "arm" =>
          /\ m.from \in Callers /\ m.from \notin consumed /\ slot[m.from] = "absent"
          /\ pc[m.from] \in {"receive"} \cup Giving \cup Stopping \/ result[m.from] = "unconfirmed"

Peer(s) ==
    /\ s \in closed => Quiet(s)
    /\ s \notin poisoned /\ (\A a \in Members(s) : pc[a] \notin {"register", "receive"}) => Quiet(s)
    /\ \A a \in Members(s) :
          /\ pc[a] = "receive" => Turn(s, a, op[a])
          /\ pc[a] = "register" => Turn(s, a, "profile")
    /\ \A i \in DOMAIN inbox[s] :
          Unread(s, inbox[s][i]) /\ (i > 1 => inbox[s][i].op = "invalidate")
    /\ \A i \in DOMAIN outbox[s] :
          outbox[s][i].status = "invalidated" => s \in poisoned /\ s \notin profiles
    /\ helper = "dead" => inbox[s] = <<>> /\ s \notin profiles

\* The helper's admission and what was consumed, at each point of a call.
Slot(s, c) ==
    /\ pc[c] \in CallerLabels
    /\ slot[c] = "pending" => c \notin consumed
    /\ slot[c] = "consumed" => c \in consumed
    /\ s \notin profiles => slot[c] = "absent"
    /\ pc[c] \in {"idle", "gate", "recheck"} \/ (pc[c] = "send" /\ op[c] = "arm") =>
          slot[c] = "absent" /\ c \notin consumed
    /\ pc[c] = "done" /\ helper = "up" /\ result[c] # "unconfirmed" => slot[c] = "absent"
    /\ pc[c] # "done" => result[c] = "none"
    /\ pc[c] \in Calling => op[c] # "none"
    /\ pc[c] = "poll" => op[c] # "arm"
    /\ result[c] \in {"succeeded", "failed"} => c \in consumed
    /\ result[c] = "notStarted" => c \notin consumed

Slots(s) == \A c \in Of(s) : Slot(s, c)

\* A session that is in the registry is published or told to end.
Listed(s) ==
    s \in registry =>
        \/ s \in published \/ s \in teardown
        \/ \E r \in Registrars : Target[r] = s /\ pc[r] = "publish"

SessionInv(s) ==
    /\ Leased(s) /\ Unpublished(s) /\ Authority(s)
    /\ Peer(s) /\ Slots(s) /\ Listed(s)

\* One agent at most stops the helper; it does not wait for its own session.
Failing ==
    /\ \A t \in Threads : wait[t] # Nobody => pc[t] = "phase2" /\ wait[t] \in batch[t]
    /\ \A a \in Agents : wait[a] # Nobody => wait[a] # Target[a]
    /\ \A a, b \in Agents :
          pc[a] \in {"fail", "phase2", "stop"} /\ pc[b] \in {"fail", "phase2", "stop"} => a = b
    /\ \A a \in Agents : pc[a] \in Stopping => "fail-stop" \in supervisor
    /\ down # {} => published = {}

IInv == TypeOK /\ Failing /\ \A s \in Sessions : SessionInv(s)

--------------------------------------------------------------------------------
(* A step leaves the sessions alone that it is not about *)

\* Two places of an agent at which the invariant says the same of its session.
Alike(l, k) == l = k \/ {l, k} \subseteq Stopping

\* Nothing the invariant says of s has changed, except that it may have been
\* taken over by a teardown.
Same(s) ==
    /\ UNCHANGED <<gate[s], inbox[s], outbox[s]>>
    /\ s \in registry' <=> s \in registry
    /\ s \in poisoned' <=> s \in poisoned
    /\ s \in invalidated' <=> s \in invalidated
    /\ s \in terminal' <=> s \in terminal
    /\ s \in closed' <=> s \in closed
    /\ s \in profiles' <=> s \in profiles
    /\ s \in teardown => s \in teardown'
    /\ s \in published' => s \in published
    /\ s \in published => s \in published' \/ s \in teardown'
    /\ \A t \in Threads : s \in batch'[t] => s \in batch[t] \/ s \in published
    /\ \A a \in Members(s) : Alike(pc[a], pc'[a]) /\ UNCHANGED <<result[a], op[a]>>
    /\ \A c \in Of(s) : UNCHANGED slot[c] /\ (c \in consumed' <=> c \in consumed)
    /\ helper' = helper

LEMMA MembersOf ==
    ASSUME NEW s \in Sessions
    PROVE  /\ Of(s) \subseteq Members(s) /\ Of(s) = Callers \cap Members(s)
           /\ Members(s) \subseteq Threads /\ Members(s) \subseteq Agents
           /\ \A q, r \in Registrars \cap Members(s) : q = r
           /\ \E r \in Registrars : r \in Members(s)
           /\ \A c \in Of(s) : c \in Callers /\ c \notin Registrars /\ Target[c] = s
           /\ Nobody \notin Members(s)
  BY ThreadAssumption DEF Of, Members, Agents, Threads

LEMMA AlikePlaces ==
    ASSUME NEW l, NEW k, Alike(l, k)
    PROVE  /\ l \in Holding <=> k \in Holding
           /\ l \in Stopping <=> k \in Stopping
           /\ l \notin Stopping => l = k
           /\ k \notin Stopping => l = k
           /\ l \in Calling <=> k \in Calling
           /\ l \in Giving <=> k \in Giving
           /\ l \in Private <=> k \in Private
           /\ l \in Early <=> k \in Early
           /\ l \in CallerLabels <=> k \in CallerLabels
           /\ l \in RegistrarLabels <=> k \in RegistrarLabels
           /\ \A x \in {"register", "receive", "publish", "invalidate", "fail-stop", "idle", "gate",
                        "recheck", "send", "poll", "done"} : l = x <=> k = x
  BY DEF Alike, Holding, Stopping, Calling, Giving, Private, Early, CallerLabels, RegistrarLabels

LEMMA SameSession ==
    ASSUME NEW s \in Sessions, Same(s), SessionInv(s)
    PROVE  SessionInv(s)'
  <1> USE DEF Same
  <1>1. Members(s)' = Members(s) /\ Of(s)' = Of(s)
    BY DEF Members, Of
  <1>2. \A a \in Members(s) : Alike(pc[a], pc'[a])
    OBVIOUS
  <1>3. Leased(s)'
    BY <1>1, AlikePlaces DEF SessionInv, Leased
  <1>4. Unpublished(s)'
    BY <1>1, AlikePlaces, MembersOf DEF SessionInv, Unpublished
  <1>5. Authority(s)'
    BY <1>1, AlikePlaces DEF SessionInv, Authority, Usable
  <1>6. Quiet(s)' <=> Quiet(s)
    BY DEF Quiet
  <1>7. ASSUME NEW a \in Members(s), NEW o PROVE Turn(s, a, o)' <=> Turn(s, a, o)
    BY MembersOf DEF Turn, Truth
  <1>8. ASSUME NEW m, Unread(s, m) PROVE Unread(s, m)'
    BY <1>1, <1>8, AlikePlaces, MembersOf DEF Unread
  <1>9. Peer(s)'
    BY <1>1, <1>6, <1>7, <1>8, AlikePlaces DEF SessionInv, Peer
  <1>10. Slots(s)'
    BY <1>1, AlikePlaces, MembersOf DEF SessionInv, Slots, Slot
  <1>11. Listed(s)'
    BY AlikePlaces DEF SessionInv, Listed, Members, Agents
  <1> QED BY <1>3, <1>4, <1>5, <1>9, <1>10, <1>11 DEF SessionInv

--------------------------------------------------------------------------------
(* A step of an agent *)

\* Set Y is set X but for x.
Only(X, Y, x) == Y \subseteq Sessions /\ \A y \in Sessions \ {x} : y \in Y <=> y \in X

\* Agent a goes to l; of the sessions it changes at most its own.  It has the
\* lease from the acquisition to the return.
AgentMove(a, l) ==
    /\ pc[a] \notin {"phase2", "done"} /\ pc' = [pc EXCEPT ![a] = l]
    /\ l \in CallerLabels \cup RegistrarLabels
    /\ l \in Holding => gate[Target[a]] \in {a, Nobody} /\ gate' = [gate EXCEPT ![Target[a]] = a]
    /\ l \notin Holding => gate' = [s \in Sessions |-> IF gate[s] = a THEN Nobody ELSE gate[s]]
    /\ result' \in [Threads -> Results] /\ \A t \in Threads \ {a} : result'[t] = result[t]
    /\ op' \in [Agents -> {"none", "arm", "status", "cancel", "complete"}]
    /\ \A b \in Agents \ {a} : op'[b] = op[b]
    /\ ran' \in [Callers -> {"notYet", "succeeded", "failed"}]
    /\ inbox' \in [Sessions -> Seq(Requests)] /\ outbox' \in [Sessions -> Seq(Acks)]
    /\ \A q \in Sessions \ {Target[a]} : UNCHANGED <<inbox[q], outbox[q]>>
    /\ Only(registry, registry', Target[a]) /\ Only(teardown, teardown', Target[a])
    /\ Only(poisoned, poisoned', Target[a]) /\ Only(invalidated, invalidated', Target[a])
    /\ Only(terminal, terminal', Target[a]) /\ Only(closed, closed', Target[a])
    /\ Only(published, published', Target[a])
    /\ launched' \subseteq Callers /\ stream' \in [Sessions -> {"none", "open", "over"}]
    /\ UNCHANGED <<profiles, slot, consumed, helper, records, batch, wait, down>>

LEMMA AgentFacts ==
    ASSUME IInv, NEW a \in Agents
    PROVE  /\ Target[a] \in Sessions /\ a \in Members(Target[a]) /\ a \in Threads /\ a # Nobody
           /\ SessionInv(Target[a])
           /\ \A s \in Sessions : gate[s] = a => s = Target[a]
           /\ gate[Target[a]] = a <=> pc[a] \in Holding
           /\ \A b \in Members(Target[a]) : b # a /\ gate[Target[a]] = a => pc[b] \notin Holding
           /\ a \in Callers => a \in Of(Target[a]) /\ a \notin Registrars
  <1>1. Target[a] \in Sessions /\ a \in Members(Target[a]) /\ a \in Threads /\ a # Nobody
    BY ThreadAssumption DEF Members, Threads
  <1>2. SessionInv(Target[a])
    BY <1>1 DEF IInv
  <1>3. \A s \in Sessions : gate[s] = a => s = Target[a]
    BY <1>1 DEF IInv, SessionInv, Leased, Members
  <1>4. \A b \in Members(Target[a]) : gate[Target[a]] = b <=> pc[b] \in Holding
    BY <1>2 DEF SessionInv, Leased
  <1>5. a \in Callers => a \in Of(Target[a]) /\ a \notin Registrars
    BY ThreadAssumption DEF Of
  <1> QED BY <1>1, <1>2, <1>3, <1>4, <1>5

LEMMA AgentStep ==
    ASSUME IInv, NEW a \in Agents, NEW l, AgentMove(a, l), Failing',
           Unpublished(Target[a])', Authority(Target[a])', Peer(Target[a])', Slots(Target[a])',
           Listed(Target[a])'
    PROVE  IInv'
  <1> USE DEF AgentMove
  <1> DEFINE s == Target[a]
  <1>1. /\ s \in Sessions /\ a \in Members(s) /\ a \in Threads /\ a # Nobody /\ SessionInv(s)
        /\ \A q \in Sessions : gate[q] = a => q = s
    BY AgentFacts
  <1>2. pc'[a] = l /\ \A t \in Threads \ {a} : pc'[t] = pc[t]
    BY <1>1 DEF IInv, TypeOK
  <1>3. gate' \in [Sessions -> Agents \cup {Nobody}] /\ \A q \in Sessions \ {s} : gate'[q] = gate[q]
    <2>1. gate \in [Sessions -> Agents \cup {Nobody}]
      BY DEF IInv, TypeOK
    <2>2. CASE l \in Holding
      BY <1>1, <2>1, <2>2
    <2>3. CASE l \notin Holding
      BY <1>1, <2>1, <2>3
    <2> QED BY <2>2, <2>3
  <1>4. TypeOK'
    <2>1. pc' \in [Threads -> CallerLabels \cup RegistrarLabels \cup ThreadLabels]
      BY DEF IInv, TypeOK
    <2> QED BY <1>3, <2>1 DEF IInv, TypeOK, Only
  <1>5. Leased(s)'
    <2>1. gate'[s] = IF l \in Holding THEN a ELSE IF gate[s] = a THEN Nobody ELSE gate[s]
      BY <1>1 DEF IInv, TypeOK
    <2>2. Members(s)' = Members(s) /\ \A b \in Members(s) : b \in Threads /\ b # Nobody
      BY <1>1, MembersOf DEF Members
    <2>3. /\ gate[s] # Nobody => gate[s] \in Members(s)
          /\ \A b \in Members(s) : gate[s] = b <=> pc[b] \in Holding
      BY <1>1 DEF SessionInv, Leased
    <2> QED BY <1>1, <1>2, <2>1, <2>2, <2>3 DEF Leased
  <1>6. ASSUME NEW q \in Sessions \ {s} PROVE SessionInv(q)'
    <2>1. \A b \in Members(q) : b # a /\ b \in Threads /\ b \in Agents
      BY <1>6, MembersOf DEF Members
    <2>2. Same(q)
      BY <1>2, <1>3, <1>6, <2>1 DEF Same, Only, Alike
    <2> QED BY <1>6, <2>2, SameSession DEF IInv
  <1> QED BY <1>1, <1>4, <1>5, <1>6 DEF IInv, SessionInv

\* Nobody comes to stop the helper.
LEMMA NotFailing ==
    ASSUME IInv, NEW a \in Agents, NEW l, AgentMove(a, l), l \notin Stopping,
           supervisor' = supervisor, published' # published => down = {}
    PROVE  Failing'
  <1> USE DEF AgentMove
  <1>1. a \in Threads
    BY AgentFacts
  <1>2. pc'[a] = l /\ \A t \in Threads \ {a} : pc'[t] = pc[t]
    BY <1>1 DEF IInv, TypeOK
  <1>3. \A b \in Agents : b \in Threads
    BY DEF Threads
  <1> QED BY <1>1, <1>2, <1>3 DEF IInv, Failing, Stopping

\* The registrar of a call's session has published it.
LEMMA CallIsReady ==
    ASSUME IInv, NEW c \in Callers, pc[c] # "idle" \/ Ready(c)
    PROVE  \A r \in Registrars \cap Members(Target[c]) : result[r] = "published" /\ pc[r] = "done"
  <1>1. c \in Agents /\ Target[c] \in Sessions /\ c \in Of(Target[c]) /\ SessionInv(Target[c])
    BY AgentFacts DEF Agents
  <1>2. \A q, r \in Registrars \cap Members(Target[c]) : q = r
    BY <1>1, MembersOf
  <1>3. \A r \in Registrars : Target[r] = Target[c] => r \in Members(Target[c])
    BY DEF Members, Agents
  <1>4. ASSUME NEW r \in Registrars \cap Members(Target[c]) PROVE result[r] = "published"
    BY <1>1, <1>2, <1>3, <1>4 DEF SessionInv, Unpublished, Ready
  <1> QED BY <1>1, <1>4 DEF SessionInv, Unpublished

\* A caller's step never brings its session back.
LEMMA CallerStep ==
    ASSUME IInv, NEW c \in Callers, NEW l \in CallerLabels, AgentMove(c, l), Failing',
           pc[c] # "idle" \/ Ready(c), published' = published,
           registry' \subseteq registry, teardown \subseteq teardown',
           Authority(Target[c])', Peer(Target[c])', Slot(Target[c], c)'
    PROVE  IInv'
  <1> USE DEF AgentMove
  <1> DEFINE s == Target[c]
  <1>1. /\ c \in Agents /\ s \in Sessions /\ c \in Of(s) /\ c \in Threads /\ SessionInv(s)
        /\ c \notin Registrars
    BY AgentFacts DEF Agents
  <1>2. pc'[c] = l /\ \A t \in Threads \ {c} : pc'[t] = pc[t]
    BY <1>1 DEF IInv, TypeOK
  <1>3. Members(s)' = Members(s) /\ Of(s)' = Of(s) /\ Members(s) \subseteq Threads
        /\ Of(s) \subseteq Members(s) /\ Members(s) \subseteq Agents
    BY <1>1, MembersOf DEF Members, Of
  <1>4. \A r \in Registrars \cap Members(s) :
            result'[r] = "published" /\ pc'[r] = "done" /\ result[r] = "published" /\ pc[r] = "done"
    BY <1>1, <1>2, <1>3, CallIsReady
  <1>5. Unpublished(s)'
    BY <1>3, <1>4 DEF Unpublished, RegistrarLabels, Private, Early
  <1>6. Slots(s)'
    <2>1. ASSUME NEW d \in Of(s), d # c PROVE Slot(s, d)'
      <3>1. Slot(s, d) /\ d \in Threads /\ d \in Agents
        BY <1>1, <1>3, <2>1 DEF SessionInv, Slots
      <3> QED BY <1>2, <2>1, <3>1 DEF Slot
    <2> QED BY <1>3, <2>1 DEF Slots
  <1>7. Listed(s)'
    <2>1. \A r \in Registrars : Target[r] = s => pc[r] # "publish"
      BY <1>4 DEF Members, Agents
    <2> QED BY <1>1, <2>1 DEF SessionInv, Listed
  <1> QED BY <1>1, <1>5, <1>6, <1>7, AgentStep

\* A request that the helper has not read stays explained.
LEMMA UnreadKept ==
    ASSUME IInv, NEW a \in Agents, NEW l, AgentMove(a, l), poisoned \subseteq poisoned',
           pc[a] # "register",
           \/ pc[a] \notin {"receive"} \cup Giving \cup Stopping
           \/ l \in Giving \cup Stopping \/ result'[a] = "unconfirmed",
           NEW m, Unread(Target[a], m)
    PROVE  Unread(Target[a], m)'
  <1> USE DEF AgentMove
  <1> DEFINE s == Target[a]
  <1>1. s \in Sessions /\ a \in Members(s) /\ a \in Threads /\ SessionInv(s)
    BY AgentFacts
  <1>2. pc'[a] = l /\ \A t \in Threads \ {a} : pc'[t] = pc[t]
    BY <1>1 DEF IInv, TypeOK
  <1>3. Members(s)' = Members(s) /\ Members(s) \subseteq Threads /\ Members(s) \subseteq Agents
    BY <1>1, MembersOf DEF Members
  <1>4. m.op = "arm" => m.from # a \/ pc[a] \in {"receive"} \cup Giving \cup Stopping
    <2>1. a \in Callers => (pc[a] # "done" => result[a] = "none")
      BY <1>1, AgentFacts DEF SessionInv, Slots, Slot
    <2> QED BY <2>1 DEF Unread
  <1>5. m.op = "arm" =>
           pc'[m.from] \in {"receive"} \cup Giving \cup Stopping \/ result'[m.from] = "unconfirmed"
    BY <1>2, <1>3, <1>4 DEF Unread
  <1>6. m.op = "profile" => m.from \in Registrars /\ pc'[m.from] = "register"
    BY <1>2, <1>3 DEF Unread
  <1> QED BY <1>3, <1>5, <1>6 DEF Unread

\* The peer is left as it is.
LEMMA PeerKept ==
    ASSUME IInv, NEW a \in Agents, NEW l, AgentMove(a, l),
           UNCHANGED <<inbox, outbox, closed>>, poisoned \subseteq poisoned',
           pc[a] \notin {"register", "receive"} \/ Target[a] \in poisoned',
           pc[a] # "register", l \notin {"register", "receive"},
           \/ pc[a] \notin {"receive"} \cup Giving \cup Stopping
           \/ l \in Giving \cup Stopping \/ result'[a] = "unconfirmed"
    PROVE  Peer(Target[a])'
  <1> USE DEF AgentMove
  <1> DEFINE s == Target[a]
  <1>1. s \in Sessions /\ a \in Members(s) /\ a \in Threads /\ SessionInv(s)
    BY AgentFacts
  <1>2. pc'[a] = l /\ \A t \in Threads \ {a} : pc'[t] = pc[t]
    BY <1>1 DEF IInv, TypeOK
  <1>3. Members(s)' = Members(s) /\ Members(s) \subseteq Threads /\ Members(s) \subseteq Agents
    BY <1>1, MembersOf DEF Members
  <1>4. (Quiet(s)' <=> Quiet(s)) /\ Peer(s)
    BY <1>1 DEF Quiet, SessionInv
  <1>5. \A b \in Members(s) : \A o : Turn(s, b, o)' <=> Turn(s, b, o)
    BY DEF Turn, Truth
  <1>6. ASSUME NEW m, Unread(s, m) PROVE Unread(s, m)'
    BY <1>6, UnreadKept
  <1>7. s \in poisoned \/ s \in poisoned' \/ ~(\A b \in Members(s) : pc'[b] \notin {"register", "receive"})
        \/ \A b \in Members(s) : pc[b] \notin {"register", "receive"}
    BY <1>2, <1>3
  <1>8. \A b \in Members(s) :
          /\ pc'[b] = "receive" => Turn(s, b, op[b])'
          /\ pc'[b] = "register" => Turn(s, b, "profile")'
    <2>1. \A b \in Members(s) : pc'[b] = "receive" => op'[b] = op[b]
      BY <1>2, <1>3
    <2> QED BY <1>2, <1>3, <1>4, <1>5, <2>1 DEF Peer
  <1>9. \A i \in DOMAIN inbox[s] : Unread(s, inbox[s][i])'
    BY <1>4, <1>6 DEF Peer
  <1> QED BY <1>3, <1>4, <1>7, <1>8, <1>9 DEF Peer

\* The peer is left empty.
LEMMA PeerCleared ==
    ASSUME IInv, NEW a \in Agents, Quiet(Target[a])', UNCHANGED <<helper, profiles>>
    PROVE  Peer(Target[a])'
  <1>1. Target[a] \in Sessions /\ Peer(Target[a])
    BY AgentFacts DEF SessionInv
  <1>2. \A b, o : Turn(Target[a], b, o)'
    BY DEF Turn, Quiet
  <1>3. DOMAIN inbox'[Target[a]] = {} /\ DOMAIN outbox'[Target[a]] = {}
    BY DEF Quiet
  <1> QED BY <1>1, <1>2, <1>3 DEF Peer, Quiet

\* What becomes of the lease at a step that does not touch it.
LEMMA LeaseKept ==
    ASSUME IInv, NEW a \in Agents, gate' = gate
    PROVE  /\ pc[a] \in Holding =>
                 gate[Target[a]] \in {a, Nobody} /\ gate' = [gate EXCEPT ![Target[a]] = a]
           /\ pc[a] \notin Holding =>
                 gate' = [s \in Sessions |-> IF gate[s] = a THEN Nobody ELSE gate[s]]
  <1>1. gate \in [Sessions -> Agents \cup {Nobody}]
    BY DEF IInv, TypeOK
  <1>2. /\ Target[a] \in Sessions /\ \A s \in Sessions : gate[s] = a => s = Target[a]
        /\ gate[Target[a]] = a <=> pc[a] \in Holding
    BY AgentFacts
  <1> QED BY <1>1, <1>2

\* The session keeps its state, and the agent may be where it goes.
LEMMA AuthorityKept ==
    ASSUME IInv, NEW a \in Agents, NEW l, AgentMove(a, l),
           UNCHANGED <<registry, poisoned, invalidated, terminal, closed>>,
           l \in Calling => a \in Callers /\ Usable(Target[a]) /\ Target[a] \notin closed,
           l \in Giving => Target[a] \notin terminal \cup invalidated \cup closed,
           l \in {"invalidate", "fail-stop"} => Target[a] \in poisoned,
           l \in Stopping => Target[a] \in terminal
    PROVE  Authority(Target[a])'
  <1> USE DEF AgentMove
  <1> DEFINE s == Target[a]
  <1>1. s \in Sessions /\ a \in Members(s) /\ a \in Threads /\ Authority(s)
    BY AgentFacts DEF SessionInv
  <1>2. pc'[a] = l /\ \A t \in Threads \ {a} : pc'[t] = pc[t]
    BY <1>1 DEF IInv, TypeOK
  <1>3. Members(s)' = Members(s) /\ Members(s) \subseteq Threads
    BY <1>1, MembersOf DEF Members
  <1> QED BY <1>1, <1>2, <1>3 DEF Authority, Usable

\* The holder of the lease changes the session; the others have no say.
LEMMA AuthorityHeld ==
    ASSUME IInv, NEW a \in Agents, NEW l, AgentMove(a, l), pc[a] \in Holding,
           l \in Calling => a \in Callers /\ Usable(Target[a])' /\ Target[a] \notin closed',
           l \in Giving => Target[a] \notin terminal' \cup invalidated' \cup closed',
           l \in {"invalidate", "fail-stop"} => Target[a] \in poisoned',
           l \in Stopping => Target[a] \in terminal',
           Target[a] \in terminal' => Target[a] \in poisoned',
           Target[a] \in closed' => Target[a] \notin registry'
    PROVE  Authority(Target[a])'
  <1> USE DEF AgentMove
  <1> DEFINE s == Target[a]
  <1>1. /\ s \in Sessions /\ a \in Members(s) /\ a \in Threads
        /\ \A b \in Members(s) : b # a => pc[b] \notin Holding
    BY AgentFacts
  <1>2. pc'[a] = l /\ \A t \in Threads \ {a} : pc'[t] = pc[t]
    BY <1>1 DEF IInv, TypeOK
  <1>3. Members(s)' = Members(s) /\ Members(s) \subseteq Threads
    BY <1>1, MembersOf DEF Members
  <1> QED BY <1>1, <1>2, <1>3 DEF Authority, Holding, Giving

LEMMA LookupStep ==
    ASSUME IInv, NEW c \in Callers, Lookup(c)
    PROVE  IInv'
  <1> USE DEF Lookup
  <1>1. /\ c \in Agents /\ c \in Threads /\ Slot(Target[c], c) /\ pc[c] = "idle" /\ pc[c] \notin Holding
    BY AgentFacts DEF Agents, SessionInv, Slots, Holding, Calling, Giving, Stopping
  <1>2. /\ UNCHANGED <<registry, teardown, poisoned, invalidated, terminal, closed, published, down,
                       supervisor, helper, inbox, outbox, profiles, slot, launched, consumed,
                       stream, records, batch, wait, op, ran>>
    BY DEF session, observer, host, control, admissions, guest, phases
  <1>3. PICK l \in {"gate", "done"} :
            /\ pc' = [pc EXCEPT ![c] = l]
            /\ l = "gate" => result' = result /\ gate' = gate
            /\ l = "done" => result' = [result EXCEPT ![c] = "refused"]
            /\ l = "done" => gate' = [s \in Sessions |-> IF gate[s] = c THEN Nobody ELSE gate[s]]
    BY DEF Goto, Return
  <1>4. l \notin Holding /\ l \in CallerLabels
    BY DEF Holding, CallerLabels, Calling, Giving, Stopping
  <1>5. AgentMove(c, l)
    BY <1>1, <1>2, <1>3, <1>4, LeaseKept DEF AgentMove, Only, IInv, TypeOK, Results
  <1>6. Failing' /\ Authority(Target[c])' /\ Peer(Target[c])'
    BY <1>1, <1>2, <1>3, <1>4, <1>5, NotFailing, AuthorityKept, PeerKept DEF Holding, Giving, Stopping
  <1>7. Slot(Target[c], c)'
    BY <1>1, <1>2, <1>3, <1>4 DEF Slot, IInv, TypeOK, Calling
  <1> QED BY <1>2, <1>4, <1>5, <1>6, <1>7, CallerStep

LEMMA AcquireGateStep ==
    ASSUME IInv, NEW c \in Callers, AcquireGate(c)
    PROVE  IInv'
  <1> USE DEF AcquireGate
  <1>1. /\ c \in Agents /\ c \in Threads /\ Slot(Target[c], c) /\ pc[c] = "gate" /\ pc[c] \notin Holding
    BY AgentFacts DEF Agents, SessionInv, Slots, Holding, Calling, Giving, Stopping
  <1>2. /\ UNCHANGED <<registry, teardown, poisoned, invalidated, terminal, closed, published, down,
                       supervisor, helper, inbox, outbox, profiles, slot, launched, consumed,
                       stream, records, batch, wait, op, ran>>
    BY DEF session, observer, host, control, admissions, guest, phases
  <1>3. PICK l \in {"recheck", "done"} :
            /\ pc' = [pc EXCEPT ![c] = l]
            /\ l = "recheck" => /\ result' = result /\ gate[Target[c]] = Nobody
                                /\ gate' = [gate EXCEPT ![Target[c]] = c]
            /\ l = "done" => result' = [result EXCEPT ![c] = "refused"]
            /\ l = "done" => gate' = [s \in Sessions |-> IF gate[s] = c THEN Nobody ELSE gate[s]]
    BY DEF Goto, Return
  <1>4. l \in CallerLabels /\ l \notin Calling \cup Giving \cup Stopping /\ (l = "done" => l \notin Holding)
        /\ (l = "recheck" => l \in Holding)
    BY DEF Holding, CallerLabels, Calling, Giving, Stopping
  <1>5. AgentMove(c, l)
    BY <1>1, <1>2, <1>3, <1>4 DEF AgentMove, Only, IInv, TypeOK, Results
  <1>6. Failing' /\ Authority(Target[c])' /\ Peer(Target[c])'
    BY <1>1, <1>2, <1>3, <1>4, <1>5, NotFailing, AuthorityKept, PeerKept DEF Holding, Giving, Stopping
  <1>7. Slot(Target[c], c)'
    BY <1>1, <1>2, <1>3, <1>4 DEF Slot, IInv, TypeOK, Calling
  <1> QED BY <1>1, <1>2, <1>4, <1>5, <1>6, <1>7, CallerStep

LEMMA RecheckStep ==
    ASSUME IInv, NEW c \in Callers, Recheck(c)
    PROVE  IInv'
  <1> USE DEF Recheck
  <1>1. /\ c \in Agents /\ c \in Threads /\ Slot(Target[c], c) /\ pc[c] = "recheck" /\ pc[c] \in Holding
        /\ Target[c] \in Sessions /\ Authority(Target[c])
    BY AgentFacts DEF Agents, SessionInv, Slots, Holding
  <1>2. /\ UNCHANGED <<registry, teardown, poisoned, invalidated, terminal, closed, published, down,
                       supervisor, helper, inbox, outbox, profiles, slot, launched, consumed,
                       stream, records, batch, wait, ran>>
    BY DEF session, observer, host, control, admissions, guest, phases
  <1>3. PICK l \in {"send", "done"} :
            /\ pc' = [pc EXCEPT ![c] = l]
            /\ l = "send" => /\ result' = result /\ gate' = gate /\ Active(Target[c])
                             /\ op' = [op EXCEPT ![c] = "arm"]
            /\ l = "done" => result' = [result EXCEPT ![c] = "refused"] /\ op' = op
            /\ l = "done" => gate' = [s \in Sessions |-> IF gate[s] = c THEN Nobody ELSE gate[s]]
    BY DEF Goto, Return, MayArm
  <1>4. l \in CallerLabels /\ l \notin Giving \cup Stopping /\ (l = "done" => l \notin Holding)
        /\ (l = "send" => l \in Holding)
    BY DEF Holding, CallerLabels, Calling, Giving, Stopping
  <1>5. AgentMove(c, l)
    BY <1>1, <1>2, <1>3, <1>4, LeaseKept DEF AgentMove, Only, IInv, TypeOK, Results
  <1>6. l = "send" => Usable(Target[c]) /\ Target[c] \notin closed
    BY <1>1, <1>3 DEF Active, Usable, Authority
  <1>7. Failing' /\ Authority(Target[c])' /\ Peer(Target[c])'
    BY <1>1, <1>2, <1>3, <1>4, <1>5, <1>6, NotFailing, AuthorityKept, PeerKept
       DEF Calling, Giving, Stopping
  <1>8. Slot(Target[c], c)'
    BY <1>1, <1>2, <1>3, <1>4 DEF Slot, IInv, TypeOK, Calling
  <1> QED BY <1>1, <1>2, <1>4, <1>5, <1>7, <1>8, CallerStep

\* Agent a asks for o, alone on the peer.
LEMMA PeerAsked ==
    ASSUME IInv, NEW a \in Agents, NEW l \in {"receive", "register"}, AgentMove(a, l), NEW o,
           inbox'[Target[a]] = <<[op |-> o, from |-> a]>>, outbox'[Target[a]] = <<>>,
           closed' = closed, Target[a] \notin closed, helper = "up", o # "invalidate",
           l = "receive" => o = op'[a] /\ o # "profile",
           l = "register" => o = "profile" /\ a \in Registrars,
           o = "arm" => a \in Callers /\ a \notin consumed /\ slot[a] = "absent",
           \A b \in Members(Target[a]) : b # a => pc[b] \notin {"register", "receive"}
    PROVE  Peer(Target[a])'
  <1> USE DEF AgentMove
  <1> DEFINE s == Target[a]
             m == [op |-> o, from |-> a]
  <1>1. s \in Sessions /\ a \in Members(s) /\ a \in Threads /\ Peer(s)
    BY AgentFacts DEF SessionInv
  <1>2. pc'[a] = l /\ \A t \in Threads \ {a} : pc'[t] = pc[t]
    BY <1>1 DEF IInv, TypeOK
  <1>3. Members(s)' = Members(s) /\ Members(s) \subseteq Threads
    BY <1>1, MembersOf DEF Members
  <1>4. Turn(s, a, o)'
    BY DEF Turn
  <1>5. \A b \in Members(s) :
          /\ pc'[b] = "receive" => b = a /\ o = op'[b]
          /\ pc'[b] = "register" => b = a /\ o = "profile"
    BY <1>2, <1>3
  <1>6. \A b \in Members(s) :
          /\ pc'[b] = "receive" => Turn(s, b, op[b])'
          /\ pc'[b] = "register" => Turn(s, b, "profile")'
    BY <1>4, <1>5
  <1>7. Unread(s, m)'
    BY <1>1, <1>2, <1>3 DEF Unread
  <1>8. \A i \in DOMAIN inbox'[s] : i = 1 /\ inbox'[s][i] = m
    OBVIOUS
  <1> HIDE DEF m
  <1>9. \A i \in DOMAIN inbox'[s] : Unread(s, inbox[s][i])' /\ (i > 1 => inbox'[s][i].op = "invalidate")
    BY <1>7, <1>8
  <1>10. DOMAIN outbox'[s] = {}
    OBVIOUS
  <1> QED BY <1>1, <1>2, <1>3, <1>6, <1>9, <1>10 DEF Peer

LEMMA SendStep ==
    ASSUME IInv, NEW c \in Callers, Send(c)
    PROVE  IInv'
  <1> USE DEF Send
  <1> DEFINE s == Target[c]
  <1>1. /\ c \in Agents /\ c \in Threads /\ Slot(s, c) /\ pc[c] = "send" /\ pc[c] \in Holding
        /\ s \in Sessions /\ SessionInv(s) /\ c \in Members(s)
        /\ \A b \in Members(s) : b # c => pc[b] \notin Holding
    BY AgentFacts DEF Agents, SessionInv, Slots, Holding, Calling
  <1>2. Usable(s) /\ s \notin closed /\ s \notin terminal /\ s \notin invalidated
    BY <1>1 DEF SessionInv, Authority, Calling, Usable
  <1>3. \A b \in Members(s) : pc[b] \notin {"register", "receive"}
    <2>1. \A r \in Registrars \cap Members(s) : pc[r] = "done"
      BY <1>1, CallIsReady
    <2>2. \A b \in Members(s) \ Registrars : b \in Of(s)
      BY DEF Members, Of, Agents
    <2> QED BY <1>1, <2>1, <2>2 DEF SessionInv, Slots, Slot, CallerLabels, Holding, Calling, Giving, Stopping
  <1>4. Quiet(s)
    BY <1>1, <1>2, <1>3 DEF SessionInv, Peer, Usable
  <1>5. /\ UNCHANGED <<registry, teardown, invalidated, terminal, closed, published, down,
                       supervisor, lock, helper, outbox, profiles, slot, launched, consumed,
                       stream, records, batch, wait, op, ran>>
    BY DEF observer, host, admissions, guest, phases
  <1>6. CASE /\ helper = "up" /\ Goto(c, "receive") /\ UNCHANGED <<poisoned, result, gate>>
             /\ inbox' = [inbox EXCEPT ![s] = Append(@, [op |-> op[c], from |-> c])]
    <2>1. op[c] \in {"arm", "status", "cancel", "complete"}
      BY <1>1 DEF Slot, Calling, IInv, TypeOK
    <2>2. [op |-> op[c], from |-> c] \in Requests
      BY <1>1, <2>1 DEF Requests
    <2>3. /\ inbox'[s] = <<[op |-> op[c], from |-> c]>> /\ inbox' \in [Sessions -> Seq(Requests)]
          /\ \A q \in Sessions \ {s} : inbox'[q] = inbox[q]
      BY <1>1, <1>4, <1>6, <2>2 DEF Quiet, IInv, TypeOK
    <2>4. AgentMove(c, "receive")
      BY <1>1, <1>5, <1>6, <2>3, LeaseKept
         DEF AgentMove, Only, IInv, TypeOK, Goto, Holding, Calling, CallerLabels
    <2>5. Peer(s)'
      BY <1>1, <1>2, <1>3, <1>4, <1>5, <1>6, <2>1, <2>3, <2>4, PeerAsked DEF Slot, Quiet
    <2>6. Failing' /\ Authority(s)'
      BY <1>1, <1>2, <1>5, <1>6, <2>4, NotFailing, AuthorityKept DEF Stopping, Giving, Usable
    <2>7. Slot(s, c)'
      BY <1>1, <1>5, <1>6 DEF Slot, IInv, TypeOK, Goto, CallerLabels, Holding, Calling
    <2> QED BY <1>1, <1>5, <2>4, <2>5, <2>6, <2>7, CallerStep DEF CallerLabels, Holding, Calling
  <1>7. CASE Poison(s) /\ Goto(c, "ambiguous") /\ UNCHANGED <<inbox, result, gate>>
    <2>1. AgentMove(c, "ambiguous")
      BY <1>1, <1>5, <1>7, LeaseKept
         DEF AgentMove, Only, IInv, TypeOK, Goto, Poison, Holding, Giving, CallerLabels
    <2>2. Failing' /\ Peer(s)'
      BY <1>1, <1>5, <1>7, <2>1, NotFailing, PeerKept DEF Stopping, Giving, Poison
    <2>3. Authority(s)'
      BY <1>1, <1>2, <1>5, <1>7, <2>1, AuthorityHeld DEF Stopping, Giving, Calling, Poison
    <2>4. Slot(s, c)'
      BY <1>1, <1>5, <1>7 DEF Slot, IInv, TypeOK, Goto, CallerLabels, Holding, Calling, Giving
    <2> QED BY <1>1, <1>5, <2>1, <2>2, <2>3, <2>4, CallerStep DEF CallerLabels, Holding, Giving
  <1> QED BY <1>2, <1>6, <1>7

LEMMA OneElement ==
    ASSUME NEW S, NEW q \in Seq(S), Len(q) = 1
    PROVE  Head(q) = q[1] /\ Tail(q) = <<>>
  <1>1. Tail(q) \in Seq(S) /\ Len(Tail(q)) = 0 /\ Head(q) = q[1]
    OBVIOUS
  <1> QED BY <1>1, EmptySeq

LEMMA ReceiveStep ==
    ASSUME IInv, NEW c \in Callers, Receive(c)
    PROVE  IInv'
  <1> USE DEF Receive
  <1> DEFINE s == Target[c]
             ack == Head(outbox[s])
  <1>1. /\ c \in Agents /\ c \in Threads /\ Slot(s, c) /\ pc[c] = "receive" /\ pc[c] \in Holding
        /\ s \in Sessions /\ SessionInv(s) /\ c \in Members(s)
    BY AgentFacts DEF Agents, SessionInv, Slots, Holding, Calling
  <1>2. Usable(s) /\ s \notin closed /\ s \notin terminal /\ s \notin invalidated
    BY <1>1 DEF SessionInv, Authority, Calling, Usable
  <1>3. /\ UNCHANGED <<registry, teardown, invalidated, terminal, closed, published, down,
                       supervisor, lock, helper, inbox, profiles, slot, launched, consumed,
                       stream, records, batch, wait, ran>>
        /\ outbox[s] # <<>> /\ outbox' = [outbox EXCEPT ![s] = Tail(@)]
    BY DEF observer, host, admissions, guest, phases
  <1>4. outbox[s] \in Seq(Acks) /\ Turn(s, c, op[c])
    BY <1>1 DEF IInv, TypeOK, SessionInv, Peer
  <1>5. inbox[s] = <<>> /\ ack = outbox[s][1] /\ Tail(outbox[s]) = <<>> /\ Truth(c, ack.status)
    <2>1. inbox[s] = <<>> /\ Len(outbox[s]) = 1 /\ Truth(c, outbox[s][1].status)
      BY <1>3, <1>4 DEF Turn
    <2>2. ack = outbox[s][1] /\ Tail(outbox[s]) = <<>>
      BY <1>4, <2>1, OneElement
    <2> QED BY <2>1, <2>2
  <1>6. /\ Quiet(s)' /\ outbox' \in [Sessions -> Seq(Acks)]
        /\ \A q \in Sessions \ {s} : outbox'[q] = outbox[q]
    <2>1. outbox \in [Sessions -> Seq(Acks)] /\ outbox'[s] = <<>>
      BY <1>1, <1>3, <1>5 DEF IInv, TypeOK
    <2> QED BY <1>1, <1>3, <1>5, <2>1 DEF Quiet
  <1>7. Peer(s)'
    BY <1>1, <1>3, <1>6, PeerCleared
  <1> HIDE DEF ack
  <1>8. CASE Resolve(c, ack.status) /\ UNCHANGED poisoned
    <2>1. PICK l \in {"run", "poll", "send", "done"}, o \in {op[c], "cancel", "complete"}, r \in Results :
              /\ pc' = [pc EXCEPT ![c] = l] /\ op' = [op EXCEPT ![c] = o]
              /\ result' = [result EXCEPT ![c] = r]
              /\ l # "done" => r = result[c] /\ gate' = gate
              /\ l = "done" => \/ r = "notStarted" /\ ack.status = "cancelled"
                               \/ r = ran[c] /\ ack.status = "completed"
              /\ l = "done" => gate' = [q \in Sessions |-> IF gate[q] = c THEN Nobody ELSE gate[q]]
              /\ l = "send" => o \in {"cancel", "complete"}
              /\ l = "poll" => o # "arm"
      <3>1. /\ op = [op EXCEPT ![c] = op[c]] /\ result = [result EXCEPT ![c] = result[c]]
            /\ result[c] \in Results /\ "notStarted" \in Results /\ ran[c] \in Results
        BY <1>1 DEF IInv, TypeOK, Results
      <3>2. CASE op[c] = "arm" /\ Goto(c, "run") /\ UNCHANGED <<op, result, gate>>
        BY <3>1, <3>2 DEF Goto
      <3>3. CASE op[c] = "status" /\ Goto(c, "poll") /\ UNCHANGED <<op, result, gate>>
        BY <3>1, <3>3 DEF Goto
      <3>4. CASE Goto(c, "send") /\ op' = [op EXCEPT ![c] = "cancel"] /\ UNCHANGED <<result, gate>>
        BY <3>1, <3>4 DEF Goto
      <3>5. CASE Goto(c, "send") /\ op' = [op EXCEPT ![c] = "complete"] /\ UNCHANGED <<result, gate>>
        BY <3>1, <3>5 DEF Goto
      <3>6. CASE ack.status = "cancelled" /\ Return(c, "notStarted") /\ UNCHANGED op
        BY <3>1, <3>6 DEF Goto, Return
      <3>7. CASE ack.status = "completed" /\ Return(c, ran[c]) /\ UNCHANGED op
        BY <3>1, <3>7 DEF Goto, Return
      <3> QED BY <1>8, <3>2, <3>3, <3>4, <3>5, <3>6, <3>7 DEF Resolve
    <2>2. l \in CallerLabels /\ l \notin Giving \cup Stopping /\ (l = "done" => l \notin Holding)
          /\ (l # "done" => l \in Holding)
      BY DEF Holding, CallerLabels, Calling, Giving, Stopping
    <2>3. r \in Results /\ o \in {"none", "arm", "status", "cancel", "complete"} /\ o # "none"
      BY <1>1, <2>1 DEF IInv, TypeOK, Results, Slot, Calling
    <2>4. AgentMove(c, l)
      BY <1>1, <1>3, <1>6, <1>8, <2>1, <2>2, <2>3, LeaseKept DEF AgentMove, Only, IInv, TypeOK
    <2>5. Failing' /\ Authority(s)'
      BY <1>1, <1>2, <1>3, <1>8, <2>2, <2>4, NotFailing, AuthorityKept DEF Giving
    <2>6. Slot(s, c)'
      BY <1>1, <1>3, <1>5, <2>1, <2>2, <2>3 DEF Slot, IInv, TypeOK, Truth, Calling
    <2> QED BY <1>1, <1>3, <1>7, <2>2, <2>4, <2>5, <2>6, CallerStep
  <1>9. CASE Poison(s) /\ Goto(c, "ambiguous") /\ UNCHANGED <<op, result, gate>>
    <2>1. AgentMove(c, "ambiguous")
      BY <1>1, <1>3, <1>6, <1>9, LeaseKept
         DEF AgentMove, Only, IInv, TypeOK, Goto, Poison, Holding, Giving, CallerLabels
    <2>2. Failing'
      BY <1>1, <1>3, <1>9, <2>1, NotFailing DEF Stopping
    <2>3. Authority(s)'
      BY <1>1, <1>2, <1>3, <1>9, <2>1, AuthorityHeld DEF Stopping, Giving, Calling, Poison
    <2>4. Slot(s, c)'
      BY <1>1, <1>3, <1>9 DEF Slot, IInv, TypeOK, Goto, CallerLabels, Holding, Calling, Giving
    <2> QED BY <1>1, <1>3, <1>7, <2>1, <2>2, <2>3, <2>4, CallerStep DEF CallerLabels, Holding, Giving
  <1> QED BY <1>2, <1>8, <1>9 DEF ack

LEMMA ReceiveFailsStep ==
    ASSUME IInv, NEW c \in Callers, ReceiveFails(c)
    PROVE  IInv'
  <1> USE DEF ReceiveFails
  <1> DEFINE s == Target[c]
  <1>1. /\ c \in Agents /\ c \in Threads /\ Slot(s, c) /\ pc[c] = "receive" /\ pc[c] \in Holding
        /\ s \in Sessions /\ SessionInv(s) /\ c \in Members(s)
    BY AgentFacts DEF Agents, SessionInv, Slots, Holding, Calling
  <1>2. Usable(s) /\ s \notin closed /\ s \notin terminal /\ s \notin invalidated
    BY <1>1 DEF SessionInv, Authority, Calling, Usable
  <1>3. /\ UNCHANGED <<registry, teardown, invalidated, terminal, closed, gate, published, down,
                       supervisor, lock, helper, inbox, outbox, profiles, slot, launched, consumed,
                       stream, records, batch, wait, op, ran, result>>
        /\ Poison(s) /\ Goto(c, "ambiguous")
    BY DEF observer, host, control, admissions, guest, phases, calls
  <1>4. AgentMove(c, "ambiguous")
    BY <1>1, <1>3, LeaseKept
       DEF AgentMove, Only, IInv, TypeOK, Goto, Poison, Holding, Giving, CallerLabels
  <1>5. Failing' /\ Peer(s)'
    BY <1>1, <1>3, <1>4, NotFailing, PeerKept DEF Stopping, Giving, Poison
  <1>6. Authority(s)'
    BY <1>1, <1>2, <1>3, <1>4, AuthorityHeld DEF Stopping, Giving, Calling, Poison
  <1>7. Slot(s, c)'
    BY <1>1, <1>3 DEF Slot, IInv, TypeOK, Goto, CallerLabels, Holding, Calling, Giving
  <1> QED BY <1>1, <1>3, <1>4, <1>5, <1>6, <1>7, CallerStep DEF CallerLabels, Holding, Giving

\* A step of a call with its admission in hand.
LEMMA RunStep ==
    ASSUME IInv, NEW c \in Callers, RunCommand(c) \/ PollAgain(c) \/ PollExpires(c)
    PROVE  IInv'
  <1> USE DEF RunCommand, PollAgain, PollExpires
  <1> DEFINE s == Target[c]
  <1>1. /\ c \in Agents /\ c \in Threads /\ Slot(s, c) /\ pc[c] \in {"run", "poll"} /\ pc[c] \in Holding
        /\ s \in Sessions /\ SessionInv(s) /\ c \in Members(s)
    BY AgentFacts DEF Agents, SessionInv, Slots, Holding, Calling
  <1>2. Usable(s) /\ s \notin closed /\ s \notin terminal /\ s \notin invalidated
    BY <1>1 DEF SessionInv, Authority, Calling, Usable
  <1>3. /\ UNCHANGED <<registry, teardown, poisoned, invalidated, terminal, closed, gate, published,
                       down, supervisor, lock, helper, inbox, outbox, profiles, slot, consumed,
                       stream, records, batch, wait, result>>
        /\ launched' \subseteq Callers
    BY DEF session, observer, host, control, admissions, guest, phases, calls, IInv, TypeOK
  <1>4. PICK l \in {"send", "ambiguous"} :
            /\ pc' = [pc EXCEPT ![c] = l]
            /\ \/ op' = [op EXCEPT ![c] = "status"] /\ ran' \in [Callers -> {"notYet", "succeeded", "failed"}]
               \/ op' = op /\ ran' = ran /\ pc[c] = "poll"
    <2>1. CASE RunCommand(c)
      BY <2>1 DEF Goto, IInv, TypeOK
    <2>2. CASE PollAgain(c) \/ PollExpires(c)
      BY <2>2 DEF Goto, calls
    <2> QED BY <2>1, <2>2
  <1>5. l \in CallerLabels /\ l \in Holding /\ l \notin Stopping \cup {"invalidate", "fail-stop"}
    BY DEF Holding, CallerLabels, Calling, Giving, Stopping
  <1>6. AgentMove(c, l)
    BY <1>1, <1>3, <1>4, <1>5, LeaseKept DEF AgentMove, Only, IInv, TypeOK
  <1>7. Failing' /\ Peer(s)' /\ Authority(s)'
    BY <1>1, <1>2, <1>3, <1>4, <1>5, <1>6, NotFailing, PeerKept, AuthorityKept DEF Giving, Stopping
  <1>8. Slot(s, c)'
    BY <1>1, <1>3, <1>4, <1>5 DEF Slot, IInv, TypeOK, Calling
  <1> QED BY <1>1, <1>3, <1>5, <1>6, <1>7, <1>8, CallerStep

--------------------------------------------------------------------------------
(* An agent takes its session back *)

LEMMA NobodyExchanges ==
    ASSUME IInv, NEW a \in Agents, pc[a] \in Giving \cup Stopping
    PROVE  /\ \A b \in Members(Target[a]) : pc[b] \notin {"register", "receive"}
           /\ pc[a] \in Holding
           /\ a \in Registrars => result[a] # "published"
           /\ a \in Registrars => \A c \in Of(Target[a]) : pc[c] = "idle"
  <1> DEFINE s == Target[a]
  <1>1. /\ s \in Sessions /\ SessionInv(s) /\ a \in Members(s) /\ pc[a] \in Holding
        /\ \A b \in Members(s) : b # a => pc[b] \notin Holding
    BY AgentFacts DEF Holding
  <1>2. \A b \in Members(s) : pc[b] # "receive"
    BY <1>1 DEF Holding, Calling, Giving, Stopping
  <1>3. a \in Registrars => result[a] # "published" /\ \A c \in Of(s) : pc[c] = "idle"
    BY <1>1 DEF SessionInv, Unpublished, Giving, Stopping
  <1>4. ASSUME NEW b \in Members(s) PROVE pc[b] # "register"
    <2>1. CASE b \in Registrars /\ a \in Registrars
      <3>1. a = b
        BY <1>1, <1>4, <2>1, MembersOf
      <3> QED BY <3>1 DEF Giving, Stopping
    <2>2. CASE b \in Registrars /\ a \in Callers
      BY <1>4, <2>2, CallIsReady DEF Giving, Stopping
    <2>3. CASE b \in Callers
      <3>1. Slot(s, b)
        BY <1>1, <1>4, <2>3 DEF SessionInv, Slots, Of, Members
      <3> QED BY <3>1 DEF Slot, CallerLabels, Holding, Calling, Giving, Stopping
    <2> QED BY <1>4, <2>1, <2>2, <2>3, ThreadAssumption DEF Members, Agents
  <1> QED BY <1>1, <1>2, <1>3, <1>4

LEMMA CleanupStep ==
    ASSUME IInv, NEW a \in Agents, NEW l \in Giving \cup Stopping \cup {"done"}, AgentMove(a, l),
           Failing', pc[a] \in Giving \cup Stopping, published' = published, op' = op,
           registry' \subseteq registry, teardown \subseteq teardown',
           l # "done" => result' = result,
           l = "done" => result'[a] \in {"ambiguous", "unconfirmed"},
           /\ l = "done" /\ a \in Callers /\ helper = "up" /\ result'[a] # "unconfirmed"
           => slot[a] = "absent",
           Authority(Target[a])', Peer(Target[a])'
    PROVE  IInv'
  <1> USE DEF AgentMove
  <1> DEFINE s == Target[a]
  <1>1. /\ s \in Sessions /\ SessionInv(s) /\ a \in Members(s) /\ a \in Threads
    BY AgentFacts
  <1>2. pc'[a] = l /\ \A t \in Threads \ {a} : pc'[t] = pc[t]
    BY <1>1 DEF IInv, TypeOK
  <1>3. CASE a \in Callers
    <2>1. Slot(s, a) /\ pc[a] # "idle" /\ pc[a] # "done"
      BY <1>1, <1>3, AgentFacts DEF SessionInv, Slots, Giving, Stopping
    <2>2. l \in CallerLabels /\ l \notin {"idle", "gate", "recheck"} \cup Calling
      BY DEF CallerLabels, Holding, Calling, Giving, Stopping
    <2>3. Slot(s, a)'
      <3>1. CASE l = "done"
        BY <1>2, <1>3, <2>1, <2>2, <3>1 DEF Slot, Calling
      <3>2. CASE l # "done"
        BY <1>2, <2>1, <2>2, <3>2 DEF Slot, Calling
      <3> QED BY <3>1, <3>2
    <2> QED BY <1>3, <2>1, <2>2, <2>3, CallerStep
  <1>4. CASE a \in Registrars
    <2>1. /\ Members(s)' = Members(s) /\ Of(s)' = Of(s) /\ Members(s) \subseteq Threads
          /\ Members(s) \subseteq Agents /\ Of(s) \subseteq Members(s)
          /\ \A r \in Registrars \cap Members(s) : r = a
          /\ \A c \in Of(s) : c # a
      BY <1>1, <1>4, MembersOf DEF Members, Of
    <2>2. /\ pc'[a] \in RegistrarLabels /\ pc'[a] \notin Private \cup Early
          /\ pc[a] \notin Private \cup Early
      BY <1>2 DEF RegistrarLabels, Private, Early, Giving, Stopping
    <2>3. result[a] # "published" /\ result'[a] # "published"
      BY <1>4, NobodyExchanges
    <2>4. Unpublished(s)'
      BY <1>1, <1>2, <1>4, <2>1, <2>2, <2>3 DEF SessionInv, Unpublished
    <2>5. Slots(s)'
      <3>1. ASSUME NEW d \in Of(s) PROVE Slot(s, d)'
        <4>1. Slot(s, d) /\ d \in Threads /\ d \in Agents /\ d # a
          BY <1>1, <2>1, <3>1 DEF SessionInv, Slots
        <4> QED BY <1>2, <4>1 DEF Slot
      <3> QED BY <2>1, <3>1 DEF Slots
    <2>6. Listed(s)'
      <3>1. \A r \in Registrars : Target[r] = s => pc[r] # "publish"
        BY <2>1, <2>2 DEF Members, Agents, Private
      <3> QED BY <1>1, <3>1 DEF SessionInv, Listed
    <2> QED BY <2>4, <2>5, <2>6, AgentStep
  <1> QED BY <1>3, <1>4 DEF Agents

LEMMA BeginInvalidateStep ==
    ASSUME IInv, NEW a \in Agents, BeginInvalidate(a)
    PROVE  IInv'
  <1> USE DEF BeginInvalidate
  <1> DEFINE s == Target[a]
             m == [op |-> "invalidate", from |-> a]
  <1>1. /\ s \in Sessions /\ SessionInv(s) /\ a \in Members(s) /\ a \in Threads
        /\ pc[a] = "ambiguous" /\ pc[a] \in Giving
    BY AgentFacts DEF Giving
  <1>2. s \notin terminal /\ s \notin invalidated /\ s \notin closed
    BY <1>1 DEF SessionInv, Authority
  <1>3. pc[a] \in Holding /\ \A b \in Members(s) : pc[b] \notin {"register", "receive"}
    BY <1>1, NobodyExchanges
  <1>4. /\ UNCHANGED <<registry, invalidated, terminal, closed, published, down, supervisor, lock,
                       helper, outbox, profiles, slot, launched, consumed, stream, records, batch,
                       wait, op, ran, result, gate>>
        /\ teardown' = teardown \cup {s} /\ poisoned' = poisoned \cup {s}
    BY <1>2 DEF observer, host, admissions, guest, phases, Poison
  <1>5. PICK l \in {"invalidate", "fail-stop"} :
            /\ pc' = [pc EXCEPT ![a] = l]
            /\ l = "invalidate" => helper = "up" /\ inbox' = [inbox EXCEPT ![s] = Append(@, m)]
            /\ l = "fail-stop" => inbox' = inbox
    BY <1>2 DEF Goto
  <1>6. /\ l \in Giving /\ l \notin Stopping /\ l \in Holding /\ l \notin Calling
        /\ l \in CallerLabels
    BY DEF Giving, Stopping, Holding, Calling, CallerLabels
  <1>7. m \in Requests /\ inbox \in [Sessions -> Seq(Requests)]
    BY DEF Requests, IInv, TypeOK
  <1> HIDE DEF m
  <1>8. inbox' \in [Sessions -> Seq(Requests)] /\ \A q \in Sessions \ {s} : inbox'[q] = inbox[q]
    <2>1. CASE l = "invalidate"
      <3>1. inbox' = [inbox EXCEPT ![s] = Append(inbox[s], m)] /\ Append(inbox[s], m) \in Seq(Requests)
        BY <1>1, <1>5, <1>7, <2>1
      <3> QED BY <1>1, <1>7, <3>1
    <2>2. CASE l = "fail-stop"
      BY <1>5, <1>7, <2>2
    <2> QED BY <2>1, <2>2
  <1>9. AgentMove(a, l)
    BY <1>1, <1>3, <1>4, <1>5, <1>6, <1>8, LeaseKept DEF AgentMove, Only, IInv, TypeOK
  <1>10. Authority(s)'
    BY <1>1, <1>2, <1>3, <1>4, <1>6, <1>9, AuthorityHeld
  <1>11. Failing'
    BY <1>4, <1>6, <1>9, NotFailing
  <1>12. CASE l = "fail-stop"
    <2>1. Peer(s)'
      BY <1>1, <1>4, <1>5, <1>6, <1>9, <1>12, PeerKept
    <2> QED BY <1>1, <1>4, <1>6, <1>9, <1>10, <1>11, <1>12, <2>1, CleanupStep
  <1>13. CASE l = "invalidate"
    <2>1. /\ Members(s)' = Members(s) /\ Members(s) \subseteq Threads
          /\ \A b \in Members(s) : pc'[b] \notin {"register", "receive"}
      BY <1>1, <1>3, <1>5, <1>13, MembersOf DEF Members, IInv, TypeOK
    <2>2. /\ inbox'[s] = Append(inbox[s], m) /\ inbox[s] \in Seq(Requests)
      BY <1>1, <1>5, <1>7, <1>13
    <2>3. \A i \in DOMAIN inbox'[s] :
              inbox'[s][i] = m \/ (i \in DOMAIN inbox[s] /\ inbox'[s][i] = inbox[s][i])
      BY <1>7, <2>2
    <2>4. Unread(s, m)' /\ m.op = "invalidate"
      BY <1>1, <1>4, <2>1 DEF Unread, m
    <2>5. ASSUME NEW i \in DOMAIN inbox[s], NEW x, x = inbox[s][i]
          PROVE  Unread(s, x)' /\ (i > 1 => x.op = "invalidate")
      <3>1. Unread(s, x) /\ (i > 1 => x.op = "invalidate")
        BY <1>1, <2>5 DEF SessionInv, Peer
      <3>2. Unread(s, x)'
        BY <1>1, <1>4, <1>6, <1>9, <3>1, UnreadKept
      <3> QED BY <3>1, <3>2
    <2>6. \A i \in DOMAIN inbox'[s] :
              Unread(s, inbox[s][i])' /\ (i > 1 => inbox'[s][i].op = "invalidate")
      BY <2>3, <2>4, <2>5
    <2>7. Peer(s)'
      BY <1>1, <1>2, <1>4, <1>5, <1>13, <2>1, <2>6 DEF SessionInv, Peer
    <2> QED BY <1>1, <1>4, <1>6, <1>9, <1>10, <1>11, <1>13, <2>7, CleanupStep
  <1> QED BY <1>12, <1>13

\* The owner of the lease forgets the session and returns.
LEMMA ForgetsAndReturns ==
    ASSUME IInv, NEW a \in Agents, pc[a] \in (Giving \cup Stopping) \ {"phase2"},
           ForgetOwned(Target[a]), Return(a, "ambiguous"),
           a \in Callers /\ helper = "up" => slot[a] = "absent",
           UNCHANGED <<terminal, published, down, supervisor, helper, profiles, slot, launched,
                       consumed, stream, records, batch, wait, op, ran>>
    PROVE  IInv'
  <1> USE DEF ForgetOwned, ClosePeer, Return, Goto
  <1> DEFINE s == Target[a]
  <1>1. s \in Sessions /\ SessionInv(s) /\ a \in Members(s) /\ a \in Threads
    BY AgentFacts
  <1>2. pc[a] \in Holding /\ pc[a] # "done"
    BY NobodyExchanges DEF Giving, Stopping
  <1>3. "done" \notin Holding /\ "done" \notin Giving \cup Stopping \cup Calling /\ "done" \in CallerLabels
    BY DEF Holding, Giving, Stopping, Calling, CallerLabels
  <1>4. /\ inbox \in [Sessions -> Seq(Requests)] /\ outbox \in [Sessions -> Seq(Acks)]
        /\ registry \subseteq Sessions /\ teardown \subseteq Sessions /\ poisoned \subseteq Sessions
        /\ invalidated \subseteq Sessions /\ closed \subseteq Sessions
        /\ result \in [Threads -> Results]
    BY DEF IInv, TypeOK
  <1>5. /\ inbox' \in [Sessions -> Seq(Requests)] /\ outbox' \in [Sessions -> Seq(Acks)]
        /\ \A q \in Sessions \ {s} : UNCHANGED <<inbox[q], outbox[q]>>
        /\ inbox'[s] = <<>> /\ outbox'[s] = <<>>
    <2>1. <<>> \in Seq(Requests) /\ <<>> \in Seq(Acks)
      OBVIOUS
    <2> QED BY <1>1, <1>4, <2>1
  <1>6. /\ Only(registry, registry', s) /\ Only(teardown, teardown', s) /\ Only(poisoned, poisoned', s)
        /\ Only(invalidated, invalidated', s) /\ Only(closed, closed', s)
    BY <1>1, <1>4 DEF Only
  <1>7. /\ result' \in [Threads -> Results] /\ result'[a] = "ambiguous"
        /\ \A t \in Threads \ {a} : result'[t] = result[t]
    BY <1>1, <1>4 DEF Results
  <1>8. AgentMove(a, "done")
    BY <1>2, <1>3, <1>5, <1>6, <1>7 DEF AgentMove, Only, IInv, TypeOK
  <1>9. Peer(s)'
    BY <1>5, PeerCleared DEF Quiet
  <1>10. Authority(s)'
    BY <1>2, <1>3, <1>8, AuthorityHeld
  <1>11. Failing'
    BY <1>3, <1>8, NotFailing
  <1> QED BY <1>3, <1>7, <1>8, <1>9, <1>10, <1>11, CleanupStep

LEMMA InvalidatedStep ==
    ASSUME IInv, NEW a \in Agents, Invalidated(a)
    PROVE  IInv'
  <1> USE DEF Invalidated
  <1> DEFINE s == Target[a]
  <1>1. /\ s \in Sessions /\ SessionInv(s) /\ a \in Members(s) /\ a \in Threads
        /\ pc[a] = "invalidate" /\ pc[a] \in Giving
    BY AgentFacts DEF Giving
  <1>2. s \notin terminal /\ s \notin invalidated /\ s \notin closed /\ s \in poisoned
    BY <1>1 DEF SessionInv, Authority
  <1>3. pc[a] \in Holding /\ \A b \in Members(s) : pc[b] \notin {"register", "receive"}
    BY <1>1, NobodyExchanges
  <1>4. /\ UNCHANGED <<terminal, published, down, supervisor, lock, helper, profiles, slot, launched,
                       consumed, stream, records, batch, wait, op, ran>>
        /\ outbox[s] # <<>> /\ outbox[s] \in Seq(Acks) /\ outbox \in [Sessions -> Seq(Acks)]
    BY <1>1 DEF observer, host, admissions, guest, phases, IInv, TypeOK
  <1>5. CASE /\ Head(outbox[s]).status = "invalidated" /\ ForgetOwned(s) /\ Return(a, "ambiguous")
    <2>1. Head(outbox[s]) = outbox[s][1] /\ 1 \in DOMAIN outbox[s]
      BY <1>4
    <2>2. s \notin profiles
      BY <1>1, <1>5, <2>1 DEF SessionInv, Peer
    <2>3. a \in Callers => slot[a] = "absent"
      BY <1>1, <2>2, AgentFacts DEF SessionInv, Slots, Slot
    <2> QED BY <1>1, <1>4, <1>5, <2>3, ForgetsAndReturns
  <1>6. CASE /\ outbox' = [outbox EXCEPT ![s] = Tail(@)] /\ Goto(a, "fail-stop")
             /\ UNCHANGED <<registry, teardown, poisoned, invalidated, closed, inbox, result, gate>>
    <2>1. /\ "fail-stop" \in Giving /\ "fail-stop" \notin Stopping \cup Calling
          /\ "fail-stop" \in Holding /\ "fail-stop" \in CallerLabels
      BY DEF Giving, Stopping, Holding, Calling, CallerLabels
    <2>2. /\ outbox'[s] = Tail(outbox[s]) /\ Tail(outbox[s]) \in Seq(Acks)
          /\ \A i \in DOMAIN Tail(outbox[s]) :
                i + 1 \in DOMAIN outbox[s] /\ Tail(outbox[s])[i] = outbox[s][i + 1]
      BY <1>1, <1>4, <1>6
    <2>3. outbox' \in [Sessions -> Seq(Acks)] /\ \A q \in Sessions \ {s} : outbox'[q] = outbox[q]
      BY <1>1, <1>4, <1>6, <2>2
    <2>4. AgentMove(a, "fail-stop")
      BY <1>1, <1>3, <1>4, <1>6, <2>1, <2>3, LeaseKept DEF AgentMove, Only, IInv, TypeOK, Goto
    <2>5. /\ Members(s)' = Members(s) /\ Members(s) \subseteq Threads
          /\ \A b \in Members(s) : pc'[b] \notin {"register", "receive"}
      BY <1>1, <1>3, <1>6, MembersOf DEF Members, IInv, TypeOK, Goto
    <2>6. ASSUME NEW i \in DOMAIN inbox[s], NEW x, x = inbox[s][i]
          PROVE  Unread(s, x)' /\ (i > 1 => x.op = "invalidate")
      <3>1. Unread(s, x) /\ (i > 1 => x.op = "invalidate")
        BY <1>1, <2>6 DEF SessionInv, Peer
      <3>2. Unread(s, x)'
        BY <1>1, <1>6, <2>1, <2>4, <3>1, UnreadKept
      <3> QED BY <3>1, <3>2
    <2>7. \A i \in DOMAIN outbox'[s] :
              outbox'[s][i].status = "invalidated" => s \in poisoned' /\ s \notin profiles'
      BY <1>1, <1>2, <1>4, <1>6, <2>2 DEF SessionInv, Peer
    <2>8. Peer(s)'
      BY <1>1, <1>2, <1>4, <1>6, <2>5, <2>6, <2>7 DEF SessionInv, Peer
    <2>9. Failing' /\ Authority(s)'
      BY <1>2, <1>4, <1>6, <2>1, <2>4, NotFailing, AuthorityKept
    <2> QED BY <1>1, <1>4, <1>6, <2>1, <2>4, <2>8, <2>9, CleanupStep
  <1> QED BY <1>5, <1>6

LEMMA InvalidateFailsStep ==
    ASSUME IInv, NEW a \in Agents, InvalidateFails(a)
    PROVE  IInv'
  <1> USE DEF InvalidateFails
  <1> DEFINE s == Target[a]
  <1>1. /\ s \in Sessions /\ SessionInv(s) /\ pc[a] = "invalidate" /\ pc[a] \in Giving
        /\ pc[a] \in Holding /\ a \in Members(s)
    BY AgentFacts DEF Giving, Holding
  <1>2. s \notin terminal /\ s \notin invalidated /\ s \notin closed /\ s \in poisoned
    BY <1>1 DEF SessionInv, Authority
  <1>3. /\ UNCHANGED <<registry, teardown, poisoned, invalidated, terminal, closed, gate, published,
                       down, supervisor, lock, helper, inbox, outbox, profiles, slot, launched,
                       consumed, stream, records, batch, wait, op, ran, result>>
        /\ Goto(a, "fail-stop")
    BY DEF session, observer, host, control, admissions, guest, phases, calls
  <1>4. /\ "fail-stop" \in Giving /\ "fail-stop" \notin Stopping \cup Calling
        /\ "fail-stop" \in Holding /\ "fail-stop" \in CallerLabels
    BY DEF Giving, Stopping, Holding, Calling, CallerLabels
  <1>5. AgentMove(a, "fail-stop")
    BY <1>1, <1>3, <1>4, LeaseKept DEF AgentMove, Only, IInv, TypeOK, Goto
  <1>6. Failing' /\ Authority(s)' /\ Peer(s)'
    BY <1>1, <1>2, <1>3, <1>4, <1>5, NotFailing, AuthorityKept, PeerKept
  <1> QED BY <1>1, <1>3, <1>4, <1>5, <1>6, CleanupStep

LEMMA FailStopStep ==
    ASSUME IInv, NEW a \in Agents, FailStop(a)
    PROVE  IInv'
  <1> USE DEF FailStop
  <1> DEFINE s == Target[a]
  <1>1. /\ s \in Sessions /\ SessionInv(s) /\ pc[a] = "fail-stop" /\ pc[a] \in Giving
        /\ pc[a] \in Holding /\ a \in Members(s) /\ a \in Threads
    BY AgentFacts DEF Giving, Holding
  <1>2. s \notin terminal /\ s \notin invalidated /\ s \notin closed /\ s \in poisoned
    BY <1>1 DEF SessionInv, Authority
  <1>3. /\ UNCHANGED <<registry, teardown, invalidated, closed, gate, published,
                       down, lock, helper, inbox, outbox, profiles, slot, launched,
                       consumed, stream, records, batch, wait, op, ran, result>>
        /\ terminal' = terminal \cup {s} /\ poisoned' = poisoned \cup {s}
        /\ supervisor \subseteq supervisor' /\ "fail-stop" \in supervisor'
    BY DEF observer, control, admissions, guest, phases, calls, Poison
  <1>4. PICK l \in {"fail", "confirm"} :
            pc' = [pc EXCEPT ![a] = l] /\ (l = "fail" => "fail-stop" \notin supervisor)
    BY DEF Goto
  <1>5. /\ l \in Stopping /\ l \notin Giving \cup Calling /\ l \notin {"invalidate", "fail-stop"}
        /\ l \in Holding /\ l \in CallerLabels
    BY DEF Giving, Stopping, Holding, Calling, CallerLabels
  <1>6. AgentMove(a, l)
    BY <1>1, <1>3, <1>4, <1>5, LeaseKept DEF AgentMove, Only, IInv, TypeOK
  <1>7. Peer(s)'
    BY <1>1, <1>2, <1>3, <1>5, <1>6, PeerKept
  <1>8. Authority(s)'
    BY <1>1, <1>3, <1>5, <1>6, AuthorityHeld, <1>2
  <1>9. Failing'
    <2>1. pc'[a] = l /\ \A t \in Threads \ {a} : pc'[t] = pc[t]
      BY <1>1, <1>4 DEF IInv, TypeOK
    <2>2. \A b \in Agents : b \in Threads
      BY DEF Threads
    <2>3. Failing /\ wait[a] = Nobody
      BY <1>1, <2>2 DEF IInv, Failing
    <2>4. \A b \in Agents : pc[b] \in Stopping => "fail-stop" \in supervisor
      BY <2>3 DEF Failing
    <2>5. \A b \in Agents : pc'[b] \in {"fail", "phase2", "stop"} =>
              IF b = a THEN l = "fail" ELSE pc[b] \in {"fail", "phase2", "stop"}
      BY <2>1, <2>2
    <2>6. \A b, d \in Agents :
              pc'[b] \in {"fail", "phase2", "stop"} /\ pc'[d] \in {"fail", "phase2", "stop"} => b = d
      BY <1>4, <2>3, <2>4, <2>5 DEF Failing, Stopping
    <2>7. \A t \in Threads : wait'[t] # Nobody => pc'[t] = "phase2" /\ wait'[t] \in batch'[t]
      BY <1>3, <2>1, <2>3 DEF Failing
    <2> QED BY <1>3, <2>3, <2>6, <2>7 DEF Failing
  <1> QED BY <1>1, <1>3, <1>5, <1>6, <1>7, <1>8, <1>9, CleanupStep

LEMMA ConfirmStep ==
    ASSUME IInv, NEW a \in Agents, Confirm(a)
    PROVE  IInv'
  <1> USE DEF Confirm
  <1> DEFINE s == Target[a]
  <1>1. /\ s \in Sessions /\ SessionInv(s) /\ pc[a] = "confirm" /\ pc[a] \in Stopping
        /\ pc[a] \in Holding /\ a \in Members(s) /\ a \in Threads
    BY AgentFacts DEF Stopping, Holding
  <1>2. UNCHANGED <<terminal, published, down, supervisor, lock, helper, profiles, slot, launched,
                    consumed, stream, records, batch, wait, op, ran>>
    BY DEF observer, host, admissions, guest, phases
  <1>3. CASE helper = "dead" /\ ForgetOwned(s) /\ Return(a, "ambiguous")
    BY <1>1, <1>2, <1>3, ForgetsAndReturns
  <1>4. CASE /\ helper = "up" /\ Return(a, "unconfirmed")
             /\ UNCHANGED <<registry, teardown, poisoned, invalidated, closed, control>>
    <2>1. /\ "done" \notin Holding /\ "done" \notin Giving \cup Stopping \cup Calling
          /\ "done" \in CallerLabels
      BY DEF Holding, Giving, Stopping, Calling, CallerLabels
    <2>2. /\ result' \in [Threads -> Results] /\ result'[a] = "unconfirmed"
          /\ \A t \in Threads \ {a} : result'[t] = result[t]
      BY <1>1, <1>4 DEF Results, IInv, TypeOK, Return
    <2>3. AgentMove(a, "done")
      BY <1>1, <1>2, <1>4, <2>1, <2>2 DEF AgentMove, Only, IInv, TypeOK, Goto, Return, control
    <2>4. Failing' /\ Authority(s)' /\ Peer(s)'
      BY <1>1, <1>2, <1>4, <2>1, <2>2, <2>3, NotFailing, AuthorityKept, PeerKept DEF control
    <2> QED BY <1>1, <1>2, <1>4, <2>1, <2>2, <2>3, <2>4, CleanupStep
  <1> QED BY <1>3, <1>4

--------------------------------------------------------------------------------
(* Teardown: steps of any thread *)

RecordsType == Seq([kind : {"stream-end", "stream-fault"}, session : Sessions])

\* A step that is about no session in particular.
LEMMA FrameStep ==
    ASSUME IInv, TypeOK', Failing', \A s \in Sessions : Same(s)
    PROVE  IInv'
  BY SameSession DEF IInv

\* What a thread that runs on beside the agents may change.
Aside ==
    /\ UNCHANGED <<registry, poisoned, invalidated, terminal, closed, gate, helper, inbox, outbox,
                   profiles, slot, consumed, launched, stream, op, ran>>
    /\ records' \in RecordsType /\ result' \in [Threads -> Results]
    /\ \A a \in Agents : result'[a] = result[a]

\* Phase 1: the published sessions of B become the batch of thread t.
LEMMA TakeOver ==
    ASSUME IInv, NEW t \in Threads, NEW B, B \subseteq published, Phase1(t, B), Goto(t, "phase2"),
           pc[t] # "phase2", t \in Agents => pc[t] = "fail",
           published' = published \ B, down' # {} => published' = {},
           Aside, UNCHANGED <<wait, supervisor>>
    PROVE  IInv'
  <1> USE DEF Phase1, Goto, Aside
  <1>1. pc'[t] = "phase2" /\ \A u \in Threads \ {t} : pc'[u] = pc[u]
    BY DEF IInv, TypeOK
  <1>2. batch'[t] = B /\ \A u \in Threads \ {t} : batch'[u] = batch[u]
    BY DEF IInv, TypeOK
  <1>3. "phase2" \in Stopping /\ "fail" \in Stopping /\ "phase2" \in ThreadLabels
    BY DEF Stopping, ThreadLabels
  <1>4. TypeOK'
    BY <1>3 DEF IInv, TypeOK, RecordsType
  <1>5. \A a \in Agents : a \in Threads
    BY DEF Threads
  <1>6. Failing'
    BY <1>1, <1>2, <1>3, <1>5 DEF IInv, Failing
  <1>7. ASSUME NEW s \in Sessions PROVE Same(s)
    <2>1. \A a \in Members(s) : a \in Agents /\ a \in Threads
      BY <1>5 DEF Members
    <2>2. \A a \in Members(s) : Alike(pc[a], pc'[a])
      BY <1>1, <1>3, <2>1 DEF Alike
    <2> QED BY <1>2, <2>1, <2>2 DEF Same
  <1> QED BY <1>4, <1>6, <1>7, FrameStep

\* Thread t goes on, without a teardown in hand.
LEMMA MovesOn ==
    ASSUME IInv, NEW t \in Threads, NEW l \in ThreadLabels \cup {"stop"}, Goto(t, l),
           wait[t] = Nobody, t \in Agents => pc[t] = "phase2" /\ l = "stop",
           Aside, supervisor \subseteq supervisor', UNCHANGED <<teardown, published, down, batch, wait>>
    PROVE  IInv'
  <1> USE DEF Goto, Aside
  <1>1. pc'[t] = l /\ \A u \in Threads \ {t} : pc'[u] = pc[u]
    BY DEF IInv, TypeOK
  <1>2. "stop" \in Stopping /\ "phase2" \in Stopping /\ "stop" \in CallerLabels
    BY DEF Stopping, CallerLabels, Holding
  <1>3. TypeOK'
    BY <1>2 DEF IInv, TypeOK, RecordsType
  <1>4. \A a \in Agents : a \in Threads
    BY DEF Threads
  <1>5. Failing'
    BY <1>1, <1>2, <1>4 DEF IInv, Failing
  <1>6. ASSUME NEW s \in Sessions PROVE Same(s)
    <2>1. \A a \in Members(s) : a \in Agents /\ a \in Threads
      BY <1>4 DEF Members
    <2>2. \A a \in Members(s) : Alike(pc[a], pc'[a])
      BY <1>1, <1>2, <2>1 DEF Alike
    <2> QED BY <2>1, <2>2 DEF Same
  <1> QED BY <1>3, <1>5, <1>6, FrameStep

LEMMA Phase2DoneStep ==
    ASSUME IInv, NEW t \in Threads, Phase2Done(t)
    PROVE  IInv'
  <1> USE DEF Phase2Done
  <1> DEFINE l == AfterPhase2(t)
  <1>1. wait[t] = Nobody
    BY DEF IInv, Failing
  <1>2. (t \in Agents => l = "stop") /\ l \in ThreadLabels \cup {"stop"}
    BY ThreadAssumption DEF AfterPhase2, ThreadLabels, Threads
  <1>3. Aside /\ UNCHANGED <<teardown, published, down, batch, wait, supervisor>>
    BY DEF Aside, session, observer, host, control, admissions, guest, phases, calls, IInv, TypeOK,
           RecordsType
  <1>4. Goto(t, l) /\ pc[t] = "phase2"
    OBVIOUS
  <1> HIDE DEF l
  <1> QED BY <1>1, <1>2, <1>3, <1>4, MovesOn

\* A teardown forgets a session behind its gate, or that its owner gives up.
LEMMA ForgetSession ==
    ASSUME IInv, NEW t \in Threads, NEW s \in Sessions, s \in batch[t], ForgetOwned(s),
           s \in terminal \/ gate[s] = Nobody, pc[t] = "phase2",
           batch' = [batch EXCEPT ![t] = @ \ {s}], wait' = [wait EXCEPT ![t] = Nobody],
           UNCHANGED <<terminal, gate, published, down, supervisor, helper, profiles, slot, launched,
                       consumed, stream, records, op, ran, result, pc>>
    PROVE  IInv'
  <1> USE DEF ForgetOwned, ClosePeer
  <1>1. /\ inbox'[s] = <<>> /\ outbox'[s] = <<>>
        /\ \A q \in Sessions \ {s} : UNCHANGED <<inbox[q], outbox[q]>>
        /\ inbox' \in [Sessions -> Seq(Requests)] /\ outbox' \in [Sessions -> Seq(Acks)]
    <2>1. inbox \in [Sessions -> Seq(Requests)] /\ outbox \in [Sessions -> Seq(Acks)]
      BY DEF IInv, TypeOK
    <2>2. <<>> \in Seq(Requests) /\ <<>> \in Seq(Acks)
      OBVIOUS
    <2> QED BY <2>1, <2>2
  <1>2. /\ \A u \in Threads : batch'[u] \subseteq batch[u] /\ (u # t => batch'[u] = batch[u])
        /\ wait'[t] = Nobody /\ \A u \in Threads \ {t} : wait'[u] = wait[u]
    BY DEF IInv, TypeOK
  <1>3. TypeOK'
    BY <1>1 DEF IInv, TypeOK
  <1>4. \A a \in Agents : a \in Threads
    BY DEF Threads
  <1>5. Failing'
    BY <1>2, <1>4 DEF IInv, Failing
  <1>6. ASSUME NEW q \in Sessions \ {s} PROVE SessionInv(q)'
    <2>1. Same(q)
      BY <1>1, <1>2, <1>6 DEF Same, Alike
    <2> QED BY <1>6, <2>1, SameSession DEF IInv
  <1>7. SessionInv(s)'
    <2>1. SessionInv(s)
      BY DEF IInv
    <2>2. Members(s)' = Members(s) /\ Of(s)' = Of(s)
      BY DEF Members, Of
    <2>3. Leased(s)'
      BY <2>1, <2>2 DEF SessionInv, Leased
    <2>4. \A r \in Registrars \cap Members(s) : result[r] = "published" /\ pc[r] = "done"
      BY <2>1 DEF SessionInv, Unpublished
    <2>5. Unpublished(s)'
      BY <2>2, <2>4 DEF Unpublished, RegistrarLabels, Private, Early
    <2>6. \A a \in Members(s) : pc[a] \notin Calling \cup Giving
      BY <2>1, MembersOf DEF SessionInv, Leased, Authority, Holding, Usable
    <2>7. Authority(s)'
      BY <2>1, <2>2, <2>6 DEF SessionInv, Authority, Giving
    <2>8. Quiet(s)' /\ \A a, o : Turn(s, a, o)'
      BY <1>1 DEF Quiet, Turn
    <2>9. DOMAIN inbox'[s] = {} /\ DOMAIN outbox'[s] = {}
      BY <1>1
    <2>10. Peer(s)'
      BY <1>1, <2>1, <2>8, <2>9 DEF SessionInv, Peer
    <2>11. Slots(s)'
      BY <2>1, <2>2 DEF SessionInv, Slots, Slot
    <2>12. Listed(s)'
      BY DEF Listed
    <2> QED BY <2>3, <2>5, <2>7, <2>10, <2>11, <2>12 DEF SessionInv
  <1> QED BY <1>3, <1>5, <1>6, <1>7 DEF IInv

LEMMA ForgetOneStep ==
    ASSUME IInv, NEW t \in Threads, ForgetOne(t)
    PROVE  IInv'
  <1> USE DEF ForgetOne
  <1>1. /\ UNCHANGED <<terminal, published, down, supervisor, helper, profiles, slot, launched,
                       consumed, stream, records, op, ran, result, pc>>
        /\ pc[t] = "phase2"
    BY DEF observer, host, admissions, guest, calls
  <1>2. PICK s \in batch[t] : \/ wait[t] = Nobody /\ ForgetWithoutGate(t, s)
                              \/ wait[t] = Nobody /\ AwaitGate(t, s)
                              \/ ForgetBehindGate(t, s)
    OBVIOUS
  <1>3. s \in Sessions /\ wait \in [Threads -> Sessions \cup {Nobody}]
    BY DEF IInv, TypeOK
  <1>4. CASE wait[t] = Nobody /\ ForgetWithoutGate(t, s)
    <2>1. wait' = [wait EXCEPT ![t] = Nobody]
      BY <1>3, <1>4 DEF ForgetWithoutGate
    <2> QED BY <1>1, <1>3, <1>4, <2>1, ForgetSession DEF ForgetWithoutGate, MustWait
  <1>5. CASE ForgetBehindGate(t, s)
    BY <1>1, <1>3, <1>5, ForgetSession DEF ForgetBehindGate
  <1>6. CASE wait[t] = Nobody /\ AwaitGate(t, s)
    <2>1. /\ s \notin terminal /\ teardown' = teardown \cup {s} /\ wait' = [wait EXCEPT ![t] = s]
          /\ UNCHANGED <<registry, poisoned, invalidated, closed, inbox, outbox, batch, gate>>
      BY <1>6 DEF AwaitGate, MustWait, control
    <2>2. TypeOK'
      BY <1>1, <1>3, <2>1 DEF IInv, TypeOK
    <2>3. \A q \in Sessions : Same(q)
      BY <1>1, <2>1 DEF Same, Alike
    <2>4. t \in Agents => Target[t] \in terminal
      BY <1>1, AgentFacts DEF SessionInv, Authority, Stopping
    <2>5. wait'[t] = s /\ \A u \in Threads \ {t} : wait'[u] = wait[u]
      BY <1>3, <2>1
    <2>6. \A a \in Agents : a \in Threads
      BY DEF Threads
    <2>7. Failing'
      BY <1>1, <2>1, <2>4, <2>5, <2>6 DEF IInv, Failing
    <2> QED BY <2>2, <2>3, <2>7, FrameStep
  <1> QED BY <1>2, <1>4, <1>5, <1>6

LEMMA FailObserverStep ==
    ASSUME IInv, NEW a \in Agents, FailObserver(a)
    PROVE  IInv'
  <1> USE DEF FailObserver, Fail
  <1>1. a \in Threads
    BY AgentFacts
  <1>2. Aside /\ UNCHANGED <<wait, supervisor>>
    BY DEF Aside, host, control, admissions, guest, calls, IInv, TypeOK, RecordsType
  <1> QED BY <1>1, <1>2, TakeOver

\* The helper process is gone, and with it everything it knew.
LEMMA HelperGone ==
    ASSUME IInv, HelperEnds, Failing', pc' \in [Threads -> CallerLabels \cup RegistrarLabels \cup ThreadLabels],
           result' \in [Threads -> Results],
           \A a \in Agents : Alike(pc[a], pc'[a]) /\ result'[a] = result[a],
           UNCHANGED <<registry, teardown, poisoned, invalidated, terminal, closed, gate, published,
                       down, outbox, consumed, stream, records, batch, wait, op, ran>>
    PROVE  IInv'
  <1> USE DEF HelperEnds
  <1>1. TypeOK'
    BY DEF IInv, TypeOK
  <1>2. ASSUME NEW s \in Sessions PROVE SessionInv(s)'
    <2>1. SessionInv(s)
      BY DEF IInv
    <2>2. Members(s)' = Members(s) /\ Of(s)' = Of(s) /\ \A a \in Members(s) : a \in Agents
      BY DEF Members, Of
    <2>3. /\ inbox'[s] = <<>> /\ outbox'[s] = outbox[s] /\ s \notin profiles' /\ helper' = "dead"
          /\ \A c \in Callers : slot'[c] = "absent"
      OBVIOUS
    <2>4. Leased(s)'
      BY <2>1, <2>2, AlikePlaces DEF SessionInv, Leased
    <2>5. Unpublished(s)'
      BY <2>1, <2>2, AlikePlaces, MembersOf DEF SessionInv, Unpublished
    <2>6. Authority(s)'
      BY <2>1, <2>2, AlikePlaces DEF SessionInv, Authority, Usable
    <2>7. Quiet(s) => Quiet(s)'
      BY <2>3 DEF Quiet
    <2>8. ASSUME NEW a \in Members(s), NEW o, Turn(s, a, o) PROVE Turn(s, a, o)'
      BY <2>3, <2>8 DEF Turn, Truth
    <2>9. DOMAIN inbox'[s] = {}
      BY <2>3
    <2>10. Peer(s)'
      BY <2>1, <2>2, <2>3, <2>7, <2>8, <2>9, AlikePlaces DEF SessionInv, Peer
    <2>11. Slots(s)'
      <3>1. ASSUME NEW c \in Of(s) PROVE Slot(s, c)'
        <4>1. Slot(s, c) /\ Alike(pc[c], pc'[c]) /\ c \in Agents /\ c \in Callers
          BY <2>1, <2>2, <3>1, MembersOf DEF SessionInv, Slots
        <4> QED BY <2>3, <4>1, AlikePlaces DEF Slot
      <3> QED BY <2>2, <3>1 DEF Slots
    <2>12. Listed(s)'
      BY <2>1, AlikePlaces DEF SessionInv, Listed, Agents
    <2> QED BY <2>4, <2>5, <2>6, <2>10, <2>11, <2>12 DEF SessionInv
  <1> QED BY <1>1, <1>2 DEF IInv

LEMMA StopHelperStep ==
    ASSUME IInv, NEW a \in Agents, StopHelper(a)
    PROVE  IInv'
  <1> USE DEF StopHelper
  <1>1. a \in Threads /\ \A b \in Agents : b \in Threads
    BY DEF Threads
  <1>2. pc'[a] = "confirm" /\ pc[a] = "stop" /\ \A u \in Threads \ {a} : pc'[u] = pc[u]
    BY <1>1 DEF IInv, TypeOK, Goto
  <1>3. UNCHANGED <<registry, teardown, poisoned, invalidated, terminal, closed, gate, published,
                    down, outbox, consumed, stream, records, batch, wait, op, ran, result, supervisor>>
    BY DEF session, observer, host, phases, calls
  <1>4. "stop" \in Stopping /\ "confirm" \in Stopping /\ "confirm" \in CallerLabels
    BY DEF Stopping, CallerLabels, Holding
  <1>5. \A b \in Agents : Alike(pc[b], pc'[b])
    BY <1>1, <1>2, <1>4 DEF Alike
  <1>6. Failing'
    BY <1>1, <1>2, <1>3, <1>4 DEF IInv, Failing
  <1>7. pc' \in [Threads -> CallerLabels \cup RegistrarLabels \cup ThreadLabels]
    BY <1>4 DEF IInv, TypeOK, Goto
  <1>8. CASE HelperEnds
    <2>1. result' \in [Threads -> Results]
      BY <1>3 DEF IInv, TypeOK
    <2> QED BY <1>3, <1>5, <1>6, <1>7, <1>8, <2>1, HelperGone
  <1>9. CASE UNCHANGED <<helper, admissions, inbox, launched>>
    <2>1. TypeOK'
      BY <1>3, <1>7, <1>9 DEF IInv, TypeOK, admissions
    <2>2. \A s \in Sessions : Same(s)
      BY <1>3, <1>5, <1>9 DEF Same, admissions, Members
    <2> QED BY <1>6, <2>1, <2>2, FrameStep
  <1> QED BY <1>8, <1>9 DEF Stop

--------------------------------------------------------------------------------
(* Steps of a registrar *)

\* Until the registrar has published its session, nobody else has to do with it.
LEMMA RegistrarFacts ==
    ASSUME IInv, NEW r \in Registrars, pc[r] \in Private
    PROVE  /\ Target[r] \in Sessions /\ r \in Agents /\ r \in Threads /\ r \in Members(Target[r])
           /\ SessionInv(Target[r]) /\ result[r] # "published" /\ pc[r] \notin Holding
           /\ \A q \in Registrars : Target[q] = Target[r] => q = r
           /\ \A b \in Members(Target[r]) : b # r => b \in Of(Target[r]) /\ pc[b] = "idle"
           /\ Target[r] \notin terminal \cup invalidated \cup closed \cup poisoned \cup published
           /\ \A t \in Threads : Target[r] \notin batch[t]
           /\ gate[Target[r]] = Nobody
           /\ pc[r] # "register" => Quiet(Target[r])
           /\ pc[r] \in Early => Target[r] \notin registry
  <1> DEFINE s == Target[r]
  <1>1. /\ s \in Sessions /\ r \in Agents /\ r \in Threads /\ r \in Members(s) /\ SessionInv(s)
    BY AgentFacts DEF Agents
  <1>2. \A q \in Registrars : Target[q] = s => q = r
    BY <1>1, MembersOf DEF Members, Agents
  <1>3. pc[r] # "done" /\ pc[r] \notin Holding
    BY DEF Private, Early, Holding, Calling, Giving, Stopping
  <1>4. /\ result[r] # "published" /\ \A c \in Of(s) : pc[c] = "idle"
        /\ s \notin published /\ \A t \in Threads : s \notin batch[t]
        /\ s \notin terminal \cup invalidated \cup closed \cup poisoned
        /\ pc[r] \in Early => s \notin registry
    BY <1>1, <1>3 DEF SessionInv, Unpublished
  <1>5. \A b \in Members(s) : b # r => b \in Of(s) /\ pc[b] = "idle"
    BY <1>2, <1>4 DEF Members, Agents, Of
  <1>6. \A b \in Members(s) : pc[b] \notin Holding
    BY <1>3, <1>5 DEF Holding, Calling, Giving, Stopping
  <1>7. gate[s] = Nobody
    BY <1>1, <1>6 DEF SessionInv, Leased
  <1>8. pc[r] # "register" => Quiet(s)
    BY <1>1, <1>3, <1>4, <1>5 DEF SessionInv, Peer, Holding, Calling
  <1> QED BY <1>1, <1>2, <1>3, <1>4, <1>5, <1>7, <1>8

LEMMA RegistrarStep ==
    ASSUME IInv, NEW r \in Registrars, pc[r] \in Private, NEW l \in RegistrarLabels, AgentMove(r, l),
           Failing', op' = op,
           l \in Private => /\ Target[r] \notin terminal' \cup invalidated' \cup closed' \cup poisoned'
                            /\ result'[r] # "published",
           l \in Early => Target[r] \notin registry',
           result'[r] = "published" => l = "done",
           result'[r] # "published" => published' = published,
           Target[r] \in registry' =>
              Target[r] \in published' \/ Target[r] \in teardown' \/ l = "publish",
           Authority(Target[r])', Peer(Target[r])'
    PROVE  IInv'
  <1> USE DEF AgentMove
  <1> DEFINE s == Target[r]
  <1>1. /\ s \in Sessions /\ r \in Agents /\ r \in Threads /\ r \in Members(s)
        /\ SessionInv(s) /\ \A q \in Registrars : Target[q] = s => q = r
        /\ \A b \in Members(s) : b # r => b \in Of(s) /\ pc[b] = "idle"
        /\ s \notin published /\ \A t \in Threads : s \notin batch[t]
    BY RegistrarFacts
  <1>2. pc'[r] = l /\ \A t \in Threads \ {r} : pc'[t] = pc[t]
    BY <1>1 DEF IInv, TypeOK
  <1>3. /\ Members(s)' = Members(s) /\ Of(s)' = Of(s) /\ Members(s) \subseteq Threads
        /\ Members(s) \subseteq Agents /\ Of(s) \subseteq Members(s)
        /\ \A c \in Of(s) : c # r /\ c \in Threads /\ c \in Agents
    BY <1>1, MembersOf DEF Members, Of
  <1>4. Unpublished(s)'
    <2>1. \A q \in Registrars \cap Members(s) : q = r
      BY <1>1 DEF Members
    <2>2. \A c \in Of(s) : pc'[c] = "idle"
      BY <1>1, <1>2, <1>3
    <2> QED BY <1>1, <1>2, <1>3, <2>1, <2>2 DEF Unpublished
  <1>5. Slots(s)'
    <2>1. ASSUME NEW d \in Of(s) PROVE Slot(s, d)'
      <3>1. Slot(s, d) /\ d \in Threads /\ d \in Agents /\ d # r
        BY <1>1, <1>3, <2>1 DEF SessionInv, Slots
      <3> QED BY <1>2, <3>1 DEF Slot
    <2> QED BY <1>3, <2>1 DEF Slots
  <1>6. Listed(s)'
    BY <1>1, <1>2 DEF Listed
  <1> QED BY <1>1, <1>4, <1>5, <1>6, AgentStep

\* A session that nobody holds.
LEMMA AuthorityIdle ==
    ASSUME IInv, NEW r \in Registrars, pc[r] \in Private, NEW l, AgentMove(r, l), l \notin Holding,
           Target[r] \in terminal' => Target[r] \in poisoned',
           Target[r] \in closed' => Target[r] \notin registry'
    PROVE  Authority(Target[r])'
  <1> USE DEF AgentMove
  <1> DEFINE s == Target[r]
  <1>1. /\ s \in Sessions /\ r \in Threads
        /\ \A b \in Members(s) : b # r => pc[b] = "idle"
    BY RegistrarFacts
  <1>2. pc'[r] = l /\ \A t \in Threads \ {r} : pc'[t] = pc[t]
    BY <1>1 DEF IInv, TypeOK
  <1>3. Members(s)' = Members(s) /\ Members(s) \subseteq Threads
    BY <1>1, MembersOf DEF Members
  <1>4. \A b \in Members(s) : pc'[b] \notin Holding
    BY <1>1, <1>2, <1>3 DEF Holding, Calling, Giving, Stopping
  <1> QED BY <1>3, <1>4 DEF Authority, Holding, Giving

LEMMA StartProfileStep ==
    ASSUME IInv, NEW r \in Registrars, StartProfile(r)
    PROVE  IInv'
  <1> USE DEF StartProfile
  <1> DEFINE s == Target[r]
             m == [op |-> "profile", from |-> r]
  <1>1. pc[r] = "idle" /\ pc[r] \in Private /\ pc[r] \in Early /\ pc[r] \notin Giving \cup Stopping
    BY DEF Private, Early, Giving, Stopping
  <1>2. /\ s \in Sessions /\ r \in Agents /\ r \in Threads /\ result[r] # "published"
        /\ pc[r] \notin Holding /\ \A b \in Members(s) : b # r => pc[b] = "idle"
        /\ s \notin terminal /\ s \notin invalidated /\ s \notin closed /\ s \notin poisoned
        /\ Quiet(s) /\ s \notin registry
    BY <1>1, RegistrarFacts
  <1>3. UNCHANGED <<registry, teardown, poisoned, invalidated, terminal, closed, published, down,
                    supervisor, lock, helper, outbox, profiles, slot, launched, consumed, stream,
                    records, batch, wait, op, ran>>
    BY DEF session, observer, host, admissions, guest, phases
  <1>4. CASE /\ helper = "up" /\ inbox' = [inbox EXCEPT ![s] = Append(@, m)]
             /\ Goto(r, "register") /\ UNCHANGED <<gate, result>>
    <2>1. /\ "register" \in RegistrarLabels /\ "register" \notin Holding /\ "register" \notin Stopping
          /\ "register" \in Private
      BY DEF RegistrarLabels, Private, Early, Holding, Calling, Giving, Stopping
    <2>2. /\ inbox'[s] = <<m>> /\ inbox' \in [Sessions -> Seq(Requests)]
          /\ \A q \in Sessions \ {s} : inbox'[q] = inbox[q]
      <3>1. m \in Requests /\ inbox \in [Sessions -> Seq(Requests)] /\ inbox[s] = <<>>
        BY <1>2 DEF Requests, IInv, TypeOK, Quiet
      <3> HIDE DEF m
      <3>2. Append(inbox[s], m) = <<m>> /\ <<m>> \in Seq(Requests)
        BY <3>1
      <3> QED BY <1>2, <1>4, <3>1, <3>2
    <2>3. AgentMove(r, "register")
      BY <1>1, <1>2, <1>3, <1>4, <2>1, <2>2, LeaseKept DEF AgentMove, Only, IInv, TypeOK, Goto
    <2>4. outbox'[s] = <<>>
      BY <1>2, <1>3 DEF Quiet
    <2>5. Peer(s)'
      BY <1>2, <1>3, <1>4, <2>2, <2>3, <2>4, PeerAsked
    <2>6. Failing'
      BY <1>2, <1>3, <2>1, <2>3, NotFailing
    <2>7. Authority(s)'
      BY <1>1, <1>2, <1>3, <2>1, <2>3, AuthorityIdle
    <2> QED BY <1>1, <1>2, <1>3, <1>4, <2>1, <2>3, <2>5, <2>6, <2>7, RegistrarStep
  <1>5. CASE Return(r, "refused") /\ UNCHANGED inbox
    <2>1. /\ "done" \in RegistrarLabels /\ "done" \notin Holding \cup Stopping \cup Private \cup Early
      BY DEF RegistrarLabels, Private, Early, Holding, Calling, Giving, Stopping
    <2>2. /\ result' \in [Threads -> Results] /\ result'[r] = "refused"
          /\ \A t \in Threads \ {r} : result'[t] = result[t]
      BY <1>2, <1>5 DEF IInv, TypeOK, Results, Return
    <2>3. AgentMove(r, "done")
      BY <1>1, <1>2, <1>3, <1>5, <2>1, <2>2 DEF AgentMove, Only, IInv, TypeOK, Goto, Return
    <2>4. Failing' /\ Authority(s)' /\ Peer(s)'
      BY <1>1, <1>2, <1>3, <1>5, <2>1, <2>3, NotFailing, AuthorityIdle, PeerKept
    <2> QED BY <1>1, <1>2, <1>3, <2>1, <2>2, <2>3, <2>4, RegistrarStep
  <1> QED BY <1>4, <1>5

LEMMA RegisteredStep ==
    ASSUME IInv, NEW r \in Registrars, Registered(r)
    PROVE  IInv'
  <1> USE DEF Registered
  <1> DEFINE s == Target[r]
  <1>1. pc[r] = "register" /\ pc[r] \in Private
    BY DEF Private, Early
  <1>2. /\ s \in Sessions /\ r \in Agents /\ r \in Threads /\ result[r] # "published"
        /\ pc[r] \notin Holding /\ SessionInv(s) /\ r \in Members(s)
        /\ s \notin terminal /\ s \notin invalidated /\ s \notin closed /\ s \notin poisoned
    BY <1>1, RegistrarFacts
  <1>3. /\ UNCHANGED <<teardown, poisoned, invalidated, terminal, closed, gate, published, down,
                       supervisor, lock, helper, inbox, profiles, slot, launched, consumed, stream,
                       records, batch, wait, op, ran, result>>
        /\ registry' = registry \cup {s} /\ Goto(r, "publish")
        /\ outbox[s] # <<>> /\ outbox' = [outbox EXCEPT ![s] = Tail(@)]
    BY DEF observer, host, admissions, guest, phases, calls
  <1>4. outbox \in [Sessions -> Seq(Acks)] /\ outbox[s] \in Seq(Acks) /\ Turn(s, r, "profile")
    BY <1>1, <1>2 DEF IInv, TypeOK, SessionInv, Peer
  <1>5. inbox[s] = <<>> /\ Tail(outbox[s]) = <<>>
    <2>1. inbox[s] = <<>> /\ Len(outbox[s]) = 1
      BY <1>3, <1>4 DEF Turn
    <2> QED BY <1>4, <2>1, OneElement
  <1>6. /\ Quiet(s)' /\ outbox' \in [Sessions -> Seq(Acks)]
        /\ \A q \in Sessions \ {s} : outbox'[q] = outbox[q]
    <2>1. outbox'[s] = <<>> /\ <<>> \in Seq(Acks)
      BY <1>2, <1>3, <1>4, <1>5
    <2> QED BY <1>2, <1>3, <1>4, <1>5, <2>1 DEF Quiet
  <1>7. /\ "publish" \in RegistrarLabels /\ "publish" \notin Holding \cup Stopping \cup Early
    BY DEF RegistrarLabels, Private, Early, Holding, Calling, Giving, Stopping
  <1>8. AgentMove(r, "publish")
    BY <1>1, <1>2, <1>3, <1>6, <1>7, LeaseKept DEF AgentMove, Only, IInv, TypeOK, Goto
  <1>9. Failing' /\ Authority(s)'
    BY <1>1, <1>2, <1>3, <1>7, <1>8, NotFailing, AuthorityIdle
  <1>10. Peer(s)'
    BY <1>2, <1>3, <1>6, PeerCleared
  <1> QED BY <1>1, <1>2, <1>3, <1>7, <1>8, <1>9, <1>10, RegistrarStep

LEMMA RegistrationFailsStep ==
    ASSUME IInv, NEW r \in Registrars, RegistrationFails(r)
    PROVE  IInv'
  <1> USE DEF RegistrationFails
  <1> DEFINE s == Target[r]
  <1>1. pc[r] = "register" /\ pc[r] \in Private /\ pc[r] \in Early
    BY DEF Private, Early
  <1>2. /\ s \in Sessions /\ r \in Agents /\ r \in Threads /\ result[r] # "published"
        /\ pc[r] \notin Holding /\ s \notin registry /\ s \notin terminal
    BY <1>1, RegistrarFacts
  <1>3. /\ UNCHANGED <<registry, teardown, poisoned, invalidated, terminal, published, down,
                       supervisor, lock, helper, profiles, slot, launched, consumed, stream,
                       records, batch, wait, op, ran>>
        /\ closed' = closed \cup {s} /\ Return(r, "refused")
        /\ inbox' = [inbox EXCEPT ![s] = <<>>] /\ outbox' = [outbox EXCEPT ![s] = <<>>]
    BY DEF observer, host, admissions, guest, phases, ClosePeer
  <1>4. /\ inbox' \in [Sessions -> Seq(Requests)] /\ outbox' \in [Sessions -> Seq(Acks)]
        /\ \A q \in Sessions \ {s} : UNCHANGED <<inbox[q], outbox[q]>>
        /\ Quiet(s)'
    <2>1. inbox \in [Sessions -> Seq(Requests)] /\ outbox \in [Sessions -> Seq(Acks)]
      BY DEF IInv, TypeOK
    <2>2. <<>> \in Seq(Requests) /\ <<>> \in Seq(Acks)
      OBVIOUS
    <2> QED BY <1>2, <1>3, <2>1, <2>2 DEF Quiet
  <1>5. /\ "done" \in RegistrarLabels /\ "done" \notin Holding \cup Stopping \cup Private \cup Early
    BY DEF RegistrarLabels, Private, Early, Holding, Calling, Giving, Stopping
  <1>6. /\ result' \in [Threads -> Results] /\ result'[r] = "refused"
        /\ \A t \in Threads \ {r} : result'[t] = result[t]
    BY <1>2, <1>3 DEF IInv, TypeOK, Results, Return
  <1>7. AgentMove(r, "done")
    BY <1>1, <1>2, <1>3, <1>4, <1>5, <1>6 DEF AgentMove, Only, IInv, TypeOK, Goto, Return
  <1>8. Failing' /\ Authority(s)'
    BY <1>1, <1>2, <1>3, <1>5, <1>7, NotFailing, AuthorityIdle
  <1>9. Peer(s)'
    BY <1>2, <1>3, <1>4, PeerCleared
  <1> QED BY <1>1, <1>2, <1>3, <1>5, <1>6, <1>7, <1>8, <1>9, RegistrarStep

LEMMA PublishStep ==
    ASSUME IInv, NEW r \in Registrars, Publish(r)
    PROVE  IInv'
  <1> USE DEF Publish
  <1> DEFINE s == Target[r]
  <1>1. pc[r] = "publish" /\ pc[r] \in Private /\ pc[r] \notin Giving \cup Stopping
    BY DEF Private, Giving, Stopping
  <1>2. /\ s \in Sessions /\ r \in Agents /\ r \in Threads /\ result[r] # "published"
        /\ pc[r] \notin Holding
        /\ s \notin terminal /\ s \notin invalidated /\ s \notin closed /\ s \notin poisoned
    BY <1>1, RegistrarFacts
  <1>3. UNCHANGED <<registry, poisoned, invalidated, terminal, closed, down, supervisor, lock, helper,
                    inbox, outbox, profiles, slot, launched, consumed, records, batch, wait, op, ran>>
    BY DEF host, control, admissions, phases
  <1>4. CASE /\ MayPublish /\ published' = published \cup {s} /\ Return(r, "published")
             /\ stream' = [stream EXCEPT ![s] = "open"] /\ UNCHANGED teardown
    <2>1. /\ "done" \in RegistrarLabels /\ "done" \notin Holding \cup Stopping \cup Private \cup Early
      BY DEF RegistrarLabels, Private, Early, Holding, Calling, Giving, Stopping
    <2>2. /\ result' \in [Threads -> Results] /\ result'[r] = "published"
          /\ \A t \in Threads \ {r} : result'[t] = result[t]
      BY <1>2, <1>4 DEF IInv, TypeOK, Results, Return
    <2>3. AgentMove(r, "done")
      BY <1>1, <1>2, <1>3, <1>4, <2>1, <2>2 DEF AgentMove, Only, IInv, TypeOK, Goto, Return
    <2>4. Failing' /\ Authority(s)' /\ Peer(s)'
      BY <1>1, <1>2, <1>3, <1>4, <2>1, <2>3, NotFailing, AuthorityIdle, PeerKept DEF MayPublish
    <2> QED BY <1>1, <1>2, <1>3, <1>4, <2>1, <2>2, <2>3, <2>4, RegistrarStep
  <1>5. CASE /\ teardown' = teardown \cup {s} /\ Goto(r, "cleanup")
             /\ UNCHANGED <<published, stream, result, gate>>
    <2>1. /\ "cleanup" \in RegistrarLabels /\ "cleanup" \notin Holding \cup Stopping \cup Early
      BY DEF RegistrarLabels, Private, Early, Holding, Calling, Giving, Stopping
    <2>2. AgentMove(r, "cleanup")
      BY <1>1, <1>2, <1>3, <1>5, <2>1, LeaseKept DEF AgentMove, Only, IInv, TypeOK, Goto
    <2>3. Failing' /\ Authority(s)' /\ Peer(s)'
      BY <1>1, <1>2, <1>3, <1>5, <2>1, <2>2, NotFailing, AuthorityIdle, PeerKept
    <2> QED BY <1>1, <1>2, <1>3, <1>5, <2>1, <2>2, <2>3, RegistrarStep
  <1> QED BY <1>4, <1>5

LEMMA CleanupGateStep ==
    ASSUME IInv, NEW r \in Registrars, CleanupGate(r)
    PROVE  IInv'
  <1> USE DEF CleanupGate
  <1> DEFINE s == Target[r]
  <1>1. pc[r] = "cleanup" /\ pc[r] \in Private /\ pc[r] \notin Giving \cup Stopping
    BY DEF Private, Giving, Stopping
  <1>2. /\ s \in Sessions /\ r \in Agents /\ r \in Threads /\ result[r] # "published"
        /\ gate[s] = Nobody /\ SessionInv(s) /\ \A q \in Registrars : Target[q] = s => q = r
        /\ s \notin terminal /\ s \notin invalidated /\ s \notin closed /\ s \notin poisoned
    BY <1>1, RegistrarFacts
  <1>3. /\ UNCHANGED <<registry, teardown, poisoned, invalidated, terminal, closed, published, down,
                       supervisor, lock, helper, inbox, outbox, profiles, slot, launched, consumed,
                       stream, records, batch, wait, op, ran, result>>
        /\ gate' = [gate EXCEPT ![s] = r] /\ Goto(r, "ambiguous")
    BY <1>2 DEF session, observer, host, control, admissions, guest, phases
  <1>4. /\ "ambiguous" \in RegistrarLabels /\ "ambiguous" \notin Calling \cup Stopping \cup Private \cup Early
        /\ "ambiguous" \in Holding
    BY DEF RegistrarLabels, Private, Early, Holding, Calling, Giving, Stopping
  <1>5. AgentMove(r, "ambiguous")
    BY <1>1, <1>2, <1>3, <1>4 DEF AgentMove, Only, IInv, TypeOK, Goto
  <1>6. Failing' /\ Authority(s)' /\ Peer(s)'
    BY <1>1, <1>2, <1>3, <1>4, <1>5, NotFailing, AuthorityKept, PeerKept
  <1>7. s \in registry => s \in published \/ s \in teardown
    BY <1>1, <1>2 DEF SessionInv, Listed
  <1> QED BY <1>1, <1>2, <1>3, <1>4, <1>5, <1>6, <1>7, RegistrarStep

--------------------------------------------------------------------------------
(* Steps of the helper *)

\* Of the sessions, the helper changes only s.
HelperMove(s) ==
    /\ profiles' \subseteq Sessions /\ \A q \in Sessions \ {s} : q \in profiles' <=> q \in profiles
    /\ slot' \in [Callers -> {"absent", "pending", "consumed"}]
    /\ consumed' \subseteq Callers
    /\ \A d \in Callers \ Of(s) : slot'[d] = slot[d] /\ (d \in consumed' <=> d \in consumed)
    /\ inbox' \in [Sessions -> Seq(Requests)] /\ outbox' \in [Sessions -> Seq(Acks)]
    /\ \A q \in Sessions \ {s} : UNCHANGED <<inbox[q], outbox[q]>>
    /\ launched' \subseteq Callers /\ stream' \in [Sessions -> {"none", "open", "over"}]
    /\ records' \in RecordsType
    /\ UNCHANGED <<registry, teardown, poisoned, invalidated, terminal, closed, gate, published, down,
                   supervisor, helper, batch, wait, op, ran, result, pc>>

LEMMA HelperStep ==
    ASSUME IInv, NEW s \in Sessions, HelperMove(s), Peer(s)', Slots(s)'
    PROVE  IInv'
  <1> USE DEF HelperMove
  <1>1. TypeOK'
    BY DEF IInv, TypeOK, RecordsType
  <1>2. Failing'
    BY DEF IInv, Failing
  <1>3. ASSUME NEW q \in Sessions \ {s} PROVE SessionInv(q)'
    <2>1. \A d \in Of(q) : d \in Callers \ Of(s)
      BY <1>3 DEF Of
    <2>2. Same(q)
      BY <1>3, <2>1 DEF Same, Alike
    <2> QED BY <1>3, <2>2, SameSession DEF IInv
  <1>4. Leased(s)' /\ Unpublished(s)' /\ Authority(s)' /\ Listed(s)'
    <2>1. Members(s)' = Members(s) /\ Of(s)' = Of(s) /\ SessionInv(s)
      BY DEF Members, Of, IInv
    <2> QED BY <2>1 DEF SessionInv, Leased, Unpublished, Authority, Listed, Usable
  <1> QED BY <1>1, <1>2, <1>3, <1>4 DEF IInv, SessionInv

\* The helper drops what it knows of a session.
LEMMA DeregisterStep ==
    ASSUME IInv, NEW s \in Sessions, Deregister(s), helper = "up",
           launched' \subseteq Callers, stream' \in [Sessions -> {"none", "open", "over"}],
           records' \in RecordsType,
           UNCHANGED <<registry, teardown, poisoned, invalidated, terminal, closed, gate, published,
                       down, supervisor, helper, batch, wait, op, ran, result, pc, inbox, outbox,
                       consumed>>
    PROVE  IInv'
  <1> USE DEF Deregister
  <1>1. SessionInv(s) /\ Members(s)' = Members(s) /\ Of(s)' = Of(s) /\ Of(s) \subseteq Callers
    BY DEF IInv, Members, Of
  <1>2. /\ s \notin profiles' /\ \A c \in Of(s) : slot'[c] = "absent"
        /\ \A d \in Callers \ Of(s) : slot'[d] = slot[d]
        /\ slot' \in [Callers -> {"absent", "pending", "consumed"}]
    BY <1>1 DEF IInv, TypeOK
  <1>3. HelperMove(s)
    BY <1>2 DEF HelperMove, IInv, TypeOK
  <1>4. \A a \in Members(s) : a \in Callers => slot'[a] = "absent"
    BY <1>2 DEF Members, Of
  <1>5. ASSUME NEW a \in Members(s), NEW o, Turn(s, a, o) PROVE Turn(s, a, o)'
    BY <1>4, <1>5 DEF Turn, Truth
  <1>6. ASSUME NEW m, Unread(s, m) PROVE Unread(s, m)'
    BY <1>1, <1>4, <1>6 DEF Unread
  <1>7. (Quiet(s)' <=> Quiet(s)) /\ Peer(s)
    BY <1>1 DEF Quiet, SessionInv
  <1>8. Peer(s)'
    BY <1>1, <1>2, <1>5, <1>6, <1>7 DEF Peer
  <1>9. Slots(s)'
    BY <1>1, <1>2 DEF SessionInv, Slots, Slot
  <1> QED BY <1>3, <1>8, <1>9, HelperStep

LEMMA HelperDropsPeerStep ==
    ASSUME IInv, NEW s \in Sessions, HelperDropsPeer(s)
    PROVE  IInv'
  BY DeregisterStep DEF HelperDropsPeer, session, observer, host, control, guest, phases, calls,
                        IInv, TypeOK, RecordsType

LEMMA ReportType ==
    ASSUME IInv, NEW kind \in {"stream-end", "stream-fault"}, NEW s \in Sessions, Report(kind, s)
    PROVE  records' \in RecordsType
  <1>1. [kind |-> kind, session |-> s] \in [kind : {"stream-end", "stream-fault"}, session : Sessions]
    OBVIOUS
  <1> DEFINE x == [kind |-> kind, session |-> s]
             S == [kind : {"stream-end", "stream-fault"}, session : Sessions]
  <1>2. x \in S /\ records \in Seq(S) /\ records' = Append(records, x)
    BY <1>1 DEF Report, IInv, TypeOK
  <1> HIDE DEF x, S
  <1>3. records' \in Seq(S)
    BY <1>2
  <1> QED BY <1>3 DEF S, RecordsType

LEMMA StreamOverStep ==
    ASSUME IInv, NEW s \in Sessions, StreamOver(s)
    PROVE  IInv'
  <1> USE DEF StreamOver
  <1>1. records' \in RecordsType
    BY ReportType
  <1>2. stream' \in [Sessions -> {"none", "open", "over"}]
    BY DEF IInv, TypeOK
  <1> QED BY <1>1, <1>2, DeregisterStep DEF session, observer, host, control, phases, calls, IInv, TypeOK

LEMMA SentryExecStep ==
    ASSUME IInv, NEW c \in Callers, SentryExec(c)
    PROVE  IInv'
  <1> USE DEF SentryExec
  <1> DEFINE s == Target[c]
  <1>1. c \in Agents /\ s \in Sessions /\ SessionInv(s) /\ c \in Members(s) /\ c \in Of(s) /\ Slot(s, c)
    BY AgentFacts DEF Agents, SessionInv, Slots
  <1>2. /\ UNCHANGED <<registry, teardown, poisoned, invalidated, terminal, closed, gate, published,
                       down, supervisor, helper, batch, wait, op, ran, result, pc, inbox, outbox>>
        /\ helper = "up" /\ launched' \subseteq Callers
    BY DEF session, observer, host, control, phases, calls, IInv, TypeOK
  <1>3. CASE /\ s \in profiles /\ slot[c] = "pending" /\ slot' = [slot EXCEPT ![c] = "consumed"]
             /\ consumed' = consumed \cup {c} /\ UNCHANGED <<profiles, stream, records>>
    <2>1. Members(s)' = Members(s) /\ Of(s)' = Of(s) /\ Of(s) \subseteq Callers
      BY DEF Members, Of
    <2>2. /\ slot'[c] = "consumed" /\ \A d \in Callers \ {c} : slot'[d] = slot[d]
          /\ slot' \in [Callers -> {"absent", "pending", "consumed"}]
      BY <1>3 DEF IInv, TypeOK
    <2>3. HelperMove(s)
      BY <1>1, <1>2, <1>3, <2>2 DEF HelperMove, IInv, TypeOK, RecordsType
    <2>4. ASSUME NEW a \in Members(s), NEW o, Turn(s, a, o) PROVE Turn(s, a, o)'
      <3>1. \A st : Truth(a, st) => Truth(a, st)'
        BY <1>3, <2>2 DEF Truth
      <3>2. CASE outbox[s] = <<>>
        BY <1>2, <2>4, <3>2 DEF Turn
      <3>3. CASE outbox[s] # <<>>
        BY <1>2, <2>4, <3>1, <3>3 DEF Turn
      <3> QED BY <3>2, <3>3
    <2>5. ASSUME NEW m, Unread(s, m) PROVE Unread(s, m)'
      BY <1>2, <1>3, <2>1, <2>2, <2>5 DEF Unread
    <2>6. (Quiet(s)' <=> Quiet(s)) /\ Peer(s)
      BY <1>1, <1>2 DEF Quiet, SessionInv
    <2>7. Peer(s)'
      BY <1>2, <1>3, <2>1, <2>4, <2>5, <2>6 DEF Peer
    <2>8. Slot(s, c)'
      BY <1>1, <1>2, <1>3, <2>2 DEF Slot
    <2>9. ASSUME NEW d \in Of(s), d # c PROVE Slot(s, d)'
      <3>1. Slot(s, d) /\ d \in Callers
        BY <1>1, <2>1, <2>9 DEF SessionInv, Slots
      <3> QED BY <1>2, <1>3, <2>2, <2>9, <3>1 DEF Slot
    <2>10. Slots(s)'
      BY <2>1, <2>8, <2>9 DEF Slots
    <2> QED BY <1>1, <2>3, <2>7, <2>10, HelperStep
  <1>4. CASE /\ stream' = [stream EXCEPT ![s] = "over"] /\ Report("stream-fault", s) /\ Deregister(s)
             /\ UNCHANGED consumed
    <2>1. records' \in RecordsType
      BY <1>1, <1>4, ReportType
    <2>2. stream' \in [Sessions -> {"none", "open", "over"}]
      BY <1>4 DEF IInv, TypeOK
    <2> QED BY <1>1, <1>2, <1>4, <2>1, <2>2, DeregisterStep
  <1> QED BY <1>3, <1>4

LEMMA HelperCrashesStep ==
    ASSUME IInv, HelperCrashes
    PROVE  IInv'
  <1> USE DEF HelperCrashes
  <1>1. UNCHANGED <<registry, teardown, poisoned, invalidated, terminal, closed, gate, published, down,
                    supervisor, outbox, consumed, stream, records, batch, wait, op, ran, result, pc>>
    BY DEF session, observer, host, phases, calls
  <1>2. Failing'
    BY <1>1 DEF IInv, Failing
  <1>3. \A a \in Agents : Alike(pc[a], pc'[a])
    BY <1>1 DEF Alike
  <1> QED BY <1>1, <1>2, <1>3, HelperGone DEF IInv, TypeOK

\* What the answer to request m says, and the admission it leaves.
LEMMA AnswerFacts ==
    ASSUME NEW s, NEW m \in Requests, slot \in [Callers -> {"absent", "pending", "consumed"}]
    PROVE  /\ Answer(s, m)[1] \in Statuses
           /\ Answer(s, m)[1] = "invalidated" => m.op = "invalidate"
           /\ Answer(s, m)[1] = "registered" => m.op = "profile" /\ s \notin profiles
           /\ m.from \in Callers =>
                /\ Answer(s, m)[2] \in {"absent", "pending", "consumed"}
                /\ Answer(s, m)[2] = "pending" => slot[m.from] = "pending" \/ m.op = "arm"
                /\ Answer(s, m)[2] = "consumed" => slot[m.from] = "consumed"
                /\ Answer(s, m)[1] \in {"consumed", "completed"} => slot[m.from] = "consumed"
                /\ Answer(s, m)[1] \in {"cancelled", "completed"} => Answer(s, m)[2] = "absent"
                /\ Answer(s, m)[1] = "cancelled" => slot[m.from] = "pending"
                /\ s \notin profiles => Answer(s, m)[2] = "absent"
  <1> DEFINE now == IF m.from \in Callers THEN slot[m.from] ELSE "absent"
             A == Answer(s, m)
             ops == {"profile", "arm", "status", "cancel", "complete", "invalidate"}
  <1>1. m.op \in ops
    BY DEF Requests
  <1>2. now \in {"absent", "pending", "consumed"}
    OBVIOUS
  <1>3. CASE m.op = "profile"
    <2>1. A = IF s \notin profiles THEN <<"registered", "absent">> ELSE <<"rejected", now>>
      BY <1>3 DEF Answer
    <2> QED BY <1>2, <1>3, <2>1 DEF Statuses
  <1>4. CASE m.op # "profile" /\ s \notin profiles
    <2>1. A = <<"rejected", "absent">>
      BY <1>4 DEF Answer
    <2> QED BY <2>1 DEF Statuses
  <1>5. CASE m.op = "invalidate" /\ s \in profiles
    <2>1. A = <<"invalidated", "absent">>
      BY <1>5 DEF Answer
    <2> QED BY <1>5, <2>1 DEF Statuses
  <1>6. CASE m.op = "arm" /\ s \in profiles
    <2>1. A = IF now = "absent" THEN <<"armed", "pending">> ELSE <<"rejected", now>>
      BY <1>6 DEF Answer
    <2> QED BY <1>2, <1>6, <2>1 DEF Statuses
  <1>7. CASE m.op = "status" /\ s \in profiles
    <2>1. A = IF now # "absent" THEN <<now, now>> ELSE <<"rejected", now>>
      BY <1>7 DEF Answer
    <2> QED BY <1>2, <1>7, <2>1 DEF Statuses
  <1>8. CASE m.op = "cancel" /\ s \in profiles
    <2>1. A = IF now = "pending" THEN <<"cancelled", "absent">>
              ELSE IF now = "consumed" THEN <<"consumed", now>> ELSE <<"rejected", now>>
      BY <1>8 DEF Answer
    <2> QED BY <1>2, <1>8, <2>1 DEF Statuses
  <1>9. CASE m.op = "complete" /\ s \in profiles
    <2>1. A = IF now = "consumed" THEN <<"completed", "absent">> ELSE <<"rejected", now>>
      BY <1>9 DEF Answer
    <2> QED BY <1>2, <1>9, <2>1 DEF Statuses
  <1> QED BY <1>1, <1>3, <1>4, <1>5, <1>6, <1>7, <1>8, <1>9

LEMMA HelperAnswersStep ==
    ASSUME IInv, NEW s \in Sessions, HelperAnswers(s)
    PROVE  IInv'
  <1> USE DEF HelperAnswers
  <1> DEFINE m == Head(inbox[s])
             st == Answer(s, m)[1]
             sl == Answer(s, m)[2]
             ack == [op |-> m.op, from |-> m.from, status |-> st]
  <1>1. /\ UNCHANGED <<registry, teardown, poisoned, invalidated, terminal, closed, gate, published,
                       down, supervisor, helper, batch, wait, op, ran, result, pc, launched, consumed,
                       stream, records>>
        /\ helper = "up" /\ inbox[s] # <<>> /\ s \notin closed
        /\ inbox' = [inbox EXCEPT ![s] = Tail(@)] /\ outbox' = [outbox EXCEPT ![s] = Append(@, ack)]
        /\ \/ st = "invalidated" /\ Deregister(s)
           \/ /\ st # "invalidated"
              /\ profiles' = IF st = "registered" THEN profiles \cup {s} ELSE profiles
              /\ slot' = IF m.from \in Callers THEN [slot EXCEPT ![m.from] = sl] ELSE slot
    BY DEF session, observer, host, guest, phases, calls
  <1>2. SessionInv(s) /\ Members(s)' = Members(s) /\ Of(s)' = Of(s) /\ Of(s) \subseteq Callers
    BY DEF IInv, Members, Of
  <1>3. /\ inbox \in [Sessions -> Seq(Requests)] /\ outbox \in [Sessions -> Seq(Acks)]
        /\ inbox[s] \in Seq(Requests) /\ outbox[s] \in Seq(Acks)
        /\ slot \in [Callers -> {"absent", "pending", "consumed"}] /\ profiles \subseteq Sessions
    BY DEF IInv, TypeOK
  <1>4. /\ m = inbox[s][1] /\ 1 \in DOMAIN inbox[s] /\ m \in Requests
        /\ Tail(inbox[s]) \in Seq(Requests)
        /\ \A i \in DOMAIN Tail(inbox[s]) :
              i + 1 \in DOMAIN inbox[s] /\ i + 1 > 1 /\ Tail(inbox[s])[i] = inbox[s][i + 1]
        /\ Len(inbox[s]) = 1 => Tail(inbox[s]) = <<>>
    BY <1>1, <1>3, OneElement
  <1>5. Unread(s, m)
    BY <1>2, <1>4 DEF SessionInv, Peer
  <1>6. /\ st \in Statuses
        /\ st = "invalidated" => m.op = "invalidate"
        /\ st = "registered" => m.op = "profile" /\ s \notin profiles
        /\ m.from \in Callers =>
             /\ sl \in {"absent", "pending", "consumed"}
             /\ sl = "pending" => slot[m.from] = "pending" \/ m.op = "arm"
             /\ sl = "consumed" => slot[m.from] = "consumed"
             /\ st \in {"consumed", "completed"} => slot[m.from] = "consumed"
             /\ st \in {"cancelled", "completed"} => sl = "absent"
             /\ st = "cancelled" => slot[m.from] = "pending"
             /\ s \notin profiles => sl = "absent"
    BY <1>3, <1>4, AnswerFacts
  <1>7. m.from \in Members(s) /\ m.from \in Agents
    BY <1>5 DEF Unread, Members
  <1>8. ack \in Acks /\ ack.status = st /\ ack.from = m.from /\ ack.op = m.op
    BY <1>4, <1>6 DEF Acks, Requests
  <1> HIDE DEF m, st, sl, ack
  <1>9. /\ inbox'[s] = Tail(inbox[s]) /\ outbox'[s] = Append(outbox[s], ack)
        /\ inbox' \in [Sessions -> Seq(Requests)] /\ outbox' \in [Sessions -> Seq(Acks)]
        /\ \A q \in Sessions \ {s} : UNCHANGED <<inbox[q], outbox[q]>>
    <2>1. Append(outbox[s], ack) \in Seq(Acks)
      BY <1>3, <1>8
    <2> QED BY <1>1, <1>3, <1>4, <2>1
  <1>10. /\ profiles' \subseteq Sessions /\ \A q \in Sessions \ {s} : q \in profiles' <=> q \in profiles
         /\ slot' \in [Callers -> {"absent", "pending", "consumed"}]
         /\ \A d \in Callers \ Of(s) : slot'[d] = slot[d]
    <2>1. CASE st = "invalidated" /\ Deregister(s)
      BY <1>3, <2>1 DEF Deregister
    <2>2. CASE /\ profiles' = IF st = "registered" THEN profiles \cup {s} ELSE profiles
               /\ slot' = IF m.from \in Callers THEN [slot EXCEPT ![m.from] = sl] ELSE slot
      <3>1. m.from \in Callers => m.from \in Of(s)
        BY <1>7 DEF Of, Members
      <3> QED BY <1>3, <1>6, <2>2, <3>1
    <2> QED BY <1>1, <2>1, <2>2
  <1>11. HelperMove(s)
    BY <1>1, <1>9, <1>10 DEF HelperMove, IInv, TypeOK, RecordsType
  \* An exchange that is under way.
  <1>12. ASSUME NEW a \in Members(s), NEW o, Turn(s, a, o) PROVE Turn(s, a, o)'
    <2>1. outbox[s] = <<>> /\ inbox[s] = <<[op |-> o, from |-> a]>>
      BY <1>1, <1>12 DEF Turn
    <2>2. inbox'[s] = <<>> /\ m.op = o /\ m.from = a
      BY <1>4, <1>9, <2>1
    <2>3. Len(outbox'[s]) = 1 /\ outbox'[s][1] = ack
      BY <1>9, <2>1
    <2>4. a \in Callers /\ st # "invalidated" => slot'[a] = sl
      BY <1>1, <1>3, <2>2
    <2>5. a \in Callers => Slot(s, a)
      BY <1>2 DEF SessionInv, Slots, Of, Members
    <2>6. a \in Callers => /\ st \in {"consumed", "completed"} => a \in consumed'
                           /\ st \in {"cancelled", "completed"} => slot'[a] = "absent"
                           /\ st = "cancelled" => a \notin consumed'
      BY <1>1, <1>6, <2>2, <2>4, <2>5 DEF Slot
    <2> QED BY <1>8, <2>2, <2>3, <2>6 DEF Turn, Truth
  <1>13. st = "registered" => outbox[s] = <<>>
    <2>1. st = "registered" => pc[m.from] = "register" /\ m.from \in Members(s)
      BY <1>5, <1>6, <1>7 DEF Unread
    <2>2. st = "registered" => Turn(s, m.from, "profile")
      BY <1>2, <2>1 DEF SessionInv, Peer
    <2> QED BY <1>1, <2>2 DEF Turn
  <1>14. \A i \in DOMAIN outbox'[s] :
             outbox'[s][i].status = "invalidated" => s \in poisoned' /\ s \notin profiles'
    <2>1. \A i \in DOMAIN outbox'[s] :
              outbox'[s][i] = ack \/ (i \in DOMAIN outbox[s] /\ outbox'[s][i] = outbox[s][i])
      BY <1>3, <1>8, <1>9
    <2>2. st = "invalidated" => s \in poisoned' /\ s \notin profiles'
      BY <1>1, <1>5, <1>6 DEF Unread, Deregister
    <2>3. ASSUME NEW i \in DOMAIN outbox[s], outbox[s][i].status = "invalidated"
          PROVE  s \in poisoned' /\ s \notin profiles'
      <3>1. s \in poisoned /\ s \notin profiles
        BY <1>2, <2>3 DEF SessionInv, Peer
      <3>2. outbox[s] # <<>>
        BY <2>3
      <3> QED BY <1>1, <1>13, <3>1, <3>2 DEF Deregister
    <2> QED BY <1>8, <2>1, <2>2, <2>3
  <1>15. ASSUME NEW i \in DOMAIN inbox'[s], NEW x, x = inbox'[s][i]
         PROVE  Unread(s, x)' /\ x.op = "invalidate"
    <2>1. i + 1 \in DOMAIN inbox[s] /\ i + 1 > 1 /\ x = inbox[s][i + 1]
      BY <1>4, <1>9, <1>15
    <2>2. Unread(s, x) /\ x.op = "invalidate"
      BY <1>2, <2>1 DEF SessionInv, Peer
    <2> QED BY <1>1, <1>2, <2>2 DEF Unread
  <1>16. Peer(s)'
    <2>1. ~(s \notin poisoned /\ \A a \in Members(s) : pc[a] \notin {"register", "receive"})
      BY <1>1, <1>2 DEF SessionInv, Peer, Quiet
    <2>2. \A a \in Members(s) : /\ pc'[a] = "receive" => Turn(s, a, op[a])'
                                /\ pc'[a] = "register" => Turn(s, a, "profile")'
      BY <1>1, <1>2, <1>12 DEF SessionInv, Peer
    <2> QED BY <1>1, <1>2, <1>14, <1>15, <2>1, <2>2 DEF Peer
  <1>17. Slots(s)'
    <2>1. ASSUME NEW d \in Of(s) PROVE Slot(s, d)'
      <3>1. Slot(s, d) /\ d \in Callers
        BY <1>2, <2>1 DEF SessionInv, Slots
      <3>2. CASE st = "invalidated" /\ Deregister(s)
        BY <1>1, <2>1, <3>1, <3>2 DEF Deregister, Slot
      <3>3. CASE st # "invalidated" /\ d # m.from
        <4>1. slot'[d] = slot[d] /\ (s \in profiles => s \in profiles')
          BY <1>1, <1>3, <3>1, <3>3
        <4> QED BY <1>1, <3>1, <4>1 DEF Slot
      <3>4. CASE st # "invalidated" /\ d = m.from
        <4>1. slot'[d] = sl /\ (s \in profiles => s \in profiles')
          BY <1>1, <1>3, <3>1, <3>4
        <4>2. CASE sl = "absent"
          BY <1>1, <3>1, <4>1, <4>2 DEF Slot
        <4>3. CASE sl = slot[d]
          BY <1>1, <3>1, <4>1, <4>3 DEF Slot
        <4>4. CASE sl = "pending" /\ m.op = "arm"
          <5>1. /\ d \notin consumed /\ s \in profiles
                /\ pc[d] \in {"receive"} \cup Giving \cup Stopping \/ result[d] = "unconfirmed"
            BY <1>5, <1>6, <3>1, <3>4, <4>4 DEF Unread
          <5>2. pc[d] \notin {"idle", "gate", "recheck", "send"}
            BY <3>1, <5>1 DEF Slot, Giving, Stopping
          <5>3. pc[d] = "done" => result[d] = "unconfirmed"
            BY <5>1 DEF Giving, Stopping
          <5> QED BY <1>1, <3>1, <4>1, <4>4, <5>1, <5>2, <5>3 DEF Slot
        <4> QED BY <1>6, <3>1, <3>4, <4>2, <4>3, <4>4
      <3> QED BY <1>1, <3>2, <3>3, <3>4
    <2> QED BY <1>2, <2>1 DEF Slots
  <1> QED BY <1>11, <1>16, <1>17, HelperStep

--------------------------------------------------------------------------------
(* Steps of the receiver, the watcher and the closing supervisor *)

LEMMA ThreadFacts ==
    /\ Receiver \in Threads /\ Watcher \in Threads /\ Closer \in Threads
    /\ Receiver \notin Agents /\ Watcher \notin Agents /\ Closer \notin Agents
  BY ThreadAssumption DEF Threads

LEMMA ReceivingStep ==
    ASSUME IInv, ReceiveRecord \/ ReceiveFailed
    PROVE  IInv'
  <1>1. \A r \in Results :
          result' = [result EXCEPT ![Receiver] = r] =>
             /\ result' \in [Threads -> Results] /\ \A a \in Agents : result'[a] = result[a]
    BY ThreadFacts DEF IInv, TypeOK, Threads
  <1>2. "failed" \in Results /\ records \in RecordsType
    BY DEF Results, IInv, TypeOK, RecordsType
  <1>3. CASE ReceiveRecord
    <2> DEFINE s == Head(records).session
    <2>1. /\ UNCHANGED <<registry, poisoned, invalidated, terminal, closed, gate, supervisor, helper,
                         inbox, outbox, profiles, slot, launched, consumed, stream, wait, op, ran>>
          /\ pc[Receiver] = "idle" /\ Goto(Receiver, "phase2")
          /\ records # <<>> /\ records' = Tail(records)
      BY <1>3 DEF ReceiveRecord, host, control, admissions
    <2>2. records' \in RecordsType
      BY <1>2, <2>1 DEF RecordsType
    <2>3. CASE /\ s \in published /\ Phase1(Receiver, {s}) /\ published' = published \ {s}
               /\ UNCHANGED <<down, result>>
      <3>1. Aside
        BY <2>1, <2>2, <2>3 DEF Aside, IInv, TypeOK
      <3>2. down' # {} => published' = {}
        BY <2>3 DEF IInv, Failing
      <3>3. {s} \subseteq published
        BY <2>3
      <3> HIDE DEF s
      <3> QED BY <2>1, <2>3, <3>1, <3>2, <3>3, ThreadFacts, TakeOver
    <2>4. CASE Fail(Receiver) /\ result' = [result EXCEPT ![Receiver] = "failed"]
      <3>1. Aside
        BY <1>1, <1>2, <2>1, <2>2, <2>4 DEF Aside
      <3> QED BY <2>1, <2>4, <3>1, ThreadFacts, TakeOver DEF Fail
    <2> QED BY <1>3, <2>3, <2>4 DEF ReceiveRecord
  <1>4. CASE ReceiveFailed
    <2>1. Aside /\ UNCHANGED <<wait, supervisor>>
      BY <1>1, <1>2, <1>4 DEF Aside, ReceiveFailed, host, control, admissions, guest
    <2> QED BY <1>4, <2>1, ThreadFacts, TakeOver DEF ReceiveFailed, Fail
  <1> QED BY <1>3, <1>4

LEMMA WatchHelperStep ==
    ASSUME IInv, WatchHelper
    PROVE  IInv'
  <1> USE DEF WatchHelper
  <1>1. Aside /\ UNCHANGED <<wait, supervisor>> /\ pc[Watcher] = "idle"
    BY DEF Aside, host, control, admissions, guest, calls, IInv, TypeOK, RecordsType
  <1>2. CASE Goto(Watcher, "done") /\ UNCHANGED <<teardown, batch, observer>>
    <2>1. wait[Watcher] = Nobody
      BY <1>1, ThreadFacts DEF IInv, Failing
    <2> QED BY <1>1, <1>2, <2>1, ThreadFacts, MovesOn DEF ThreadLabels, observer
  <1>3. CASE Goto(Watcher, "phase2") /\ Fail(Watcher)
    BY <1>1, <1>3, ThreadFacts, TakeOver DEF Fail
  <1> QED BY <1>2, <1>3

LEMMA ClosingStep ==
    ASSUME IInv, BeginClose \/ CloseObserver \/ Unlisten \/ ReleaseLock
    PROVE  IInv'
  <1>1. \A r \in Results :
          result' = [result EXCEPT ![Closer] = r] =>
             /\ result' \in [Threads -> Results] /\ \A a \in Agents : result'[a] = result[a]
    BY ThreadFacts DEF IInv, TypeOK, Threads
  <1>2. pc[Closer] # "phase2" => wait[Closer] = Nobody
    BY ThreadFacts DEF IInv, Failing
  <1>3. CASE BeginClose
    <2>1. Aside /\ UNCHANGED <<teardown, published, down, batch, wait>>
      BY <1>3 DEF BeginClose, Aside, session, observer, control, admissions, guest, phases, calls, IInv,
                  TypeOK, RecordsType
    <2> QED BY <1>2, <1>3, <2>1, ThreadFacts, MovesOn DEF BeginClose, ThreadLabels
  <1>4. CASE CloseObserver
    <2>1. Aside /\ UNCHANGED <<wait, supervisor>>
      BY <1>4 DEF CloseObserver, Aside, host, control, admissions, guest, calls, IInv, TypeOK, RecordsType
    <2> QED BY <1>4, <2>1, ThreadFacts, TakeOver DEF CloseObserver
  <1>5. CASE Unlisten
    <2>1. /\ UNCHANGED <<registry, teardown, poisoned, invalidated, terminal, closed, gate, published,
                         down, supervisor, helper, inbox, outbox, profiles, slot, launched, consumed,
                         stream, records, batch, wait, op, ran>>
          /\ Goto(Closer, "unlock") /\ pc[Closer] = "unlisten"
      BY <1>5 DEF Unlisten, session, observer, host, control, admissions, guest, phases
    <2>2. result' \in [Threads -> Results] /\ \A a \in Agents : result'[a] = result[a]
      BY <1>1, <1>5 DEF Unlisten, Results, IInv, TypeOK
    <2>3. Aside
      BY <2>1, <2>2 DEF Aside, IInv, TypeOK, RecordsType
    <2> QED BY <1>2, <2>1, <2>3, ThreadFacts, MovesOn DEF ThreadLabels
  <1>6. CASE ReleaseLock
    <2>1. Aside /\ UNCHANGED <<teardown, published, down, batch, wait, supervisor>>
      BY <1>6 DEF ReleaseLock, Aside, session, observer, control, admissions, guest, phases, calls, IInv,
                  TypeOK, RecordsType
    <2> QED BY <1>2, <1>6, <2>1, ThreadFacts, MovesOn DEF ReleaseLock, ThreadLabels
  <1> QED BY <1>3, <1>4, <1>5, <1>6

LEMMA CloseStopsHelperStep ==
    ASSUME IInv, CloseStopsHelper
    PROVE  IInv'
  <1> USE DEF CloseStopsHelper
  <1>1. /\ UNCHANGED <<registry, teardown, poisoned, invalidated, terminal, closed, gate, published,
                       down, supervisor, outbox, consumed, stream, records, batch, wait, op, ran>>
        /\ Goto(Closer, "closeObserver") /\ pc[Closer] = "stopHelper"
    BY DEF session, observer, host, phases
  <1>2. result' \in [Threads -> Results] /\ \A a \in Agents : result'[a] = result[a]
    <2>1. CASE UNCHANGED result
      BY <2>1 DEF IInv, TypeOK
    <2>2. CASE result' = [result EXCEPT ![Closer] = "uncertain"]
      BY <2>2, ThreadFacts DEF IInv, TypeOK, Results, Threads
    <2> QED BY <2>1, <2>2
  <1>3. wait[Closer] = Nobody
    BY <1>1, ThreadFacts DEF IInv, Failing
  <1>4. CASE HelperEnds
    <2>1. pc' \in [Threads -> CallerLabels \cup RegistrarLabels \cup ThreadLabels]
      BY <1>1 DEF IInv, TypeOK, Goto, ThreadLabels
    <2>2. pc'[Closer] = "closeObserver" /\ \A u \in Threads \ {Closer} : pc'[u] = pc[u]
      BY <1>1, ThreadFacts DEF IInv, TypeOK, Goto
    <2>3. \A a \in Agents : a \in Threads /\ pc'[a] = pc[a] /\ Alike(pc[a], pc'[a])
      BY <2>2, ThreadFacts DEF Alike, Threads
    <2>4. Failing'
      BY <1>1, <1>3, <2>2, <2>3 DEF IInv, Failing
    <2> QED BY <1>1, <1>2, <1>4, <2>1, <2>3, <2>4, HelperGone
  <1>5. CASE UNCHANGED <<helper, admissions, inbox, launched>>
    <2>1. Aside
      BY <1>1, <1>2, <1>5 DEF Aside, admissions, IInv, TypeOK, RecordsType
    <2> QED BY <1>1, <1>3, <2>1, ThreadFacts, MovesOn DEF ThreadLabels
  <1> QED BY <1>4, <1>5 DEF Stop

--------------------------------------------------------------------------------
(* The invariant holds *)

LEMMA InvInit ==
    ASSUME Init
    PROVE  IInv
  <1> USE DEF Init
  <1>1. TypeOK
    BY DEF TypeOK, CallerLabels, Results
  <1>2. \A a \in Agents : a \in Threads
    BY DEF Threads
  <1>3. Failing
    BY <1>2 DEF Failing, Stopping
  <1>4. ASSUME NEW s \in Sessions PROVE SessionInv(s)
    <2>1. \A a \in Members(s) : pc[a] = "idle" /\ result[a] = "none" /\ a # Nobody
      BY <1>2, MembersOf DEF Members
    <2>2. "idle" \notin Holding /\ "idle" \in Private /\ "idle" \in RegistrarLabels /\ "idle" \in CallerLabels
      BY DEF Holding, Calling, Giving, Stopping, Private, Early, RegistrarLabels, CallerLabels
    <2>3. Leased(s)
      BY <2>1, <2>2 DEF Leased
    <2>4. Unpublished(s)
      BY <2>1, <2>2, MembersOf DEF Unpublished
    <2>5. Authority(s)
      BY <2>1, <2>2 DEF Authority, Holding, Giving
    <2>6. Quiet(s) /\ DOMAIN inbox[s] = {} /\ DOMAIN outbox[s] = {}
      BY DEF Quiet
    <2>7. Peer(s)
      BY <2>1, <2>6 DEF Peer
    <2>8. Slots(s)
      BY <2>1, <2>2, MembersOf DEF Slots, Slot, Holding
    <2>9. Listed(s)
      BY DEF Listed
    <2> QED BY <2>3, <2>4, <2>5, <2>7, <2>8, <2>9 DEF SessionInv
  <1> QED BY <1>1, <1>3, <1>4 DEF IInv

LEMMA CleanupKeepsInv ==
    ASSUME IInv, NEW a \in Agents, Cleanup(a)
    PROVE  IInv'
  <1>1. a \in Threads
    BY DEF Threads
  <1> QED BY <1>1, BeginInvalidateStep, InvalidatedStep, InvalidateFailsStep, FailStopStep,
             FailObserverStep, ForgetOneStep, Phase2DoneStep, StopHelperStep, ConfirmStep
          DEF Cleanup, Phase2

LEMMA InvStep ==
    ASSUME IInv, [Next]_vars
    PROVE  IInv'
  <1>1. ASSUME NEW r \in Registrars, Registrar(r) PROVE IInv'
    <2>1. r \in Agents
      BY DEF Agents
    <2> QED BY <1>1, <2>1, StartProfileStep, RegisteredStep, RegistrationFailsStep, PublishStep,
               CleanupGateStep, CleanupKeepsInv DEF Registrar
  <1>2. ASSUME NEW c \in Callers, Caller(c) PROVE IInv'
    <2>1. c \in Agents
      BY DEF Agents
    <2> QED BY <1>2, <2>1, LookupStep, AcquireGateStep, RecheckStep, SendStep, ReceiveStep,
               ReceiveFailsStep, RunStep, CleanupKeepsInv DEF Caller
  <1>3. ASSUME NEW c \in Callers, SentryExec(c) PROVE IInv'
    BY <1>3, SentryExecStep
  <1>4. ASSUME NEW s \in Sessions, Helper(s) PROVE IInv'
    BY <1>4, HelperAnswersStep, HelperDropsPeerStep, StreamOverStep DEF Helper
  <1>5. ASSUME HelperCrashes PROVE IInv'
    BY <1>5, HelperCrashesStep
  <1>6. ASSUME Receiving \/ Watching \/ BeginClose \/ Closing PROVE IInv'
    BY <1>6, ThreadFacts, ReceivingStep, WatchHelperStep, ClosingStep, CloseStopsHelperStep,
       ForgetOneStep, Phase2DoneStep DEF Receiving, Watching, Closing, Phase2
  <1>7. ASSUME UNCHANGED vars PROVE IInv'
    <2>1. UNCHANGED <<registry, teardown, poisoned, invalidated, terminal, closed, gate, published,
                      down, supervisor, helper, inbox, outbox, profiles, slot, launched, consumed,
                      stream, records, batch, wait, op, ran, result, pc>>
      BY <1>7 DEF vars, session, observer, host, control, admissions, guest, phases, calls
    <2>2. TypeOK'
      BY <2>1 DEF IInv, TypeOK
    <2>3. Failing'
      BY <2>1 DEF IInv, Failing
    <2>4. \A s \in Sessions : Same(s)
      BY <2>1 DEF Same, Alike
    <2> QED BY <2>2, <2>3, <2>4, FrameStep
  <1> QED BY <1>1, <1>2, <1>3, <1>4, <1>5, <1>6, <1>7 DEF Next

\* The inductive invariant holds of every behaviour.
THEOREM ObserverInvariant == Spec => []IInv
  <1>1. Init => IInv
    BY InvInit
  <1>2. IInv /\ [Next]_vars => IInv'
    BY InvStep
  <1> QED BY <1>1, <1>2, PTL DEF Spec

--------------------------------------------------------------------------------
(* The properties *)

\* From ARM to its resolution a call keeps its session, whatever the other
\* threads tear down meanwhile (admissionAwareCommandRunner, forgetObserverSession).
THEOREM AdmissionsAreKept == Spec => []AdmissionNotErased
  <1>1. IInv => AdmissionNotErased
    <2> SUFFICES ASSUME IInv, NEW c \in Callers, pc[c] \in Calling
                 PROVE  Usable(Target[c]) /\ Target[c] \notin closed
      BY DEF AdmissionNotErased, Calling
    <2>1. c \in Agents
      BY DEF Agents
    <2> QED BY <2>1, AgentFacts DEF SessionInv, Authority
  <1> QED BY <1>1, ObserverInvariant, PTL

\* A control peer serves one request at a time and keeps nothing of a call that
\* has returned (observerControlPeer.exchangeAck).
THEOREM OneCallPerPeer == Spec => []PeerServesOneCall
  <1> DEFINE Exchanging == {"register", "receive", "invalidate"}
  <1>1. ASSUME IInv, NEW a \in Agents, NEW b \in Agents, pc[a] \in Exchanging, pc[b] \in Exchanging,
               Target[a] = Target[b], a # b, pc[a] = "register"
        PROVE  FALSE
    <2>1. a \in Registrars /\ pc[a] \in Private
      <3>1. a \in Callers => pc[a] \in CallerLabels
        BY <1>1, AgentFacts DEF SessionInv, Slots, Slot
      <3> QED BY <1>1, <3>1 DEF Agents, CallerLabels, Holding, Calling, Giving, Stopping, Private, Early
    <2>2. b \in Members(Target[a])
      BY <1>1 DEF Members
    <2> QED BY <1>1, <2>1, <2>2, RegistrarFacts
  <1>2. ASSUME IInv, NEW a \in Agents, NEW b \in Agents, pc[a] \in Exchanging \ {"register"},
               pc[b] \in Exchanging \ {"register"}, Target[a] = Target[b]
        PROVE  a = b
    <2>1. pc[a] \in Holding /\ pc[b] \in Holding /\ b \in Members(Target[a])
      BY <1>2 DEF Holding, Calling, Giving, Members
    <2> QED BY <1>2, <2>1, AgentFacts
  <1>3. ASSUME IInv, NEW c \in Callers, pc[c] = "done", helper = "up", result[c] # "unconfirmed"
        PROVE  slot[c] = "absent"
    <2>1. c \in Agents
      BY DEF Agents
    <2> QED BY <1>3, <2>1, AgentFacts DEF SessionInv, Slots, Slot
  <1>4. IInv => PeerServesOneCall
    BY <1>1, <1>2, <1>3 DEF PeerServesOneCall
  <1> QED BY <1>4, ObserverInvariant, PTL

\* A command reported as ended was seen by the observer, and one reported as
\* never started was not (finalizeDirectExecAdmission).
THEOREM ReportsAreTrue == Spec => []ReportIsTrue
  <1>1. IInv => ReportIsTrue
    <2> SUFFICES ASSUME IInv, NEW c \in Callers
                 PROVE  /\ result[c] \in {"succeeded", "failed"} => c \in consumed
                        /\ result[c] = "notStarted" => c \notin consumed
      BY DEF ReportIsTrue
    <2>1. c \in Agents
      BY DEF Agents
    <2> QED BY <2>1, AgentFacts DEF SessionInv, Slots, Slot
  <1> QED BY <1>1, ObserverInvariant, PTL

\* A failed or closed observer leaves no session in the registry that is not
\* told to end (SharedObserver.fail, close and startProfileWithBudget).
THEOREM SessionsEndWithObserver == Spec => []NoSessionOutlivesObserver
  <1>1. IInv => NoSessionOutlivesObserver
    <2> SUFFICES ASSUME IInv, down # {}, NEW s \in registry
                 PROVE  s \in teardown \/ \E r \in Registrars : Target[r] = s /\ pc[r] = "publish"
      BY DEF NoSessionOutlivesObserver
    <2>1. s \in Sessions /\ published = {}
      BY DEF IInv, TypeOK, Failing
    <2> QED BY <2>1 DEF IInv, SessionInv, Listed
  <1> QED BY <1>1, ObserverInvariant, PTL

\* Nobody who holds a lease waits in a circle: the one agent that tears down
\* every session never waits for its own, and the others do not wait
\* (failStopAmbiguousObserverSessionOwned, forgetObserverSession).
THEOREM NobodyWaitsInACircle == Spec => []NoWaitingCircle
  <1>1. IInv => NoWaitingCircle
    <2> SUFFICES ASSUME IInv, NEW a \in Agents, wait[a] # Nobody
                 PROVE  /\ gate[wait[a]] # a
                        /\ gate[wait[a]] # Nobody => wait[gate[wait[a]]] = Nobody
      BY DEF NoWaitingCircle
    <2>1. /\ a \in Threads /\ \A b \in Agents : b \in Threads
      BY DEF Threads
    <2>2. wait[a] \in Sessions /\ wait[a] # Target[a] /\ pc[a] = "phase2"
      BY <2>1 DEF IInv, TypeOK, Failing
    <2>3. gate[wait[a]] # a
      BY <2>2, AgentFacts
    <2>4. gate[wait[a]] # Nobody => gate[wait[a]] \in Agents
      BY <2>2 DEF IInv, TypeOK
    <2>5. \A b \in Agents : wait[b] # Nobody => b = a
      BY <2>1, <2>2 DEF IInv, Failing
    <2> QED BY <2>3, <2>4, <2>5
  <1> QED BY <1>1, ObserverInvariant, PTL
================================================================================
