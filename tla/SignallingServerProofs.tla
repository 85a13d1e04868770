------------------------ MODULE SignallingServerProofs ------------------------
(***************************************************************************)
(* Proofs about SignallingServer, for any ids, connections, message types  *)
(* and limit.  The inductive invariant IInv adds to the checked invariants *)
(* that a relaying handler is registered and that a client's message to a  *)
(* client never gets as far as the write.                                  *)
(***************************************************************************)
EXTENDS SignallingServer, SequenceLemmas, FiniteSetTheorems

(* A handler relays only for a registered peer.                            *)
RelayersRegistered ==
  \A c \in Conns : job[c] \in Relays => registered[c]

(* A message that reached the write passed the role check, and still would.*)
RoleChecked ==
  \A c \in Conns :
    pc[c] \in {"write", "writing"} /\ job[c] \in Relays => ~Forbidden(c)

IInv ==
  /\ TypeOK
  /\ RegistrationExact
  /\ ServerListExact
  /\ StaleTargetsAreClosed
  /\ RelayersRegistered
  /\ RoleChecked

(* The nil connection and the absent entry are never mistaken for real     *)
(* ones.                                                                   *)
LEMMA Nils ==
  /\ Absent \notin PeerInfo
  /\ NoJob \notin Relays
  /\ \A c \in Conns : Pong(c) \notin Relays /\ Pong(c) # NoJob
  /\ \A j \in Relays : j.kind \in RelayTypes /\ j.peer \in PeerInfo /\ j.kind # "pong"
  /\ \A p \in PeerInfo : p.conn \in Conns /\ p.role \in Roles /\ p # Absent
<1>1. \A p \in PeerInfo : p.conn \in Conns /\ p.role \in Roles
  BY DEF PeerInfo
<1>2. Absent.conn \notin Conns
  BY ConstantsAssumption DEF Absent
<1>3. \A j \in Relays : j.kind \in RelayTypes /\ j.peer \in PeerInfo
  BY DEF Relays
<1>4. /\ RelayTypes \cap {"pong", "none"} = {}
      /\ NoJob.kind = "none"
      /\ \A c \in Conns : Pong(c).kind = "pong"
  BY ConstantsAssumption DEF NoJob, Pong
<1> QED BY <1>1, <1>2, <1>3, <1>4

LEMMA NilFields ==
  /\ Absent.conn \notin Conns
  /\ Absent.role = ""
  /\ NoJob.kind = "none"
  /\ \A c : Pong(c).kind = "pong"
  /\ "none" \notin RelayTypes /\ "pong" \notin RelayTypes
BY ConstantsAssumption DEF Absent, NoJob, Pong

(* A handler's message is a relayed one, its own pong, or none.            *)
LEMMA JobKinds ==
  ASSUME TypeOK, NEW c \in Conns
  PROVE  /\ job[c].kind \in RelayTypes => job[c] \in Relays
         /\ job[c] # NoJob /\ job[c].kind # "pong" => job[c] \in Relays
<1>1. \/ job[c] \in Relays
      \/ \E d \in Conns : job[c] = Pong(d)
      \/ job[c] = NoJob
  BY DEF TypeOK
<1>2. ASSUME NEW d \in Conns, job[c] = Pong(d) PROVE job[c].kind = "pong"
  BY <1>2, NilFields
<1> QED BY <1>1, <1>2, NilFields

LEMMA InitTypeOK == Init => TypeOK
BY EmptySeq DEF Init, TypeOK

(* Type correctness is inductive given that the server list is exact:      *)
(* only then does Unregister find what it removes.                         *)
LEMMA NextTypeOK ==
  ASSUME TypeOK, RegistrationExact, ServerListExact, Next
  PROVE  TypeOK'
<1> USE DEF TypeOK
<1>1. ASSUME NEW c \in Conns, NEW id \in Ids, Connect(c, id) PROVE TypeOK'
  BY <1>1, ConstantsAssumption DEF Connect, pmVars
<1>2. ASSUME NEW c \in Conns, LoseLink(c) PROVE TypeOK'
  BY <1>2 DEF LoseLink, pmVars
<1>3. ASSUME NEW c \in Conns, NEW role \in Roles, Register(c, role) PROVE TypeOK'
  <2>1. url[c] \in Ids
    BY <1>3 DEF Register, Readable
  <2>2. servers' \in Seq(Ids)
    BY <1>3, <2>1, AppendProperties DEF Register
  <2>3. peers' \in [Ids -> PeerInfo \cup {Absent}]
    BY <1>3, <2>1 DEF Register, PeerInfo
  <2> QED BY <1>3, <2>2, <2>3 DEF Register
<1>4. ASSUME NEW c \in Conns, NEW kind \in RelayTypes, NEW id \in Ids \cup {NoId},
             Lookup(c, kind, id)
      PROVE TypeOK'
  <2> DEFINE target == IF id = NoId THEN url[c] ELSE id
             new == [kind |-> kind, peer |-> peers[target]]
  <2>1. target \in Ids
    BY <1>4 DEF Lookup, Readable
  <2>2. new \in Relays
    BY <1>4, <2>1 DEF Lookup, HasPeer, Relays
  <2>3. job' = [job EXCEPT ![c] = new] /\ pc' = [pc EXCEPT ![c] = "role"]
    BY <1>4 DEF Lookup
  <2> HIDE DEF new
  <2> QED BY <1>4, <2>2, <2>3, Nils DEF Lookup, pmVars, Readable
<1>5. ASSUME NEW c \in Conns, CheckRole(c) PROVE TypeOK'
  BY <1>5 DEF CheckRole, pmVars
<1>6. ASSUME NEW c \in Conns, Ping(c) PROVE TypeOK'
  BY <1>6, Nils DEF Ping, pmVars, Readable
<1>7. ASSUME NEW c \in Conns, BeginWrite(c) PROVE TypeOK'
  BY <1>7 DEF BeginWrite, pmVars
<1>8. ASSUME NEW c \in Conns, NEW nxt \in {"read", "closing"}, LeaveWrite(c, nxt)
      PROVE TypeOK'
  BY <1>8 DEF LeaveWrite, pmVars
<1>9. ASSUME NEW c \in Conns, ReadError(c) PROVE TypeOK'
  BY <1>9 DEF ReadError, pmVars
<1>10. ASSUME NEW c \in Conns, Teardown(c) PROVE TypeOK'
  <2>1. peers' \in [Ids -> PeerInfo \cup {Absent}] /\ servers' \in Seq(Ids)
    <3>1. CASE ~registered[c]
      BY <1>10, <3>1 DEF Teardown, pmVars
    <3>2. CASE registered[c] /\ GetRole(url[c]) # "server"
      BY <1>10, <3>2 DEF Teardown, Unregister, RegistrationExact
    <3>3. CASE registered[c] /\ GetRole(url[c]) = "server"
      <4>1. url[c] \in ToSet(servers)
        BY <3>3 DEF RegistrationExact, ServerListExact, GetServerList
      <4>2. RemoveFirst(servers, url[c]) \in Seq(Ids)
        BY <4>1, RemoveFirstUnique DEF ServerListExact
      <4> QED BY <1>10, <3>3, <4>2 DEF Teardown, Unregister, RegistrationExact
    <3> QED BY <3>1, <3>2, <3>3
  <2> QED BY <1>10, <2>1 DEF Teardown
<1>11. ASSUME ShutdownSweep PROVE TypeOK'
  BY <1>11 DEF ShutdownSweep, pmVars
<1>12. ASSUME Exit PROVE TypeOK'
  BY <1>12 DEF Exit, pmVars
<1> QED
  BY <1>1, <1>2, <1>3, <1>4, <1>5, <1>6, <1>7, <1>8, <1>9, <1>10, <1>11, <1>12
  DEF Next, Handler, WriteOk, WriteError, WriteRace

(* Only three actions touch the table or a handler's hold on it.           *)
LEMMA TableSteps ==
  ASSUME Next
  PROVE  \/ UNCHANGED <<peers, servers, url, registered>>
         \/ \E c \in Conns, id \in Ids : Connect(c, id)
         \/ \E c \in Conns, role \in Roles : Register(c, role)
         \/ \E c \in Conns : Teardown(c)
BY DEF Next, Handler, LoseLink, Lookup, CheckRole, Ping, BeginWrite, WriteOk,
       WriteError, WriteRace, LeaveWrite, ReadError, ShutdownSweep, Exit, pmVars

LEMMA InitInv == Init => IInv
<1> SUFFICES ASSUME Init PROVE IInv
  OBVIOUS
<1>1. TypeOK
  BY InitTypeOK
<1>2. RegistrationExact
  BY DEF Init, RegistrationExact, HasPeer
<1>3. ServerListExact
  <2>1. servers = <<>> /\ \A id \in Ids : GetRole(id) = ""
    BY NilFields DEF Init, GetRole
  <2>2. IsInjective(servers) /\ ToSet(servers) = {}
    <3>1. DOMAIN servers = {}
      <4>1. <<>> \in Seq(Ids) /\ Len(<<>>) = 0
        BY EmptySeq
      <4>2. DOMAIN servers = 1 .. 0
        BY <2>1, <4>1, LenProperties
      <4> QED BY <4>2
    <3> QED BY <3>1 DEF IsInjective, ToSet
  <2> QED BY <2>1, <2>2 DEF ServerListExact, GetServerList
<1>4. \A c \in Conns : job[c] \notin Relays /\ job[c].kind \notin RelayTypes
  BY Nils, ConstantsAssumption DEF Init, NoJob
<1> QED
  BY <1>1, <1>2, <1>3, <1>4
  DEF IInv, StaleTargetsAreClosed, RelayersRegistered, RoleChecked

(* The flags and the table keep agreeing.  A new connection is registered  *)
(* nowhere; a registration takes a free id; a teardown removes the entry   *)
(* of its own connection and no other, because ids are keys.               *)
LEMMA NextRegistration ==
  ASSUME IInv, Next
  PROVE  RegistrationExact'
<1> USE DEF IInv, TypeOK, HasPeer
<1>1. CASE UNCHANGED <<peers, servers, url, registered>>
  BY <1>1 DEF RegistrationExact
<1>2. ASSUME NEW c \in Conns, NEW id \in Ids, Connect(c, id)
      PROVE RegistrationExact'
  <2>1. url[c] = NoId /\ ~registered[c]
    BY <1>2, ConstantsAssumption DEF Connect, RegistrationExact
  <2>2. \A i \in Ids : HasPeer(i) => peers[i].conn # c
    BY <2>1, ConstantsAssumption DEF RegistrationExact
  <2>3. UNCHANGED <<peers, registered>> /\ url' = [url EXCEPT ![c] = id]
    BY <1>2 DEF Connect, pmVars
  <2> QED BY <2>1, <2>2, <2>3, Nils DEF RegistrationExact
<1>3. ASSUME NEW c \in Conns, NEW role \in Roles, Register(c, role)
      PROVE RegistrationExact'
  <2> DEFINE new == [conn |-> c, role |-> role]
  <2>1. url[c] \in Ids /\ peers[url[c]] = Absent /\ ~registered[c]
    BY <1>3 DEF Register, Readable, MayRegister
  <2>2. new.conn = c /\ new # Absent
    BY Nils DEF PeerInfo
  <2>3. /\ peers' = [peers EXCEPT ![url[c]] = new]
        /\ registered' = [registered EXCEPT ![c] = TRUE]
        /\ url' = url
    BY <1>3 DEF Register
  <2> HIDE DEF new
  <2>4. Absent.conn \notin Conns
    BY ConstantsAssumption DEF Absent
  <2> QED BY <2>1, <2>2, <2>3, <2>4, Nils DEF RegistrationExact
<1>4. ASSUME NEW c \in Conns, Teardown(c)
      PROVE RegistrationExact'
  <2>1. /\ url' = [url EXCEPT ![c] = NoId]
        /\ registered' = [registered EXCEPT ![c] = FALSE]
    BY <1>4 DEF Teardown
  <2>2. CASE registered[c]
    <3>1. peers' = [peers EXCEPT ![url[c]] = Absent] /\ url[c] \in Ids
      BY <1>4, <2>2 DEF Teardown, Unregister, RegistrationExact
    <3>2. \A d \in Conns : registered[d] /\ d # c => url[d] # url[c]
      BY <2>2 DEF RegistrationExact
    <3> QED BY <2>1, <2>2, <3>1, <3>2, Nils DEF RegistrationExact
  <2>3. CASE ~registered[c]
    <3>1. peers' = peers
      BY <1>4, <2>3 DEF Teardown, pmVars
    <3> QED BY <2>1, <2>3, <3>1, Nils DEF RegistrationExact
  <2> QED BY <2>2, <2>3
<1> QED BY <1>1, <1>2, <1>3, <1>4, TableSteps

(* The list keeps following the table.                                     *)
LEMMA NextServerList ==
  ASSUME IInv, Next
  PROVE  ServerListExact'
<1> USE DEF IInv, TypeOK, GetServerList, GetRole
<1>1. CASE UNCHANGED <<peers, servers, url, registered>>
  BY <1>1 DEF ServerListExact
<1>2. ASSUME NEW c \in Conns, NEW id \in Ids, Connect(c, id)
      PROVE ServerListExact'
  BY <1>2 DEF Connect, pmVars, ServerListExact
<1>3. ASSUME NEW c \in Conns, NEW role \in Roles, Register(c, role)
      PROVE ServerListExact'
  <2>1. url[c] \in Ids /\ peers[url[c]] = Absent
    BY <1>3 DEF Register, Readable, MayRegister, HasPeer
  <2>2. url[c] \notin ToSet(servers)
    BY <2>1, NilFields DEF ServerListExact
  <2>3. peers' = [peers EXCEPT ![url[c]] = [conn |-> c, role |-> role]]
    BY <1>3 DEF Register
  <2>4. CASE role = "server"
    <3>1. servers' = Append(servers, url[c])
      BY <1>3, <2>4 DEF Register
    <3>2. IsInjective(servers') /\ ToSet(servers') = ToSet(servers) \cup {url[c]}
      BY <2>1, <2>2, <3>1, AppendNew DEF ServerListExact
    <3> QED BY <2>1, <2>3, <2>4, <3>2 DEF ServerListExact
  <2>5. CASE role # "server"
    <3>1. servers' = servers
      BY <1>3, <2>5 DEF Register
    <3> QED BY <2>1, <2>2, <2>3, <2>5, <3>1 DEF ServerListExact
  <2> QED BY <2>4, <2>5
<1>4. ASSUME NEW c \in Conns, Teardown(c)
      PROVE ServerListExact'
  <2>1. CASE ~registered[c]
    BY <1>4, <2>1 DEF Teardown, pmVars, ServerListExact
  <2>2. CASE registered[c]
    <3>1. peers' = [peers EXCEPT ![url[c]] = Absent] /\ url[c] \in Ids
      BY <1>4, <2>2 DEF Teardown, Unregister, RegistrationExact
    <3>2. {id \in Ids : peers'[id].role = "server"}
            = {id \in Ids : peers[id].role = "server"} \ {url[c]}
      BY <3>1 DEF Absent
    <3>3. CASE peers[url[c]].role = "server"
      <4>1. servers' = RemoveFirst(servers, url[c])
        BY <1>4, <2>2, <3>3 DEF Teardown, Unregister
      <4>2. url[c] \in ToSet(servers)
        BY <3>1, <3>3 DEF ServerListExact
      <4>3. IsInjective(servers') /\ ToSet(servers') = ToSet(servers) \ {url[c]}
        BY <4>1, <4>2, RemoveFirstUnique DEF ServerListExact
      <4> QED BY <3>2, <4>3 DEF ServerListExact
    <3>4. CASE peers[url[c]].role # "server"
      <4>1. servers' = servers
        BY <1>4, <2>2, <3>4 DEF Teardown, Unregister
      <4> QED BY <3>2, <3>4, <4>1 DEF ServerListExact
    <3> QED BY <3>3, <3>4
  <2> QED BY <2>1, <2>2
<1> QED BY <1>1, <1>2, <1>3, <1>4, TableSteps

(* A PeerInfo in hand is current or its connection is closed.  It is read  *)
(* when it is current; the only step that ends that closes the connection  *)
(* in the same stroke, and the object is not reopened.                     *)
LEMMA NextStaleTargets ==
  ASSUME IInv, Next
  PROVE  StaleTargetsAreClosed'
<1> DEFINE Held(d) == job[d].kind \in RelayTypes /\ sock[Target(d)] # "closed"
           Current(d) == registered[Target(d)] /\ peers[url[Target(d)]] = job[d].peer
<1> SUFFICES ASSUME NEW d \in Conns, Held(d)'
             PROVE  Current(d)'
  BY DEF StaleTargetsAreClosed
<1> USE DEF IInv, TypeOK
<1>1. \A x \in Conns : job[x].kind \in RelayTypes => job[x] \in Relays
  BY JobKinds
<1>2. Held(d) => Current(d) /\ Target(d) \in Conns /\ job[d].peer # Absent
                 /\ url[Target(d)] \in Ids
  BY <1>1, Nils DEF StaleTargetsAreClosed, Target, RegistrationExact
<1>3. "none" \notin RelayTypes /\ "pong" \notin RelayTypes
  BY ConstantsAssumption
<1>4. ASSUME UNCHANGED <<peers, url, registered>>,
             job'[d] = job[d], sock'[Target(d)] # "closed" => sock[Target(d)] # "closed"
      PROVE Current(d)'
  BY <1>2, <1>4 DEF Target
<1>5. ASSUME NEW c \in Conns, NEW id \in Ids, Connect(c, id) PROVE Current(d)'
  <2>1. Target(d) # c /\ job' = job
    BY <1>5 DEF Connect
  <2>2. /\ sock' = [sock EXCEPT ![c] = "up"] /\ url' = [url EXCEPT ![c] = id]
        /\ UNCHANGED <<peers, registered>>
    BY <1>5 DEF Connect, pmVars
  <2>3. Held(d)
    BY <1>1, <2>1, <2>2, Nils DEF Target
  <2> QED BY <1>2, <2>1, <2>2, <2>3 DEF Target
<1>6. ASSUME NEW c \in Conns, LoseLink(c) PROVE Current(d)'
  BY <1>4, <1>6 DEF LoseLink, pmVars
<1>7. ASSUME NEW c \in Conns, NEW role \in Roles, Register(c, role)
      PROVE Current(d)'
  <2>1. /\ peers[url[c]] = Absent
        /\ peers' = [peers EXCEPT ![url[c]] = [conn |-> c, role |-> role]]
        /\ registered' = [registered EXCEPT ![c] = TRUE]
        /\ UNCHANGED <<url, job, sock>>
    BY <1>7 DEF Register, MayRegister, HasPeer
  <2>2. Held(d)
    BY <2>1 DEF Target
  <2> QED BY <1>2, <2>1, <2>2 DEF Target
<1>8. ASSUME NEW c \in Conns, NEW kind \in RelayTypes, NEW id \in Ids \cup {NoId},
             Lookup(c, kind, id)
      PROVE Current(d)'
  <2> DEFINE target == IF id = NoId THEN url[c] ELSE id
  <2>1. /\ target \in Ids /\ HasPeer(target)
        /\ job' = [job EXCEPT ![c] = [kind |-> kind, peer |-> peers[target]]]
        /\ UNCHANGED <<peers, url, registered, sock>>
    BY <1>8 DEF Lookup, Readable, pmVars
  <2> HIDE DEF target
  <2>2. CASE d = c
    <3>1. job'[d].peer = peers[target]
      BY <2>1, <2>2
    <3>2. registered[peers[target].conn] /\ url[peers[target].conn] = target
      BY <2>1 DEF RegistrationExact
    <3> QED BY <2>1, <3>1, <3>2 DEF Target
  <2>3. CASE d # c
    BY <1>4, <2>1, <2>3
  <2> QED BY <2>2, <2>3
<1>9. ASSUME NEW c \in Conns, CheckRole(c) PROVE Current(d)'
  <2>1. job'[d] \in {job[d], NoJob}
    BY <1>9 DEF CheckRole
  <2>2. job'[d] = job[d]
    BY <1>3, <2>1 DEF NoJob
  <2> QED BY <1>4, <1>9, <2>2 DEF CheckRole, pmVars
<1>10. ASSUME NEW c \in Conns, Ping(c) PROVE Current(d)'
  <2>1. job'[d] \in {job[d], Pong(c)}
    BY <1>10 DEF Ping
  <2>2. job'[d] = job[d]
    BY <2>1, NilFields
  <2> QED BY <1>4, <1>10, <2>2 DEF Ping, pmVars
<1>11. ASSUME NEW c \in Conns, BeginWrite(c) PROVE Current(d)'
  BY <1>4, <1>11 DEF BeginWrite, pmVars
<1>12. ASSUME NEW c \in Conns, NEW nxt \in {"read", "closing"}, LeaveWrite(c, nxt)
      PROVE Current(d)'
  <2>1. job'[d] \in {job[d], NoJob}
    BY <1>12 DEF LeaveWrite
  <2>2. job'[d] = job[d]
    BY <1>3, <2>1 DEF NoJob
  <2> QED BY <1>4, <1>12, <2>2 DEF LeaveWrite, pmVars
<1>13. ASSUME NEW c \in Conns, ReadError(c) PROVE Current(d)'
  BY <1>4, <1>13 DEF ReadError, pmVars
<1>14. ASSUME NEW c \in Conns, Teardown(c) PROVE Current(d)'
  <2>1. /\ job' = job
        /\ sock'[Target(d)] # "closed" => Target(d) # c /\ sock[Target(d)] # "closed"
        /\ url' = [url EXCEPT ![c] = NoId]
        /\ registered' = [registered EXCEPT ![c] = FALSE]
    <3>1. job' = job
      BY <1>14 DEF Teardown
    <3>2. Target(d) \in Conns
      BY <1>1, <3>1, Nils DEF Target
    <3> QED BY <1>14, <3>1, <3>2 DEF Teardown
  <2>2. Held(d) /\ Target(d) # c
    BY <2>1 DEF Target
  <2>3. peers'[url[Target(d)]] = peers[url[Target(d)]]
    <3>1. CASE registered[c]
      <4>1. peers' = [peers EXCEPT ![url[c]] = Absent] /\ url[c] # url[Target(d)]
        BY <1>2, <1>14, <2>2, <3>1 DEF Teardown, Unregister, RegistrationExact
      <4> QED BY <1>2, <2>2, <4>1
    <3>2. CASE ~registered[c]
      BY <1>14, <3>2 DEF Teardown, pmVars
    <3> QED BY <3>1, <3>2
  <2> QED BY <1>2, <2>1, <2>2, <2>3 DEF Target
<1>15. ASSUME ShutdownSweep PROVE Current(d)'
  <2>1. UNCHANGED <<peers, url, registered, job>>
    BY <1>15 DEF ShutdownSweep, pmVars
  <2>2. Target(d) \in Conns
    BY <1>1, <2>1, Nils DEF Target
  <2>3. sock'[Target(d)] # "closed" => sock[Target(d)] # "closed"
    BY <1>15, <2>2 DEF ShutdownSweep
  <2> QED BY <1>4, <2>1, <2>3
<1>16. ASSUME Exit PROVE Current(d)'
  BY <1>4, <1>16 DEF Exit, pmVars
<1> QED
  BY <1>5, <1>6, <1>7, <1>8, <1>9, <1>10, <1>11, <1>12, <1>13, <1>14, <1>15, <1>16
  DEF Next, Handler, WriteOk, WriteError, WriteRace

(* The handler of a relay job holds a registration until it tears down.    *)
LEMMA NextRelayers ==
  ASSUME IInv, Next
  PROVE  RelayersRegistered'
<1> SUFFICES ASSUME NEW d \in Conns, job'[d] \in Relays
             PROVE  registered'[d]
  BY DEF RelayersRegistered
<1> USE DEF IInv, TypeOK, RelayersRegistered
<1>1. ASSUME job'[d] = job[d], registered' = registered PROVE registered'[d]
  BY <1>1
<1>2. ASSUME NEW c \in Conns, NEW id \in Ids, Connect(c, id) PROVE registered'[d]
  BY <1>1, <1>2 DEF Connect
<1>3. ASSUME NEW c \in Conns, LoseLink(c) PROVE registered'[d]
  BY <1>1, <1>3 DEF LoseLink
<1>4. ASSUME NEW c \in Conns, NEW role \in Roles, Register(c, role) PROVE registered'[d]
  BY <1>4 DEF Register
<1>5. ASSUME NEW c \in Conns, NEW kind \in RelayTypes, NEW id \in Ids \cup {NoId},
             Lookup(c, kind, id)
      PROVE registered'[d]
  BY <1>5 DEF Lookup
<1>6. ASSUME NEW c \in Conns, CheckRole(c) PROVE registered'[d]
  BY <1>6, Nils DEF CheckRole
<1>7. ASSUME NEW c \in Conns, Ping(c) PROVE registered'[d]
  BY <1>7, Nils DEF Ping
<1>8. ASSUME NEW c \in Conns, BeginWrite(c) PROVE registered'[d]
  BY <1>1, <1>8 DEF BeginWrite
<1>9. ASSUME NEW c \in Conns, NEW nxt \in {"read", "closing"}, LeaveWrite(c, nxt)
      PROVE registered'[d]
  BY <1>9, Nils DEF LeaveWrite
<1>10. ASSUME NEW c \in Conns, ReadError(c) PROVE registered'[d]
  BY <1>1, <1>10 DEF ReadError
<1>11. ASSUME NEW c \in Conns, Teardown(c) PROVE registered'[d]
  BY <1>11, Nils DEF Teardown
<1>12. ASSUME ShutdownSweep PROVE registered'[d]
  BY <1>1, <1>12 DEF ShutdownSweep
<1>13. ASSUME Exit PROVE registered'[d]
  BY <1>1, <1>13 DEF Exit
<1> QED
  BY <1>2, <1>3, <1>4, <1>5, <1>6, <1>7, <1>8, <1>9, <1>10, <1>11, <1>12, <1>13
  DEF Next, Handler, WriteOk, WriteError, WriteRace

(* The entry of a registered handler stays as it is unless that handler    *)
(* tears down.                                                             *)
LEMMA OwnEntryStable ==
  ASSUME IInv, Next, NEW d \in Conns, registered[d], pc[d] # "closing"
  PROVE  url'[d] = url[d] /\ peers'[url[d]] = peers[url[d]]
<1> USE DEF IInv, TypeOK
<1>1. url[d] \in Ids /\ peers[url[d]].conn = d
  BY DEF RegistrationExact
<1>2. CASE UNCHANGED <<peers, servers, url, registered>>
  BY <1>2
<1>3. ASSUME NEW c \in Conns, NEW id \in Ids, Connect(c, id)
      PROVE url'[d] = url[d] /\ peers' = peers
  BY <1>1, <1>3, ConstantsAssumption DEF Connect, pmVars
<1>4. ASSUME NEW c \in Conns, NEW role \in Roles, Register(c, role)
      PROVE url'[d] = url[d] /\ peers'[url[d]] = peers[url[d]]
  <2>1. Absent.conn # d
    BY ConstantsAssumption DEF Absent
  <2>2. url[c] # url[d]
    BY <1>1, <1>4, <2>1 DEF Register, MayRegister, HasPeer
  <2> QED BY <1>1, <1>4, <2>2 DEF Register
<1>5. ASSUME NEW c \in Conns, Teardown(c)
      PROVE url'[d] = url[d] /\ peers'[url[d]] = peers[url[d]]
  <2>1. c # d /\ url'[d] = url[d]
    BY <1>5 DEF Teardown
  <2>2. registered[c] => url[c] # url[d]
    BY <1>1, <2>1 DEF RegistrationExact
  <2> QED BY <1>1, <1>5, <2>1, <2>2 DEF Teardown, Unregister, pmVars
<1> QED BY <1>2, <1>3, <1>4, <1>5, TableSteps

LEMMA NextRoleChecked ==
  ASSUME IInv, Next
  PROVE  RoleChecked'
<1> SUFFICES ASSUME NEW d \in Conns, pc'[d] \in {"write", "writing"}, job'[d] \in Relays
             PROVE  ~Forbidden(d)'
  BY DEF RoleChecked
<1> USE DEF IInv, TypeOK
<1>1. ASSUME job'[d] = job[d], pc[d] # "closing", ~Forbidden(d)
      PROVE ~Forbidden(d)'
  <2>1. registered[d]
    BY <1>1 DEF RelayersRegistered
  <2>2. url'[d] = url[d] /\ peers'[url[d]] = peers[url[d]]
    BY <1>1, <2>1, OwnEntryStable
  <2> QED BY <1>1, <2>2 DEF Forbidden, GetRole
<1>2. ASSUME job'[d] = job[d], pc[d] \in {"write", "writing"} PROVE ~Forbidden(d)'
  BY <1>1, <1>2 DEF RoleChecked
<1>3. ASSUME NEW c \in Conns, NEW id \in Ids, Connect(c, id) PROVE ~Forbidden(d)'
  BY <1>2, <1>3 DEF Connect
<1>4. ASSUME NEW c \in Conns, LoseLink(c) PROVE ~Forbidden(d)'
  BY <1>2, <1>4 DEF LoseLink
<1>5. ASSUME NEW c \in Conns, NEW role \in Roles, Register(c, role) PROVE ~Forbidden(d)'
  BY <1>2, <1>5 DEF Register
<1>6. ASSUME NEW c \in Conns, NEW kind \in RelayTypes, NEW id \in Ids \cup {NoId},
             Lookup(c, kind, id)
      PROVE ~Forbidden(d)'
  BY <1>2, <1>6 DEF Lookup
<1>7. ASSUME NEW c \in Conns, CheckRole(c) PROVE ~Forbidden(d)'
  <2>1. CASE c = d
    BY <1>1, <1>7, <2>1 DEF CheckRole
  <2>2. CASE c # d
    BY <1>2, <1>7, <2>2 DEF CheckRole
  <2> QED BY <2>1, <2>2
<1>8. ASSUME NEW c \in Conns, Ping(c) PROVE ~Forbidden(d)'
  <2>1. c # d
    BY <1>8, Nils DEF Ping
  <2> QED BY <1>2, <1>8, <2>1 DEF Ping
<1>9. ASSUME NEW c \in Conns, BeginWrite(c) PROVE ~Forbidden(d)'
  BY <1>2, <1>9 DEF BeginWrite
<1>10. ASSUME NEW c \in Conns, NEW nxt \in {"read", "closing"}, LeaveWrite(c, nxt)
       PROVE ~Forbidden(d)'
  BY <1>2, <1>10 DEF LeaveWrite
<1>11. ASSUME NEW c \in Conns, ReadError(c) PROVE ~Forbidden(d)'
  BY <1>2, <1>11 DEF ReadError
<1>12. ASSUME NEW c \in Conns, Teardown(c) PROVE ~Forbidden(d)'
  BY <1>2, <1>12 DEF Teardown
<1>13. ASSUME ShutdownSweep PROVE ~Forbidden(d)'
  BY <1>2, <1>13 DEF ShutdownSweep
<1>14. ASSUME Exit PROVE ~Forbidden(d)'
  BY <1>2, <1>14 DEF Exit
<1> QED
  BY <1>3, <1>4, <1>5, <1>6, <1>7, <1>8, <1>9, <1>10, <1>11, <1>12, <1>13, <1>14
  DEF Next, Handler, WriteOk, WriteError, WriteRace

(* The inductive invariant holds in every reachable state.                 *)
THEOREM Invariance == Spec => []IInv
<1>1. IInv /\ [Next]_vars => IInv'
  <2> SUFFICES ASSUME IInv, [Next]_vars PROVE IInv'
    OBVIOUS
  <2>1. CASE Next
    <3>1. TypeOK'
      BY <2>1, NextTypeOK DEF IInv
    <3>2. RegistrationExact' /\ ServerListExact'
      BY <2>1, NextRegistration, NextServerList
    <3>3. StaleTargetsAreClosed' /\ RelayersRegistered' /\ RoleChecked'
      BY <2>1, NextStaleTargets, NextRelayers, NextRoleChecked
    <3> QED BY <3>1, <3>2, <3>3 DEF IInv
  <2>2. CASE UNCHANGED vars
    BY <2>2 DEF vars, pmVars, IInv, TypeOK, RegistrationExact, ServerListExact,
                StaleTargetsAreClosed, RelayersRegistered, RoleChecked, HasPeer,
                GetRole, GetServerList, Target, Forbidden
  <2> QED BY <2>1, <2>2
<1> QED BY <1>1, InitInv, PTL DEF Spec

(* Every state is well typed, and a handler holds a PeerInfo exactly while *)
(* it relays (main.go:213-276).                                            *)
THEOREM TypeCorrect == Spec => []TypeOK
BY Invariance, PTL DEF IInv

(* The table is that of the handlers' flags (main.go:78-123, 199-204): no  *)
(* interleaving of registrations, refusals and departures makes them       *)
(* disagree, for any number of connections.                                *)
THEOREM RegistrationCorrect == Spec => []RegistrationExact
BY Invariance, PTL DEF IInv

(* /servers is exact and lists no client (main.go:93-115, 147-153).        *)
THEOREM ServerListCorrect == Spec => []ServerListExact
BY Invariance, PTL DEF IInv

(* Using a PeerInfo after the mutex was released (main.go:257-272) is      *)
(* harmless: it is current, or its connection is closed.                   *)
THEOREM StaleTargetsCorrect == Spec => []StaleTargetsAreClosed
BY Invariance, PTL DEF IInv

(* No schedule of registrations exceeds -max-connections (main.go:87-92).  *)
THEOREM CapCorrect == Spec => []CapRespected
<1>1. Init => CapRespected
  <2> SUFFICES ASSUME Init PROVE CapRespected
    OBVIOUS
  <2>1. Members = {}
    BY DEF Init, Members, HasPeer
  <2>2. NumPeers = 0
    BY <2>1, FS_EmptySet DEF NumPeers
  <2> QED BY <2>2, ConstantsAssumption DEF CapRespected
<1>2. IInv /\ IInv' /\ CapRespected /\ [Next]_vars => CapRespected'
  <2> SUFFICES ASSUME IInv, IInv', CapRespected, [Next]_vars PROVE CapRespected'
    OBVIOUS
  <2>1. /\ IsFiniteSet(Members) /\ NumPeers \in Nat
        /\ IsFiniteSet(Members') /\ NumPeers' \in Nat
    BY ConstantsAssumption, FS_Subset, FS_CardinalityType DEF Members, NumPeers
  <2>2. ASSUME Members' \subseteq Members PROVE NumPeers' <= NumPeers
    BY <2>1, <2>2, FS_Subset DEF NumPeers
  <2>3. ASSUME Members' \subseteq Members PROVE CapRespected'
    BY <2>1, <2>2, <2>3, ConstantsAssumption DEF CapRespected
  <2>4. ASSUME NEW c \in Conns, NEW role \in Roles, Register(c, role)
        PROVE CapRespected'
    <3>1. MaxConns = 0 \/ NumPeers < MaxConns
      BY <2>4 DEF Register, MayRegister
    <3>2. Members' \subseteq Members \cup {url[c]}
      BY <2>4 DEF Register, Members, HasPeer, IInv, TypeOK
    <3>3. /\ IsFiniteSet(Members \cup {url[c]})
          /\ Cardinality(Members \cup {url[c]}) <= NumPeers + 1
      <4>1. /\ IsFiniteSet(Members \cup {url[c]})
            /\ Cardinality(Members \cup {url[c]}) =
                 IF url[c] \in Members THEN Cardinality(Members)
                                       ELSE Cardinality(Members) + 1
        BY <2>1, FS_AddElement
      <4> QED BY <2>1, <4>1 DEF NumPeers
    <3>4. /\ NumPeers' <= Cardinality(Members \cup {url[c]})
          /\ Cardinality(Members \cup {url[c]}) \in Nat
      BY <3>2, <3>3, FS_Subset, FS_CardinalityType DEF NumPeers
    <3> QED BY <2>1, <3>1, <3>3, <3>4, ConstantsAssumption DEF CapRespected
  <2>5. ASSUME NEW c \in Conns, Teardown(c) PROVE Members' \subseteq Members
    BY <2>5 DEF Teardown, Unregister, pmVars, Members, HasPeer, IInv, TypeOK
  <2>6. ASSUME NEW c \in Conns, NEW id \in Ids, Connect(c, id)
        PROVE Members' \subseteq Members
    BY <2>6 DEF Connect, pmVars, Members, HasPeer
  <2>7. CASE Next
    <3>1. CASE UNCHANGED <<peers, servers, url, registered>>
      BY <2>3, <3>1 DEF Members, HasPeer
    <3> QED BY <2>3, <2>4, <2>5, <2>6, <2>7, <3>1, TableSteps
  <2>8. CASE UNCHANGED vars
    BY <2>3, <2>8 DEF vars, pmVars, Members, HasPeer
  <2> QED BY <2>7, <2>8
<1> QED BY <1>1, <1>2, Invariance, PTL DEF Spec

(* What a successful write delivers: one message between registered peers, *)
(* at least one of them a server, by the table of that moment.             *)
LEMMA WriteOkDelivers ==
  ASSUME IInv, NEW c \in Conns, WriteOk(c), frame' # NoFrame
  PROVE  /\ job[c].kind \in RelayTypes
         /\ frame' = FrameOf(c)
         /\ {url[c], url[Target(c)]} \subseteq Members
         /\ "server" \in {GetRole(url[c]), GetRole(url[Target(c)])}
<1> USE DEF IInv, TypeOK
<1>1. /\ pc[c] = "writing" /\ sock[Target(c)] # "closed"
      /\ frame' = FrameOf(c) /\ job[c].kind # "pong"
  BY DEF WriteOk, LeaveWrite
<1>2. job[c] \in Relays
  BY <1>1, JobKinds
<1>3. job[c].kind \in RelayTypes /\ job[c].peer \in PeerInfo
  BY <1>2, Nils
<1>4. registered[Target(c)] /\ peers[url[Target(c)]] = job[c].peer
  BY <1>1, <1>3 DEF StaleTargetsAreClosed
<1>5. registered[c] /\ ~Forbidden(c)
  BY <1>1, <1>2 DEF RelayersRegistered, RoleChecked
<1>6. Target(c) \in Conns
  BY <1>3, Nils DEF Target
<1>7. /\ url[c] \in Ids /\ peers[url[c]].conn \in Conns
      /\ url[Target(c)] \in Ids
  BY <1>4, <1>5, <1>6 DEF RegistrationExact
<1>8. /\ peers[url[c]] \in PeerInfo
      /\ peers[url[Target(c)]] \in PeerInfo
  <2>1. peers[url[c]] \in PeerInfo \cup {Absent}
    BY <1>7
  <2> QED BY <1>3, <1>4, <1>7, <2>1, NilFields
<1>9. {url[c], url[Target(c)]} \subseteq Members
  BY <1>7, <1>8, Nils DEF Members, HasPeer
<1>10. "server" \in {GetRole(url[c]), GetRole(url[Target(c)])}
  BY <1>4, <1>5, <1>8, Nils DEF Forbidden, GetRole, Roles
<1> QED BY <1>1, <1>3, <1>9, <1>10

(* Every other step delivers nothing.                                      *)
LEMMA QuietSteps ==
  ASSUME Next, frame' # NoFrame
  PROVE  \E c \in Conns : WriteOk(c)
BY DEF Next, Handler, Connect, LoseLink, Register, Lookup, CheckRole, Ping,
       BeginWrite, WriteError, WriteRace, ReadError, Teardown, ShutdownSweep, Exit

(* Client-to-client messages are never delivered, and nothing is delivered *)
(* from or to an unregistered peer (docs/signalling.md:10, 138-141),       *)
(* although the roles are read and used in different critical sections.    *)
THEOREM AccessControlled == Spec => AccessControl
<1> DEFINE A == frame' # NoFrame =>
                  /\ {frame'.from, frame'.to} \subseteq Members
                  /\ "server" \in {GetRole(frame'.from), GetRole(frame'.to)}
<1>1. IInv /\ [Next]_vars => [A]_vars
  <2> SUFFICES ASSUME IInv, Next, frame' # NoFrame
               PROVE  /\ {frame'.from, frame'.to} \subseteq Members
                      /\ "server" \in {GetRole(frame'.from), GetRole(frame'.to)}
    OBVIOUS
  <2>1. PICK c \in Conns : WriteOk(c)
    BY QuietSteps
  <2> QED BY <2>1, WriteOkDelivers DEF FrameOf
<1> QED BY <1>1, Invariance, PTL DEF Spec, AccessControl

(* An entry goes only with its own handler: a refused duplicate or a       *)
(* failed relay never takes another peer's entry down (main.go:199-204).   *)
THEOREM OwnerWithdraws == Spec => OnlyOwnerWithdraws
<1> DEFINE A == \A id \in Members : peers'[id] # peers[id] =>
                  pc[peers[id].conn] = "closing" /\ peers'[id] = Absent
<1>1. IInv /\ [Next]_vars => [A]_vars
  <2> SUFFICES ASSUME IInv, Next, NEW id \in Members, peers'[id] # peers[id]
               PROVE  pc[peers[id].conn] = "closing" /\ peers'[id] = Absent
    OBVIOUS
  <2> USE DEF IInv, TypeOK
  <2> DEFINE d == peers[id].conn
  <2>1. id \in Ids /\ d \in Conns /\ registered[d] /\ url[d] = id
    BY Nils DEF Members, HasPeer, RegistrationExact
  <2>2. pc[d] = "closing"
    BY <2>1, OwnEntryStable
  <2>3. ASSUME NEW c \in Conns, NEW role \in Roles, Register(c, role)
        PROVE FALSE
    <3>1. peers[url[c]] = Absent /\ id # url[c]
      BY <2>3 DEF Register, MayRegister, HasPeer, Members
    <3> QED BY <2>1, <2>3, <3>1 DEF Register
  <2>4. ASSUME NEW c \in Conns, Teardown(c) PROVE peers'[id] = Absent
    BY <2>1, <2>4 DEF Teardown, Unregister, pmVars
  <2>5. ASSUME NEW c \in Conns, NEW i \in Ids, Connect(c, i) PROVE FALSE
    BY <2>5 DEF Connect, pmVars
  <2> QED BY <2>2, <2>3, <2>4, <2>5, TableSteps
<1> QED BY <1>1, Invariance, PTL DEF Spec, OnlyOwnerWithdraws

LEMMA RolesTyped ==
  ASSUME TypeOK, NEW id \in Ids
  PROVE  /\ GetRole(id) \in {"", "client", "server"}
         /\ HasPeer(id) <=> GetRole(id) # ""
<1>1. peers[id] \in PeerInfo \cup {Absent}
  BY DEF TypeOK
<1> QED BY <1>1, Nils, NilFields DEF GetRole, HasPeer, Roles

(* The server implements its contract, step by step: Register is Admit,    *)
(* the teardown of a registered handler is Withdraw, a successful write of *)
(* a relayed message is Deliver, and every other step is invisible.        *)
THEOREM Implementation == Spec => ImplementsContract
<1> DEFINE m == [id \in Ids |-> GetRole(id)]
<1> USE DEF Contract!NoFrame, NoFrame
<1>1. Init => Contract!Init
  <2> SUFFICES ASSUME Init PROVE Contract!Init
    OBVIOUS
  <2>1. m = [id \in Ids |-> ""]
    BY NilFields DEF Init, GetRole
  <2>2. ToSet(servers) = {}
    BY DEF Init, ToSet
  <2> QED BY <2>1, <2>2 DEF Init, Contract!Init
<1>2. IInv /\ IInv' /\ [Next]_vars => [Contract!Next]_(Contract!vars)
  <2> SUFFICES ASSUME IInv, IInv', [Next]_vars
               PROVE  Contract!Next \/ UNCHANGED Contract!vars
    OBVIOUS
  <2>1. /\ ToSet(servers) = {id \in Ids : GetRole(id) = "server"}
        /\ ToSet(servers)' = {id \in Ids : GetRole(id)' = "server"}
    BY DEF IInv, ServerListExact, GetServerList
  <2>2. Contract!Joined = Members
    BY RolesTyped DEF IInv, Contract!Joined, Members
  <2>3. ASSUME peers' = peers, servers' = servers, frame' = NoFrame
        PROVE Contract!Next
    BY <2>3 DEF Contract!Next, Contract!Quiet, GetRole, ToSet
  <2>4. ASSUME NEW c \in Conns, NEW role \in Roles, Register(c, role)
        PROVE Contract!Next
    <3>1. /\ url[c] \in Ids /\ ~HasPeer(url[c])
          /\ MaxConns = 0 \/ NumPeers < MaxConns
          /\ frame' = NoFrame
      BY <2>4 DEF Register, Readable, MayRegister, IInv, TypeOK
    <3>2. \A id \in Ids : GetRole(id)' = IF id = url[c] THEN role ELSE GetRole(id)
      BY <2>4, <3>1 DEF Register, GetRole, IInv, TypeOK
    <3>3. GetRole(url[c]) = ""
      BY <3>1, RolesTyped DEF IInv
    <3>4. m' = [m EXCEPT ![url[c]] = role] /\ m[url[c]] = ""
      BY <3>1, <3>2, <3>3
    <3>6. ToSet(servers)' = IF role = "server" THEN ToSet(servers) \cup {url[c]}
                                               ELSE ToSet(servers)
      BY <2>1, <3>1, <3>2, <3>3 DEF Roles
    <3>5. Contract!Admit(url[c], role)
      <4>1. MaxConns = 0 \/ Contract!Cardinality(Contract!Joined) < MaxConns
        BY <2>2, <3>1 DEF NumPeers, Cardinality, Contract!Cardinality
      <4> HIDE DEF m
      <4> QED BY <3>1, <3>4, <3>6, <4>1 DEF Contract!Admit, m
    <3> QED BY <3>1, <3>5 DEF Contract!Next, Roles
  <2>5. ASSUME NEW c \in Conns, Teardown(c) PROVE Contract!Next
    <3>1. frame' = NoFrame
      BY <2>5 DEF Teardown
    <3>2. CASE registered[c]
      <4>1. url[c] \in Ids /\ HasPeer(url[c])
        BY <3>2, NilFields DEF IInv, RegistrationExact, HasPeer
      <4>2. \A id \in Ids : GetRole(id)' = IF id = url[c] THEN "" ELSE GetRole(id)
        <5>1. peers' = [peers EXCEPT ![url[c]] = Absent]
          BY <2>5, <3>2 DEF Teardown, Unregister
        <5> QED BY <4>1, <5>1, NilFields DEF GetRole, IInv, TypeOK
      <4>3. m' = [m EXCEPT ![url[c]] = ""] /\ m[url[c]] # ""
        BY <4>1, <4>2, RolesTyped DEF IInv
      <4>4. ToSet(servers)' = ToSet(servers) \ {url[c]}
        BY <2>1, <4>1, <4>2
      <4>5. Contract!Withdraw(url[c])
        BY <3>1, <4>3, <4>4 DEF Contract!Withdraw
      <4> QED BY <4>1, <4>5 DEF Contract!Next
    <3>3. CASE ~registered[c]
      BY <2>3, <2>5, <3>1, <3>3 DEF Teardown, pmVars
    <3> QED BY <3>2, <3>3
  <2>6. ASSUME NEW c \in Conns, WriteOk(c) PROVE Contract!Next
    <3>1. peers' = peers /\ servers' = servers
      BY <2>6 DEF WriteOk, LeaveWrite, pmVars
    <3>2. CASE frame' = NoFrame
      BY <2>3, <3>1, <3>2
    <3>3. CASE frame' # NoFrame
      <4> DEFINE from == url[c]
                 to == url[Target(c)]
                 kind == job[c].kind
      <4>1. /\ kind \in RelayTypes /\ frame' = FrameOf(c)
            /\ {from, to} \subseteq Members
            /\ "server" \in {GetRole(from), GetRole(to)}
        BY <2>6, <3>3, WriteOkDelivers
      <4>2. from \in Ids /\ to \in Ids
        BY <4>1 DEF Members
      <4>3. Contract!Deliver(from, to, kind)
        <5>1. "server" \in {m[from], m[to]}
          BY <4>1, <4>2
        <5>2. frame' = [from |-> from, to |-> to, kind |-> kind]
          BY <4>1 DEF FrameOf
        <5>3. m' = m /\ ToSet(servers)' = ToSet(servers)
          BY <3>1 DEF GetRole, ToSet
        <5> HIDE DEF m, from, to, kind
        <5> QED BY <2>2, <4>1, <5>1, <5>2, <5>3 DEF Contract!Deliver, m
      <4> QED BY <4>1, <4>2, <4>3 DEF Contract!Next
    <3> QED BY <3>2, <3>3
  <2>7. CASE Next /\ ~(\E c \in Conns : WriteOk(c))
    <3>1. frame' = NoFrame
      BY <2>7, QuietSteps
    <3>2. ASSUME NEW c \in Conns, NEW id \in Ids, Connect(c, id) PROVE Contract!Next
      BY <2>3, <3>1, <3>2 DEF Connect, pmVars
    <3> QED BY <2>3, <2>4, <2>5, <2>7, <3>1, <3>2, TableSteps
  <2>8. CASE UNCHANGED vars
    BY <2>8 DEF vars, pmVars, Contract!vars, GetRole, ToSet
  <2> QED BY <2>6, <2>7, <2>8
<1>3. Spec => Contract!Init /\ [][Contract!Next]_(Contract!vars)
  BY <1>1, <1>2, Invariance, PTL DEF Spec
<1> QED BY <1>3 DEF ImplementsContract, Contract!Spec
===============================================================================
