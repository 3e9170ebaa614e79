---------------------------- MODULE PairingProofs ----------------------------
(***************************************************************************)
(* Theorems about Pairing, for every number of pairings, codes and         *)
(* certificates.                                                           *)
(***************************************************************************)
EXTENDS Pairing, TLAPS

(* Type correctness. *)

\* The rows of a pairing, one by one.
LEMMA WholeType ==
    ASSUME NEW n \in Numbers, NEW cert \in 0 .. MaxCerts
    PROVE  Whole(n, cert) \in Stored
  BY PairingAssumption DEF Whole, Stored, Rows, Numbers, Https, Http

LEMMA RestTypes ==
    /\ NoRows \in Stored /\ Rest \in Asking /\ Unbuilt \in Syncing
    /\ NoStarter \in Making /\ Unasked \in Request
<1>1. NoRows \in Stored
  BY PairingAssumption DEF NoRows, Stored, Rows
<1>2. QED
  BY <1>1, PairingAssumption DEF Rest, Asking, Unbuilt, Syncing, NoStarter, Making, Unasked, Request

\* A row written is a row of that kind.
LEMMA UpsertType ==
    ASSUME NEW rows \in Stored, NEW whole \in Stored, NEW row \in Rows
    PROVE  SetHubState(rows, row, whole[row]) \in Stored
  BY DEF SetHubState, Stored, Rows

\* The two commands.
LEMMA CommandType ==
    ASSUME TypeOK, NEW c \in Commands,
           \/ \E code \in Codes, address \in {Https, Http} : Pair(c, code, address)
           \/ Enrolled(c)
           \/ \E row \in Rows : StoreRow(c, row)
           \/ GiveUp(c) \/ Unpair(c)
    PROVE  TypeOK'
<1>0. cmd[c] \in Asking
  BY DEF TypeOK
<1>1. ASSUME NEW code \in Codes, NEW address \in {Https, Http}, Pair(c, code, address)
      PROVE  TypeOK'
  <2>1. pairings + 1 \in Numbers /\ pairings' \in 0 .. MaxPairings
    BY <1>1, PairingAssumption DEF Pair, TypeOK, Numbers
  <2> DEFINE seen == IF address = Http THEN 0 ELSE serving
  <2>a. seen \in 0 .. MaxCerts
    BY <1>1, PairingAssumption DEF Pair, Reached
  <2>2. [at |-> "asking", key |-> pairings + 1, seen |-> seen, todo |-> Rows] \in Asking
    BY <2>1, <2>a DEF Asking, TypeOK, Numbers
  <2>3. cmd' \in [Commands -> Asking]
    BY <1>1, <2>2 DEF Pair, TypeOK
  <2>4. enrol' \in [Numbers -> Request]
    BY <1>1, <2>1 DEF Pair, TypeOK, Request
  <2>5. QED
    BY <1>1, <2>1, <2>3, <2>4 DEF Pair, TypeOK, certVars
<1>2. CASE Enrolled(c)
  <2>1. cmd' \in [Commands -> Asking]
    BY <1>2 DEF Enrolled, TypeOK, Asking
  <2>2. QED
    BY <1>2, <2>1 DEF Enrolled, TypeOK, hubVars, certVars
<1>3. ASSUME NEW row \in Rows, StoreRow(c, row) PROVE TypeOK'
  <2>1. store' \in Stored
    <3>1. CASE cmd[c].key \in Numbers
      <4>1. Whole(cmd[c].key, cmd[c].seen) \in Stored
        BY <1>0, <3>1, WholeType DEF Asking
      <4>2. QED
        BY <1>3, <4>1, UpsertType DEF StoreRow, TypeOK
    <3>2. CASE cmd[c].key \notin Numbers
      <4>1. cmd[c].key = 0 /\ cmd[c].seen \in 0 .. MaxCerts
        BY <1>0, <3>2, PairingAssumption DEF Asking, Numbers
      <4>2. Whole(0, cmd[c].seen) \in Stored
        BY <4>1, PairingAssumption DEF Whole, Stored, Rows, Https, Http
      <4>3. QED
        BY <1>3, <4>1, <4>2, UpsertType DEF StoreRow, TypeOK
    <3>3. QED
      BY <3>1, <3>2
  <2>2. cmd' \in [Commands -> Asking] /\ done' \in 0 .. MaxPairings
    <3>1. [cmd[c] EXCEPT !.todo = cmd[c].todo \ {row}] \in Asking /\ Rest \in Asking
      BY <1>0, RestTypes DEF Asking
    <3>2. \/ cmd' = [cmd EXCEPT ![c] = Rest] /\ done' = cmd[c].key
          \/ cmd' = [cmd EXCEPT ![c] = [cmd[c] EXCEPT !.todo = cmd[c].todo \ {row}]] /\ done' = done
      BY <1>3 DEF StoreRow
    <3>3. cmd[c].key \in 0 .. MaxPairings
      BY <1>0 DEF Asking
    <3>4. QED
      BY <3>1, <3>2, <3>3 DEF TypeOK
  <2>3. QED
    BY <1>3, <2>1, <2>2 DEF StoreRow, TypeOK, hubVars, certVars
<1>4. CASE GiveUp(c)
  <2>1. Rest \in Asking
    BY RestTypes
  <2>2. cmd' \in [Commands -> Asking]
    BY <1>4, <2>1 DEF GiveUp, TypeOK
  <2>3. QED
    BY <1>4, <2>2 DEF GiveUp, TypeOK, hubVars, certVars
<1>5. CASE Unpair(c)
  <2>1. NoRows \in Stored
    BY RestTypes
  <2>2. store' \in Stored /\ done' \in 0 .. MaxPairings
    BY <1>5, <2>1, PairingAssumption DEF Unpair
  <2>3. revoked' \in BOOLEAN
    BY <1>5 DEF Unpair
  <2>4. QED
    BY <1>5, <2>2, <2>3 DEF Unpair, TypeOK, hubVars, certVars
<1>6. QED
  BY <1>1, <1>2, <1>3, <1>4, <1>5

\* The hub's enrolment.
LEMMA EnrolmentType ==
    ASSUME TypeOK,
           \/ \E code \in Codes : IssuePairCode(code) \/ CodeExpires(code)
           \/ \E n \in Numbers : RedeemPairCode(n) \/ Enroll(n)
           \/ \E n \in Numbers, status \in {"approved", "revoked"} : SetDeviceStatus(n, status)
    PROVE  TypeOK'
<1>1. ASSUME NEW code \in Codes, IssuePairCode(code) \/ CodeExpires(code) PROVE TypeOK'
  BY <1>1 DEF IssuePairCode, CodeExpires, TypeOK, agentVars, certVars
<1>2. ASSUME NEW n \in Numbers, RedeemPairCode(n) PROVE TypeOK'
  <2>1. enrol[n] \in Request
    BY DEF TypeOK
  <2>2. \/ enrol' = [enrol EXCEPT ![n] = [enrol[n] EXCEPT !.at = "redeemed"]]
        \/ enrol' = [enrol EXCEPT ![n] = [enrol[n] EXCEPT !.at = "refused"]]
    BY <1>2 DEF RedeemPairCode
  <2>3. enrol' \in [Numbers -> Request]
    BY <2>1, <2>2 DEF TypeOK, Request
  <2>4. codes' \in [Codes -> {"unissued", "live", "spent", "expired"}]
    BY <1>2 DEF RedeemPairCode, TypeOK
  <2>5. QED
    BY <1>2, <2>3, <2>4 DEF RedeemPairCode, TypeOK, agentVars, certVars
<1>3. ASSUME NEW n \in Numbers, Enroll(n) PROVE TypeOK'
  <2>1. enrol[n] \in Request
    BY DEF TypeOK
  <2>2. \/ enrol' = [enrol EXCEPT ![n] = [enrol[n] EXCEPT !.at = "enrolled"]]
        \/ enrol' = [enrol EXCEPT ![n] = [enrol[n] EXCEPT !.at = "refused"]]
    BY <1>3 DEF Enroll
  <2>3. enrol' \in [Numbers -> Request]
    BY <2>1, <2>2 DEF TypeOK, Request
  <2>4. devices' \in [Numbers -> {"none", "pending", "approved", "revoked"}]
    BY <1>3 DEF Enroll, TypeOK
  <2>5. QED
    BY <1>3, <2>3, <2>4 DEF Enroll, TypeOK, agentVars, certVars
<1>4. ASSUME NEW n \in Numbers, NEW status \in {"approved", "revoked"}, SetDeviceStatus(n, status)
      PROVE  TypeOK'
  BY <1>4 DEF SetDeviceStatus, TypeOK, agentVars, certVars
<1>5. QED
  BY <1>1, <1>2, <1>3, <1>4

\* The hub's certificate.
LEMMA CertificateType ==
    ASSUME TypeOK,
           \/ LoadCert \/ ServeInClear \/ AccessChanges \/ RebuildHub
           \/ \E s \in Starters : GenerateCert(s) \/ WritePEM(s) \/ StarterStops(s)
    PROVE  TypeOK'
<1>1. CASE LoadCert \/ ServeInClear
  <2>1. serving' \in 0 .. InClear
    BY <1>1, PairingAssumption DEF LoadCert, ServeInClear, PairLoads, InClear
  <2>2. QED
    BY <1>1, <2>1 DEF LoadCert, ServeInClear, TypeOK, agentVars, hubVars
<1>2. CASE AccessChanges
  BY <1>2 DEF AccessChanges, TypeOK, agentVars, hubVars
<1>3. CASE RebuildHub
  <2>1. 1 .. pairings \subseteq Numbers /\ 0 \in 0 .. Torn
    BY PairingAssumption DEF TypeOK, Numbers, Torn
  <2>2. QED
    BY <1>3, <2>1 DEF RebuildHub, TypeOK, agentVars
<1>4. ASSUME NEW s \in Starters, GenerateCert(s) PROVE TypeOK'
  <2>1. made + 1 \in 0 .. MaxCerts
    BY <1>4, PairingAssumption DEF GenerateCert, TypeOK
  <2>2. [at |-> "cert", cert |-> made + 1] \in Making
    BY <2>1 DEF Making
  <2>3. QED
    BY <1>4, <2>1, <2>2 DEF GenerateCert, TypeOK, agentVars, hubVars
<1>5. ASSUME NEW s \in Starters, WritePEM(s) PROVE TypeOK'
  <2>1. starter[s] \in Making
    BY DEF TypeOK
  <2>2. starter[s].cert \in 0 .. MaxCerts /\ starter[s].cert \in 0 .. Torn /\ Torn \in 0 .. Torn
    BY <2>1, PairingAssumption DEF Making, Torn
  <2>3. certFile' \in 0 .. Torn /\ keyFile' \in 0 .. Torn /\ serving' \in 0 .. InClear
    BY <1>5, <2>2 DEF WritePEM, TypeOK, Torn, InClear
  <2>4. PICK at \in {"certbody", "key", "keybody"} :
              starter' = [starter EXCEPT ![s] = [starter[s] EXCEPT !.at = at]]
                 \/ starter' = [starter EXCEPT ![s] = NoStarter]
    BY <1>5 DEF WritePEM
  <2>5. [starter[s] EXCEPT !.at = at] \in Making /\ NoStarter \in Making
    BY <2>1, RestTypes DEF Making
  <2>6. starter' \in [Starters -> Making]
    BY <2>4, <2>5 DEF TypeOK
  <2>7. QED
    BY <1>5, <2>3, <2>6 DEF WritePEM, TypeOK, agentVars, hubVars
<1>6. ASSUME NEW s \in Starters, StarterStops(s) PROVE TypeOK'
  <2>1. starter' \in [Starters -> Making]
    BY <1>6, RestTypes DEF StarterStops, TypeOK
  <2>2. \A n \in Numbers : [enrol[n] EXCEPT !.at = "refused"] \in Request /\ enrol[n] \in Request
    BY DEF TypeOK, Request
  <2>3. enrol' \in [Numbers -> Request] /\ serving' \in 0 .. InClear
    BY <1>6, <2>2, PairingAssumption DEF StarterStops, TypeOK, InClear
  <2>4. QED
    BY <1>6, <2>1, <2>3 DEF StarterStops, TypeOK, agentVars
<1>7. QED
  BY <1>1, <1>2, <1>3, <1>4, <1>5, <1>6

\* The three rows clientFor cannot do without are read first.
LEMMA ReadOrder ==
    ASSUME NEW next \in 1 .. 4
    PROVE  Reads[next] \in Rows
BY DEF Reads, Rows

\* The sync loop.
LEMMA DaemonType ==
    ASSUME TypeOK, Tick \/ HubState \/ Push \/ ApplyAnswer \/ DaemonRestarts
    PROVE  TypeOK'
<1> DEFINE Built(d) == d.at \in {"push", "answer"} \/ d.next = 4
                         => 0 \notin {d.client["token"], d.client["hub_url"], d.client["device_key"]}
<1>0. daemon \in Syncing /\ Built(daemon) /\ Unbuilt \in Syncing
  BY RestTypes DEF TypeOK
<1>1. Built(Unbuilt) /\ Unbuilt.at = "idle" /\ Unbuilt.next = 1
  BY DEF Unbuilt
<1>2. SUFFICES daemon' \in Syncing /\ Built(daemon')
  BY DEF TypeOK, Tick, HubState, Push, ApplyAnswer, DaemonRestarts, agentVars, hubVars, certVars
<1>3. ASSUME NEW at \in {"reading", "halted"}
      PROVE  /\ [Unbuilt EXCEPT !.at = at] \in Syncing /\ Built([Unbuilt EXCEPT !.at = at])
  BY <1>0, <1>1 DEF Syncing, Unbuilt
<1>4. CASE daemon' = Unbuilt
  BY <1>4, <1>0, <1>1
<1>5. CASE \E at \in {"reading", "halted"} : daemon' = [Unbuilt EXCEPT !.at = at]
  BY <1>5, <1>3
<1>6. CASE HubState /\ daemon' # Unbuilt
  <2> DEFINE client == [daemon.client EXCEPT ![Reads[daemon.next]] = store[Reads[daemon.next]]]
  <2>1. daemon.next \in 1 .. 4 /\ daemon.client \in Stored /\ store \in Stored
    BY <1>0 DEF Syncing, TypeOK
  <2>2. client \in Stored
    <3>1. Reads[daemon.next] \in Rows
      BY <2>1, ReadOrder
    <3>2. QED
      BY <2>1, <3>1, UpsertType DEF SetHubState
  <2>3. CASE daemon.next < 4
    <3>1. daemon' = [daemon EXCEPT !.next = daemon.next + 1, !.client = client]
      BY <1>6, <2>3 DEF HubState
    <3>2. daemon.next + 1 \in 1 .. 4 /\ daemon.at = "reading"
      BY <1>6, <2>1, <2>3 DEF HubState
    <3>3. daemon' \in Syncing
      BY <1>0, <2>2, <3>1, <3>2 DEF Syncing
    <3>4. daemon.next = 3 => 0 \notin {client["token"], client["hub_url"], client["device_key"]}
      BY <1>6, <2>3 DEF HubState, NoHub
    <3>5. daemon'.at = "reading" /\ daemon'.next = daemon.next + 1 /\ daemon'.client = client
      BY <1>0, <3>1, <3>2 DEF Syncing
    <3>6. QED
      BY <2>1, <3>3, <3>4, <3>5
  <2>4. CASE daemon.next = 4
    <3>1. daemon' = [Unbuilt EXCEPT !.at = "push", !.client = client]
      BY <1>6, <2>4 DEF HubState
    <3>2. daemon' \in Syncing /\ daemon'.client = client
      BY <1>0, <2>2, <3>1 DEF Syncing, Unbuilt
    <3>3. \A row \in {"token", "hub_url", "device_key"} : client[row] = daemon.client[row]
      BY <2>1, <2>4 DEF Reads, Stored, Rows
    <3>4. QED
      BY <1>0, <2>4, <3>2, <3>3
  <2>5. QED
    BY <2>1, <2>3, <2>4
<1>7. CASE Push /\ daemon' # Unbuilt /\ daemon' # [Unbuilt EXCEPT !.at = "halted"]
  <2>1. PICK signed \in Verify :
              daemon' = [daemon EXCEPT !.at = "answer", !.reply = Answer(daemon.client, signed)]
    BY <1>7 DEF Push
  <2>2. devices[daemon.client["device_key"]] \in {"none", "pending", "approved", "revoked"}
    <3>1. daemon.client["device_key"] \in 0 .. MaxPairings /\ daemon.client["device_key"] # 0
      BY <1>0, <1>7 DEF Push, Syncing, Stored
    <3>2. QED
      BY <3>1, PairingAssumption DEF TypeOK, Numbers
  <2>3. Answer(daemon.client, signed) \in {"ok", "unknown", "revoked", "pending", "auth"}
    BY <2>2 DEF Answer, Verify
  <2>4. QED
    BY <1>0, <1>7, <2>1, <2>3 DEF Push, Syncing
<1>8. QED
  BY <1>4, <1>5, <1>6, <1>7 DEF Tick, Push, ApplyAnswer, DaemonRestarts

\* Every state is well-formed, and a daemon that has a client has a token, an
\* address and a key (agent/sync.go:330-349).
THEOREM PairingTypeOK == Spec => []TypeOK
<1>1. Init => TypeOK
  <2> SUFFICES ASSUME Init PROVE TypeOK
    OBVIOUS
  <2>1. store \in Stored /\ daemon \in Syncing /\ cmd \in [Commands -> Asking]
    BY RestTypes DEF Init
  <2>2. enrol \in [Numbers -> Request] /\ starter \in [Starters -> Making]
    BY RestTypes DEF Init
  <2>3. daemon.at = "idle" /\ daemon.next = 1
    BY DEF Init, Unbuilt
  <2>4. revoked \in BOOLEAN /\ readable \in BOOLEAN
    BY DEF Init
  <2>5. /\ codes \in [Codes -> {"unissued", "live", "spent", "expired"}]
        /\ devices \in [Numbers -> {"none", "pending", "approved", "revoked"}]
        /\ void \subseteq Numbers
    BY DEF Init
  <2>6. /\ pairings \in 0 .. MaxPairings /\ done \in 0 .. MaxPairings
        /\ certFile \in 0 .. Torn /\ keyFile \in 0 .. Torn
        /\ made \in 0 .. MaxCerts /\ serving \in 0 .. InClear
    BY PairingAssumption DEF Init, Torn, InClear
  <2>7. QED
    BY <2>1, <2>2, <2>3, <2>4, <2>5, <2>6 DEF TypeOK
<1>2. TypeOK /\ [Next]_vars => TypeOK'
  <2> SUFFICES ASSUME TypeOK, [Next]_vars PROVE TypeOK'
    OBVIOUS
  <2>1. CASE Next
    BY <2>1, CommandType, EnrolmentType, CertificateType, DaemonType DEF Next
  <2>2. CASE UNCHANGED vars
    BY <2>2 DEF vars, agentVars, hubVars, certVars, TypeOK
  <2>3. QED
    BY <2>1, <2>2
<1>3. QED
  BY <1>1, <1>2, PTL DEF Spec

-----------------------------------------------------------------------------
(* What the sync loop sends. *)

\* A daemon about to push to an https address has a pin.
Pins == daemon.at = "push" => ~PinRefused(daemon.client)

LEMMA PinsStep ==
    ASSUME TypeOK, Pins, [Next]_vars
    PROVE  Pins'
<1>1. CASE UNCHANGED daemon
  BY <1>1 DEF Pins
<1>2. CASE HubState
  <2>1. CASE daemon' = Unbuilt
    BY <2>1 DEF Pins, Unbuilt
  <2>2. CASE daemon.next < 4 /\ daemon'.at = daemon.at
    BY <1>2, <2>2 DEF HubState, Pins
  <2>3. CASE daemon.next = 4 /\ daemon' # Unbuilt
    <3> DEFINE client == [daemon.client EXCEPT ![Reads[daemon.next]] = store[Reads[daemon.next]]]
    <3>1. daemon' = [Unbuilt EXCEPT !.at = "push", !.client = client]
      BY <1>2, <2>3 DEF HubState
    <3>2. ~PinRefused(client)
      BY <1>2, <2>3 DEF HubState
    <3>3. QED
      BY <3>1, <3>2 DEF Pins, Unbuilt
  <2>4. daemon.next \in 1 .. 4
    BY DEF TypeOK, Syncing
  <2>5. \/ daemon' = Unbuilt \/ daemon.next = 4
        \/ \E client : daemon' = [daemon EXCEPT !.next = daemon.next + 1, !.client = client]
    BY <1>2 DEF HubState
  <2>6. CASE daemon.next # 4 /\ daemon' # Unbuilt
    <3>1. daemon.next < 4
      BY <2>4, <2>6
    <3>2. daemon'.at = daemon.at
      <4>1. PICK client : daemon' = [daemon EXCEPT !.next = daemon.next + 1, !.client = client]
        BY <2>5, <2>6
      <4>2. QED
        BY <4>1 DEF TypeOK, Syncing
    <3>3. QED
      BY <2>2, <3>1, <3>2
  <2>7. QED
    BY <2>1, <2>3, <2>6
<1>3. CASE Tick \/ Push \/ ApplyAnswer \/ DaemonRestarts
  <2>1. \A at \in {"reading", "halted"} : [Unbuilt EXCEPT !.at = at].at = at
    BY DEF Unbuilt
  <2>2. \A reply : [daemon EXCEPT !.at = "answer", !.reply = reply].at = "answer"
    BY DEF TypeOK, Syncing
  <2>3. Unbuilt.at # "push"
    BY DEF Unbuilt
  <2>4. daemon'.at # "push"
    BY <1>3, <2>1, <2>2, <2>3 DEF Tick, Push, ApplyAnswer, DaemonRestarts
  <2>5. QED
    BY <2>4 DEF Pins
<1>4. QED
  <2>1. CASE Next
    BY <1>1, <1>2, <1>3, <2>1, Zenon
       DEF Next, Pair, Enrolled, StoreRow, GiveUp, Unpair, IssuePairCode, CodeExpires,
           RedeemPairCode, Enroll, SetDeviceStatus, LoadCert, GenerateCert, WritePEM,
           StarterStops, AccessChanges, RebuildHub, ServeInClear
  <2>2. QED
    BY <1>1, <2>1 DEF vars

\* To an https address the daemon's token goes only when the hub there presents
\* the certificate on file, whatever was half written when its client was built
\* (agent/sync.go:350-359).
THEOREM TokenToAPinnedHub == Spec => OnlyToAPinnedHub
<1>1. Init => Pins
  BY DEF Init, Pins, Unbuilt
<1>2. ASSUME TypeOK, Pins, [Next]_vars PROVE PushIsPinned
  <2> SUFFICES ASSUME daemon.at # "answer", daemon'.at = "answer", daemon.client["hub_url"] = Https
               PROVE  daemon.client["cert_fp"] # 0 /\ daemon.client["cert_fp"] = serving
    BY DEF PushIsPinned
  <2>1. Push
    <3>1. daemon' # daemon
      OBVIOUS
    <3>2. ~(Tick \/ HubState \/ ApplyAnswer \/ DaemonRestarts)
      <4>1. /\ Unbuilt.at # "answer" /\ [Unbuilt EXCEPT !.at = "reading"].at # "answer"
            /\ [Unbuilt EXCEPT !.at = "halted"].at # "answer"
            /\ \A client : [Unbuilt EXCEPT !.at = "push", !.client = client].at # "answer"
        BY DEF Unbuilt
      <4>2. \A next, client : [daemon EXCEPT !.next = next, !.client = client].at # "answer"
        BY DEF TypeOK, Syncing
      <4>3. ~Tick /\ ~ApplyAnswer /\ ~DaemonRestarts
        BY <4>1 DEF Tick, ApplyAnswer, DaemonRestarts
      <4>4. HubState => \/ daemon' = Unbuilt
                        \/ \E next, client : daemon' = [daemon EXCEPT !.next = next, !.client = client]
                        \/ \E client : daemon' = [Unbuilt EXCEPT !.at = "push", !.client = client]
        BY DEF HubState
      <4>5. ~HubState
        <5>1. daemon' # Unbuilt
          BY <4>1
        <5>2. \A next, client : daemon' # [daemon EXCEPT !.next = next, !.client = client]
          BY <4>2
        <5>3. \A client : daemon' # [Unbuilt EXCEPT !.at = "push", !.client = client]
          BY <4>1
        <5>4. QED
          BY <4>4, <5>1, <5>2, <5>3
      <4>6. QED
        BY <4>3, <4>5
    <3>3. QED
      BY <1>2, <3>1, <3>2
         DEF vars, Next, Pair, Enrolled, StoreRow, GiveUp, Unpair, IssuePairCode, CodeExpires,
             RedeemPairCode, Enroll, SetDeviceStatus, LoadCert, GenerateCert, WritePEM,
             StarterStops, AccessChanges, RebuildHub, ServeInClear
  <2>2. daemon' # Unbuilt /\ daemon' # [Unbuilt EXCEPT !.at = "halted"]
    BY DEF Unbuilt
  <2>3. daemon.at = "push" /\ HandshakeOK(daemon.client)
    BY <2>1, <2>2 DEF Push
  <2>4. QED
    BY <1>2, <2>3 DEF Pins, PinRefused, HandshakeOK, Https, Http
<1>3. QED
  BY <1>1, <1>2, PairingTypeOK, PinsStep, PTL DEF Spec, OnlyToAPinnedHub

-----------------------------------------------------------------------------
(* What a pairing that ended well leaves behind. *)

\* `agent pair` is run in one terminal at a time: two of them may write the rows
\* of two pairings into one another, and then neither is whole (Pairing_words).
OneTerminal == \A c, d \in Commands : c = d

\* The hub's books.  A number no pairing has used is blank; a device row stands
\* for an enrolment that was answered, and the other way round unless the hub was
\* rebuilt; a code that was accepted is spent, and was accepted once.
Accepted(n) == enrol[n].at \in {"redeemed", "enrolled"}
Enrolments ==
    /\ \A n \in Numbers : n > pairings => enrol[n].at = "unasked"
    /\ \A n \in Numbers : enrol[n].at # "unasked" => enrol[n].code \in Codes
    /\ \A n \in Numbers : devices[n] # "none" => enrol[n].at = "enrolled"
    /\ \A n \in Numbers : enrol[n].at = "enrolled" /\ n \notin void => devices[n] # "none"
    /\ \A n \in Numbers : Accepted(n) => codes[enrol[n].code] = "spent"
    /\ \A n, m \in Numbers :
         n # m /\ Accepted(n) /\ Accepted(m) => enrol[n].code # enrol[m].code

LEMMA EnrolmentsStep ==
    ASSUME TypeOK, Enrolments, [Next]_vars
    PROVE  Enrolments'
<1> USE DEF Enrolments, Accepted
<1>0. /\ \A n \in Numbers : enrol[n] \in Request
      /\ pairings \in Nat /\ \A n \in Numbers : n \in Nat /\ n >= 1
  BY PairingAssumption DEF TypeOK, Numbers
<1>1. ASSUME UNCHANGED <<codes, enrol, devices, pairings, void>> PROVE Enrolments'
  BY <1>1
<1>2. ASSUME NEW c \in Commands, NEW code \in Codes, NEW address, Pair(c, code, address)
      PROVE  Enrolments'
  <2>1. /\ enrol' = [enrol EXCEPT ![pairings + 1] = [at |-> "sent", code |-> code]]
        /\ pairings' = pairings + 1 /\ UNCHANGED <<codes, devices, void>>
    BY <1>2 DEF Pair
  <2>2. pairings + 1 \in Numbers /\ enrol[pairings + 1].at = "unasked"
    BY <1>0, <1>2, PairingAssumption DEF Pair, Numbers
  <2>3. /\ enrol'[pairings + 1].at = "sent" /\ enrol'[pairings + 1].code = code
        /\ \A n \in Numbers \ {pairings + 1} : enrol'[n] = enrol[n]
    BY <2>1, <2>2 DEF TypeOK
  <2>4. QED
    BY <1>0, <2>1, <2>2, <2>3
<1>3. ASSUME NEW code \in Codes, IssuePairCode(code) \/ CodeExpires(code) PROVE Enrolments'
  <2>1. /\ codes[code] # "spent" /\ \A k \in Codes \ {code} : codes'[k] = codes[k]
        /\ UNCHANGED <<enrol, devices, pairings, void>>
    BY <1>3 DEF IssuePairCode, CodeExpires, TypeOK, agentVars
  <2>2. QED
    BY <2>1
<1>4. ASSUME NEW n \in Numbers, RedeemPairCode(n) PROVE Enrolments'
  <2>1. /\ enrol[n].at = "sent" /\ UNCHANGED <<devices, pairings, void>>
        /\ enrol[n].code \in Codes
    BY <1>4 DEF RedeemPairCode, agentVars
  <2>2. CASE /\ codes[enrol[n].code] = "live"
             /\ codes' = [codes EXCEPT ![enrol[n].code] = "spent"]
             /\ enrol' = [enrol EXCEPT ![n].at = "redeemed"]
    <3>1. /\ enrol'[n].at = "redeemed" /\ enrol'[n].code = enrol[n].code
          /\ \A m \in Numbers \ {n} : enrol'[m] = enrol[m]
      BY <1>0, <2>2 DEF TypeOK, Request
    <3>2. codes'[enrol[n].code] = "spent" /\ \A k \in Codes : codes[k] = "spent" => codes'[k] = "spent"
      BY <2>1, <2>2 DEF TypeOK
    <3>3. \A m \in Numbers \ {n} : Accepted(m) => enrol[m].code # enrol[n].code
      BY <2>2
    <3>4. QED
      BY <1>0, <2>1, <3>1, <3>2, <3>3
  <2>3. CASE enrol' = [enrol EXCEPT ![n].at = "refused"] /\ codes' = codes
    <3>1. /\ enrol'[n].at = "refused" /\ enrol'[n].code = enrol[n].code
          /\ \A m \in Numbers \ {n} : enrol'[m] = enrol[m]
      BY <1>0, <2>3 DEF TypeOK, Request
    <3>2. QED
      BY <1>0, <2>1, <2>3, <3>1
  <2>4. QED
    BY <1>4, <2>2, <2>3 DEF RedeemPairCode, Redeemable
<1>5. ASSUME NEW n \in Numbers, Enroll(n) PROVE Enrolments'
  <2>1. enrol[n].at = "redeemed" /\ UNCHANGED <<codes, pairings, void>>
    BY <1>5 DEF Enroll, agentVars
  <2>2. CASE /\ devices' = [devices EXCEPT ![n] = "pending"]
             /\ enrol' = [enrol EXCEPT ![n].at = "enrolled"]
    <3>1. /\ enrol'[n].at = "enrolled" /\ enrol'[n].code = enrol[n].code
          /\ \A m \in Numbers \ {n} : enrol'[m] = enrol[m] /\ devices'[m] = devices[m]
          /\ devices'[n] = "pending"
      BY <1>0, <2>2 DEF TypeOK, Request
    <3>2. QED
      BY <1>0, <2>1, <3>1
  <2>3. CASE enrol' = [enrol EXCEPT ![n].at = "refused"] /\ devices' = devices
    <3>1. /\ enrol'[n].at = "refused" /\ enrol'[n].code = enrol[n].code
          /\ \A m \in Numbers \ {n} : enrol'[m] = enrol[m]
      BY <1>0, <2>3 DEF TypeOK, Request
    <3>2. QED
      BY <1>0, <2>1, <2>3, <3>1
  <2>4. QED
    BY <1>5, <2>2, <2>3 DEF Enroll
<1>6. ASSUME NEW n \in Numbers, NEW status \in {"approved", "revoked"}, SetDeviceStatus(n, status)
      PROVE  Enrolments'
  <2>1. /\ devices[n] # "none" /\ devices'[n] = status
        /\ \A m \in Numbers \ {n} : devices'[m] = devices[m]
        /\ UNCHANGED <<codes, enrol, pairings, void>>
    BY <1>6 DEF SetDeviceStatus, TypeOK, agentVars
  <2>2. QED
    BY <2>1
<1>7. ASSUME NEW s \in Starters, StarterStops(s) PROVE Enrolments'
  <2>1. UNCHANGED <<codes, devices, pairings, void>>
    BY <1>7 DEF StarterStops, agentVars
  <2>2. \A n \in Numbers :
          /\ enrol'[n].code = enrol[n].code
          /\ \/ enrol'[n].at = enrol[n].at
             \/ enrol[n].at \in {"sent", "redeemed"} /\ enrol'[n].at = "refused"
    BY <1>0, <1>7 DEF StarterStops, Request
  <2>3. QED
    BY <1>0, <2>1, <2>2
<1>8. CASE RebuildHub
  <2>1. /\ UNCHANGED <<enrol, pairings>> /\ void' = 1 .. pairings
        /\ \A n \in Numbers : devices'[n] = "none"
        /\ \A k \in Codes : codes[k] = "spent" => codes'[k] = "spent"
    BY <1>8 DEF RebuildHub, agentVars
  <2>2. QED
    BY <1>0, <2>1
<1>9. QED
  <2>1. CASE Next
    BY <1>1, <1>2, <1>3, <1>4, <1>5, <1>6, <1>7, <1>8, <2>1, Zenon
       DEF Next, Enrolled, StoreRow, GiveUp, Unpair, LoadCert, ServeInClear, GenerateCert, WritePEM,
           AccessChanges, Tick, HubState, Push, ApplyAnswer, DaemonRestarts,
           agentVars, hubVars, certVars
  <2>2. QED
    BY <1>1, <2>1 DEF vars, agentVars, hubVars

\* What a step that is not a command's does to what commands rely on.
LEMMA HubLeavesCommands ==
    ASSUME TypeOK, [Next]_vars,
           \A c \in Commands :
             /\ ~(\E code \in Codes, address \in {Https, Http} : Pair(c, code, address))
             /\ ~Enrolled(c)
             /\ ~(\E row \in Rows : StoreRow(c, row)) /\ ~GiveUp(c) /\ ~Unpair(c)
    PROVE  UNCHANGED <<store, cmd, pairings, done>>
<1>1. CASE Next
  BY <1>1, Zenon DEF Next, IssuePairCode, CodeExpires,
           RedeemPairCode, Enroll, SetDeviceStatus, LoadCert, ServeInClear, GenerateCert, WritePEM,
           StarterStops, AccessChanges, RebuildHub, Tick, HubState, Push, ApplyAnswer,
           DaemonRestarts, agentVars
<1>2. QED
  BY <1>1 DEF vars, agentVars

\* An enrolment that was answered stays answered.
LEMMA EnrolledStays ==
    ASSUME TypeOK, [Next]_vars, NEW n \in 1 .. pairings, enrol[n].at = "enrolled"
    PROVE  enrol'[n].at = "enrolled"
<1>0. n \in Numbers /\ enrol[n] \in Request /\ pairings \in Nat
  BY PairingAssumption DEF TypeOK, Numbers
<1>1. CASE UNCHANGED enrol
  BY <1>1
<1>2. ASSUME NEW c \in Commands, NEW code \in Codes, NEW address, Pair(c, code, address)
      PROVE  enrol'[n] = enrol[n]
  BY <1>0, <1>2 DEF Pair, TypeOK
<1>3. ASSUME NEW m \in Numbers, RedeemPairCode(m) \/ Enroll(m) PROVE enrol'[n] = enrol[n]
  <2>1. m # n
    BY <1>3 DEF RedeemPairCode, Enroll
  <2>2. QED
    BY <1>0, <1>3, <2>1 DEF RedeemPairCode, Enroll, TypeOK
<1>4. ASSUME NEW s \in Starters, StarterStops(s) PROVE enrol'[n] = enrol[n]
  BY <1>0, <1>4 DEF StarterStops
<1>5. QED
  <2>1. CASE Next
    BY <1>1, <1>2, <1>3, <1>4, <2>1, Zenon
       DEF Next, Enrolled, StoreRow, GiveUp, Unpair, IssuePairCode, CodeExpires,
           SetDeviceStatus, LoadCert, ServeInClear, GenerateCert, WritePEM, AccessChanges,
           RebuildHub, Tick, HubState, Push, ApplyAnswer, DaemonRestarts, hubVars
  <2>2. QED
    BY <1>1, <2>1 DEF vars, hubVars

\* A command that is under way has a number of its own, saw a certificate, stores
\* only what was enrolled, and is the only writer of the rows it has written; no
\* pairing stands before it ends.
Underway ==
    \A c \in Commands :
      cmd[c].at # "idle" =>
        /\ cmd[c].key \in 1 .. pairings /\ cmd[c].seen \in 0 .. MaxCerts
        /\ cmd[c].at = "storing" => enrol[cmd[c].key].at = "enrolled"
        /\ \A row \in Rows \ cmd[c].todo : store[row] = Whole(cmd[c].key, cmd[c].seen)[row]
        /\ done = 0

\* The pairing that ended well is on file, whole, and was enrolled.
Kept ==
    done # 0 =>
      /\ \E cert \in 0 .. MaxCerts : store = Whole(done, cert)
      /\ done \in 1 .. pairings
      /\ enrol[done].at = "enrolled"

\* The five rows, written one after the other in any order, are the whole.
LEMMA LastRow ==
    ASSUME NEW n \in Numbers, NEW cert \in 0 .. MaxCerts, store \in Stored, NEW row \in Rows,
           \A r \in Rows \ {row} : store[r] = Whole(n, cert)[r]
    PROVE  SetHubState(store, row, Whole(n, cert)[row]) = Whole(n, cert)
  BY DEF SetHubState, Whole, Stored, Rows

LEMMA CommandsStep ==
    ASSUME OneTerminal, TypeOK, Underway, Kept, [Next]_vars
    PROVE  Underway' /\ Kept'
<1> USE DEF Underway, Kept
<1>0. /\ pairings \in Nat /\ 1 .. pairings \subseteq Numbers
      /\ \A c \in Commands : cmd[c] \in Asking
  BY PairingAssumption DEF TypeOK, Numbers
<1>1. CASE UNCHANGED <<store, cmd, pairings, done>>
  BY <1>0, <1>1, EnrolledStays
<1>2. ASSUME NEW c \in Commands, NEW code \in Codes, NEW address, Pair(c, code, address)
      PROVE  Underway' /\ Kept'
  <2>1. done = 0 /\ done' = done /\ pairings' = pairings + 1
    BY <1>2 DEF Pair, Paired, Whole
  <2>2. /\ cmd'[c].at = "asking" /\ cmd'[c].key = pairings' /\ cmd'[c].todo = Rows
        /\ cmd'[c].seen \in 0 .. MaxCerts
    BY <1>2, <2>1, PairingAssumption DEF Pair, Reached, TypeOK
  <2>3. \A d \in Commands : d = c
    BY DEF OneTerminal
  <2>4. QED
    BY <1>0, <2>1, <2>2, <2>3
<1>3. ASSUME NEW c \in Commands, Enrolled(c) PROVE Underway' /\ Kept'
  <2>1. /\ cmd[c].at = "asking" /\ enrol[cmd[c].key].at = "enrolled"
        /\ cmd' = [cmd EXCEPT ![c].at = "storing"] /\ UNCHANGED <<store, pairings, done, enrol>>
    BY <1>3 DEF Enrolled, hubVars
  <2>2. /\ cmd'[c].key = cmd[c].key /\ cmd'[c].seen = cmd[c].seen /\ cmd'[c].todo = cmd[c].todo
        /\ \A d \in Commands \ {c} : cmd'[d] = cmd[d]
    BY <1>0, <2>1 DEF TypeOK, Asking
  <2>3. QED
    BY <2>1, <2>2
<1>4. ASSUME NEW c \in Commands, NEW row \in Rows, StoreRow(c, row) PROVE Underway' /\ Kept'
  <2> DEFINE n == cmd[c].key
             seen == cmd[c].seen
  <2>0. /\ n \in 1 .. pairings /\ n \in Numbers /\ seen \in 0 .. MaxCerts
        /\ \A r \in Rows \ cmd[c].todo : store[r] = Whole(n, seen)[r]
        /\ cmd[c].at = "storing" /\ row \in cmd[c].todo /\ store \in Stored /\ done = 0
        /\ enrol[n].at = "enrolled"
    BY <1>0, <1>4 DEF StoreRow, TypeOK
  <2>1. /\ store' = SetHubState(store, row, Whole(n, seen)[row])
        /\ UNCHANGED <<pairings, enrol>>
    BY <1>4 DEF StoreRow, hubVars
  <2>2. \A d \in Commands : d = c
    BY DEF OneTerminal
  <2>3. CASE cmd[c].todo = {row}
    <3>1. store' = Whole(n, seen)
      BY <2>0, <2>1, <2>3, LastRow
    <3>2. cmd'[c] = Rest /\ done' = n
      BY <1>4, <2>3 DEF StoreRow, TypeOK
    <3>3. cmd'[c].at = "idle"
      BY <3>2 DEF Rest
    <3>4. QED
      BY <2>0, <2>1, <2>2, <3>1, <3>2, <3>3
  <2>4. CASE cmd[c].todo # {row}
    <3>1. /\ cmd' = [cmd EXCEPT ![c].todo = cmd[c].todo \ {row}] /\ done' = done
      BY <1>4, <2>4 DEF StoreRow
    <3>2. /\ cmd'[c].at = "storing" /\ cmd'[c].key = n /\ cmd'[c].seen = seen
          /\ cmd'[c].todo = cmd[c].todo \ {row}
      BY <1>0, <2>0, <3>1 DEF TypeOK, Asking
    <3>3. \A r \in Rows \ cmd'[c].todo : store'[r] = Whole(n, seen)[r]
      BY <2>0, <2>1, <3>2 DEF SetHubState, Stored
    <3>4. QED
      BY <2>0, <2>1, <2>2, <3>1, <3>2, <3>3
  <2>5. QED
    BY <2>3, <2>4
<1>5. ASSUME NEW c \in Commands, GiveUp(c) PROVE Underway' /\ Kept'
  <2>1. /\ cmd'[c].at = "idle" /\ \A d \in Commands \ {c} : cmd'[d] = cmd[d]
        /\ UNCHANGED <<store, pairings, done, enrol>>
    BY <1>5 DEF GiveUp, TypeOK, hubVars, Rest
  <2>2. QED
    BY <2>1
<1>6. ASSUME NEW c \in Commands, Unpair(c) PROVE Underway' /\ Kept'
  <2>1. cmd[c].at = "idle" /\ UNCHANGED cmd /\ done' = 0
    BY <1>6 DEF Unpair
  <2>2. \A d \in Commands : d = c
    BY DEF OneTerminal
  <2>3. QED
    BY <2>1, <2>2
<1>7. QED
  BY <1>1, <1>2, <1>3, <1>4, <1>5, <1>6, HubLeavesCommands

\* A pairing made from one terminal that ended well, whose hub is still the same,
\* is five rows of one enrolment, an https address with its pin, has a device row on the hub, and shares its
\* code with no other device: whatever was killed half way before it, however
\* many requests carried the code (cli/pair.go:87-104, hub/api.go:95-116).
THEOREM PairingIsEnrolled ==
    ASSUME OneTerminal
    PROVE  Spec => []PairedIsEnrolled
<1>1. Init => Enrolments /\ Underway /\ Kept
  BY DEF Init, Enrolments, Accepted, Underway, Kept, Unasked, Rest
<1>2. TypeOK /\ Enrolments /\ Underway /\ Kept /\ [Next]_vars
        => Enrolments' /\ Underway' /\ Kept'
  BY EnrolmentsStep, CommandsStep
<1>3. ASSUME TypeOK, Enrolments, Kept PROVE PairedIsEnrolled
  <2> SUFFICES ASSUME Standing(done)
               PROVE  /\ \E cert \in 0 .. MaxCerts : store = Whole(done, cert)
                      /\ devices[done] # "none"
                      /\ \A n \in Numbers :
                           n # done /\ devices[n] # "none" => enrol[n].code # enrol[done].code
    BY DEF PairedIsEnrolled
  <2>1. /\ \E cert \in 0 .. MaxCerts : store = Whole(done, cert)
        /\ enrol[done].at = "enrolled" /\ done \in Numbers /\ done \notin void
    BY <1>3, PairingAssumption DEF Standing, Kept, TypeOK, Numbers
  <2>2. QED
    BY <1>3, <2>1 DEF Enrolments, Accepted
<1>4. QED
  BY <1>1, <1>2, <1>3, PairingTypeOK, PTL DEF Spec

\* Both files hold this certificate and nobody is writing them.
Files(cert) == certFile = cert /\ keyFile = cert /\ starter["hub"].at = "idle"

\* The hub presents what is on file, or nothing at all.  What a pairing saw, one
\* under way or one that stands, is on file as well, unless the hub was rebuilt
\* meanwhile.
Certificate ==
    /\ serving \in 1 .. MaxCerts => Files(serving)
    /\ serving # 0 => starter["hub"].at = "idle"
    /\ starter["hub"].at # "idle" => starter["hub"].cert # 0
    /\ starter["hub"].at \in {"key", "keybody"} => certFile = starter["hub"].cert
    /\ \A c \in Commands :
         cmd[c].at # "idle" /\ cmd[c].key \notin void /\ cmd[c].seen # 0 => Files(cmd[c].seen)
    /\ Standing(done) /\ store["cert_fp"] # 0 => Files(store["cert_fp"])

LEMMA CertificateStep ==
    ASSUME OneTerminal, Starters = {"hub"}, TypeOK, Underway, Kept, Certificate, [Next]_vars
    PROVE  Certificate'
<1> USE DEF Certificate, Files, Standing
<1>0. /\ starter["hub"] \in Making /\ \A c \in Commands : cmd[c] \in Asking
      /\ \A c, d \in Commands : c = d
  BY DEF TypeOK, OneTerminal
<1>1. CASE UNCHANGED <<store, cmd, done, certFile, keyFile, starter, serving, void>>
  BY <1>1
<1>2. ASSUME NEW c \in Commands, NEW code \in Codes, NEW address, Pair(c, code, address)
      PROVE  Certificate'
  <2>1. done = 0 /\ UNCHANGED <<store, done, certFile, keyFile, starter, serving, void>>
    BY <1>2 DEF Pair, Paired, Kept, Whole, certVars
  <2>2. cmd'[c].seen # 0 => cmd'[c].seen = serving /\ serving \in 1 .. MaxCerts
    BY <1>2 DEF Pair, Reached, TypeOK
  <2>3. QED
    BY <1>0, <2>1, <2>2
<1>3. ASSUME NEW c \in Commands, Enrolled(c) \/ GiveUp(c) PROVE Certificate'
  <2>1. /\ UNCHANGED <<store, done, certFile, keyFile, starter, serving, void>>
        /\ cmd[c].at # "idle"
    BY <1>3 DEF Enrolled, GiveUp, certVars
  <2>2. \/ cmd'[c].at = "idle"
        \/ cmd'[c].key = cmd[c].key /\ cmd'[c].seen = cmd[c].seen
    <3>1. CASE Enrolled(c)
      BY <1>0, <3>1 DEF Enrolled, TypeOK, Asking
    <3>2. CASE GiveUp(c)
      BY <3>2 DEF GiveUp, TypeOK, Rest
    <3>3. QED
      BY <1>3, <3>1, <3>2
  <2>3. QED
    BY <1>0, <2>1, <2>2
<1>4. ASSUME NEW c \in Commands, NEW row \in Rows, StoreRow(c, row) PROVE Certificate'
  <2> DEFINE n == cmd[c].key
             seen == cmd[c].seen
  <2>1. UNCHANGED <<certFile, keyFile, starter, serving, void>> /\ cmd[c].at = "storing" /\ done = 0
    BY <1>4 DEF StoreRow, certVars, Underway
  <2>2. CASE cmd[c].todo = {row}
    <3>1. cmd'[c].at = "idle" /\ done' = n
      BY <1>4, <2>2 DEF StoreRow, TypeOK, Rest
    <3>2. /\ n \in Numbers /\ seen \in 0 .. MaxCerts /\ store \in Stored
          /\ \A r \in Rows \ {row} : store[r] = Whole(n, seen)[r]
      <4>1. n \in 1 .. pairings /\ 1 .. pairings \subseteq Numbers
        BY <2>1, PairingAssumption DEF Underway, TypeOK, Numbers
      <4>2. n \in 1 .. pairings /\ seen \in 0 .. MaxCerts
            /\ \A r \in Rows \ {row} : store[r] = Whole(n, seen)[r]
        BY <2>1, <2>2 DEF Underway
      <4>3. QED
        BY <4>1, <4>2 DEF TypeOK
    <3>3. store' = Whole(n, seen)
      BY <1>4, <3>2, LastRow DEF StoreRow
    <3>4. store'["cert_fp"] = seen
      BY <3>3 DEF Whole
    <3>5. QED
      BY <1>0, <2>1, <3>1, <3>4
  <2>3. CASE cmd[c].todo # {row}
    <3>1. done' = 0 /\ cmd'[c].key = n /\ cmd'[c].seen = seen
      BY <1>0, <1>4, <2>1, <2>3 DEF StoreRow, TypeOK, Asking
    <3>2. QED
      BY <1>0, <2>1, <3>1
  <2>4. QED
    BY <2>2, <2>3
<1>5. ASSUME NEW c \in Commands, Unpair(c) PROVE Certificate'
  BY <1>5 DEF Unpair, certVars
<1>6. CASE LoadCert
  BY <1>6 DEF LoadCert, PairLoads, agentVars
<1>7. CASE GenerateCert("hub")
  <2>1. /\ serving = 0 /\ FileMissing /\ made' = made + 1 /\ made \in Nat
        /\ starter'["hub"].at = "cert" /\ starter'["hub"].cert = made + 1
        /\ UNCHANGED <<store, cmd, done, certFile, keyFile, serving, void>>
    BY <1>7 DEF GenerateCert, TypeOK, agentVars
  <2>2. \A cert \in 1 .. MaxCerts : ~Files(cert)
    BY <2>1 DEF FileMissing
  <2>3. \A c \in Commands : cmd[c].at # "idle" /\ cmd[c].seen # 0 => cmd[c].seen \in 1 .. MaxCerts
    BY PairingAssumption DEF Underway
  <2>4. Standing(done) /\ store["cert_fp"] # 0 => store["cert_fp"] \in 1 .. MaxCerts
    BY PairingAssumption DEF Kept, Whole
  <2>5. QED
    BY <2>1, <2>2, <2>3, <2>4
<1>8. CASE WritePEM("hub")
  <2>1. /\ starter["hub"].at # "idle" /\ starter["hub"].cert # 0
        /\ UNCHANGED <<store, cmd, done, void>>
    BY <1>8 DEF WritePEM, agentVars
  <2>2. serving = 0 /\ ~(Standing(done) /\ store["cert_fp"] # 0)
        /\ \A c \in Commands : ~(cmd[c].at # "idle" /\ cmd[c].key \notin void /\ cmd[c].seen # 0)
    BY <2>1
  <2>3. CASE starter["hub"].at = "cert"
    BY <1>0, <1>8, <2>1, <2>2, <2>3 DEF WritePEM, Making, TypeOK
  <2>4. CASE starter["hub"].at = "certbody"
    BY <1>0, <1>8, <2>1, <2>2, <2>4 DEF WritePEM, Making, TypeOK
  <2>5. CASE starter["hub"].at = "key"
    BY <1>0, <1>8, <2>1, <2>2, <2>5 DEF WritePEM, Making, TypeOK
  <2>6. CASE starter["hub"].at = "keybody"
    <3>1. /\ keyFile' = starter["hub"].cert /\ certFile' = certFile
          /\ starter'["hub"] = NoStarter /\ serving' = starter["hub"].cert
      BY <1>8, <2>6 DEF WritePEM, TypeOK
    <3>2. QED
      BY <2>1, <2>2, <2>6, <3>1 DEF NoStarter
  <2>7. QED
    BY <1>8, <2>3, <2>4, <2>5, <2>6 DEF WritePEM
<1>9. CASE StarterStops("hub")
  <2>1. /\ starter'["hub"] = NoStarter /\ serving' = 0
        /\ UNCHANGED <<store, cmd, done, certFile, keyFile, void>>
    BY <1>9 DEF StarterStops, TypeOK, agentVars
  <2>2. QED
    BY <2>1 DEF NoStarter
<1>10. CASE RebuildHub
  <2>1. /\ serving' = 0 /\ starter["hub"].at = "idle" /\ void' = 1 .. pairings
        /\ UNCHANGED <<store, cmd, done, starter>>
    BY <1>10 DEF RebuildHub, agentVars
  <2>2. QED
    BY <2>1 DEF Underway, Kept
<1>11. CASE ServeInClear
  <2>1. InClear \notin 1 .. MaxCerts
    BY PairingAssumption DEF InClear
  <2>2. /\ starter["hub"].at = "idle" /\ serving' = InClear
        /\ UNCHANGED <<store, cmd, done, certFile, keyFile, starter, void>>
    BY <1>11 DEF ServeInClear, agentVars
  <2>3. QED
    BY <2>1, <2>2
<1>12. QED
  <2>1. CASE Next
    BY <1>1, <1>2, <1>3, <1>4, <1>5, <1>6, <1>7, <1>8, <1>9, <1>10, <1>11, <2>1, Zenon
       DEF Next, IssuePairCode, CodeExpires, RedeemPairCode, Enroll, SetDeviceStatus,
           AccessChanges, Tick, HubState, Push, ApplyAnswer, DaemonRestarts,
           agentVars, hubVars, certVars
  <2>2. QED
    BY <1>1, <2>1 DEF vars, agentVars, certVars

\* With the hub the only process that makes certificates, a pairing that stands
\* pinned the certificate that is on file and that the hub presents: a restart, a
\* kill between the two files, an unreadable one or a time without TLS never replaces it
\* (hub/tls.go:74-93).
THEOREM PinIsTheHubsOwn ==
    ASSUME OneTerminal, Starters = {"hub"}
    PROVE  Spec => []PinStaysGood
<1>1. Init => Underway /\ Kept /\ Certificate
  BY DEF Init, Underway, Kept, Certificate, Standing, Rest, NoStarter
<1>2. TypeOK /\ Underway /\ Kept /\ Certificate /\ [Next]_vars
        => Underway' /\ Kept' /\ Certificate'
  BY CommandsStep, CertificateStep
<1>3. TypeOK /\ Kept /\ Certificate => PinStaysGood
  BY PairingAssumption DEF TypeOK, Kept, Certificate, Files, PinStaysGood, Standing, InClear
<1>4. QED
  BY <1>1, <1>2, <1>3, PairingTypeOK, PTL DEF Spec

=============================================================================
